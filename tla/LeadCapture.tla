----------------------------- MODULE LeadCapture -----------------------------
(***************************************************************************)
(* A visitor's message to an exhibitor, from the click on "Send Message"   *)
(* in stands/detail.js, over the retries of core/api.js, to the lead that  *)
(* contact-stand/index.js stores, and the exhibitor's edits of it in       *)
(* exhibitor-leads/index.js.                                               *)
(*                                                                         *)
(* A submission is one click.  It draws its request id, which is also its  *)
(* Idempotency-Key, and makes up to RetryAttempts attempts, each of them a *)
(* Lambda invocation that goes on when the browser has stopped waiting for *)
(* it.  An attempt is a pair <<submission, number>>, and each action is    *)
(* one awaited call of it.                                                 *)
(*                                                                         *)
(* One stand of one event.  Abstracted: what the form holds, beyond the    *)
(* honeypot field; the forms that either side refuses before a call; the   *)
(* pseudonym of the address; the year a lead lives; an editor's choice of  *)
(* status, notes and assignee, and the audit row of the transaction.       *)
(***************************************************************************)
EXTENDS Integers, Sequences

CONSTANTS
    Submissions,    \* clicks on "Send Message"
    RetryAttempts,  \* CONFIG.api.retryAttempts
    Tokens,         \* challenge tokens the widget may issue
    Modes,          \* what BOT_CHALLENGE_MODE may be
    Editors,        \* members who edit leads
    None,
    MaxEdits        \* bound on the edits of a lead in a behaviour

ASSUME RetryAssumption == RetryAttempts \in Nat \ {0}
ASSUME ModesAssumption == Modes \subseteq {"disabled", "turnstile"}
ASSUME BoundAssumption == MaxEdits \in Nat

VARIABLES
    mode,     \* BOT_CHALLENGE_MODE of the deployment
    visible,  \* what is public: of "stand" and "event"
    lagging,  \* a copy of the stand has yet to learn whether it is public
    spent,    \* tokens Turnstile has verified
    page,     \* what each submission shows, and its current attempt
    req,      \* what each attempt is doing at the server
    leads,    \* the table of leads, a function of their ids
    members,  \* the editors with access to the stand
    edit      \* what each editor is doing

visitor == <<mode, spent, page, req>>
vars == <<mode, visible, lagging, spent, page, req, leads, members, edit>>

Attempts == Submissions \X (1 .. RetryAttempts)
Barriers == {"stand", "event"}
Stored == DOMAIN leads

\* RETRYABLE_STATUS of api.js: the request may be sent again under its key.
Retryable == {408, 425, 429, 502, 503, 504}
Success == 200 .. 299

\* Mutant of LeadIdFor: the id is that of the attempt, as X-Request-Id is.
LeadIdFor_PerAttempt(a) == a

\* leadIdFor: the request id is drawn at the click, with the first attempt.
LeadIdFor(a) == <<a[1], 1>>

Init ==
    /\ mode \in Modes
    /\ visible = Barriers /\ lagging = FALSE
    /\ spent = {}
    /\ page = [s \in Submissions |->
                 [phase |-> "new", attempt |-> 0, bot |-> FALSE,
                  token |-> None]]
    /\ req = [a \in Attempts |-> [step |-> "unsent", status |-> 0, dark |-> {}]]
    /\ leads = <<>>
    /\ members = Editors
    /\ edit = [e \in Editors |-> [step |-> "idle", lead |-> None,
                                  revision |-> 0, saw |-> 0, status |-> 0]]
-----------------------------------------------------------------------------
(* The browser: sendContactMessage and _withRetry *)

\* dark: what has been hidden, in every copy that may be read, ever since the
\* attempt under way was sent
Dark == {b \in Barriers \ visible : b = "stand" => ~lagging}
Sent == [step |-> "sent", status |-> 0, dark |-> Dark]

\* The window is open until it has faded: a token may serve two clicks.
Click(s) ==
    /\ page[s].phase = "new"
    /\ \E t \in Tokens, bot \in BOOLEAN :
         page' = [page EXCEPT ![s] = [phase |-> "waiting", attempt |-> 1,
                                      bot |-> bot, token |-> t]]
    /\ req' = [req EXCEPT ![<<s, 1>>] = Sent]
    /\ UNCHANGED <<mode, visible, lagging, spent, leads, members, edit>>

\* Mutant of EndAttempt: the attempts are counted from zero.
EndAttempt_OneMore(s, status) ==
    LET n == page[s].attempt
    IN IF status \in Retryable /\ n <= RetryAttempts
       THEN /\ page' = [page EXCEPT ![s].attempt = n + 1]
            /\ req' = [req EXCEPT ![<<s, n + 1>>] = Sent]
       ELSE /\ page' = [page EXCEPT ![s].phase =
                          IF status \in Success THEN "success" ELSE "failure"]
            /\ UNCHANGED req

\* _withRetry on an attempt that ended with status: a POST with a key of its
\* own and retryUnsafe is repeated as a read would be.
EndAttempt(s, status) ==
    LET n == page[s].attempt
    IN IF status \in Retryable /\ n < RetryAttempts
       THEN /\ page' = [page EXCEPT ![s].attempt = n + 1]
            /\ req' = [req EXCEPT ![<<s, n + 1>>] = Sent]
       ELSE /\ page' = [page EXCEPT ![s].phase =
                          IF status \in Success THEN "success" ELSE "failure"]
            /\ UNCHANGED req

TakeAnswer(s) ==
    /\ page[s].phase = "waiting"
    /\ LET a == <<s, page[s].attempt>>
       IN req[a].step = "answered" /\ EndAttempt(s, req[a].status)
    /\ UNCHANGED <<mode, visible, lagging, spent, leads, members, edit>>

\* The request or its answer is lost or late: TIMEOUT is a 408, and a network
\* error is retried as one.
LoseAnswer(s) ==
    /\ page[s].phase = "waiting"
    /\ EndAttempt(s, 408)
    /\ UNCHANGED <<mode, visible, lagging, spent, leads, members, edit>>
-----------------------------------------------------------------------------
(* The handler of contact-stand *)

Continue(a, next) == req' = [req EXCEPT ![a].step = next]
Answer(a, status) ==
    req' = [req EXCEPT ![a] = [step |-> "answered", status |-> status, dark |-> {}]]

\* A filled honeypot is answered as if the message had been taken.
Receive(a) ==
    /\ req[a].step = "sent"
    /\ IF page[a[1]].bot THEN Answer(a, 202) ELSE Continue(a, "challenge")
    /\ UNCHANGED <<mode, visible, lagging, spent, page, leads, members, edit>>

\* verifyChallenge: Turnstile verifies a token once.
ChallengeValid(a) == mode = "disabled" \/ page[a[1]].token \notin spent

VerifyChallenge(a) ==
    /\ req[a].step = "challenge"
    /\ IF ChallengeValid(a) THEN Continue(a, "stand") ELSE Answer(a, 403)
    /\ spent' = IF mode = "disabled" THEN spent
                ELSE spent \cup {page[a[1]].token}
    /\ UNCHANGED <<mode, visible, lagging, page, leads, members, edit>>

\* A GetCommand that is not a ConsistentRead: a copy that lags behind may still
\* answer what was true before.
ReadStand(a) ==
    /\ req[a].step = "stand"
    /\ \/ ("stand" \in visible \/ lagging) /\ Continue(a, "event")
       \/ ("stand" \notin visible \/ lagging) /\ Answer(a, 404)
    /\ UNCHANGED <<mode, visible, lagging, spent, page, leads, members, edit>>

\* Mutant of ReadEvent: the snapshot of the event in the stand is believed.
ReadEvent_Snapshot(a) ==
    /\ req[a].step = "event"
    /\ Continue(a, "put")
    /\ UNCHANGED <<mode, visible, lagging, spent, page, leads, members, edit>>

\* standEventIsPublic: a ConsistentRead
ReadEvent(a) ==
    /\ req[a].step = "event"
    /\ IF "event" \in visible THEN Continue(a, "put") ELSE Answer(a, 404)
    /\ UNCHANGED <<mode, visible, lagging, spent, page, leads, members, edit>>

\* log holds, for each edit, how many edits its author had seen; a lead without
\* a revision counts as revision 1.
NewLead(a) == [by |-> a[1], dark |-> req[a].dark, revision |-> 1, log |-> <<>>]
WithLead(id, lead) ==
    [i \in Stored \cup {id} |-> IF i = id THEN lead ELSE leads[i]]

\* Put with attribute_not_exists(leadId); a lead that is there is a duplicate.
PutLead(a) ==
    /\ req[a].step = "put"
    /\ IF LeadIdFor(a) \in Stored
       THEN UNCHANGED leads /\ Answer(a, 200)
       ELSE leads' = WithLead(LeadIdFor(a), NewLead(a)) /\ Answer(a, 201)
    /\ UNCHANGED <<mode, visible, lagging, spent, page, members, edit>>

\* Mutant of FailCall: whatever the put threw is taken for a duplicate.
FailCall_IsDuplicate(a) ==
    /\ req[a].step \in {"challenge", "stand", "event", "put"}
    /\ Answer(a, 200)
    /\ UNCHANGED <<mode, visible, lagging, spent, page, leads, members, edit>>

\* An awaited call fails: siteverify is answered 403, anything else 500; or
\* the invocation dies, and the gateway answers for it.
FailCall(a) ==
    /\ req[a].step \in {"challenge", "stand", "event", "put"}
    /\ \E status \in {403, 500, 502} :
         /\ (status = 403) => (req[a].step = "challenge")
         /\ Answer(a, status)
    /\ UNCHANGED <<mode, visible, lagging, spent, page, leads, members, edit>>

Attempt(a) ==
    \/ Receive(a) \/ VerifyChallenge(a) \/ ReadStand(a) \/ ReadEvent(a)
    \/ PutLead(a) \/ FailCall(a)
-----------------------------------------------------------------------------
(* Publication and moderation *)

\* publishEvent and archiveEvent, updateStand and moderateStand
Hide(b) ==
    /\ b \in visible
    /\ visible' = visible \ {b}
    /\ lagging' = (lagging \/ b = "stand")
    /\ UNCHANGED <<visitor, leads, members, edit>>

Show(b) ==
    /\ b \notin visible
    /\ visible' = visible \cup {b}
    /\ lagging' = (lagging \/ b = "stand")
    /\ req' = [a \in Attempts |-> [req[a] EXCEPT !.dark = @ \ {b}]]
    /\ UNCHANGED <<mode, spent, page, leads, members, edit>>

\* The last copy of the stand is up to date.
CatchUp ==
    /\ lagging
    /\ lagging' = FALSE
    /\ UNCHANGED <<visible, visitor, leads, members, edit>>
-----------------------------------------------------------------------------
(* The exhibitor: queryLeads and updateLead *)

LoadLead(e) ==
    /\ edit[e].step = "idle"
    /\ e \in members
    /\ \E id \in Stored :
         edit' = [edit EXCEPT ![e] =
           [step |-> "loaded", lead |-> id, revision |-> leads[id].revision,
            saw |-> Len(leads[id].log), status |-> 0]]
    /\ UNCHANGED <<visible, lagging, visitor, leads, members>>

\* A client that keeps the ETag sends the revision in If-Match.  An edit that
\* has none, as those of tenant/portal.js and of api.js under it, is refused
\* before anything is read.
SendEdit(e) ==
    /\ edit[e].step = "loaded"
    /\ Len(leads[edit[e].lead].log) < MaxEdits
    /\ \/ edit' = [edit EXCEPT ![e].step = "sent"]
       \/ edit' = [edit EXCEPT ![e].step = "idle", ![e].status = 428]
    /\ UNCHANGED <<visible, lagging, visitor, leads, members>>

\* loadAccessibleStand, after the lead was read
CheckAccess(e) ==
    /\ edit[e].step = "sent"
    /\ edit' = IF e \in members THEN [edit EXCEPT ![e].step = "write"]
               ELSE [edit EXCEPT ![e].step = "idle", ![e].status = 404]
    /\ UNCHANGED <<visible, lagging, visitor, leads, members>>

\* The answer of an accepted edit carries the lead as it is now.
Accept(e, id) ==
    LET log == Append(leads[id].log, edit[e].saw)
        revision == edit[e].revision + 1
    IN /\ leads' = [leads EXCEPT ![id].revision = revision, ![id].log = log]
       /\ edit' = [edit EXCEPT ![e].step = "loaded", ![e].revision = revision,
                               ![e].saw = Len(log), ![e].status = 200]

\* Mutant of WriteEdit: no revision condition.
WriteEdit_NoRevision(e) ==
    /\ edit[e].step = "write"
    /\ Accept(e, edit[e].lead)
    /\ UNCHANGED <<visible, lagging, visitor, members>>

\* revisionCondition
RevisionMatches(e) == leads[edit[e].lead].revision = edit[e].revision

WriteEdit(e) ==
    /\ edit[e].step = "write"
    /\ LET id == edit[e].lead
       IN IF RevisionMatches(e) THEN Accept(e, id)
          ELSE /\ edit' = [edit EXCEPT ![e].step = "idle", ![e].status = 409]
               /\ UNCHANGED leads
    /\ UNCHANGED <<visible, lagging, visitor, members>>

\* The list of leads is loaded again.
Reload(e) ==
    /\ edit[e].step = "loaded"
    /\ edit' = [edit EXCEPT ![e].step = "idle"]
    /\ UNCHANGED <<visible, lagging, visitor, leads, members>>

Revoke(e) ==
    /\ e \in members
    /\ members' = members \ {e}
    /\ UNCHANGED <<visible, lagging, visitor, leads, edit>>

Editing(e) == LoadLead(e) \/ SendEdit(e) \/ CheckAccess(e) \/ WriteEdit(e)
                \/ Reload(e) \/ Revoke(e)

Next ==
    \/ \E s \in Submissions : Click(s) \/ TakeAnswer(s) \/ LoseAnswer(s)
    \/ \E a \in Attempts : Attempt(a)
    \/ \E b \in Barriers : Hide(b) \/ Show(b)
    \/ CatchUp
    \/ \E e \in Editors : Editing(e)

Spec == Init /\ [][Next]_vars
-----------------------------------------------------------------------------
(* Properties *)

Status == {0, 200, 201, 202, 403, 404, 409, 428, 500, 502}
Pages ==
    [phase : {"new", "waiting", "success", "failure"},
     attempt : 0 .. RetryAttempts, bot : BOOLEAN, token : Tokens \cup {None}]
Requests ==
    [step : {"unsent", "sent", "challenge", "stand", "event", "put", "answered"},
     status : Status, dark : SUBSET Barriers]
Leads == [by : Submissions, dark : SUBSET Barriers, revision : Nat, log : Seq(Nat)]
Edits(ids) ==
    [step : {"idle", "loaded", "sent", "write"}, lead : ids \cup {None},
     revision : Nat, saw : Nat, status : Status]

TypeOK ==
    /\ mode \in Modes /\ visible \subseteq Barriers /\ lagging \in BOOLEAN
    /\ spent \subseteq Tokens
    /\ page \in [Submissions -> Pages]
    /\ req \in [Attempts -> Requests]
    /\ Stored \subseteq {LeadIdFor(a) : a \in Attempts}
    /\ \A id \in Stored : leads[id] \in Leads
    /\ members \subseteq Editors
    /\ edit \in [Editors -> Edits(Stored)]

\* However often api.js repeats a submission, and whatever attempts overlap at
\* the server, the exhibitor has one lead of it: the key drawn in
\* sendContactMessage decides the leadId of contact-stand.
OneLeadPerSubmission ==
    \A i, j \in Stored : leads[i].by = leads[j].by => i = j

\* "Message sent successfully!" is shown of a message that is stored: no answer
\* of contact-stand that counts as success precedes its put, but for the forms
\* whose honeypot is filled.
SuccessIsStored ==
    \A s \in Submissions : page[s].phase = "success" /\ ~page[s].bot =>
        \E id \in Stored : leads[id].by = s

\* No lead is stored of an attempt during which, all along, the event was hidden,
\* or the stand was in every copy of it.  (contact-stand reads both before it puts,
\* and may store a lead of a stand hidden in between; its read of the stand is not
\* a consistent one, and may take a stand hidden just before for public.)
NoLeadOfHidden == \A id \in Stored : leads[id].dark = {}

\* updateLead accepts an edit from who has seen every edit before it: If-Match
\* carries the revision that was loaded, whatever the handler reads later.
NoLostUpdate ==
    \A id \in Stored : \A i \in DOMAIN leads[id].log :
        leads[id].log[i] = i - 1
=============================================================================
