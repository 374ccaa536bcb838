---------------------------- MODULE VisitorProofs ----------------------------
(***************************************************************************)
(* Theorems about the two modules of the visitors' side, which have        *)
(* nothing in common: LeadCapture, for any number of messages, attempts,   *)
(* editors and edits; then Listing, for any finite set of rows, whatever   *)
(* the limits of a page, a query and an export.                            *)
(***************************************************************************)
EXTENDS LeadCapture, Listing, FiniteSetTheorems, TLAPS

(* LeadCapture: what is true between two steps *)

\* A click that has not happened has sent nothing; one that has is at one of
\* its attempts, with a token of the widget.
Clicked ==
    \A s \in Submissions :
        IF page[s].phase = "new"
        THEN \A n \in 1 .. RetryAttempts : req[<<s, n>>].step = "unsent"
        ELSE page[s].attempt \in 1 .. RetryAttempts /\ page[s].token \in Tokens

VisitorShape ==
    /\ mode \in Modes /\ visible \subseteq Barriers /\ lagging \in BOOLEAN /\ spent \subseteq Tokens
    /\ page \in [Submissions -> Pages]
    /\ req \in [Attempts -> Requests]
    /\ Clicked

StoreShape ==
    /\ Stored \subseteq {LeadIdFor(a) : a \in Attempts}
    /\ \A id \in Stored : leads[id] \in Leads
    /\ members \subseteq Editors
    /\ edit \in [Editors -> Edits(Stored)]
    /\ \A e \in Editors : edit[e].step # "idle" => edit[e].lead \in Stored

Shape == VisitorShape /\ StoreShape
-----------------------------------------------------------------------------
(* Types *)

LEMMA Ids ==
    /\ \A a \in Attempts : a[1] \in Submissions /\ a[2] \in 1 .. RetryAttempts
                             /\ a = <<a[1], a[2]>>
    /\ \A s \in Submissions, n \in 1 .. RetryAttempts : <<s, n>> \in Attempts
    /\ 1 \in 1 .. RetryAttempts
    /\ \A a \in Attempts : LeadIdFor(a) = <<a[1], 1>>
BY RetryAssumption DEF Attempts, LeadIdFor

\* The rows of requests as their handler changes them.
LEMMA RequestTypes ==
    ASSUME NEW r \in Requests
    PROVE  /\ \A next \in {"sent", "challenge", "stand", "event", "put"} :
                [r EXCEPT !.step = next] \in Requests
           /\ \A status \in Status :
                [r EXCEPT !.step = "answered", !.status = status] \in Requests
           /\ \A b \in Barriers : [r EXCEPT !.dark = @ \ {b}] \in Requests
BY DEF Requests

LEMMA StatusTypes ==
    /\ 0 \in Status /\ 200 \in Status /\ 201 \in Status /\ 202 \in Status
    /\ 403 \in Status /\ 404 \in Status /\ 409 \in Status /\ 428 \in Status
    /\ 500 \in Status /\ 502 \in Status
BY DEF Status

LEMMA SentType == Sent \in Requests
BY StatusTypes DEF Sent, Dark, Requests

LEMMA ShapeInit == Init => Shape
<1> SUFFICES ASSUME Init PROVE Shape
  OBVIOUS
<1>1. VisitorShape
  <2>1. page \in [Submissions -> Pages] /\ req \in [Attempts -> Requests]
    BY StatusTypes, RetryAssumption DEF Init, Pages, Requests
  <2>2. Clicked
    BY Ids DEF Init, Clicked
  <2> QED
    BY <2>1, <2>2 DEF Init, VisitorShape
<1>2. Stored = {}
  BY DEF Init, Stored
<1>3. StoreShape
  BY <1>2, StatusTypes DEF Init, StoreShape, Edits
<1> QED
  BY <1>1, <1>3 DEF Shape

\* The visitor's steps that change a page or a request, and no lead.
LEMMA HandlerShape ==
    ASSUME VisitorShape, NEW a \in Attempts, NEW r \in Requests,
           req[a].step # "unsent", req' = [req EXCEPT ![a] = r], 
           r.step # "unsent", UNCHANGED <<mode, visible, lagging, page>>,
           spent' \subseteq Tokens
    PROVE  VisitorShape'
BY Ids DEF VisitorShape, Clicked

LEMMA AttemptVisitor ==
    ASSUME VisitorShape, NEW a \in Attempts, Attempt(a)
    PROVE  VisitorShape'
<1> DEFINE Becomes(r) == req' = [req EXCEPT ![a] = r]
<1>1. req[a] \in Requests /\ req \in [Attempts -> Requests]
  BY DEF VisitorShape
<1>2. req[a].step # "unsent"
  BY DEF Attempt, Receive, VerifyChallenge, ReadStand, ReadEvent, PutLead, FailCall
<1>3. page[a[1]].token \in Tokens
  BY <1>2, Ids DEF VisitorShape, Clicked
<1>4. PICK r \in Requests : Becomes(r) /\ r.step # "unsent"
  <2>1. ASSUME NEW next \in {"challenge", "stand", "event", "put"}, Continue(a, next)
        PROVE  \E r \in Requests : Becomes(r) /\ r.step # "unsent"
    <3>1. Becomes([req[a] EXCEPT !.step = next])
      BY <2>1, <1>1 DEF Continue
    <3>2. [req[a] EXCEPT !.step = next].step = next
      BY <1>1 DEF Requests
    <3> QED
      BY <3>1, <3>2, <1>1, RequestTypes
  <2>2. ASSUME NEW status \in Status, Answer(a, status)
        PROVE  \E r \in Requests : Becomes(r) /\ r.step # "unsent"
    <3>1. Becomes([step |-> "answered", status |-> status, dark |-> {}])
      BY <2>2 DEF Answer
    <3>2. [step |-> "answered", status |-> status, dark |-> {}] \in Requests
      BY DEF Requests
    <3> QED
      BY <3>1, <3>2
  <2> QED
    BY <2>1, <2>2, StatusTypes
    DEF Attempt, Receive, VerifyChallenge, ReadStand, ReadEvent, PutLead, FailCall
<1>5. UNCHANGED <<mode, visible, lagging, page>> /\ spent' \subseteq Tokens
  BY <1>3
  DEF Attempt, Receive, VerifyChallenge, ReadStand, ReadEvent, PutLead, FailCall, VisitorShape
<1> QED
  BY <1>2, <1>4, <1>5, HandlerShape

LEMMA AttemptStore ==
    ASSUME Shape, NEW a \in Attempts, Attempt(a)
    PROVE  StoreShape'
<1>1. CASE PutLead(a)
  <2>1. NewLead(a) \in Leads
    BY Ids DEF NewLead, Leads, Shape, VisitorShape, Requests
  <2>2. CASE LeadIdFor(a) \in Stored
    BY <1>1, <2>2 DEF PutLead, Shape, StoreShape, Stored
  <2>3. CASE leads' = WithLead(LeadIdFor(a), NewLead(a))
    <3>1. Stored' = Stored \cup {LeadIdFor(a)}
      BY <2>3 DEF WithLead, Stored
    <3>2. \A id \in Stored' : leads'[id] \in Leads
      BY <2>3, <2>1, <3>1 DEF WithLead, Shape, StoreShape
    <3> QED
      BY <1>1, <3>1, <3>2 DEF PutLead, Shape, StoreShape, Edits
  <2> QED
    BY <1>1, <2>2, <2>3 DEF PutLead
<1>2. CASE ~PutLead(a)
  BY <1>2
  DEF Attempt, Receive, VerifyChallenge, ReadStand, ReadEvent, FailCall, Shape, StoreShape,
      Stored
<1> QED
  BY <1>1, <1>2

LEMMA EndShape ==
    ASSUME Shape, NEW s \in Submissions, NEW status, page[s].phase = "waiting",
           EndAttempt(s, status),
           UNCHANGED <<mode, visible, lagging, spent, leads, members, edit>>
    PROVE  Shape'
<1>1. StoreShape'
  BY DEF Shape, StoreShape, Stored
<1>2. page[s].attempt \in 1 .. RetryAttempts
  BY DEF Shape, VisitorShape, Clicked
<1>3. Sent \in Requests /\ Sent.step = "sent"
  BY SentType DEF Shape, VisitorShape, Sent
<1>4. /\ page \in [Submissions -> Pages] /\ page[s] \in Pages
      /\ req \in [Attempts -> Requests] /\ Clicked
  BY DEF Shape, VisitorShape
<1>5. CASE page[s].attempt < RetryAttempts
           /\ page' = [page EXCEPT ![s].attempt = page[s].attempt + 1]
           /\ req' = [req EXCEPT ![<<s, page[s].attempt + 1>>] = Sent]
  <2> DEFINE n == page[s].attempt + 1
             new == [page[s] EXCEPT !.attempt = n]
  <2>1. n \in 1 .. RetryAttempts
    BY <1>2, <1>5, RetryAssumption
  <2>2. new \in Pages /\ new.phase = "waiting" /\ new.attempt = n /\ new.token = page[s].token
    BY <1>4, <2>1 DEF Pages
  <2>3. page' = [page EXCEPT ![s] = new]
    BY <1>4, <1>5
  <2>4. req' \in [Attempts -> Requests]
    BY <1>3, <1>4, <1>5, <2>1, Ids
  <2>5. Clicked'
    <3>1. page[s].token \in Tokens
      BY <1>4 DEF Clicked
    <3>2. ASSUME NEW t \in Submissions, t # s, NEW m \in 1 .. RetryAttempts
          PROVE  req'[<<t, m>>] = req[<<t, m>>]
      BY <1>4, <1>5, <3>2, Ids
    <3> HIDE DEF new, n
    <3> QED
      BY <1>4, <2>1, <2>2, <2>3, <3>1, <3>2 DEF Clicked
  <2> QED
    BY <1>1, <1>4, <2>2, <2>3, <2>4, <2>5 DEF Shape, VisitorShape
<1>6. CASE UNCHANGED req /\ page' = [page EXCEPT ![s].phase =
                          IF status \in Success THEN "success" ELSE "failure"]
  <2> DEFINE phase == IF status \in Success THEN "success" ELSE "failure"
             new == [page[s] EXCEPT !.phase = phase]
  <2>1. phase \in {"success", "failure"}
    OBVIOUS
  <2>2. /\ new \in Pages /\ new.phase # "new" /\ new.attempt = page[s].attempt
        /\ new.token = page[s].token
    <3> HIDE DEF phase
    <3> QED
      BY <1>4, <2>1 DEF Pages
  <2>3. page' = [page EXCEPT ![s] = new]
    BY <1>4, <1>6
  <2>4. Clicked'
    <3> HIDE DEF new
    <3> QED
      BY <1>2, <1>4, <1>6, <2>2, <2>3 DEF Clicked
  <2> QED
    <3> HIDE DEF new
    <3> QED
      BY <1>1, <1>4, <1>6, <2>2, <2>3, <2>4 DEF Shape, VisitorShape
<1> QED
  BY <1>5, <1>6 DEF EndAttempt

\* An editor goes on, and the lead under edit may change.
LEMMA EditStore ==
    ASSUME StoreShape, NEW e \in Editors, NEW d \in Edits(Stored),
           edit' = [edit EXCEPT ![e] = d], members' \subseteq Editors,
           Stored' = Stored, \A id \in Stored : leads'[id] \in Leads,
           d.step = "idle" \/ d.lead \in Stored
    PROVE  StoreShape'
BY DEF StoreShape

\* An edit that was refused.
LEMMA RefusedType ==
    ASSUME NEW d \in Edits(Stored), NEW status \in Status
    PROVE  LET new == [d EXCEPT !.step = "idle", !.status = status]
           IN new \in Edits(Stored) /\ new.step = "idle"
<1> DEFINE idle == [d EXCEPT !.step = "idle"]
           new == [idle EXCEPT !.status = status]
<1>1. idle \in Edits(Stored) /\ idle.step = "idle"
  BY DEF Edits
<1> HIDE DEF idle
<1>2. new \in Edits(Stored) /\ new.step = "idle"
  BY <1>1 DEF Edits
<1> QED
  BY <1>2 DEF idle

LEMMA EditingStore ==
    ASSUME StoreShape, NEW e \in Editors, Editing(e)
    PROVE  StoreShape'
<1>0. /\ edit[e] \in Edits(Stored) /\ edit \in [Editors -> Edits(Stored)]
      /\ members \subseteq Editors
      /\ \A id \in Stored : leads[id] \in Leads
      /\ edit[e].step # "idle" => edit[e].lead \in Stored
  BY DEF StoreShape
<1>1. CASE LoadLead(e)
  <2>1. PICK id \in Stored : edit' = [edit EXCEPT ![e] =
           [step |-> "loaded", lead |-> id, revision |-> leads[id].revision,
            saw |-> Len(leads[id].log), status |-> 0]]
    BY <1>1 DEF LoadLead
  <2>2. [step |-> "loaded", lead |-> id, revision |-> leads[id].revision,
         saw |-> Len(leads[id].log), status |-> 0] \in Edits(Stored)
    BY <1>0, StatusTypes DEF Edits, Leads
  <2> QED
    BY <1>0, <1>1, <2>1, <2>2, EditStore DEF LoadLead, Stored
<1>2. CASE SendEdit(e)
  <2>1. CASE edit' = [edit EXCEPT ![e].step = "sent"]
    <3> DEFINE new == [edit[e] EXCEPT !.step = "sent"]
    <3>1. new \in Edits(Stored) /\ (new.step = "idle" \/ new.lead \in Stored)
      BY <1>0, <1>2, StatusTypes DEF SendEdit, Edits
    <3>2. edit' = [edit EXCEPT ![e] = new]
      BY <1>0, <2>1
    <3> HIDE DEF new
    <3> QED
      BY <1>0, <1>2, <3>1, <3>2, EditStore DEF SendEdit, Stored
  <2>2. CASE edit' = [edit EXCEPT ![e].step = "idle", ![e].status = 428]
    <3> DEFINE new == [edit[e] EXCEPT !.step = "idle", !.status = 428]
    <3>1. new \in Edits(Stored) /\ (new.step = "idle" \/ new.lead \in Stored)
      BY <1>0, StatusTypes, RefusedType
    <3>2. edit' = [edit EXCEPT ![e] = new]
      BY <1>0, <2>2
    <3> HIDE DEF new
    <3> QED
      BY <1>0, <1>2, <3>1, <3>2, EditStore DEF SendEdit, Stored
  <2> QED
    BY <1>2, <2>1, <2>2 DEF SendEdit
<1>3. CASE CheckAccess(e)
  <2>1. CASE edit' = [edit EXCEPT ![e].step = "write"]
    <3> DEFINE new == [edit[e] EXCEPT !.step = "write"]
    <3>1. new \in Edits(Stored) /\ (new.step = "idle" \/ new.lead \in Stored)
      BY <1>0, <1>3, StatusTypes DEF CheckAccess, Edits
    <3>2. edit' = [edit EXCEPT ![e] = new]
      BY <1>0, <2>1
    <3> HIDE DEF new
    <3> QED
      BY <1>0, <1>3, <3>1, <3>2, EditStore DEF CheckAccess, Stored
  <2>2. CASE edit' = [edit EXCEPT ![e].step = "idle", ![e].status = 404]
    <3> DEFINE new == [edit[e] EXCEPT !.step = "idle", !.status = 404]
    <3>1. new \in Edits(Stored) /\ (new.step = "idle" \/ new.lead \in Stored)
      BY <1>0, StatusTypes, RefusedType
    <3>2. edit' = [edit EXCEPT ![e] = new]
      BY <1>0, <2>2
    <3> HIDE DEF new
    <3> QED
      BY <1>0, <1>3, <3>1, <3>2, EditStore DEF CheckAccess, Stored
  <2> QED
    BY <1>3, <2>1, <2>2 DEF CheckAccess
<1>4. CASE WriteEdit(e)
  <2> DEFINE id == edit[e].lead
  <2>1. CASE RevisionMatches(e) /\ Accept(e, id)
    <3> DEFINE log == Append(leads[id].log, edit[e].saw)
               revision == edit[e].revision + 1
    <3>1. Stored' = Stored
      BY <2>1 DEF Accept, Stored
    <3>2. revision \in Nat /\ edit[e].saw \in Nat
      BY <1>0 DEF Edits
    <3>3. id \in Stored
      BY <1>4 DEF WriteEdit, StoreShape
    <3>4. leads[id] \in Leads /\ log \in Seq(Nat) /\ Len(log) \in Nat
      BY <1>0, <3>2, <3>3 DEF Leads
    <3>5. \A i \in Stored : leads'[i] \in Leads
      BY <1>0, <2>1, <3>2, <3>4 DEF Accept, Leads, Stored
    <3> DEFINE new == [edit[e] EXCEPT !.step = "loaded", !.revision = revision,
                                      !.saw = Len(log), !.status = 200]
    <3>6. new \in Edits(Stored) /\ new.lead = id
      BY <1>0, <3>2, <3>4, StatusTypes DEF Edits
    <3>7. edit' = [edit EXCEPT ![e] = new]
      BY <1>0, <2>1 DEF Accept
    <3>8. members' \subseteq Editors
      BY <1>0, <1>4 DEF WriteEdit
    <3> HIDE DEF new
    <3> QED
      BY <3>1, <3>3, <3>5, <3>6, <3>7, <3>8, EditStore
  <2>2. CASE UNCHANGED leads
           /\ edit' = [edit EXCEPT ![e].step = "idle", ![e].status = 409]
    <3> DEFINE new == [edit[e] EXCEPT !.step = "idle", !.status = 409]
    <3>1. new \in Edits(Stored) /\ new.step = "idle"
      BY <1>0, StatusTypes, RefusedType
    <3>2. edit' = [edit EXCEPT ![e] = new]
      BY <2>2, <1>0
    <3> HIDE DEF new
    <3> QED
      BY <1>0, <1>4, <2>2, <3>1, <3>2, EditStore DEF WriteEdit, Stored
  <2> QED
    BY <1>4, <2>1, <2>2 DEF WriteEdit
<1>5. CASE Reload(e)
  <2>1. CASE edit' = [edit EXCEPT ![e].step = "idle"]
    <3> DEFINE new == [edit[e] EXCEPT !.step = "idle"]
    <3>1. new \in Edits(Stored) /\ (new.step = "idle" \/ new.lead \in Stored)
      BY <1>0, <1>5, StatusTypes DEF Reload, Edits
    <3>2. edit' = [edit EXCEPT ![e] = new]
      BY <1>0, <2>1
    <3> HIDE DEF new
    <3> QED
      BY <1>0, <1>5, <3>1, <3>2, EditStore DEF Reload, Stored
  <2> QED
    BY <1>5, <2>1 DEF Reload
<1>6. CASE Revoke(e)
  BY <1>6, <1>0 DEF Revoke, StoreShape, Stored
<1> QED
  BY <1>1, <1>2, <1>3, <1>4, <1>5, <1>6 DEF Editing

LEMMA EditingVisitor == \A e \in Editors : Editing(e) => UNCHANGED <<visible, lagging, visitor>>
BY DEF Editing, LoadLead, SendEdit, CheckAccess, WriteEdit, Reload, Revoke

LEMMA ShapeNext == Shape /\ [Next]_vars => Shape'
<1> SUFFICES ASSUME Shape, [Next]_vars PROVE Shape'
  OBVIOUS
<1>0. CASE UNCHANGED vars
  BY <1>0 DEF vars, Shape, VisitorShape, StoreShape, Clicked, Stored
<1>1. ASSUME NEW s \in Submissions, Click(s) PROVE Shape'
  <2>1. PICK t \in Tokens, bot \in BOOLEAN :
           page' = [page EXCEPT ![s] = [phase |-> "waiting", attempt |-> 1,
                                        bot |-> bot, token |-> t]]
    BY <1>1 DEF Click
  <2>2. Sent \in Requests
    BY SentType
  <2>3. VisitorShape'
    BY <1>1, <2>1, <2>2, Ids, RetryAssumption
    DEF Click, Shape, VisitorShape, Clicked, Pages
  <2> QED
    BY <1>1, <2>3 DEF Click, Shape, StoreShape, Stored
<1>2. ASSUME NEW s \in Submissions, TakeAnswer(s) PROVE Shape'
  BY <1>2, EndShape DEF TakeAnswer
<1>3. ASSUME NEW s \in Submissions, LoseAnswer(s) PROVE Shape'
  BY <1>3, EndShape DEF LoseAnswer
<1>4. ASSUME NEW a \in Attempts, Attempt(a) PROVE Shape'
  BY <1>4, AttemptVisitor, AttemptStore DEF Shape
<1>5. ASSUME NEW b \in Barriers, Hide(b) PROVE Shape'
  BY <1>5 DEF Hide, visitor, Shape, VisitorShape, StoreShape, Clicked, Stored
<1>6. ASSUME NEW b \in Barriers, Show(b) PROVE Shape'
  <2>0. req \in [Attempts -> Requests] /\ Clicked
    BY DEF Shape, VisitorShape
  <2>1. \A a \in Attempts : req'[a] \in Requests /\ req'[a].step = req[a].step
    BY <1>6, <2>0 DEF Show, Requests
  <2>2. req' \in [Attempts -> Requests]
    BY <1>6, <2>1 DEF Show
  <2>3. Clicked'
    BY <1>6, <2>0, <2>1, Ids DEF Show, Clicked
  <2> QED
    BY <1>6, <2>2, <2>3 DEF Show, Shape, VisitorShape, StoreShape, Stored
<1>7. ASSUME NEW e \in Editors, Editing(e) PROVE Shape'
  BY <1>7, EditingStore, EditingVisitor DEF Shape, VisitorShape, Clicked, visitor
<1>8. CASE CatchUp
  BY <1>8 DEF CatchUp, visitor, Shape, VisitorShape, StoreShape, Clicked, Stored
<1> QED
  BY <1>0, <1>1, <1>2, <1>3, <1>4, <1>5, <1>6, <1>7, <1>8 DEF Next

\* Every row, page and invocation keeps its type for any constants.
THEOREM TypeCorrect == Spec => []TypeOK
<1>1. Spec => []Shape
  BY ShapeInit, ShapeNext, PTL DEF Spec
<1>2. Shape => TypeOK
  BY DEF Shape, VisitorShape, StoreShape, TypeOK
<1> QED
  BY <1>1, <1>2, PTL
-----------------------------------------------------------------------------
(* One lead of a message, stored when success is shown *)

\* A lead is of the message its id was drawn for.
Owned == \A id \in Stored : leads[id].by = id[1]

\* Whoever was told that a message was taken, and whose page shows it.
Replies ==
    \A a \in Attempts :
        req[a].step = "answered" /\ req[a].status \in Success /\ ~page[a[1]].bot
            => LeadIdFor(a) \in Stored
Shown ==
    \A s \in Submissions :
        page[s].phase = "success" /\ ~page[s].bot => <<s, 1>> \in Stored

Told == Shape /\ Owned /\ Replies /\ Shown

LEMMA PutStored ==
    ASSUME NEW a \in Attempts, PutLead(a)
    PROVE  /\ Stored' = Stored \cup {LeadIdFor(a)}
           /\ \A id \in Stored : leads'[id] = leads[id]
           /\ LeadIdFor(a) \notin Stored => leads'[LeadIdFor(a)] = NewLead(a)
BY DEF PutLead, WithLead, Stored

LEMMA EditStored ==
    ASSUME NEW e \in Editors, Editing(e)
    PROVE  /\ Stored' = Stored
           /\ \A id \in Stored :
                /\ leads'[id].by = leads[id].by
                /\ leads'[id].dark = leads[id].dark
<1>1. CASE WriteEdit(e)
  <2>1. CASE UNCHANGED leads
    BY <2>1 DEF Stored
  <2>2. CASE Accept(e, edit[e].lead)
    BY <2>2 DEF Accept, Stored
  <2> QED
    BY <1>1, <2>1, <2>2 DEF WriteEdit
<1>2. CASE ~WriteEdit(e)
  BY <1>2 DEF Editing, LoadLead, SendEdit, CheckAccess, Reload, Revoke, Stored
<1> QED
  BY <1>1, <1>2

\* What a page shows after an attempt ended.
LEMMA EndTold ==
    ASSUME Told, NEW s \in Submissions, NEW status, EndAttempt(s, status),
           page[s].phase = "waiting",
           status \in Success => page[s].bot \/ <<s, 1>> \in Stored,
           UNCHANGED leads
    PROVE  Owned' /\ Replies' /\ Shown'
<1>0. /\ page \in [Submissions -> Pages] /\ req \in [Attempts -> Requests]
      /\ page[s].attempt \in 1 .. RetryAttempts
  BY DEF Told, Shape, VisitorShape, Clicked
<1>1. /\ \A t \in Submissions : page'[t].bot = page[t].bot
      /\ \A t \in Submissions : page'[t].phase = "success" =>
            page[t].phase = "success" \/ (t = s /\ status \in Success)
  BY <1>0 DEF EndAttempt, Pages
<1>2. \A a \in Attempts : req'[a] = req[a] \/ req'[a].step = "sent"
  BY <1>0 DEF EndAttempt, Sent
<1>3. Stored' = Stored /\ Owned'
  BY DEF Told, Owned, Stored
<1>4. Replies'
  BY <1>1, <1>2, <1>3, Ids DEF Told, Replies, LeadIdFor
<1>5. Shown'
  BY <1>1, <1>3 DEF Told, Shown
<1> QED
  BY <1>3, <1>4, <1>5

LEMMA AttemptTold ==
    ASSUME Told, NEW a \in Attempts, Attempt(a)
    PROVE  Owned' /\ Replies' /\ Shown'
<1>0. req \in [Attempts -> Requests] /\ a[1] \in Submissions /\ LeadIdFor(a) = <<a[1], 1>>
  BY Ids DEF Told, Shape, VisitorShape
<1>1. UNCHANGED page
  BY DEF Attempt, Receive, VerifyChallenge, ReadStand, ReadEvent, PutLead, FailCall
<1>2. CASE PutLead(a)
  <2>0. NewLead(a).by = a[1]
    BY DEF NewLead
  <2>1. Owned'
    <3>1. ASSUME NEW id \in Stored PROVE leads'[id].by = id[1]
      BY <1>2, PutStored DEF Told, Owned
    <3>2. LeadIdFor(a) \notin Stored => leads'[LeadIdFor(a)].by = a[1]
      BY <1>2, <2>0, PutStored
    <3> QED
      BY <1>0, <1>2, <3>1, <3>2, PutStored DEF Owned
  <2>2. \A b \in Attempts : req'[b] = req[b] \/ b = a
    BY <1>0, <1>2 DEF PutLead, Answer
  <2>3. Replies'
    BY <1>1, <1>2, <2>2, PutStored DEF Told, Replies, LeadIdFor
  <2>4. Shown'
    BY <1>1, <1>2, PutStored DEF Told, Shown
  <2> QED
    BY <2>1, <2>3, <2>4
<1>3. CASE ~PutLead(a)
  <2>1. UNCHANGED leads
    BY <1>3 DEF Attempt, Receive, VerifyChallenge, ReadStand, ReadEvent, FailCall
  <2>2. Owned' /\ Shown' /\ Stored' = Stored
    BY <1>1, <2>1 DEF Told, Owned, Shown, Stored
  <2>3. ASSUME NEW b \in Attempts, req'[b] # req[b], req'[b].step = "answered"
        PROVE  req'[b].status \notin Success \/ page[b[1]].bot
    <3>1. ASSUME NEW next, next # "answered", Continue(a, next) PROVE FALSE
      BY <1>0, <2>3, <3>1 DEF Continue, Requests
    <3>2. ASSUME NEW status, Answer(a, status) PROVE b = a /\ req'[b].status = status
      BY <1>0, <2>3, <3>2 DEF Answer, Requests
    <3>3. Receive(a) => page[a[1]].bot
      BY <3>1 DEF Receive
    <3> QED
      BY <1>3, <3>1, <3>2, <3>3
      DEF Attempt, Receive, VerifyChallenge, ReadStand, ReadEvent, FailCall, Success
  <2>4. Replies'
    BY <1>1, <2>2, <2>3 DEF Told, Replies, LeadIdFor
  <2> QED
    BY <2>2, <2>4
<1> QED
  BY <1>2, <1>3

LEMMA ToldNext == Told /\ [Next]_vars => Told'
<1> SUFFICES ASSUME Told, [Next]_vars PROVE Owned' /\ Replies' /\ Shown'
  BY ShapeNext DEF Told
<1>0. CASE UNCHANGED vars
  BY <1>0 DEF vars, Told, Owned, Replies, Shown, Stored
<1>1. ASSUME NEW s \in Submissions, Click(s) PROVE Owned' /\ Replies' /\ Shown'
  <2>1. /\ page \in [Submissions -> Pages] /\ req \in [Attempts -> Requests]
        /\ \A n \in 1 .. RetryAttempts : req[<<s, n>>].step = "unsent"
    BY <1>1 DEF Click, Told, Shape, VisitorShape, Clicked
  <2>2. Stored' = Stored /\ Owned'
    BY <1>1 DEF Click, Told, Owned, Stored
  <2>3. /\ \A t \in Submissions : t # s => page'[t] = page[t]
        /\ page'[s].phase = "waiting"
        /\ \A a \in Attempts : req'[a] = req[a] \/ req'[a].step = "sent"
    BY <1>1, <2>1 DEF Click, Sent
  <2>4. Replies'
    BY <2>1, <2>2, <2>3, Ids DEF Told, Replies, LeadIdFor
  <2>5. Shown'
    BY <2>2, <2>3 DEF Told, Shown
  <2> QED
    BY <2>2, <2>4, <2>5
<1>2. ASSUME NEW s \in Submissions, TakeAnswer(s) PROVE Owned' /\ Replies' /\ Shown'
  <2>1. page[s].attempt \in 1 .. RetryAttempts
    BY <1>2 DEF TakeAnswer, Told, Shape, VisitorShape, Clicked
  <2> DEFINE a == <<s, page[s].attempt>>
  <2>2. a \in Attempts /\ a[1] = s /\ LeadIdFor(a) = <<s, 1>>
    BY <2>1, Ids DEF LeadIdFor
  <2>3. req[a].status \in Success => page[s].bot \/ <<s, 1>> \in Stored
    BY <1>2, <2>2 DEF TakeAnswer, Told, Replies
  <2> QED
    BY <1>2, <2>3, EndTold DEF TakeAnswer
<1>3. ASSUME NEW s \in Submissions, LoseAnswer(s) PROVE Owned' /\ Replies' /\ Shown'
  <2>1. 408 \notin Success
    BY DEF Success
  <2> QED
    BY <1>3, <2>1, EndTold DEF LoseAnswer
<1>4. ASSUME NEW a \in Attempts, Attempt(a) PROVE Owned' /\ Replies' /\ Shown'
  BY <1>4, AttemptTold
<1>5. ASSUME NEW b \in Barriers, Hide(b) PROVE Owned' /\ Replies' /\ Shown'
  BY <1>5 DEF Hide, visitor, Told, Owned, Replies, Shown, Stored
<1>6. ASSUME NEW b \in Barriers, Show(b) PROVE Owned' /\ Replies' /\ Shown'
  <2>1. \A a \in Attempts : req'[a].step = req[a].step /\ req'[a].status = req[a].status
    BY <1>6 DEF Show, Told, Shape, VisitorShape, Requests
  <2> QED
    BY <1>6, <2>1 DEF Show, Told, Owned, Replies, Shown, Stored
<1>7. ASSUME NEW e \in Editors, Editing(e) PROVE Owned' /\ Replies' /\ Shown'
  BY <1>7, EditStored, EditingVisitor DEF visitor, Told, Owned, Replies, Shown
<1>8. CASE CatchUp
  BY <1>8 DEF CatchUp, visitor, Told, Owned, Replies, Shown, Stored
<1> QED
  BY <1>0, <1>1, <1>2, <1>3, <1>4, <1>5, <1>6, <1>7, <1>8 DEF Next

LEMMA AlwaysTold == Spec => []Told
<1>1. Init => Owned /\ Replies /\ Shown
  BY Ids DEF Init, Owned, Replies, Shown, Stored
<1> QED
  BY <1>1, ShapeInit, ToldNext, PTL DEF Spec, Told

\* A message has one lead, whatever attempts of it overlap: its id is drawn at
\* the click.
THEOREM LeadUnique == Spec => []OneLeadPerSubmission
<1>1. Told => OneLeadPerSubmission
  BY Ids DEF Told, Owned, OneLeadPerSubmission, Shape, StoreShape
<1> QED
  BY <1>1, AlwaysTold, PTL

\* Success is shown of a message that is stored, unless a bot filled the form.
THEOREM SuccessStored == Spec => []SuccessIsStored
<1>1. Told => SuccessIsStored
  BY DEF Told, Owned, Shown, SuccessIsStored
<1> QED
  BY <1>1, AlwaysTold, PTL
-----------------------------------------------------------------------------
(* No lead of what is hidden *)

\* What was hidden all along is hidden now, the stand in every copy, and a check
\* that an attempt has passed was of something that could be seen meanwhile.
Seen ==
    \A a \in Attempts :
        /\ req[a].dark \cap visible = {}
        /\ "stand" \in req[a].dark => ~lagging
        /\ req[a].step \in {"event", "put"} => "stand" \notin req[a].dark
        /\ req[a].step = "put" => "event" \notin req[a].dark

PublicOnly == Shape /\ Seen /\ NoLeadOfHidden

LEMMA PublicOnlyNext == PublicOnly /\ [Next]_vars => PublicOnly'
<1> SUFFICES ASSUME PublicOnly, [Next]_vars PROVE Seen' /\ NoLeadOfHidden'
  BY ShapeNext DEF PublicOnly
<1>t. /\ req \in [Attempts -> Requests] /\ visible \subseteq Barriers
      /\ page \in [Submissions -> Pages]
  BY DEF PublicOnly, Shape, VisitorShape
<1>0. CASE UNCHANGED vars
  BY <1>0 DEF vars, PublicOnly, Seen, NoLeadOfHidden, Stored
<1>1. ASSUME NEW s \in Submissions, NEW n \in Nat, req' = [req EXCEPT ![<<s, n>>] = Sent],
             UNCHANGED <<visible, lagging, leads>>
      PROVE  Seen' /\ NoLeadOfHidden'
  <2>1. Sent.dark \cap visible = {} /\ ("stand" \in Sent.dark => ~lagging) /\ Sent.step = "sent"
    BY DEF Sent, Dark
  <2> QED
    BY <1>t, <1>1, <2>1 DEF PublicOnly, Seen, NoLeadOfHidden, Stored
<1>2. ASSUME NEW s \in Submissions, NEW status, EndAttempt(s, status), UNCHANGED <<visible, lagging, leads>>
      PROVE  Seen' /\ NoLeadOfHidden'
  <2>1. CASE UNCHANGED req
    BY <1>2, <2>1 DEF PublicOnly, Seen, NoLeadOfHidden, Stored
  <2>2. page[s].attempt + 1 \in Nat
    BY <1>t, RetryAssumption DEF Pages
  <2> QED
    BY <1>1, <1>2, <2>1, <2>2 DEF EndAttempt
<1>3. ASSUME NEW a \in Attempts, Attempt(a) PROVE Seen' /\ NoLeadOfHidden'
  <2>1. /\ UNCHANGED <<visible, lagging>>
        /\ \A b \in Attempts : b # a => req'[b] = req[b]
        /\ req'[a].dark \subseteq req[a].dark
    BY <1>3, <1>t
    DEF Attempt, Receive, VerifyChallenge, ReadStand, ReadEvent, PutLead, FailCall,
        Continue, Answer, Requests
  <2>2. /\ req'[a].step \in {"event", "put"} =>
              req[a].step = "event" \/ "stand" \in visible \/ lagging
        /\ req'[a].step = "put" => req[a].step = "event" /\ "event" \in visible
    BY <1>3, <1>t
    DEF Attempt, Receive, VerifyChallenge, ReadStand, ReadEvent, PutLead, FailCall,
        Continue, Answer, Requests
  <2>3. Seen'
    BY <2>1, <2>2 DEF PublicOnly, Seen
  <2>4. CASE PutLead(a)
    <3>1. req[a].dark = {}
      BY <1>t, <2>4 DEF PutLead, PublicOnly, Seen, Requests, Barriers
    <3>2. NewLead(a).dark = {}
      BY <3>1 DEF NewLead
    <3>3. ASSUME NEW id \in Stored PROVE leads'[id].dark = {}
      BY <2>4, PutStored DEF PublicOnly, NoLeadOfHidden
    <3>4. LeadIdFor(a) \notin Stored => leads'[LeadIdFor(a)].dark = {}
      BY <2>4, <3>2, PutStored
    <3> QED
      BY <2>3, <2>4, <3>3, <3>4, PutStored DEF NoLeadOfHidden
  <2>5. CASE ~PutLead(a)
    BY <1>3, <2>3, <2>5
    DEF Attempt, Receive, VerifyChallenge, ReadStand, ReadEvent, FailCall, PublicOnly,
        NoLeadOfHidden, Stored
  <2> QED
    BY <2>4, <2>5
<1>4. ASSUME NEW b \in Barriers, Hide(b) PROVE Seen' /\ NoLeadOfHidden'
  BY <1>4 DEF Hide, visitor, PublicOnly, Seen, NoLeadOfHidden, Stored
<1>5. ASSUME NEW b \in Barriers, Show(b) PROVE Seen' /\ NoLeadOfHidden'
  <2>1. \A a \in Attempts : req'[a].step = req[a].step /\ req'[a].dark = req[a].dark \ {b}
    BY <1>5, <1>t DEF Show, Requests
  <2> QED
    BY <1>5, <2>1 DEF Show, PublicOnly, Seen, NoLeadOfHidden, Stored
<1>6. ASSUME NEW e \in Editors, Editing(e) PROVE Seen' /\ NoLeadOfHidden'
  BY <1>6, EditStored, EditingVisitor DEF visitor, PublicOnly, Seen, NoLeadOfHidden
<1>7. CASE CatchUp
  BY <1>7 DEF CatchUp, visitor, PublicOnly, Seen, NoLeadOfHidden, Stored
<1> QED
  BY <1>0, <1>1, <1>2, <1>3, <1>4, <1>5, <1>6, <1>7 DEF Next, Click, TakeAnswer, LoseAnswer

\* No lead is stored of an attempt that ran while its event was hidden, or the stand
\* was in every copy of it that an eventually consistent read may return.
THEOREM HiddenHasNoLead == Spec => []NoLeadOfHidden
<1>1. Init => Seen /\ NoLeadOfHidden
  BY DEF Init, Seen, NoLeadOfHidden, Stored
<1> QED
  BY <1>1, ShapeInit, PublicOnlyNext, PTL DEF Spec, PublicOnly
-----------------------------------------------------------------------------
(* No lost edit *)

\* A revision counts the edits of the lead, and that of an editor the edits it
\* has seen.
Counted ==
    /\ \A id \in Stored : leads[id].revision = Len(leads[id].log) + 1
    /\ \A e \in Editors : edit[e].step # "idle" => edit[e].revision = edit[e].saw + 1

Guarded == Shape /\ Counted /\ NoLostUpdate

LEMMA GuardedNext == Guarded /\ [Next]_vars => Guarded'
<1> SUFFICES ASSUME Guarded, [Next]_vars PROVE Counted' /\ NoLostUpdate'
  BY ShapeNext DEF Guarded
<1>t. /\ edit \in [Editors -> Edits(Stored)]
      /\ \A id \in Stored : leads[id] \in Leads
  BY DEF Guarded, Shape, StoreShape
<1>1. CASE UNCHANGED <<leads, edit>>
  BY <1>1 DEF Guarded, Counted, NoLostUpdate, Stored
<1>2. ASSUME NEW a \in Attempts, PutLead(a) PROVE Counted' /\ NoLostUpdate'
  <2>1. NewLead(a).revision = 1 /\ NewLead(a).log = <<>>
    BY DEF NewLead
  <2>2. UNCHANGED edit
    BY <1>2 DEF PutLead
  <2> QED
    BY <1>2, <2>1, <2>2, PutStored DEF Guarded, Counted, NoLostUpdate
<1>3. ASSUME NEW e \in Editors, WriteEdit(e), RevisionMatches(e), Accept(e, edit[e].lead)
      PROVE  Counted' /\ NoLostUpdate'
  <2> DEFINE id == edit[e].lead
             log == Append(leads[id].log, edit[e].saw)
  <2>1. id \in Stored /\ Stored' = Stored
    BY <1>3 DEF WriteEdit, Accept, Guarded, Shape, StoreShape, Stored
  <2>2. edit[e].revision = edit[e].saw + 1 /\ edit[e].saw \in Nat
    BY <1>3, <1>t DEF WriteEdit, Guarded, Counted, Edits
  <2>3. leads[id].log \in Seq(Nat) /\ edit[e].saw = Len(leads[id].log)
    BY <1>3, <1>t, <2>1, <2>2 DEF RevisionMatches, Guarded, Counted, Leads
  <2>4. /\ Len(log) = Len(leads[id].log) + 1 /\ Len(log) \in Nat
        /\ \A i \in DOMAIN log : log[i] = i - 1
    <3> DEFINE old == leads[id].log
    <3>1. old \in Seq(Nat) /\ \A i \in DOMAIN old : old[i] = i - 1
      BY <2>1, <2>3 DEF Guarded, NoLostUpdate
    <3>2. edit[e].saw = Len(old) /\ edit[e].saw \in Nat
      BY <2>2, <2>3
    <3> HIDE DEF old
    <3>3. DOMAIN old = 1 .. Len(old) /\ Len(old) \in Nat
      BY <3>1
    <3>4. /\ Len(Append(old, edit[e].saw)) = Len(old) + 1
          /\ DOMAIN Append(old, edit[e].saw) = 1 .. Len(old) + 1
          /\ \A i \in 1 .. Len(old) + 1 :
                Append(old, edit[e].saw)[i] =
                    IF i <= Len(old) THEN old[i] ELSE edit[e].saw
      BY <3>1, <3>2
    <3> DEFINE new == Append(old, edit[e].saw)
    <3> HIDE DEF new
    <3>5. ASSUME NEW i \in 1 .. Len(old) + 1 PROVE new[i] = i - 1
      <4>1. CASE i <= Len(old)
        BY <3>1, <3>3, <3>4, <4>1 DEF new
      <4>2. CASE i = Len(old) + 1
        BY <3>2, <3>3, <3>4, <4>2 DEF new
      <4> QED
        BY <3>3, <4>1, <4>2
    <3>6. Len(new) = Len(old) + 1 /\ DOMAIN new = 1 .. Len(old) + 1
      BY <3>4 DEF new
    <3>7. log = new
      BY DEF new, old
    <3> HIDE DEF log
    <3> QED
      BY <3>3, <3>5, <3>6, <3>7 DEF old
  <2>5. /\ leads'[id].log = log /\ leads'[id].revision = edit[e].revision + 1
        /\ \A i \in Stored : i # id => leads'[i] = leads[i]
    BY <1>3, <1>t, <2>1 DEF Accept, Leads, Stored
  <2>6. /\ edit'[e].revision = edit[e].revision + 1 /\ edit'[e].saw = Len(log)
        /\ \A f \in Editors : f # e => edit'[f] = edit[f]
    BY <1>3, <1>t DEF Accept, Edits
  <2> HIDE DEF id, log
  <2>7. Counted'
    BY <2>1, <2>2, <2>3, <2>4, <2>5, <2>6 DEF Guarded, Counted
  <2>8. NoLostUpdate'
    BY <2>1, <2>4, <2>5 DEF Guarded, NoLostUpdate
  <2> QED
    BY <2>7, <2>8
<1>4. ASSUME NEW e \in Editors, UNCHANGED leads,
             \A f \in Editors : f # e => edit'[f] = edit[f],
             edit'[e].step # "idle" => edit'[e].revision = edit'[e].saw + 1
      PROVE  Counted' /\ NoLostUpdate'
  BY <1>4 DEF Guarded, Counted, NoLostUpdate, Stored
<1>5. ASSUME NEW e \in Editors, Editing(e), ~(WriteEdit(e) /\ RevisionMatches(e))
      PROVE  Counted' /\ NoLostUpdate'
  <2>1. UNCHANGED leads
    BY <1>5 DEF Editing, LoadLead, SendEdit, CheckAccess, WriteEdit, Reload, Revoke
  <2>2. \A f \in Editors : f # e => edit'[f] = edit[f]
    BY <1>5, <1>t DEF Editing, LoadLead, SendEdit, CheckAccess, WriteEdit, Reload, Revoke
  <2>3. CASE LoadLead(e)
    BY <1>t, <2>1, <2>2, <2>3, <1>4 DEF LoadLead, Guarded, Counted, Leads
  <2>4. CASE ~LoadLead(e)
    <3>1. edit[e] \in Edits(Stored)
      BY <1>t
    <3>2. \/ edit'[e].step = "idle"
          \/ /\ edit'[e].revision = edit[e].revision
             /\ edit'[e].saw = edit[e].saw
             /\ edit[e].step # "idle" \/ edit'[e].step = edit[e].step
      BY <1>5, <1>t, <2>4, <3>1
      DEF Editing, SendEdit, CheckAccess, WriteEdit, Reload, Revoke, Edits
    <3> QED
      BY <2>1, <2>2, <3>2, <1>4 DEF Guarded, Counted
  <2> QED
    BY <2>3, <2>4
<1>6. ASSUME NEW s \in Submissions, Click(s) \/ TakeAnswer(s) \/ LoseAnswer(s)
      PROVE  UNCHANGED <<leads, edit>>
  BY <1>6 DEF Click, TakeAnswer, LoseAnswer
<1>7. ASSUME NEW a \in Attempts, Attempt(a), ~PutLead(a) PROVE UNCHANGED <<leads, edit>>
  BY <1>7 DEF Attempt, Receive, VerifyChallenge, ReadStand, ReadEvent, FailCall
<1>8. /\ \A b \in Barriers : Hide(b) \/ Show(b) => UNCHANGED <<leads, edit>>
      /\ CatchUp => UNCHANGED <<leads, edit>>
  BY DEF Hide, Show, CatchUp
<1>9. ASSUME NEW e \in Editors, Editing(e), WriteEdit(e), RevisionMatches(e)
      PROVE  Accept(e, edit[e].lead)
  BY <1>9 DEF WriteEdit
<1> QED
  BY <1>1, <1>2, <1>3, <1>5, <1>6, <1>7, <1>8, <1>9 DEF Next, vars

\* An accepted edit has seen all edits before it.
THEOREM EditsSeen == Spec => []NoLostUpdate
<1>1. Init => Counted /\ NoLostUpdate
  BY DEF Init, Counted, NoLostUpdate, Stored
<1> QED
  BY <1>1, ShapeInit, GuardedNext, PTL DEF Spec, Guarded
-----------------------------------------------------------------------------
(* Listing: what is true between two steps *)

Running == step \in {"query", "lookup"}

\* What a request keeps of a page of table t that ends at the key end
Selected(t, kept, end, last) ==
    /\ DOMAIN kept \subseteq {r \in Rows : TableOf[r] = t}
    /\ kept \in [DOMAIN kept -> (scan[t].from + 1) .. end]
    /\ end \in 0 .. LastKey
    /\ last # 0 => last = end /\ scan[t].from < last
    /\ endpoint.shape \in {"page", "matching"}
         => size[t] + Cardinality(DOMAIN kept) <= PageLimit

LookUps ==
    [todo : SUBSET {"stands", "events"}, pending : SUBSET Events,
     found : SUBSET Events, attempt : Nat]

\* A list is of one table; a request that goes on has room for a row.
RequestShape ==
    /\ endpoint \in Endpoints
    /\ tables \subseteq Tables
    /\ ~endpoint.whole => \E t \in Tables : tables = {t}
    /\ step \in {"idle", "query", "lookup", "done", "refused"}
    /\ cursor \in 0 .. LastKey
    /\ scan \in [Tables -> [from : 0 .. LastKey, pages : Nat, more : BOOLEAN]]
    /\ \A t \in Tables : scan[t].more => t \in tables
    /\ step = "lookup" =>
         /\ lookup \in LookUps
         /\ lookup.todo \subseteq endpoint.lookups /\ "events" \in lookup.todo
         /\ \A t \in tables : /\ scan[t].more
                              /\ Selected(t, batch.kept, batch.end, batch.last)

TableShape ==
    /\ at \in Placements
    /\ \A r \in Rows \ Read : at[r] = 0
    /\ fit \subseteq Rows
    /\ hidden \subseteq Events /\ dark \subseteq hidden
    /\ steady \subseteq Rows /\ lit \cap hidden = {}

AnswerShape ==
    /\ items \in [Rows -> Nat] /\ got \in [Rows -> Nat]
    /\ size \in [Tables -> Nat]
    /\ endpoint.shape # "export" => \A t \in Tables : size[t] <= PageLimit
    /\ Running /\ endpoint.shape = "page" => size = NoSize
    /\ Running /\ endpoint.shape \in {"search", "matching"}
         => \A t \in Tables : size[t] < PageLimit
    /\ step = "done" /\ endpoint.capped => SumFunction(size) <= MaxItems

ListingShape == RequestShape /\ TableShape /\ AnswerShape

\* What is collected, or found public, is not of an event that has been hidden
\* ever since.
Unhidden ==
    Barred(endpoint) =>
      /\ \A r \in Rows : items[r] > 0 => EventOf[r] \notin dark
      /\ step = "lookup" => lookup.found \cap dark = {}

\* Once, of a count of row r: at most, and exactly if the row is promised.
OnceOf(n, promised) == n <= 1 /\ (promised => n = 1)
Promised(r) == r \in Due \ lost

\* The reads of this request have passed the row.
Behind(r) == ~scan[TableOf[r]].more \/ at[r] <= scan[TableOf[r]].from

\* The answers have every row up to the cursor once, and none after it.
Answered ==
    IF step = "done"
    THEN \A r \in steady : OnceOf(got[r], Promised(r))
    ELSE \A r \in steady :
           IF at[r] \in 1 .. cursor THEN OnceOf(got[r], Promised(r))
           ELSE got[r] = 0

\* The request has every row from the cursor to where its reads are.
Collected ==
    Running =>
      /\ \A t \in tables : scan[t].more => cursor <= scan[t].from
      /\ \A r \in steady :
           IF cursor < at[r] /\ Behind(r) THEN OnceOf(items[r], Promised(r))
           ELSE items[r] = 0

\* The batch has every row of its page, at its place.
Complete(t, kept, end, last, gone) ==
    /\ \A r \in steady \cap DOMAIN kept : kept[r] = at[r]
    /\ \A r \in Due \ gone : TableOf[r] = t /\ at[r] \in (scan[t].from + 1) .. end
                               => r \in DOMAIN kept
    /\ last = 0 => \A r \in steady : TableOf[r] = t
                                       => at[r] <= end \/ at[r] <= scan[t].from

Batching ==
    step = "lookup" =>
      /\ \A t \in tables : Complete(t, batch.kept, batch.end, batch.last, lost)
      /\ EventsOf(batch.kept) \cap lit \subseteq lookup.pending \cup lookup.found

Paged == Answered /\ Collected /\ Batching
-----------------------------------------------------------------------------
(* Listing: the constants and the helpers *)

LEMMA Limits ==
    /\ LastKey \in Nat \ {0} /\ PageLimit \in Nat \ {0}
    /\ QueryPage \in Nat \ {0} /\ MaxItems \in Nat \ {0}
BY LimitsAssumption

\* What the sixteen endpoints have in common: only an export reads every table
\* or is capped; the rows of a search or a page may be looked up, and then the
\* events are looked up last.
LEMMA EndpointFacts ==
    ASSUME NEW e \in Endpoints
    PROVE  /\ e.shape \in {"page", "search", "matching", "export"}
           /\ e.whole \/ e.capped => e.shape = "export"
           /\ e.shape \in {"matching", "export"} => e.lookups = {}
           /\ e.lookups # {} => "events" \in e.lookups
           /\ e.lookups \subseteq {"stands", "events"}
<1>1. e \in AllEndpoints
  BY EndpointsAssumption
<1> QED
  BY <1>1 DEF AllEndpoints, GetStands, SearchStands, PublicEvents,
       PublicEventStands, OrganizationEvents, EventStands, EventInvitations,
       UserOrders, MyMemberships, OrganizationMembers, AuditEvents,
       SavedStands, LeadList, LeadsCsv, UserExport, UserStats, Page, Export

LEMMA RowSets ==
    ASSUME NEW S, S \subseteq Rows
    PROVE  IsFiniteSet(S) /\ Cardinality(S) \in Nat
BY RowsAssumption, FS_Subset, FS_CardinalityType

LEMMA SmallerRowSets ==
    ASSUME NEW S, S \subseteq Rows, NEW T, T \subseteq S
    PROVE  Cardinality(T) <= Cardinality(S)
BY RowSets, FS_Subset

\* Keep is a restriction.
LEMMA KeepIs ==
    ASSUME NEW kept, NEW S
    PROVE  /\ DOMAIN Keep(kept, S) = DOMAIN kept \cap S
           /\ Keep(kept, S) = [r \in DOMAIN kept \cap S |-> kept[r]]
           /\ \A r \in DOMAIN Keep(kept, S) : Keep(kept, S)[r] = kept[r]
BY DEF Keep, Restrict

LEMMA UpToIs ==
    ASSUME NEW kept, NEW key
    PROVE  /\ DOMAIN UpTo(kept, key) = {r \in DOMAIN kept : kept[r] <= key}
           /\ \A r \in DOMAIN UpTo(kept, key) : UpTo(kept, key)[r] = kept[r]
<1> DEFINE S == {r \in DOMAIN kept : kept[r] <= key}
<1>1. DOMAIN kept \cap S = S
  OBVIOUS
<1>2. UpTo(kept, key) = Keep(kept, S)
  BY DEF UpTo
<1>3. /\ DOMAIN Keep(kept, S) = DOMAIN kept \cap S
      /\ \A r \in DOMAIN Keep(kept, S) : Keep(kept, S)[r] = kept[r]
  BY KeepIs
<1> QED BY <1>1, <1>2, <1>3

\* The rows of a page that are kept by a lookup are a selection as well.
LEMMA SelectedLess ==
    ASSUME NEW t, NEW kept, NEW end, NEW last, NEW S,
           Selected(t, kept, end, last), AnswerShape, t \in Tables
    PROVE  Selected(t, Keep(kept, S), end, last)
<1> DEFINE less == Keep(kept, S)
<1>1. /\ DOMAIN less = DOMAIN kept \cap S
      /\ less = [r \in DOMAIN kept \cap S |-> kept[r]]
  BY KeepIs
<1>2. DOMAIN less \subseteq DOMAIN kept /\ DOMAIN kept \subseteq Rows
  BY <1>1 DEF Selected
<1>3. less \in [DOMAIN less -> (scan[t].from + 1) .. end]
  <2>1. kept \in [DOMAIN kept -> (scan[t].from + 1) .. end]
    BY DEF Selected
  <2> HIDE DEF less
  <2> QED BY <1>1, <2>1, Zenon
<1>4. /\ Cardinality(DOMAIN less) <= Cardinality(DOMAIN kept)
      /\ Cardinality(DOMAIN less) \in Nat /\ Cardinality(DOMAIN kept) \in Nat
  BY <1>2, RowSets, SmallerRowSets
<1>5. size[t] \in Nat /\ PageLimit \in Nat
  BY Limits DEF AnswerShape
<1>6. endpoint.shape \in {"page", "matching"}
        => size[t] + Cardinality(DOMAIN less) <= PageLimit
  BY <1>4, <1>5 DEF Selected
<1>7. DOMAIN less \subseteq {r \in Rows : TableOf[r] = t}
  BY <1>2 DEF Selected
<1>8. /\ end \in 0 .. LastKey
      /\ last # 0 => last = end /\ scan[t].from < last
  BY DEF Selected
<1> HIDE DEF less
<1>9. Selected(t, less, end, last)
  BY <1>3, <1>6, <1>7, <1>8 DEF Selected
<1> QED BY <1>9 DEF less
-----------------------------------------------------------------------------
(* Listing: types *)

Quiet == UNCHANGED <<table, endpoint, tables, history>>

LEMMA QuietTable ==
    ASSUME TableShape, Quiet
    PROVE  TableShape'
BY DEF TableShape, Quiet, table, history, Read, Placements

LEMMA FreshShape ==
    /\ Fresh \in [Tables -> [from : 0 .. LastKey, pages : Nat, more : BOOLEAN]]
    /\ \A t \in Tables : Fresh[t].more => t \in tables
<1>1. /\ 0 \in 0 .. LastKey /\ 0 \in Nat
      /\ \A t \in Tables : (t \in tables) \in BOOLEAN
  BY Limits
<1>2. \A t \in Tables :
        /\ Fresh[t] = [from |-> 0, pages |-> 0, more |-> t \in tables]
        /\ Fresh[t].more = (t \in tables)
  BY Zenon DEF Fresh
<1>3. \A t \in Tables :
        Fresh[t] \in [from : 0 .. LastKey, pages : Nat, more : BOOLEAN]
  <2>1. \A b \in BOOLEAN : [from |-> 0, pages |-> 0, more |-> b]
                            \in [from : 0 .. LastKey, pages : Nat, more : BOOLEAN]
    BY <1>1
  <2> QED BY <1>1, <1>2, <2>1, Zenon
<1>4. Fresh \in [Tables -> [from : 0 .. LastKey, pages : Nat, more : BOOLEAN]]
  BY <1>3, Zenon DEF Fresh
<1> QED BY <1>2, <1>4, Zenon

LEMMA NothingCollected ==
    /\ NoRows \in [Rows -> Nat] /\ NoSize \in [Tables -> Nat]
    /\ \A t \in Tables : NoSize[t] = 0
BY DEF NoRows, NoSize

\* The counts that an answer or another query leaves
LEMMA CollectShape ==
    ASSUME AnswerShape, NEW t \in Tables, NEW kept, DOMAIN kept \subseteq Rows,
           Collect(t, kept)
    PROVE  /\ items' \in [Rows -> Nat] /\ size' \in [Tables -> Nat]
           /\ Taken(kept) \in [Rows -> Nat]
           /\ size' = Grown(t, kept)
           /\ size'[t] = size[t] + Cardinality(DOMAIN kept)
           /\ Grown(t, kept)[t] = size[t] + Cardinality(DOMAIN kept)
           /\ \A u \in Tables \ {t} : size'[u] = size[u]
<1>1. Cardinality(DOMAIN kept) \in Nat
  BY RowSets
<1>2. Taken(kept) \in [Rows -> Nat]
  BY DEF Taken, AnswerShape
<1> QED BY <1>1, <1>2 DEF Collect, Grown, AnswerShape

LEMMA ReplyShape ==
    ASSUME ListingShape, Quiet, NEW t \in Tables, NEW kept,
           DOMAIN kept \subseteq Rows, NEW next \in 0 .. LastKey,
           Reply(t, kept, next),
           endpoint.shape # "export"
             => size[t] + Cardinality(DOMAIN kept) <= PageLimit,
           endpoint.capped => SumFunction(Grown(t, kept)) <= MaxItems
    PROVE  ListingShape'
<1>1. TableShape'
  BY QuietTable DEF ListingShape
<1>2. RequestShape'
  <2>1. step' \in {"idle", "done"} /\ scan' = Fresh /\ cursor' = next
    BY DEF Reply
  <2> QED BY <2>1, FreshShape DEF ListingShape, RequestShape, Quiet
<1>3. AnswerShape'
  <2>1. /\ items' \in [Rows -> Nat] /\ size' \in [Tables -> Nat]
        /\ Taken(kept) \in [Rows -> Nat]
        /\ size' = Grown(t, kept)
        /\ size'[t] = size[t] + Cardinality(DOMAIN kept)
        /\ \A u \in Tables \ {t} : size'[u] = size[u]
    BY CollectShape DEF ListingShape, Reply
  <2>2. got' \in [Rows -> Nat]
    BY <2>1 DEF Reply, ListingShape, AnswerShape
  <2>3. endpoint' = endpoint /\ step' \in {"idle", "done"}
    BY DEF Reply, Quiet
  <2>4. endpoint'.shape # "export" => \A u \in Tables : size'[u] <= PageLimit
    BY <2>1, <2>3 DEF ListingShape, AnswerShape
  <2>5. endpoint'.capped => SumFunction(size)' <= MaxItems
    BY <2>1, <2>3
  <2> QED BY <2>1, <2>2, <2>3, <2>4, <2>5 DEF AnswerShape, Running
<1> QED BY <1>1, <1>2, <1>3 DEF ListingShape

LEMMA RefuseShape ==
    ASSUME ListingShape, Quiet, Refuse
    PROVE  ListingShape'
<1>1. TableShape'
  BY QuietTable DEF ListingShape
<1>2. RequestShape'
  BY FreshShape DEF Refuse, ListingShape, RequestShape, Quiet
<1>3. AnswerShape'
  BY NothingCollected, Limits
  DEF Refuse, ListingShape, AnswerShape, Quiet, Running
<1> QED BY <1>1, <1>2, <1>3 DEF ListingShape

LEMMA ReadOnShape ==
    ASSUME ListingShape, Quiet, NEW t \in Tables, NEW kept, NEW end, NEW last,
           t \in tables, Selected(t, kept, end, last),
           last = 0 \/ last = end,
           ReadOn(t, kept, last), Running, endpoint.shape # "page",
           endpoint.shape \in {"search", "matching"}
             => size[t] + Cardinality(DOMAIN kept) < PageLimit
    PROVE  ListingShape'
<1>1. TableShape'
  BY QuietTable DEF ListingShape
<1>2. RequestShape'
  <2>1. last \in 0 .. LastKey
    BY Limits DEF Selected
  <2>2. scan' \in [Tables -> [from : 0 .. LastKey, pages : Nat, more : BOOLEAN]]
    BY <2>1 DEF ReadOn, ListingShape, RequestShape
  <2>3. \A u \in Tables : scan'[u].more => u \in tables
    BY DEF ReadOn, ListingShape, RequestShape
  <2> QED BY <2>2, <2>3 DEF ReadOn, ListingShape, RequestShape, Quiet
<1>3. AnswerShape'
  <2>1. DOMAIN kept \subseteq Rows
    BY DEF Selected
  <2>2. /\ items' \in [Rows -> Nat] /\ size' \in [Tables -> Nat]
        /\ size'[t] = size[t] + Cardinality(DOMAIN kept)
        /\ \A u \in Tables \ {t} : size'[u] = size[u]
    BY <2>1, CollectShape DEF ListingShape, ReadOn
  <2>3. endpoint' = endpoint /\ step' = "query" /\ got' = got
    BY DEF ReadOn, Quiet
  <2>4. endpoint.shape # "export" => endpoint.shape \in {"search", "matching"}
    BY EndpointFacts DEF ListingShape, RequestShape
  <2>5. endpoint.shape \in {"search", "matching"} /\ Running
          => \A u \in Tables : size[u] < PageLimit
    BY DEF ListingShape, AnswerShape
  <2>6. endpoint.shape \in {"search", "matching"}
          => \A u \in Tables : size'[u] < PageLimit
    BY <2>2, <2>5
  <2>7. endpoint.shape # "export" => \A u \in Tables : size'[u] <= PageLimit
    BY <2>2, <2>4, <2>6, Limits
  <2>8. got \in [Rows -> Nat]
    BY DEF ListingShape, AnswerShape
  <2> QED BY <2>2, <2>3, <2>6, <2>7, <2>8 DEF AnswerShape, Running
<1> QED BY <1>1, <1>2, <1>3 DEF ListingShape

LEMMA GatherShape ==
    ASSUME ListingShape, Quiet, Running, NEW t \in tables,
           NEW kept, NEW end, NEW last, Selected(t, kept, end, last),
           Gather(t, kept, end, last)
    PROVE  ListingShape'
<1>1. /\ t \in Tables /\ endpoint \in Endpoints
      /\ DOMAIN kept \subseteq Rows
      /\ last \in 0 .. LastKey /\ (last = 0 \/ last = end)
  BY Limits DEF ListingShape, RequestShape, Selected
<1>2. /\ endpoint.shape \in {"page", "search", "matching", "export"}
      /\ endpoint.capped => endpoint.shape = "export"
  BY <1>1, EndpointFacts
<1>3. /\ Cardinality(DOMAIN kept) \in Nat
      /\ size[t] \in Nat /\ PageLimit \in Nat
  BY <1>1, RowSets, Limits DEF ListingShape, AnswerShape
<1>4. CASE endpoint.shape = "page"
  <2>1. Reply(t, kept, last)
    BY <1>4 DEF Gather
  <2>2. size[t] + Cardinality(DOMAIN kept) <= PageLimit
    BY <1>4 DEF Selected
  <2> QED BY <1>1, <1>2, <1>4, <2>1, <2>2, ReplyShape
<1>5. CASE endpoint.shape = "search"
  <2>1. GatherSearch(t, kept, end, last)
    BY <1>5 DEF Gather
  <2>2. CASE Cardinality(DOMAIN kept) >= Missing(t)
    <3>1. PICK r \in DOMAIN kept :
            /\ Fills(t, kept, kept[r])
            /\ Reply(t, UpTo(kept, kept[r]),
                     IF kept[r] # end \/ last # 0 THEN kept[r] ELSE 0)
      BY <2>1, <2>2 DEF GatherSearch
    <3> DEFINE first == UpTo(kept, kept[r])
               next == IF kept[r] # end \/ last # 0 THEN kept[r] ELSE 0
    <3>2. kept[r] \in 0 .. LastKey
      <4>1. /\ scan[t].from \in 0 .. LastKey /\ end \in 0 .. LastKey
            /\ kept[r] \in (scan[t].from + 1) .. end
        BY <1>1 DEF ListingShape, RequestShape, Selected
      <4> QED BY <4>1, Limits
    <3>3. DOMAIN first \subseteq Rows
      <4>1. DOMAIN first = {s \in DOMAIN kept : kept[s] <= kept[r]}
        BY UpToIs, Zenon
      <4> QED BY <1>1, <4>1
    <3>4. size[t] + Cardinality(DOMAIN first) <= PageLimit
      BY <1>3, <3>1 DEF Fills, Missing
    <3>5. next \in 0 .. LastKey
      BY <3>2, Limits
    <3> HIDE DEF first, next
    <3>6. Reply(t, first, next)
      BY <3>1 DEF first, next
    <3> QED BY <1>1, <1>2, <1>5, <3>3, <3>4, <3>5, <3>6, ReplyShape
  <2>3. CASE ~(Cardinality(DOMAIN kept) >= Missing(t))
    <3>1. size[t] + Cardinality(DOMAIN kept) < PageLimit
      BY <1>3, <2>3 DEF Missing
    <3>2. CASE last = 0
      <4>1. Reply(t, kept, 0)
        BY <2>1, <2>3, <3>2 DEF GatherSearch
      <4> QED BY <1>1, <1>2, <1>3, <1>5, <3>1, <4>1, Limits, ReplyShape
    <3>3. CASE last # 0
      <4>1. ReadOn(t, kept, last)
        BY <2>1, <2>3, <3>3 DEF GatherSearch
      <4> QED BY <1>1, <1>5, <3>1, <4>1, ReadOnShape
    <3> QED BY <3>2, <3>3
  <2> QED BY <2>2, <2>3
<1>6. CASE endpoint.shape = "matching"
  <2>1. GatherMatching(t, kept, last)
    BY <1>6 DEF Gather
  <2>2. size[t] + Cardinality(DOMAIN kept) <= PageLimit
    BY <1>6 DEF Selected
  <2>3. Grown(t, kept)[t] = size[t] + Cardinality(DOMAIN kept)
    BY <1>1, <1>3 DEF Grown, ListingShape, AnswerShape
  <2>4. CASE Reply(t, kept, last)
    BY <1>1, <1>2, <1>6, <2>2, <2>4, ReplyShape
  <2>5. CASE ReadOn(t, kept, last) /\ ~(Grown(t, kept)[t] >= PageLimit)
    BY <1>1, <1>3, <1>6, <2>3, <2>5, ReadOnShape
  <2> QED BY <2>1, <2>4, <2>5 DEF GatherMatching
<1>7. CASE endpoint.shape = "export"
  <2>1. GatherExport(t, kept, last)
    BY <1>7 DEF Gather
  <2>2. CASE Refuse
    BY <2>2, RefuseShape
  <2>3. CASE ReadOn(t, kept, last)
    BY <1>1, <1>7, <2>3, ReadOnShape
  <2>4. CASE /\ Reply(t, kept, 0)
             /\ endpoint.capped => SumFunction(Grown(t, kept)) <= MaxItems
    BY <1>1, <1>7, <2>4, Limits, ReplyShape
  <2> QED BY <2>1, <2>2, <2>3, <2>4 DEF GatherExport
<1> QED BY <1>2, <1>4, <1>5, <1>6, <1>7

LEMMA LookUpShape ==
    ASSUME ListingShape, Quiet, Running, NEW t \in tables, scan[t].more,
           NEW kept, NEW end, NEW last, Selected(t, kept, end, last),
           NEW todo, todo \subseteq endpoint.lookups,
           todo # {} => "events" \in todo,
           LookUp(t, kept, end, last, todo)
    PROVE  ListingShape'
<1>1. CASE DOMAIN kept = {} \/ todo = {}
  <2>1. Gather(t, kept, end, last)
    BY <1>1 DEF LookUp
  <2> QED BY <2>1, GatherShape
<1>2. CASE ~(DOMAIN kept = {} \/ todo = {})
  <2>1. /\ step' = "lookup"
        /\ batch' = [kept |-> kept, end |-> end, last |-> last]
        /\ lookup' = [todo |-> todo, pending |-> EventsOf(kept),
                       found |-> {}, attempt |-> 0]
        /\ UNCHANGED <<scan, answers, cursor>>
    BY <1>2 DEF LookUp
  <2>2. tables = {t}
    <3>1. endpoint \in Endpoints /\ endpoint.lookups # {}
      BY <1>2 DEF ListingShape, RequestShape
    <3>2. ~endpoint.whole
      BY <3>1, EndpointFacts
    <3> QED BY <3>2 DEF ListingShape, RequestShape
  <2>3. UNCHANGED <<endpoint, tables>>
    BY DEF Quiet
  <2>4. /\ batch'.kept = kept /\ batch'.end = end /\ batch'.last = last
        /\ UNCHANGED <<scan, items, size, got, cursor>>
    BY <2>1 DEF answers
  <2>5. \A u \in tables : /\ scan'[u].more
                          /\ Selected(u, batch.kept, batch.end, batch.last)'
    BY <2>2, <2>3, <2>4 DEF Selected
  <2>6. lookup' \in LookUps /\ lookup'.todo = todo
    <3>1. EventsOf(kept) \subseteq Events
      BY EventsAssumption DEF EventsOf, Selected
    <3>2. todo \in SUBSET {"stands", "events"}
      BY EndpointFacts DEF ListingShape, RequestShape
    <3> QED BY <2>1, <3>1, <3>2 DEF LookUps
  <2>7. RequestShape'
    BY <1>2, <2>1, <2>3, <2>4, <2>5, <2>6 DEF ListingShape, RequestShape
  <2>8. AnswerShape'
    BY <2>1, <2>3, <2>4 DEF ListingShape, AnswerShape, Running
  <2>9. TableShape'
    BY QuietTable DEF ListingShape
  <2> QED BY <2>7, <2>8, <2>9 DEF ListingShape
<1> QED BY <1>1, <1>2

\* A page that a query may answer with
PageOf(t, end, more) ==
    LET ahead == After(t, scan[t].from)
        read == {r \in ahead : at[r] <= end}
    IN /\ end \in {0} \cup {at[r] : r \in ahead}
       /\ more \in BOOLEAN
       /\ Cardinality(read) <= QueryLimit(t)
       /\ (end = 0) => (ahead = {} /\ ~more)
       /\ (read # ahead) => more

LEMMA Keys ==
    ASSUME TableShape, NEW r \in Rows
    PROVE  at[r] \in 0 .. LastKey /\ at[r] \in Nat
BY Limits DEF TableShape, Placements

LEMMA FilterIs ==
    ASSUME NEW S
    PROVE  /\ DOMAIN Filter(S) = {s \in S : endpoint.filters => s \in fit}
           /\ Filter(S) = [r \in DOMAIN Filter(S) |-> at[r]]
BY DEF Filter

LEMMA PageSelected ==
    ASSUME ListingShape, step = "query", NEW t \in tables,
           NEW end, NEW more, PageOf(t, end, more)
    PROVE  Selected(t, Filter({r \in After(t, scan[t].from) : at[r] <= end}),
                    end, IF more THEN end ELSE 0)
<1> DEFINE from == scan[t].from
           read == {r \in After(t, from) : at[r] <= end}
           kept == Filter(read)
           last == IF more THEN end ELSE 0
<1>1. t \in Tables /\ endpoint \in Endpoints /\ from \in 0 .. LastKey
  BY DEF ListingShape, RequestShape
<1>2. /\ read \subseteq Rows
      /\ \A r \in read : TableOf[r] = t /\ at[r] > from /\ at[r] <= end
  BY DEF After
<1>3. /\ DOMAIN kept \subseteq read
      /\ \A r \in DOMAIN kept : kept[r] = at[r]
      /\ kept = [r \in DOMAIN kept |-> at[r]]
  BY FilterIs
<1>4. end \in 0 .. LastKey /\ (end # 0 => from < end)
  BY Keys, Limits, <1>1 DEF PageOf, After, ListingShape
<1>5. \A r \in DOMAIN kept : at[r] \in (from + 1) .. end
  BY <1>1, <1>2, <1>3, <1>4, Keys, Limits DEF ListingShape
<1>6. kept \in [DOMAIN kept -> (from + 1) .. end]
  <2> HIDE DEF kept
  <2> QED BY <1>3, <1>5, Zenon
<1>7. last # 0 => last = end /\ from < last
  BY <1>4
<1>8. endpoint.shape \in {"page", "matching"}
        => size[t] + Cardinality(DOMAIN kept) <= PageLimit
  <2>1. /\ Cardinality(DOMAIN kept) <= Cardinality(read)
        /\ Cardinality(DOMAIN kept) \in Nat /\ Cardinality(read) \in Nat
    BY <1>2, <1>3, RowSets, SmallerRowSets
  <2>2. Cardinality(read) <= QueryLimit(t)
    BY DEF PageOf
  <2>3. size[t] \in Nat /\ PageLimit \in Nat
    BY <1>1, Limits DEF ListingShape, AnswerShape
  <2>4. CASE endpoint.shape = "page"
    <3>1. QueryLimit(t) = PageLimit /\ size[t] = 0
      BY <1>1, <2>4, NothingCollected
      DEF QueryLimit, ListingShape, AnswerShape, Running
    <3> QED BY <2>1, <2>2, <2>3, <3>1
  <2>5. CASE endpoint.shape = "matching"
    <3>1. QueryLimit(t) = PageLimit - size[t]
      BY <2>5 DEF QueryLimit, MatchLimit
    <3> QED BY <2>1, <2>2, <2>3, <3>1
  <2> QED BY <2>4, <2>5
<1>9. DOMAIN kept \subseteq {r \in Rows : TableOf[r] = t}
  BY <1>2, <1>3
<1> HIDE DEF from, kept, last
<1>10. Selected(t, kept, end, last)
  BY <1>4, <1>6, <1>7, <1>8, <1>9 DEF Selected, from
<1> QED BY <1>10 DEF kept, last, from

LEMMA QueryIs ==
    ASSUME NEW t, Query(t)
    PROVE  \/ Refuse /\ batch' = NoBatch /\ lookup' = NoLookUp
           \/ \E end, more :
                /\ PageOf(t, end, more)
                /\ LookUp(t, Filter({r \in After(t, scan[t].from) : at[r] <= end}),
                          end, IF more THEN end ELSE 0, endpoint.lookups)
BY DEF Query, QueryPageTo, PageOf

LEMMA QueryShape ==
    ASSUME ListingShape, NEW t \in Tables, Query(t)
    PROVE  ListingShape'
<1>1. /\ Quiet /\ Running /\ step = "query"
      /\ t \in tables /\ scan[t].more /\ endpoint \in Endpoints
  BY DEF Query, Quiet, Running, ListingShape, RequestShape
<1>2. CASE Refuse
  BY <1>1, <1>2, RefuseShape
<1>3. ASSUME NEW end, NEW more, PageOf(t, end, more),
             LookUp(t, Filter({r \in After(t, scan[t].from) : at[r] <= end}),
                    end, IF more THEN end ELSE 0, endpoint.lookups)
      PROVE  ListingShape'
  <2>1. Selected(t, Filter({r \in After(t, scan[t].from) : at[r] <= end}),
                 end, IF more THEN end ELSE 0)
    BY <1>1, <1>3, PageSelected
  <2>2. endpoint.lookups # {} => "events" \in endpoint.lookups
    BY <1>1, EndpointFacts
  <2> QED BY <1>1, <1>3, <2>1, <2>2, LookUpShape
<1> QED BY <1>2, <1>3, QueryIs

LEMMA LookUpStandsShape ==
    ASSUME ListingShape, NEW t \in Tables, LookUpStands(t)
    PROVE  ListingShape'
<1>1. PICK processed \in Batched(DOMAIN batch.kept) :
        LookUp(t, Keep(batch.kept, processed \cap fit), batch.end, batch.last,
               lookup.todo \ {"stands"})
  BY DEF LookUpStands
<1>2. /\ Quiet /\ Running /\ t \in tables /\ scan[t].more
      /\ Selected(t, batch.kept, batch.end, batch.last)
      /\ lookup.todo \subseteq endpoint.lookups /\ "events" \in lookup.todo
      /\ AnswerShape
  BY DEF LookUpStands, Quiet, Running, ListingShape, RequestShape
<1>3. Selected(t, Keep(batch.kept, processed \cap fit), batch.end, batch.last)
  BY <1>2, SelectedLess
<1>4. /\ lookup.todo \ {"stands"} \subseteq endpoint.lookups
      /\ "events" \in lookup.todo \ {"stands"}
  BY <1>2
<1> QED BY <1>1, <1>2, <1>3, <1>4, LookUpShape

\* One attempt of the barrier: what it finds, and the two ways it goes on
FoundBy(processed) == lookup.found \cup PublicOf(processed)
LeftBy(processed) == lookup.pending \ processed
ShownBy(processed) == {r \in Rows : EventOf[r] \in FoundBy(processed)}

BarrierEnds(t, processed) ==
    /\ LookUp(t, Keep(batch.kept, ShownBy(processed)), batch.end, batch.last,
              lookup.todo \ {"events"})
    /\ lost' = lost \cup {r \in DOMAIN batch.kept : EventOf[r] \in LeftBy(processed)}

BarrierGoesOn(processed) ==
    /\ lookup' = [lookup EXCEPT !.found = FoundBy(processed),
                    !.pending = LeftBy(processed), !.attempt = @ + 1]
    /\ UNCHANGED <<step, scan, batch, answers, cursor, lost>>

LEMMA LookUpEventsIs ==
    ASSUME NEW t, LookUpEvents(t)
    PROVE  \E processed \in Batched(lookup.pending) :
             BarrierEnds(t, processed) \/ BarrierGoesOn(processed)
BY DEF LookUpEvents, BarrierEnds, BarrierGoesOn, FoundBy, LeftBy, ShownBy

LEMMA LookUpEventsShape ==
    ASSUME ListingShape, NEW t \in Tables, LookUpEvents(t)
    PROVE  ListingShape'
<1>1. /\ Quiet /\ Running /\ t \in tables /\ scan[t].more /\ step = "lookup"
      /\ Selected(t, batch.kept, batch.end, batch.last)
      /\ lookup.todo \subseteq endpoint.lookups /\ "events" \in lookup.todo
      /\ endpoint \in Endpoints /\ AnswerShape /\ lookup \in LookUps
  BY DEF LookUpEvents, Quiet, Running, ListingShape, RequestShape
<1>2. lookup.todo \ {"events"} = {}
  BY <1>1, EndpointFacts DEF LookUpEvents
<1>3. PICK processed \in Batched(lookup.pending) :
        BarrierEnds(t, processed) \/ BarrierGoesOn(processed)
  BY LookUpEventsIs
<1>4. CASE BarrierEnds(t, processed)
  <2>1. Selected(t, Keep(batch.kept, ShownBy(processed)), batch.end, batch.last)
    BY <1>1, SelectedLess
  <2>2. LookUp(t, Keep(batch.kept, ShownBy(processed)), batch.end, batch.last,
               lookup.todo \ {"events"})
    BY <1>4 DEF BarrierEnds
  <2> QED BY <1>1, <1>2, <2>1, <2>2, LookUpShape
<1>5. CASE BarrierGoesOn(processed)
  <2>1. FoundBy(processed) \in SUBSET Events /\ LeftBy(processed) \in SUBSET Events
    BY <1>1 DEF LookUps, Batched, PublicOf, FoundBy, LeftBy
  <2>2. lookup' \in LookUps /\ lookup'.todo = lookup.todo
    <3>1. lookup' = [todo |-> lookup.todo, pending |-> LeftBy(processed),
                     found |-> FoundBy(processed), attempt |-> lookup.attempt + 1]
      BY <1>1, <1>5 DEF LookUps, BarrierGoesOn
    <3> QED BY <1>1, <2>1, <3>1 DEF LookUps
  <2>3. UNCHANGED <<step, scan, batch, items, size, got, cursor, endpoint, tables>>
    BY <1>1, <1>5 DEF BarrierGoesOn, answers, Quiet
  <2>4. RequestShape'
    BY <2>2, <2>3 DEF ListingShape, RequestShape, Selected
  <2>5. AnswerShape'
    BY <2>3 DEF ListingShape, AnswerShape, Running
  <2>6. TableShape'
    BY <1>1, QuietTable DEF ListingShape
  <2> QED BY <2>4, <2>5, <2>6 DEF ListingShape
<1> QED BY <1>3, <1>4, <1>5

LEMMA AskShape ==
    ASSUME ListingShape, Ask
    PROVE  ListingShape'
<1>1. TableShape'
  BY DEF ListingShape, TableShape, Ask, table, Read
<1>2. RequestShape'
  <2>1. scan' \in [Tables -> [from : 0 .. LastKey, pages : Nat, more : BOOLEAN]]
    <3>1. \A t \in Tables :
            /\ Fresh[t] \in [from : 0 .. LastKey, pages : Nat, more : BOOLEAN]
            /\ cursor \in 0 .. LastKey
      BY FreshShape DEF ListingShape, RequestShape
    <3>2. \A t \in Tables : [Fresh[t] EXCEPT !.from = cursor]
                              \in [from : 0 .. LastKey, pages : Nat, more : BOOLEAN]
      BY <3>1
    <3> QED BY <3>2 DEF Ask
  <2>2. \A t \in Tables : scan'[t].more => t \in tables
    BY FreshShape DEF Ask
  <2> QED BY <2>1, <2>2 DEF Ask, ListingShape, RequestShape
<1>3. AnswerShape'
  BY NothingCollected, Limits DEF Ask, ListingShape, AnswerShape, Running
<1> QED BY <1>1, <1>2, <1>3 DEF ListingShape

LEMMA FailReadShape ==
    ASSUME ListingShape, FailRead
    PROVE  ListingShape'
<1>1. Quiet
  BY DEF FailRead, Quiet
<1>2. TableShape'
  BY <1>1, QuietTable DEF ListingShape
<1>3. RequestShape'
  BY FreshShape DEF FailRead, ListingShape, RequestShape
<1>4. AnswerShape'
  BY NothingCollected, Limits DEF FailRead, ListingShape, AnswerShape, Running
<1> QED BY <1>2, <1>3, <1>4 DEF ListingShape

LEMMA OthersShape ==
    ASSUME ListingShape, Meanwhile, TableShape'
    PROVE  ListingShape'
<1>1. RequestShape'
  BY DEF Meanwhile, ListingShape, RequestShape, Selected, answers
<1>2. AnswerShape'
  BY DEF Meanwhile, ListingShape, AnswerShape, Running, answers
<1> QED BY <1>1, <1>2 DEF ListingShape

LEMMA PlaceShape ==
    ASSUME ListingShape, NEW r \in Rows, NEW key \in 0 .. LastKey, Place(r, key)
    PROVE  ListingShape'
<1>1. TableShape'
  <2>1. \A s \in Rows \ Read : at'[s] = 0
    BY DEF Place, ListingShape, TableShape, Placements
  <2> QED BY <2>1 DEF Place, Meanwhile, ListingShape, TableShape, Read, Placements
<1> QED BY <1>1, OthersShape DEF Place

LEMMA TouchShape ==
    ASSUME ListingShape, NEW r \in Rows, Touch(r)
    PROVE  ListingShape'
<1>1. TableShape'
  BY DEF Touch, Meanwhile, ListingShape, TableShape, Read, Placements
<1> QED BY <1>1, OthersShape DEF Touch

LEMMA HideEventShape ==
    ASSUME ListingShape, NEW e \in Events, HideEvent(e)
    PROVE  ListingShape'
<1>1. TableShape'
  BY DEF HideEvent, Meanwhile, ListingShape, TableShape, Read, Placements
<1> QED BY <1>1, OthersShape DEF HideEvent

LEMMA ShowEventShape ==
    ASSUME ListingShape, NEW e \in Events, ShowEvent(e)
    PROVE  ListingShape'
<1>1. TableShape'
  BY DEF ShowEvent, Meanwhile, ListingShape, TableShape, Read, Placements
<1> QED BY <1>1, OthersShape DEF ShowEvent

LEMMA ListingShapeInit == ListingInit => ListingShape
<1> SUFFICES ASSUME ListingInit PROVE ListingShape
  OBVIOUS
<1>1. endpoint \in Endpoints /\ step = "query" /\ cursor = 0 /\ scan = Fresh
  BY DEF ListingInit
<1>2. tables \subseteq Tables /\ (~endpoint.whole => \E t \in Tables : tables = {t})
  BY DEF ListingInit
<1>3. RequestShape
  BY <1>1, <1>2, FreshShape, Limits DEF RequestShape
<1>4. TableShape
  <2>1. fit \subseteq Read /\ hidden \subseteq Events
    BY DEF ListingInit
  <2> QED BY <2>1 DEF ListingInit, TableShape, Read
<1>5. AnswerShape
  BY <1>1, NothingCollected, Limits DEF ListingInit, AnswerShape, Running
<1> QED BY <1>3, <1>4, <1>5 DEF ListingShape

LEMMA ListingShapeNext == ListingShape /\ [ListingNext]_listing => ListingShape'
<1> SUFFICES ASSUME ListingShape, [ListingNext]_listing PROVE ListingShape'
  OBVIOUS
<1>1. CASE Ask
  BY <1>1, AskShape
<1>2. ASSUME NEW t \in Tables, Query(t) \/ LookUpStands(t) \/ LookUpEvents(t)
      PROVE  ListingShape'
  BY <1>2, QueryShape, LookUpStandsShape, LookUpEventsShape
<1>3. CASE FailRead
  BY <1>3, FailReadShape
<1>4. ASSUME NEW r \in Rows, Touch(r) \/ \E key \in 0 .. LastKey : Place(r, key)
      PROVE  ListingShape'
  BY <1>4, TouchShape, PlaceShape
<1>5. ASSUME NEW e \in Events, HideEvent(e) \/ ShowEvent(e)
      PROVE  ListingShape'
  BY <1>5, HideEventShape, ShowEventShape
<1>6. CASE UNCHANGED listing
  <2>1. Quiet /\ UNCHANGED <<step, cursor, scan, batch, lookup, items, size, got>>
    BY <1>6 DEF listing, answers, Quiet
  <2>2. TableShape'
    BY <2>1, QuietTable DEF ListingShape
  <2>3. RequestShape'
    BY <2>1 DEF ListingShape, RequestShape, Selected, Quiet
  <2>4. AnswerShape'
    BY <2>1 DEF ListingShape, AnswerShape, Running, Quiet
  <2> QED BY <2>2, <2>3, <2>4 DEF ListingShape
<1> QED BY <1>1, <1>2, <1>3, <1>4, <1>5, <1>6 DEF ListingNext, Reader

LEMMA ListingShapeAlways == ListingSpec => []ListingShape
<1>1. ListingShape /\ [ListingNext]_listing => ListingShape'
  BY ListingShapeNext
<1> QED BY <1>1, ListingShapeInit, PTL DEF ListingSpec

\* However pages end and requests are repeated, a list answers at most the rows
\* asked for and an export at most MaxItems: the limit of each query of
\* queryMatchingPage is what the request has room for, and searchPages stops at
\* the match that fills the answer.
THEOREM PagesWithinLimit == ListingSpec => []ListingTypeOK
<1>1. ListingShape => ListingTypeOK
  BY DEF ListingShape, RequestShape, TableShape, AnswerShape, ListingTypeOK
<1> QED BY <1>1, ListingShapeAlways, PTL
-----------------------------------------------------------------------------
(* Listing: nothing of a hidden event *)

\* What Gather collects is of the rows it is given; it looks nothing up.
LEMMA GatherCollects ==
    ASSUME ListingShape, NEW t \in tables, NEW kept, NEW end, NEW last,
           Gather(t, kept, end, last)
    PROVE  /\ step' # "lookup"
           /\ \/ items' = NoRows
              \/ \E some : DOMAIN some \subseteq DOMAIN kept /\ items' = Taken(some)
<1>1. endpoint.shape \in {"page", "search", "matching", "export"}
  BY EndpointFacts DEF ListingShape, RequestShape
<1>2. ASSUME NEW some, NEW next, Reply(t, some, next)
      PROVE  step' # "lookup" /\ items' = Taken(some)
  BY <1>2 DEF Reply, Collect
<1>3. ASSUME ReadOn(t, kept, last)
      PROVE  step' # "lookup" /\ items' = Taken(kept)
  BY <1>3 DEF ReadOn, Collect
<1>4. ASSUME Refuse
      PROVE  step' # "lookup" /\ items' = NoRows
  BY <1>4 DEF Refuse
<1>5. CASE endpoint.shape = "page"
  BY <1>2, <1>5 DEF Gather
<1>6. CASE endpoint.shape = "search"
  <2>1. CASE \E r \in DOMAIN kept : \E next : Reply(t, UpTo(kept, kept[r]), next)
    <3>1. PICK r \in DOMAIN kept : \E next : Reply(t, UpTo(kept, kept[r]), next)
      BY <2>1
    <3>2. DOMAIN UpTo(kept, kept[r]) \subseteq DOMAIN kept
      <4>1. DOMAIN UpTo(kept, kept[r]) = {s \in DOMAIN kept : kept[s] <= kept[r]}
        BY UpToIs, Zenon
      <4> QED BY <4>1
    <3> QED BY <1>2, <3>1, <3>2
  <2>2. CASE Reply(t, kept, 0) \/ ReadOn(t, kept, last)
    BY <1>2, <1>3, <2>2
  <2> QED BY <1>6, <2>1, <2>2 DEF Gather, GatherSearch
<1>7. CASE endpoint.shape = "matching"
  BY <1>2, <1>3, <1>7 DEF Gather, GatherMatching
<1>8. CASE endpoint.shape = "export"
  BY <1>2, <1>3, <1>4, <1>8 DEF Gather, GatherExport
<1> QED BY <1>1, <1>5, <1>6, <1>7, <1>8

LEMMA LookUpHides ==
    ASSUME ListingShape, Unhidden, Quiet, NEW t \in tables,
           NEW kept, NEW end, NEW last, NEW todo, DOMAIN kept \subseteq Rows,
           Barred(endpoint) /\ todo = {}
             => \A r \in DOMAIN kept : EventOf[r] \notin dark,
           LookUp(t, kept, end, last, todo)
    PROVE  Unhidden'
<1>1. UNCHANGED <<endpoint, dark>> /\ (Barred(endpoint)' <=> Barred(endpoint))
  BY DEF Quiet, history, Barred
<1>2. CASE DOMAIN kept = {} \/ todo = {}
  <2>1. /\ step' # "lookup"
        /\ \/ items' = NoRows
           \/ \E some : DOMAIN some \subseteq DOMAIN kept /\ items' = Taken(some)
    BY <1>2, GatherCollects DEF LookUp
  <2>2. ASSUME NEW some, DOMAIN some \subseteq DOMAIN kept, items' = Taken(some),
               Barred(endpoint), NEW r \in Rows, items'[r] > 0
        PROVE  EventOf[r] \notin dark
    <3>1. items[r] > 0 \/ r \in DOMAIN kept
      BY <2>2 DEF Taken, ListingShape, AnswerShape
    <3> QED BY <1>2, <2>2, <3>1 DEF Unhidden
  <2>3. items' = NoRows => \A r \in Rows : ~(items'[r] > 0)
    BY DEF NoRows
  <2> QED BY <1>1, <2>1, <2>2, <2>3 DEF Unhidden
<1>3. CASE ~(DOMAIN kept = {} \/ todo = {})
  <2>1. UNCHANGED items /\ lookup'.found = {}
    BY <1>3 DEF LookUp, answers
  <2> QED BY <1>1, <2>1 DEF Unhidden
<1> QED BY <1>2, <1>3

LEMMA RefuseHides ==
    ASSUME items' = NoRows, step' # "lookup"
    PROVE  Unhidden'
<1>1. \A r \in Rows : ~(items'[r] > 0)
  BY DEF NoRows
<1> QED BY <1>1 DEF Unhidden

LEMMA QueryHides ==
    ASSUME ListingShape, Unhidden, NEW t \in Tables, Query(t)
    PROVE  Unhidden'
<1>1. /\ Quiet /\ Running /\ step = "query"
      /\ t \in tables /\ scan[t].more /\ endpoint \in Endpoints
  BY DEF Query, Quiet, Running, ListingShape, RequestShape
<1>2. CASE Refuse
  BY <1>2, RefuseHides DEF Refuse
<1>3. ASSUME NEW end, NEW more,
             LookUp(t, Filter({r \in After(t, scan[t].from) : at[r] <= end}),
                    end, IF more THEN end ELSE 0, endpoint.lookups)
      PROVE  Unhidden'
  <2>1. DOMAIN Filter({r \in After(t, scan[t].from) : at[r] <= end}) \subseteq Rows
    BY DEF Filter, After
  <2>2. ~(Barred(endpoint) /\ endpoint.lookups = {})
    BY DEF Barred
  <2> QED BY <1>1, <1>3, <2>1, <2>2, LookUpHides
<1> QED BY <1>2, <1>3, QueryIs

LEMMA LookUpStandsHides ==
    ASSUME ListingShape, Unhidden, NEW t \in Tables, LookUpStands(t)
    PROVE  Unhidden'
<1>1. PICK processed \in Batched(DOMAIN batch.kept) :
        LookUp(t, Keep(batch.kept, processed \cap fit), batch.end, batch.last,
               lookup.todo \ {"stands"})
  BY DEF LookUpStands
<1>2. /\ Quiet /\ t \in tables
      /\ Selected(t, batch.kept, batch.end, batch.last)
      /\ "events" \in lookup.todo
  BY DEF LookUpStands, Quiet, ListingShape, RequestShape
<1>3. DOMAIN Keep(batch.kept, processed \cap fit) \subseteq Rows
  <2>1. DOMAIN Keep(batch.kept, processed \cap fit)
          = DOMAIN batch.kept \cap (processed \cap fit)
    BY KeepIs, Zenon
  <2> QED BY <1>2, <2>1 DEF Selected
<1>4. lookup.todo \ {"stands"} # {}
  BY <1>2
<1> QED BY <1>1, <1>2, <1>3, <1>4, LookUpHides

LEMMA LookUpEventsHides ==
    ASSUME ListingShape, Unhidden, NEW t \in Tables, LookUpEvents(t)
    PROVE  Unhidden'
<1>1. /\ Quiet /\ t \in tables /\ step = "lookup"
      /\ Selected(t, batch.kept, batch.end, batch.last)
      /\ dark \subseteq hidden /\ lookup \in LookUps
  BY DEF LookUpEvents, Quiet, ListingShape, RequestShape, TableShape
<1>2. PICK processed \in Batched(lookup.pending) :
        BarrierEnds(t, processed) \/ BarrierGoesOn(processed)
  BY LookUpEventsIs
<1>3. Barred(endpoint) => FoundBy(processed) \cap dark = {}
  BY <1>1 DEF Unhidden, PublicOf, FoundBy
<1>4. CASE BarrierEnds(t, processed)
  <2> DEFINE kept == Keep(batch.kept, ShownBy(processed))
  <2>1. /\ DOMAIN kept = DOMAIN batch.kept \cap ShownBy(processed)
        /\ DOMAIN batch.kept \subseteq Rows
    BY <1>1, KeepIs DEF Selected
  <2>2. DOMAIN kept \subseteq Rows
    BY <2>1
  <2>3. Barred(endpoint) => \A r \in DOMAIN kept : EventOf[r] \notin dark
    BY <1>3, <2>1 DEF ShownBy
  <2>4. LookUp(t, kept, batch.end, batch.last, lookup.todo \ {"events"})
    BY <1>4 DEF BarrierEnds
  <2> HIDE DEF kept
  <2> QED BY <1>1, <2>2, <2>3, <2>4, LookUpHides
<1>5. CASE BarrierGoesOn(processed)
  <2>1. lookup'.found = FoundBy(processed)
    BY <1>1, <1>5 DEF LookUps, BarrierGoesOn
  <2>2. UNCHANGED <<step, items, endpoint, dark>>
    BY <1>1, <1>5 DEF BarrierGoesOn, answers, Quiet, history
  <2> QED BY <1>1, <1>3, <2>1, <2>2 DEF Unhidden, Barred
<1> QED BY <1>2, <1>4, <1>5

LEMMA UnhiddenInit == ListingInit => Unhidden
BY DEF ListingInit, Unhidden, NoRows

LEMMA UnhiddenNext ==
    ListingShape /\ Unhidden /\ [ListingNext]_listing => Unhidden'
<1> SUFFICES ASSUME ListingShape, Unhidden, [ListingNext]_listing
             PROVE  Unhidden'
  OBVIOUS
<1>1. CASE Ask
  BY <1>1, RefuseHides DEF Ask
<1>2. ASSUME NEW t \in Tables, Query(t) \/ LookUpStands(t) \/ LookUpEvents(t)
      PROVE  Unhidden'
  BY <1>2, QueryHides, LookUpStandsHides, LookUpEventsHides
<1>3. CASE FailRead
  <2>1. step' # "lookup" /\ items' = NoRows
    BY <1>3 DEF FailRead
  <2> QED BY <2>1, RefuseHides
<1>4. ASSUME UNCHANGED <<step, items, lookup, endpoint>>, dark' \subseteq dark
      PROVE  Unhidden'
  BY <1>4 DEF Unhidden, Barred
<1>5. ASSUME NEW r \in Rows, Touch(r) \/ \E key \in 0 .. LastKey : Place(r, key)
      PROVE  Unhidden'
  <2>1. UNCHANGED <<step, items, lookup, endpoint>> /\ dark' = dark
    BY <1>5 DEF Touch, Place, Meanwhile, answers
  <2> QED BY <1>4, <2>1
<1>6. ASSUME NEW e \in Events, HideEvent(e) \/ ShowEvent(e)
      PROVE  Unhidden'
  <2>1. UNCHANGED <<step, items, lookup, endpoint>> /\ dark' \subseteq dark
    BY <1>6 DEF HideEvent, ShowEvent, Meanwhile, answers
  <2> QED BY <1>4, <2>1
<1>7. CASE UNCHANGED listing
  <2>1. UNCHANGED <<step, items, lookup, endpoint>> /\ dark' = dark
    BY <1>7 DEF listing, answers, history
  <2> QED BY <1>4, <2>1
<1> QED BY <1>1, <1>2, <1>3, <1>5, <1>6, <1>7 DEF ListingNext, Reader

\* No answer of the global stand reads shows a stand of an event that was hidden
\* before the request and is since: the rows that isPublicStand takes for public
\* by their snapshot pass through loadPublicEvents, which reads the events.
THEOREM HiddenStaysHidden == ListingSpec => []NothingHidden
<1>1. ListingShape /\ Unhidden /\ [ListingNext]_listing => Unhidden'
  BY UnhiddenNext
<1>2. Unhidden => NothingHidden
  BY DEF Unhidden, NothingHidden
<1> QED BY <1>1, <1>2, UnhiddenInit, ListingShapeAlways, PTL DEF ListingSpec
-----------------------------------------------------------------------------
(* Listing: every row once *)

\* A step of the reader takes back no promise and makes none.
LEMMA PromisesKept ==
    ASSUME Quiet, lost \subseteq lost'
    PROVE  /\ Due' = Due /\ steady' = steady /\ at' = at /\ tables' = tables
           /\ \A r : Promised(r)' <=> r \in Due \ lost'
           /\ \A r : Promised(r)' => Promised(r)
BY DEF Quiet, table, history, Due, Promised, Filtered, Barred

\* Where a steady row is, and what that says of its counts
LEMMA RowCounts ==
    ASSUME ListingShape, Paged, Running, NEW t \in tables, scan[t].more,
           NEW r \in steady
    PROVE  /\ r \in Rows /\ at[r] \in Nat /\ got[r] \in Nat /\ items[r] \in Nat
           /\ cursor \in Nat /\ scan[t].from \in Nat /\ cursor <= scan[t].from
           /\ at[r] # 0 => TableOf[r] \in tables
           /\ at[r] \in 1 .. cursor => OnceOf(got[r], Promised(r))
           /\ at[r] \notin 1 .. cursor => got[r] = 0
           /\ cursor < at[r] /\ Behind(r) => OnceOf(items[r], Promised(r))
           /\ ~(cursor < at[r] /\ Behind(r)) => items[r] = 0
           /\ TableOf[r] = t => (Behind(r) <=> at[r] <= scan[t].from)
<1>1. r \in Rows /\ t \in Tables
  BY DEF ListingShape, TableShape, RequestShape
<1>2. at[r] \in Nat /\ got[r] \in Nat /\ items[r] \in Nat
  BY <1>1, Keys DEF ListingShape, AnswerShape
<1>3. cursor \in Nat /\ scan[t].from \in Nat
  BY <1>1, Limits DEF ListingShape, RequestShape
<1>4. at[r] # 0 => TableOf[r] \in tables
  BY <1>1 DEF ListingShape, TableShape, Read
<1>5. step # "done"
  BY DEF Running
<1> QED BY <1>1, <1>2, <1>3, <1>4, <1>5 DEF Paged, Answered, Collected, Behind

\* Rows `some' are what table t has from the last read to the key `next', or to
\* its end if there is no next.
Reaches(t, some, next, gone) ==
    /\ \A r \in steady \cap DOMAIN some :
         /\ TableOf[r] = t /\ scan[t].from < at[r]
         /\ next = 0 \/ at[r] <= next
    /\ \A r \in Due \ gone :
         TableOf[r] = t /\ scan[t].from < at[r] /\ (next = 0 \/ at[r] <= next)
           => r \in DOMAIN some

LEMMA ReplyPaged ==
    ASSUME ListingShape, Paged, Quiet, Running, lost \subseteq lost',
           NEW t \in tables, scan[t].more, NEW some, NEW next \in Nat,
           Reply(t, some, next), Reaches(t, some, next, lost'),
           next # 0 => scan[t].from < next /\ tables = {t},
           next = 0 => \A u \in tables \ {t} : ~scan[u].more
    PROVE  Paged'
<1>1. /\ cursor' = next /\ step' = IF next = 0 THEN "done" ELSE "idle"
      /\ \A r \in Rows : got'[r] = got[r] + Taken(some)[r]
      /\ \A r \in Rows :
           Taken(some)[r] = items[r] + IF r \in DOMAIN some THEN 1 ELSE 0
  BY DEF Reply, Taken
<1>2. ASSUME NEW r \in steady
      PROVE  IF next = 0 \/ at[r] \in 1 .. next
             THEN OnceOf(got'[r], Promised(r)') ELSE got'[r] = 0
  <2> DEFINE from == scan[t].from
  <2>1. /\ r \in Rows /\ at[r] \in Nat /\ got[r] \in Nat /\ items[r] \in Nat
        /\ cursor \in Nat /\ from \in Nat /\ cursor <= from
        /\ at[r] # 0 => TableOf[r] \in tables
        /\ at[r] \in 1 .. cursor => OnceOf(got[r], Promised(r))
        /\ at[r] \notin 1 .. cursor => got[r] = 0
        /\ cursor < at[r] /\ Behind(r) => OnceOf(items[r], Promised(r))
        /\ ~(cursor < at[r] /\ Behind(r)) => items[r] = 0
        /\ TableOf[r] = t => (Behind(r) <=> at[r] <= from)
    BY RowCounts
  <2>2. /\ r \in DOMAIN some => /\ TableOf[r] = t /\ from < at[r]
                                /\ next = 0 \/ at[r] <= next
        /\ r \in Due \ lost' /\ TableOf[r] = t /\ from < at[r]
             /\ (next = 0 \/ at[r] <= next) => r \in DOMAIN some
    BY DEF Reaches
  <2>3. (Promised(r)' <=> r \in Due \ lost') /\ (Promised(r)' => Promised(r))
    BY PromisesKept
  <2>4. r \in Due => at[r] # 0
    BY DEF Due
  <2>5. got'[r] = got[r] + items[r] + IF r \in DOMAIN some THEN 1 ELSE 0
    BY <1>1, <2>1
  <2>6. TableOf[r] \in tables /\ TableOf[r] # t => next = 0 /\ Behind(r)
    BY DEF Behind
  <2> HIDE DEF from
  <2>7. CASE at[r] = 0
    BY <2>1, <2>2, <2>3, <2>4, <2>5, <2>7 DEF OnceOf
  <2>8. CASE at[r] \in 1 .. cursor
    BY <2>1, <2>2, <2>3, <2>5, <2>6, <2>8 DEF OnceOf, from
  <2>9. CASE cursor < at[r] /\ Behind(r)
    BY <2>1, <2>2, <2>3, <2>5, <2>6, <2>9 DEF OnceOf, from
  <2>10. CASE cursor < at[r] /\ ~Behind(r)
    BY <2>1, <2>2, <2>3, <2>5, <2>6, <2>10 DEF OnceOf, from
  <2> QED BY <2>1, <2>7, <2>8, <2>9, <2>10
<1>3. at' = at /\ steady' = steady
  BY PromisesKept
<1>4. Answered'
  BY <1>1, <1>2, <1>3 DEF Answered
<1> QED BY <1>1, <1>4 DEF Paged, Collected, Batching, Running

LEMMA ReadOnPaged ==
    ASSUME ListingShape, Paged, Quiet, Running, lost \subseteq lost',
           NEW t \in tables, scan[t].more, NEW kept, NEW end, NEW last,
           Selected(t, kept, end, last), Complete(t, kept, end, last, lost'),
           ReadOn(t, kept, last)
    PROVE  Paged'
<1> DEFINE from == scan[t].from
<1>1. /\ t \in Tables /\ from \in Nat /\ end \in Nat
      /\ last = 0 \/ (last = end /\ from < last)
  BY Limits DEF ListingShape, RequestShape, Selected
<1>2. /\ scan'[t].from = last /\ (scan'[t].more <=> last # 0)
      /\ \A u \in Tables \ {t} : scan'[u] = scan[u]
      /\ step' = "query" /\ got' = got /\ cursor' = cursor
      /\ \A r \in Rows : items'[r] = items[r] + IF r \in DOMAIN kept THEN 1 ELSE 0
  BY <1>1 DEF ReadOn, Collect, Taken, ListingShape, RequestShape
<1>3. /\ at' = at /\ steady' = steady /\ tables' = tables
      /\ \A r : (Promised(r)' <=> r \in Due \ lost') /\ (Promised(r)' => Promised(r))
  BY PromisesKept
<1>4. ASSUME NEW r \in steady
      PROVE  IF cursor < at[r] /\ Behind(r)' THEN OnceOf(items'[r], Promised(r)')
             ELSE items'[r] = 0
  <2>1. /\ r \in Rows /\ at[r] \in Nat /\ got[r] \in Nat /\ items[r] \in Nat
        /\ cursor \in Nat /\ from \in Nat /\ cursor <= from
        /\ cursor < at[r] /\ Behind(r) => OnceOf(items[r], Promised(r))
        /\ ~(cursor < at[r] /\ Behind(r)) => items[r] = 0
        /\ TableOf[r] = t => (Behind(r) <=> at[r] <= from)
    BY RowCounts
  <2>2. r \in DOMAIN kept => TableOf[r] = t /\ at[r] \in (from + 1) .. end
    BY DEF Selected, Complete
  <2>3. r \in Due \ lost' /\ TableOf[r] = t /\ at[r] \in (from + 1) .. end
          => r \in DOMAIN kept
    BY DEF Complete
  <2>4. last = 0 /\ TableOf[r] = t => at[r] <= end \/ at[r] <= from
    BY DEF Complete
  <2>5. TableOf[r] \in Tables
    BY <2>1, TablesAssumption
  <2>6. CASE TableOf[r] # t
    <3>1. Behind(r)' <=> Behind(r)
      BY <1>2, <1>3, <2>5, <2>6 DEF Behind
    <3> QED BY <1>2, <1>3, <2>1, <2>2, <2>6, <3>1 DEF OnceOf
  <2>7. CASE TableOf[r] = t
    <3>1. Behind(r)' <=> last = 0 \/ at[r] <= last
      BY <1>2, <1>3, <2>7 DEF Behind
    <3>2. items'[r] = items[r] + IF r \in DOMAIN kept THEN 1 ELSE 0
      BY <1>2, <2>1
    <3> HIDE DEF from
    <3>3. CASE ~(cursor < at[r])
      BY <1>1, <1>3, <2>1, <2>2, <2>7, <3>1, <3>2, <3>3
    <3>4. CASE cursor < at[r] /\ at[r] <= from
      BY <1>1, <1>3, <2>1, <2>2, <2>7, <3>1, <3>2, <3>4 DEF OnceOf
    <3>5. CASE cursor < at[r] /\ ~(at[r] <= from)
      BY <1>1, <1>3, <2>1, <2>2, <2>3, <2>4, <2>7, <3>1, <3>2, <3>5 DEF OnceOf
    <3> QED BY <3>3, <3>4, <3>5
  <2> QED BY <2>6, <2>7
<1>5. \A u \in tables' : scan'[u].more => cursor' <= scan'[u].from
  <2>1. \A u \in tables : u \in Tables /\ (scan[u].more => cursor <= scan[u].from)
    BY DEF Paged, Collected, ListingShape, RequestShape
  <2>2. cursor \in Nat
    BY Limits DEF ListingShape, RequestShape
  <2> QED BY <1>1, <1>2, <1>3, <2>1, <2>2
<1>6. Collected'
  BY <1>2, <1>3, <1>4, <1>5 DEF Collected
<1>7. Answered'
  <2>1. \A r \in steady : IF at[r] \in 1 .. cursor
                          THEN OnceOf(got[r], Promised(r)) ELSE got[r] = 0
    BY DEF Paged, Answered, Running
  <2>2. \A r \in steady : IF at[r] \in 1 .. cursor
                          THEN OnceOf(got[r], Promised(r)') ELSE got[r] = 0
    BY <1>3, <2>1 DEF OnceOf
  <2> QED BY <1>2, <1>3, <2>2 DEF Answered
<1> QED BY <1>2, <1>6, <1>7 DEF Paged, Batching

\* A refused request, and one that failed, has added nothing to the listing.
LEMMA DropPaged ==
    ASSUME Paged, Quiet, Running, lost \subseteq lost',
           step' \in {"idle", "refused"}, UNCHANGED <<got, cursor>>
    PROVE  Paged'
<1>1. /\ at' = at /\ steady' = steady
      /\ \A r : Promised(r)' => Promised(r)
  BY PromisesKept
<1>2. \A r \in steady : IF at[r] \in 1 .. cursor
                        THEN OnceOf(got[r], Promised(r)) ELSE got[r] = 0
  BY DEF Paged, Answered, Running
<1>3. \A r \in steady : IF at[r] \in 1 .. cursor
                        THEN OnceOf(got[r], Promised(r)') ELSE got[r] = 0
  BY <1>1, <1>2 DEF OnceOf
<1>4. Answered'
  BY <1>1, <1>3 DEF Answered
<1> QED BY <1>4 DEF Paged, Collected, Batching, Running

LEMMA WholeReaches ==
    ASSUME ListingShape, NEW t \in tables, NEW kept, NEW end, NEW last, NEW gone,
           Selected(t, kept, end, last), Complete(t, kept, end, last, gone)
    PROVE  Reaches(t, kept, last, gone)
<1> DEFINE from == scan[t].from
<1>1. /\ from \in Nat /\ end \in Nat
      /\ last = 0 \/ (last = end /\ from < last)
  BY Limits DEF ListingShape, RequestShape, Selected
<1>2. \A r \in steady : r \in Rows /\ at[r] \in Nat
  BY Keys DEF ListingShape, TableShape
<1>3. \A r \in steady \cap DOMAIN kept :
        TableOf[r] = t /\ at[r] \in (from + 1) .. end
  BY DEF Selected, Complete
<1>4. ASSUME NEW r \in Due \ gone, TableOf[r] = t, from < at[r],
             last = 0 \/ at[r] <= last
      PROVE  r \in DOMAIN kept
  <2>1. r \in steady
    BY DEF Due
  <2>2. at[r] <= end
    BY <1>1, <1>2, <1>4, <2>1 DEF Complete
  <2>3. at[r] \in (from + 1) .. end
    BY <1>1, <1>2, <1>4, <2>1, <2>2
  <2> QED BY <1>4, <2>3 DEF Complete
<1> QED BY <1>1, <1>2, <1>3, <1>4 DEF Reaches

\* The match that fills the answer of a search is where the answer reaches.
LEMMA FirstReaches ==
    ASSUME ListingShape, NEW t \in tables, NEW kept, NEW end, NEW last, NEW gone,
           Selected(t, kept, end, last), Complete(t, kept, end, last, gone),
           NEW s \in DOMAIN kept, NEW next,
           next = IF kept[s] # end \/ last # 0 THEN kept[s] ELSE 0
    PROVE  /\ Reaches(t, UpTo(kept, kept[s]), next, gone)
           /\ next \in Nat /\ (next # 0 => scan[t].from < next)
<1> DEFINE from == scan[t].from
<1>1. from \in Nat /\ end \in Nat /\ kept[s] \in (from + 1) .. end
  BY Limits DEF ListingShape, RequestShape, Selected
<1>2. DOMAIN UpTo(kept, kept[s]) = {r \in DOMAIN kept : kept[r] <= kept[s]}
  BY UpToIs, Zenon
<1>3. Reaches(t, kept, last, gone)
  BY WholeReaches
<1>4. \A r \in steady \cap DOMAIN kept :
        TableOf[r] = t /\ kept[r] = at[r] /\ at[r] \in (from + 1) .. end
  BY DEF Selected, Complete
<1>5. \A r \in steady : at[r] \in Nat
  BY Keys DEF ListingShape, TableShape
<1>6. ASSUME NEW r \in steady \cap DOMAIN UpTo(kept, kept[s])
      PROVE  TableOf[r] = t /\ from < at[r] /\ (next = 0 \/ at[r] <= next)
  BY <1>1, <1>2, <1>4
<1>7. ASSUME NEW r \in Due \ gone, TableOf[r] = t, from < at[r],
             next = 0 \/ at[r] <= next
      PROVE  r \in DOMAIN UpTo(kept, kept[s])
  <2>1. r \in steady
    BY DEF Due
  <2>2. last = 0 \/ last = end
    BY DEF Selected
  <2>3. r \in DOMAIN kept
    BY <1>1, <1>3, <1>5, <1>7, <2>1, <2>2 DEF Reaches
  <2>4. kept[r] = at[r] /\ at[r] <= end
    BY <1>1, <1>4, <2>1, <2>3
  <2>5. at[r] <= kept[s]
    BY <1>1, <1>7, <2>4
  <2> QED BY <1>2, <2>3, <2>4, <2>5
<1>8. next \in Nat /\ (next # 0 => from < next)
  BY <1>1
<1>9. Reaches(t, UpTo(kept, kept[s]), next, gone)
  BY <1>6, <1>7 DEF Reaches
<1> QED BY <1>8, <1>9

LEMMA GatherPaged ==
    ASSUME ListingShape, Paged, Quiet, Running, lost \subseteq lost',
           NEW t \in tables, scan[t].more, NEW kept, NEW end, NEW last,
           Selected(t, kept, end, last), Complete(t, kept, end, last, lost'),
           Gather(t, kept, end, last)
    PROVE  Paged'
<1>1. /\ endpoint.shape \in {"page", "search", "matching", "export"}
      /\ endpoint.shape # "export" => tables = {t}
  BY EndpointFacts DEF ListingShape, RequestShape
<1>2. /\ Reaches(t, kept, last, lost')
      /\ last \in Nat /\ 0 \in Nat /\ (last # 0 => scan[t].from < last)
  BY WholeReaches, Limits DEF Selected
<1>3. CASE Reply(t, kept, last) /\ tables = {t}
  BY <1>2, <1>3, ReplyPaged
<1>4. CASE ReadOn(t, kept, last)
  BY <1>4, ReadOnPaged
<1>5. CASE Reply(t, kept, 0) /\ last = 0 /\ \A u \in tables \ {t} : ~scan[u].more
  BY <1>2, <1>5, ReplyPaged
<1>6. CASE Refuse
  BY <1>6, DropPaged DEF Refuse
<1>7. CASE endpoint.shape = "page"
  BY <1>1, <1>3, <1>7 DEF Gather
<1>8. CASE endpoint.shape = "search"
  <2>1. GatherSearch(t, kept, end, last)
    BY <1>8 DEF Gather
  <2>2. CASE Cardinality(DOMAIN kept) >= Missing(t)
    <3>1. PICK s \in DOMAIN kept :
            Reply(t, UpTo(kept, kept[s]),
                  IF kept[s] # end \/ last # 0 THEN kept[s] ELSE 0)
      BY <2>1, <2>2 DEF GatherSearch
    <3>2. PICK next : next = IF kept[s] # end \/ last # 0 THEN kept[s] ELSE 0
      OBVIOUS
    <3>3. Reply(t, UpTo(kept, kept[s]), next)
      BY <3>1, <3>2
    <3>4. /\ Reaches(t, UpTo(kept, kept[s]), next, lost')
          /\ next \in Nat /\ (next # 0 => scan[t].from < next)
      BY <3>2, FirstReaches
    <3> QED BY <1>1, <1>8, <3>3, <3>4, ReplyPaged
  <2>3. CASE ~(Cardinality(DOMAIN kept) >= Missing(t))
    BY <1>1, <1>4, <1>5, <1>8, <2>1, <2>3 DEF GatherSearch
  <2> QED BY <2>2, <2>3
<1>9. CASE endpoint.shape = "matching"
  BY <1>1, <1>3, <1>4, <1>9 DEF Gather, GatherMatching
<1>10. CASE endpoint.shape = "export"
  <2>1. GatherExport(t, kept, last)
    BY <1>10 DEF Gather
  <2>2. tables \subseteq Tables
    BY DEF ListingShape, RequestShape
  <2> QED BY <1>4, <1>5, <1>6, <2>1, <2>2 DEF GatherExport
<1> QED BY <1>1, <1>7, <1>8, <1>9, <1>10

LEMMA LookUpPaged ==
    ASSUME ListingShape, Paged, Quiet, Running, lost \subseteq lost',
           NEW t \in tables, scan[t].more, NEW kept, NEW end, NEW last,
           Selected(t, kept, end, last), Complete(t, kept, end, last, lost'),
           NEW todo, todo \subseteq endpoint.lookups,
           LookUp(t, kept, end, last, todo)
    PROVE  Paged'
<1>1. CASE DOMAIN kept = {} \/ todo = {}
  BY <1>1, GatherPaged DEF LookUp
<1>2. CASE ~(DOMAIN kept = {} \/ todo = {})
  <2>1. /\ step' = "lookup"
        /\ batch'.kept = kept /\ batch'.end = end /\ batch'.last = last
        /\ lookup'.pending = EventsOf(kept)
        /\ UNCHANGED <<scan, items, got, cursor>>
    BY <1>2 DEF LookUp, answers
  <2>2. tables = {t}
    <3>1. endpoint \in Endpoints /\ endpoint.lookups # {}
      BY <1>2 DEF ListingShape, RequestShape
    <3> QED BY <3>1, EndpointFacts DEF ListingShape, RequestShape
  <2>3. /\ at' = at /\ steady' = steady /\ tables' = tables /\ Due' = Due
        /\ \A r : Promised(r)' => Promised(r)
    BY PromisesKept
  <2>4. Answered'
    <3>1. \A r \in steady : IF at[r] \in 1 .. cursor
                            THEN OnceOf(got[r], Promised(r)) ELSE got[r] = 0
      BY DEF Paged, Answered, Running
    <3>2. \A r \in steady : IF at[r] \in 1 .. cursor
                            THEN OnceOf(got[r], Promised(r)') ELSE got[r] = 0
      BY <2>3, <3>1 DEF OnceOf
    <3> QED BY <2>1, <2>3, <3>2 DEF Answered
  <2>5. Collected'
    <3>1. \A r : Behind(r)' <=> Behind(r)
      BY <2>1, <2>3 DEF Behind
    <3>2. \A r \in steady :
            IF cursor < at[r] /\ Behind(r) THEN OnceOf(items[r], Promised(r))
            ELSE items[r] = 0
      BY DEF Paged, Collected
    <3>3. \A r \in steady :
            IF cursor < at[r] /\ Behind(r)' THEN OnceOf(items[r], Promised(r)')
            ELSE items[r] = 0
      BY <2>3, <3>1, <3>2 DEF OnceOf
    <3>4. \A u \in tables : scan[u].more => cursor <= scan[u].from
      BY DEF Paged, Collected
    <3> QED BY <2>1, <2>3, <3>3, <3>4 DEF Collected
  <2>6. Complete(t, kept, end, last, lost)'
    BY <2>1, <2>3 DEF Complete
  <2>7. Batching'
    BY <2>1, <2>2, <2>3, <2>6 DEF Batching, EventsOf, Complete
  <2> QED BY <2>4, <2>5, <2>7 DEF Paged
<1> QED BY <1>1, <1>2

LEMMA QueryPaged ==
    ASSUME ListingShape, Paged, NEW t \in Tables, Query(t)
    PROVE  Paged'
<1>1. /\ Quiet /\ Running /\ step = "query" /\ lost' = lost
      /\ t \in tables /\ scan[t].more /\ TableShape
  BY DEF Query, Quiet, Running, ListingShape, RequestShape
<1>2. CASE Refuse
  BY <1>1, <1>2, DropPaged DEF Refuse
<1>3. ASSUME NEW end, NEW more, PageOf(t, end, more),
             LookUp(t, Filter({r \in After(t, scan[t].from) : at[r] <= end}),
                    end, IF more THEN end ELSE 0, endpoint.lookups)
      PROVE  Paged'
  <2> DEFINE from == scan[t].from
             ahead == After(t, from)
             read == {r \in ahead : at[r] <= end}
             kept == Filter(read)
             last == IF more THEN end ELSE 0
  <2>1. Selected(t, kept, end, last)
    BY <1>1, <1>3, PageSelected
  <2>2. /\ DOMAIN kept = {r \in read : endpoint.filters => r \in fit}
        /\ \A r \in DOMAIN kept : kept[r] = at[r]
    BY FilterIs
  <2>3. from \in Nat /\ end \in Nat /\ \A r \in Rows : at[r] \in Nat
    BY <1>1, <2>1, Keys, Limits DEF ListingShape, RequestShape, Selected
  <2>4. \A r \in steady : r \in Rows
    BY <1>1 DEF TableShape
  <2>5. ASSUME NEW r \in Due, TableOf[r] = t, at[r] \in (from + 1) .. end
        PROVE  r \in DOMAIN kept
    <3>1. r \in read
      BY <2>3, <2>4, <2>5 DEF After, Due
    <3>2. endpoint.filters => r \in fit
      BY DEF Due, Filtered
    <3> QED BY <2>2, <3>1, <3>2
  <2>6. ASSUME last = 0, NEW r \in steady, TableOf[r] = t
        PROVE  at[r] <= end \/ at[r] <= from
    <3>1. ahead = {} \/ read = ahead
      BY <1>3, <2>6 DEF PageOf
    <3>2. r \in ahead \/ at[r] <= from
      BY <2>3, <2>4, <2>6 DEF After
    <3> QED BY <3>1, <3>2
  <2>7. Complete(t, kept, end, last, lost')
    <3> HIDE DEF kept, last
    <3> QED BY <2>2, <2>5, <2>6 DEF Complete, from
  <2> HIDE DEF kept, last
  <2>8. LookUp(t, kept, end, last, endpoint.lookups)
    BY <1>3 DEF kept, last
  <2> QED BY <1>1, <2>1, <2>7, <2>8, LookUpPaged
<1> QED BY <1>2, <1>3, QueryIs

LEMMA LookUpStandsPaged ==
    ASSUME ListingShape, Paged, NEW t \in Tables, LookUpStands(t)
    PROVE  Paged'
<1>1. PICK processed \in Batched(DOMAIN batch.kept) :
        /\ LookUp(t, Keep(batch.kept, processed \cap fit), batch.end, batch.last,
                  lookup.todo \ {"stands"})
        /\ lost' = lost \cup (DOMAIN batch.kept \ processed)
  BY DEF LookUpStands
<1>2. /\ Quiet /\ Running /\ t \in tables /\ scan[t].more /\ step = "lookup"
      /\ Selected(t, batch.kept, batch.end, batch.last)
      /\ "stands" \in lookup.todo
      /\ lookup.todo \subseteq endpoint.lookups
      /\ Complete(t, batch.kept, batch.end, batch.last, lost)
      /\ AnswerShape
  BY DEF LookUpStands, Quiet, Running, ListingShape, RequestShape, Paged, Batching
<1> DEFINE kept == Keep(batch.kept, processed \cap fit)
<1>3. /\ DOMAIN kept = DOMAIN batch.kept \cap (processed \cap fit)
      /\ \A r \in DOMAIN kept : kept[r] = batch.kept[r]
  BY KeepIs
<1>4. Selected(t, kept, batch.end, batch.last)
  BY <1>2, SelectedLess
<1>5. \A r \in Due : r \in fit
  BY <1>2 DEF Due, Filtered
<1> HIDE DEF kept
<1>6. Complete(t, kept, batch.end, batch.last, lost')
  BY <1>1, <1>2, <1>3, <1>5 DEF Complete
<1>7. LookUp(t, kept, batch.end, batch.last, lookup.todo \ {"stands"})
  BY <1>1 DEF kept
<1>8. lookup.todo \ {"stands"} \subseteq endpoint.lookups /\ lost \subseteq lost'
  BY <1>1, <1>2
<1> QED BY <1>2, <1>4, <1>6, <1>7, <1>8, LookUpPaged

LEMMA LookUpEventsPaged ==
    ASSUME ListingShape, Paged, NEW t \in Tables, LookUpEvents(t)
    PROVE  Paged'
<1>1. /\ Quiet /\ Running /\ t \in tables /\ scan[t].more /\ step = "lookup"
      /\ Selected(t, batch.kept, batch.end, batch.last)
      /\ lookup.todo \subseteq endpoint.lookups /\ "events" \in lookup.todo
      /\ Complete(t, batch.kept, batch.end, batch.last, lost)
      /\ EventsOf(batch.kept) \cap lit \subseteq lookup.pending \cup lookup.found
      /\ AnswerShape /\ lit \cap hidden = {} /\ lookup \in LookUps
  BY DEF LookUpEvents, Quiet, Running, ListingShape, RequestShape, Paged,
         Batching, TableShape
<1>2. PICK processed \in Batched(lookup.pending) :
        BarrierEnds(t, processed) \/ BarrierGoesOn(processed)
  BY LookUpEventsIs
\* An event that was public all along was found so, or not processed.
<1>3. EventsOf(batch.kept) \cap lit \subseteq LeftBy(processed) \cup FoundBy(processed)
  BY <1>1 DEF PublicOf, LeftBy, FoundBy
<1>4. CASE BarrierEnds(t, processed)
  <2> DEFINE kept == Keep(batch.kept, ShownBy(processed))
  <2>1. /\ DOMAIN kept = DOMAIN batch.kept \cap ShownBy(processed)
        /\ \A r \in DOMAIN kept : kept[r] = batch.kept[r]
    BY KeepIs
  <2>2. Selected(t, kept, batch.end, batch.last)
    BY <1>1, SelectedLess
  <2>3. ASSUME NEW r \in Due \ lost', r \in DOMAIN batch.kept
        PROVE  r \in ShownBy(processed)
    <3>1. r \in Rows
      BY <1>1, <2>3 DEF Selected
    <3>2. EventOf[r] \in lit
      <4>1. Barred(endpoint)
        BY <1>1 DEF Barred
      <4> QED BY <4>1 DEF Due
    <3>3. EventOf[r] \in LeftBy(processed) \cup FoundBy(processed)
      BY <1>3, <2>3, <3>2 DEF EventsOf
    <3>4. EventOf[r] \notin LeftBy(processed)
      BY <1>4, <2>3 DEF BarrierEnds
    <3> QED BY <3>1, <3>3, <3>4 DEF ShownBy
  <2> HIDE DEF kept
  <2>4. lost \subseteq lost'
    BY <1>4 DEF BarrierEnds
  <2>5. Complete(t, kept, batch.end, batch.last, lost')
    BY <1>1, <2>1, <2>3, <2>4 DEF Complete
  <2>6. LookUp(t, kept, batch.end, batch.last, lookup.todo \ {"events"})
    BY <1>4 DEF BarrierEnds, kept
  <2>7. lookup.todo \ {"events"} \subseteq endpoint.lookups
    BY <1>1
  <2> QED BY <1>1, <2>2, <2>4, <2>5, <2>6, <2>7, LookUpPaged
<1>5. CASE BarrierGoesOn(processed)
  <2>1. UNCHANGED <<step, scan, batch, items, got, cursor, lost>>
    BY <1>5 DEF BarrierGoesOn, answers
  <2>2. at' = at /\ steady' = steady /\ tables' = tables /\ Due' = Due /\ lit' = lit
    BY <1>1, <2>1, PromisesKept DEF Quiet, history
  <2>3. Answered'
    BY <2>1, <2>2 DEF Paged, Answered, Promised, OnceOf
  <2>4. Collected'
    BY <2>1, <2>2 DEF Paged, Collected, Promised, OnceOf, Running, Behind
  <2>5. lookup'.pending \cup lookup'.found = LeftBy(processed) \cup FoundBy(processed)
    BY <1>1, <1>5 DEF LookUps, BarrierGoesOn
  <2>6. Batching'
    <3>1. \A u \in tables : Complete(u, batch.kept, batch.end, batch.last, lost)
      BY <1>1 DEF Paged, Batching
    <3>2. \A u \in tables' : Complete(u, batch.kept, batch.end, batch.last, lost)'
      BY <2>1, <2>2, <3>1 DEF Complete
    <3> QED BY <1>3, <2>1, <2>2, <2>5, <3>2 DEF Batching, EventsOf
  <2> QED BY <2>3, <2>4, <2>6 DEF Paged
<1> QED BY <1>2, <1>4, <1>5

\* What others write makes rows unsteady, and nothing else of the listing.
LEMMA OthersPaged ==
    ASSUME ListingShape, Paged, Meanwhile,
           steady' \subseteq steady, lit' \subseteq lit, Due' \subseteq Due,
           \A r \in steady' : at'[r] = at[r]
    PROVE  Paged'
<1>1. UNCHANGED <<endpoint, tables, step, cursor, scan, batch, lookup, items, got, lost>>
  BY DEF Meanwhile, answers
<1>2. \A r : Promised(r)' => Promised(r)
  BY <1>1 DEF Promised
<1>3. Due' \subseteq steady'
  BY DEF Due
<1>4. Answered'
  <2>1. CASE step = "done"
    <3>1. \A r \in steady : OnceOf(got[r], Promised(r))
      BY <2>1 DEF Paged, Answered
    <3>2. \A r \in steady' : OnceOf(got[r], Promised(r)')
      BY <1>2, <3>1 DEF OnceOf
    <3> QED BY <1>1, <2>1, <3>2 DEF Answered
  <2>2. CASE step # "done"
    <3>1. \A r \in steady : IF at[r] \in 1 .. cursor
                            THEN OnceOf(got[r], Promised(r)) ELSE got[r] = 0
      BY <2>2 DEF Paged, Answered
    <3>2. \A r \in steady' : IF at'[r] \in 1 .. cursor
                             THEN OnceOf(got[r], Promised(r)') ELSE got[r] = 0
      BY <1>2, <3>1 DEF OnceOf
    <3> QED BY <1>1, <2>2, <3>2 DEF Answered
  <2> QED BY <2>1, <2>2
<1>5. Collected'
  <2> SUFFICES ASSUME Running PROVE Collected'
    BY <1>1 DEF Collected, Running
  <2>1. \A r \in steady' : Behind(r)' <=> Behind(r)
    BY <1>1 DEF Behind
  <2>2. \A r \in steady :
          IF cursor < at[r] /\ Behind(r) THEN OnceOf(items[r], Promised(r))
          ELSE items[r] = 0
    BY DEF Paged, Collected
  <2>3. \A r \in steady' :
          IF cursor < at'[r] /\ Behind(r)' THEN OnceOf(items[r], Promised(r)')
          ELSE items[r] = 0
    BY <1>2, <2>1, <2>2 DEF OnceOf
  <2>4. \A t \in tables : scan[t].more => cursor <= scan[t].from
    BY DEF Paged, Collected
  <2> QED BY <1>1, <2>3, <2>4 DEF Collected
<1>6. Batching'
  <2> SUFFICES ASSUME step = "lookup" PROVE Batching'
    BY <1>1 DEF Batching
  <2>1. \A t \in tables : Complete(t, batch.kept, batch.end, batch.last, lost)
    BY DEF Paged, Batching
  <2>2. \A t \in tables : Complete(t, batch.kept, batch.end, batch.last, lost)'
    BY <1>1, <1>3, <2>1 DEF Complete
  <2>3. EventsOf(batch.kept)' \cap lit' \subseteq lookup.pending \cup lookup.found
    BY <1>1 DEF Paged, Batching, EventsOf
  <2> QED BY <1>1, <2>2, <2>3 DEF Batching
<1> QED BY <1>4, <1>5, <1>6 DEF Paged

LEMMA PlacePaged ==
    ASSUME ListingShape, Paged, NEW r \in Rows, NEW key \in 0 .. LastKey,
           Place(r, key)
    PROVE  Paged'
<1>1. /\ Meanwhile /\ steady' = steady \ {r} /\ steady \subseteq Rows
      /\ UNCHANGED <<fit, lit, endpoint>>
      /\ \A s \in Rows \ {r} : at'[s] = at[s]
  BY DEF Place, Meanwhile, ListingShape, TableShape, Placements
<1>2. Due' \subseteq Due
  BY <1>1 DEF Due, Filtered, Barred
<1>3. \A s \in steady' : at'[s] = at[s]
  BY <1>1
<1>4. steady' \subseteq steady /\ lit' \subseteq lit
  BY <1>1
<1> QED BY <1>1, <1>2, <1>3, <1>4, OthersPaged

LEMMA TouchPaged ==
    ASSUME ListingShape, Paged, NEW r \in Rows, Touch(r)
    PROVE  Paged'
<1>1. /\ Meanwhile /\ steady' = steady \ {r} /\ UNCHANGED <<at, lit, endpoint>>
      /\ \A s \in Rows \ {r} : s \in fit' => s \in fit
      /\ steady \subseteq Rows
  BY DEF Touch, Meanwhile, ListingShape, TableShape
<1>2. Due' \subseteq Due
  BY <1>1 DEF Due, Filtered, Barred
<1>3. steady' \subseteq steady /\ lit' \subseteq lit /\ \A s \in steady' : at'[s] = at[s]
  BY <1>1
<1> QED BY <1>1, <1>2, <1>3, OthersPaged

LEMMA EventPaged ==
    ASSUME ListingShape, Paged, NEW e \in Events, HideEvent(e) \/ ShowEvent(e)
    PROVE  Paged'
<1>1. /\ Meanwhile /\ lit' \subseteq lit /\ UNCHANGED <<at, fit, steady, endpoint>>
  BY DEF HideEvent, ShowEvent, Meanwhile
<1>2. Due' \subseteq Due
  BY <1>1 DEF Due, Filtered, Barred
<1>3. steady' \subseteq steady /\ \A s \in steady' : at'[s] = at[s]
  BY <1>1
<1> QED BY <1>1, <1>2, <1>3, OthersPaged

LEMMA AskPaged ==
    ASSUME ListingShape, Paged, Ask
    PROVE  Paged'
<1>1. /\ UNCHANGED <<at, fit, hidden, endpoint, tables, cursor, got, steady, lit, lost>>
      /\ step = "idle" /\ step' = "query" /\ items' = NoRows
      /\ \A t \in Tables : scan'[t].from = cursor /\ scan'[t].more = Fresh[t].more
  <2>1. \A t \in Tables :
          Fresh[t] \in [from : 0 .. LastKey, pages : Nat, more : BOOLEAN]
    BY FreshShape
  <2> QED BY <2>1 DEF Ask, table
<1>2. /\ Due' = Due /\ \A r : Promised(r)' <=> Promised(r)
  BY <1>1 DEF Due, Promised, Filtered, Barred
<1>3. Answered'
  BY <1>1, <1>2 DEF Paged, Answered, OnceOf
<1>4. \A r \in steady : ~(cursor < at[r] /\ Behind(r)') /\ items'[r] = 0
  <2>1. \A r \in steady : r \in Rows /\ TableOf[r] \in Tables /\ at[r] \in Nat
    BY TablesAssumption, Keys DEF ListingShape, TableShape
  <2>2. \A r \in steady : at[r] # 0 => TableOf[r] \in tables
    BY <2>1 DEF ListingShape, TableShape, Read
  <2>3. \A t \in tables : Fresh[t].more
    BY DEF Fresh, ListingShape, RequestShape
  <2>4. cursor \in Nat
    BY Limits DEF ListingShape, RequestShape
  <2>5. \A r \in steady : items'[r] = 0
    BY <1>1, <2>1 DEF NoRows
  <2>6. \A r \in steady : cursor < at[r] => ~Behind(r)'
    BY <1>1, <2>1, <2>2, <2>3, <2>4 DEF Behind
  <2> QED BY <2>5, <2>6
<1>5. \A t \in tables : cursor <= scan'[t].from
  BY <1>1, Limits DEF ListingShape, RequestShape
<1>6. Collected'
  BY <1>1, <1>4, <1>5 DEF Collected
<1> QED BY <1>1, <1>3, <1>6 DEF Paged, Batching

LEMMA PagedInit == ListingInit => Paged
<1> SUFFICES ASSUME ListingInit PROVE Paged
  OBVIOUS
<1>1. /\ ListingShape /\ step = "query" /\ cursor = 0 /\ scan = Fresh
      /\ items = NoRows /\ got = NoRows
  BY ListingShapeInit DEF ListingInit
<1>2. \A r \in steady : r \in Rows /\ TableOf[r] \in Tables /\ at[r] \in Nat
  BY <1>1, TablesAssumption, Keys DEF ListingShape, TableShape
<1>3. \A r \in steady : at[r] # 0 => TableOf[r] \in tables
  BY <1>1, <1>2 DEF ListingShape, TableShape, Read
<1>4. \A t \in tables : Fresh[t].more /\ Fresh[t].from = 0
  BY <1>1 DEF Fresh, ListingShape, RequestShape
<1>5. \A r \in steady : got[r] = 0 /\ items[r] = 0
  BY <1>1, <1>2 DEF NoRows
<1>6. \A r \in steady : ~(cursor < at[r] /\ Behind(r))
  BY <1>1, <1>2, <1>3, <1>4 DEF Behind
<1>7. Collected
  BY <1>1, <1>4, <1>5, <1>6 DEF Collected
<1>8. Answered
  BY <1>1, <1>5 DEF Answered
<1> QED BY <1>1, <1>7, <1>8 DEF Paged, Batching

LEMMA PagedNext == ListingShape /\ Paged /\ [ListingNext]_listing => Paged'
<1> SUFFICES ASSUME ListingShape, Paged, [ListingNext]_listing PROVE Paged'
  OBVIOUS
<1>1. CASE Ask
  BY <1>1, AskPaged
<1>2. ASSUME NEW t \in Tables, Query(t) \/ LookUpStands(t) \/ LookUpEvents(t)
      PROVE  Paged'
  BY <1>2, QueryPaged, LookUpStandsPaged, LookUpEventsPaged
<1>3. CASE FailRead
  <2>1. /\ Quiet /\ Running /\ lost' = lost /\ step' \in {"idle", "refused"}
        /\ UNCHANGED <<got, cursor>>
    BY <1>3 DEF FailRead, Quiet, Running
  <2> QED BY <2>1, DropPaged
<1>4. ASSUME NEW r \in Rows, Touch(r) \/ \E key \in 0 .. LastKey : Place(r, key)
      PROVE  Paged'
  BY <1>4, TouchPaged, PlacePaged
<1>5. ASSUME NEW e \in Events, HideEvent(e) \/ ShowEvent(e)
      PROVE  Paged'
  BY <1>5, EventPaged
<1>6. CASE UNCHANGED listing
  <2>1. UNCHANGED <<at, fit, hidden, endpoint, tables, step, cursor, scan, batch,
                    lookup, items, got, steady, lit, lost>>
    BY <1>6 DEF listing, table, answers, history
  <2>2. Due' = Due
    BY <2>1 DEF Due, Filtered, Barred
  <2>3. Answered'
    BY <2>1, <2>2 DEF Paged, Answered, Promised, OnceOf
  <2>4. Collected'
    BY <2>1, <2>2 DEF Paged, Collected, Promised, OnceOf, Running, Behind
  <2>5. Batching'
    BY <2>1, <2>2 DEF Paged, Batching, Complete, EventsOf
  <2> QED BY <2>3, <2>4, <2>5 DEF Paged
<1> QED BY <1>1, <1>2, <1>3, <1>4, <1>5, <1>6 DEF ListingNext, Reader

\* Whoever follows the cursors to the end of a list, or takes an export, gets
\* every row that was in place all along once, unless its lookup was given up:
\* the cursor is the key of the last row answered, and each query begins where
\* the one before it ended, so what others publish, move or hide meanwhile
\* neither repeats a row nor skips it.
THEOREM EveryRowOnce == ListingSpec => []StableRowsOnce
<1>1. ListingShape /\ Paged /\ [ListingNext]_listing => Paged'
  BY PagedNext
<1>2. ListingShape /\ Paged => StableRowsOnce
  <2> SUFFICES ASSUME ListingShape, Paged PROVE StableRowsOnce
    OBVIOUS
  <2>1. \A r \in steady : got[r] <= 1
    BY DEF Paged, Answered, OnceOf
  <2>2. step = "done" => \A r \in Due \ lost : got[r] = 1
    BY DEF Paged, Answered, OnceOf, Promised, Due
  <2> QED BY <2>1, <2>2 DEF StableRowsOnce
<1> QED BY <1>1, <1>2, PagedInit, ListingShapeAlways, PTL DEF ListingSpec
=============================================================================
