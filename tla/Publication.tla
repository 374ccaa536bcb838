----------------------------- MODULE Publication -----------------------------
(***************************************************************************)
(* One event and its stands: publication page by page with a checkpoint,   *)
(* archiving, edits and moderation (events/index.js), the exhibitor's own  *)
(* edits (exhibitor-stands/index.js), the stand an accepted invitation     *)
(* creates, and what visitors see (common/catalog.js and                   *)
(* common/public-event-barrier.js).                                        *)
(*                                                                         *)
(* A request is a Lambda invocation; every awaited call is one action and  *)
(* others may act between two of them.  Rows carry a revision that each    *)
(* write increments and each write is conditioned on: a request keeps the  *)
(* row it read and whether nobody wrote the row since (eventHeld, held),   *)
(* which is what the condition on the revision asks.  An If-Match revision *)
(* older than the row read is refused without any write and left out.      *)
(*                                                                         *)
(* event-stands-index sorts the stands of an event by publicationKey,      *)
(* which starts with a class and ends with the time of the write that set  *)
(* it, so a stand that is rewritten moves to the end of its class.         *)
(*                                                                         *)
(* Abstracted: the content of events and stands (edition counts the edits  *)
(* of the event), owners, audit rows, authorization, publicationState      *)
(* (written with status, to the same value), publishedAt (set since the    *)
(* first publication, and removed only with the status), and the operation *)
(* id, which no request finds changed under an unchanged revision.  The    *)
(* query of an archive has no Limit: its 1 MB pages are one page here.     *)
(***************************************************************************)
EXTENDS Naturals, Sequences, FiniteSets

CONSTANTS
    Stands, Invocations,
    None,          \* no stand
    PageSize,      \* PUBLISH_PAGE_SIZE
    MaxEditions    \* bound of the edits of the event

ASSUME NamesAssumption == None \notin Stands
ASSUME StandsAssumption == IsFiniteSet(Stands)
ASSUME PageAssumption == PageSize \in Nat \ {0}
ASSUME BoundAssumption == MaxEditions \in Nat

VARIABLES
    event,        \* the row of the event
    edition,      \* how often its content changed
    checkpoint,   \* publishCheckpoint.lastEvaluatedKey of the event
    stand,        \* rows of the stands
    index,        \* the order of event-stands-index: <<s, t>> if s is before t
    req,          \* what each request does and remembers
    owed          \* history: stands approved when the publication in
                  \* progress began that it has not rewritten yet

vars == <<event, edition, checkpoint, stand, index, req, owed>>

Tasks ==
    {"publish", "archive", "edit", "approve", "reject", "join", "editStand",
     "submit", "reassign"}
EventStatuses ==
    {"draft", "publishing", "publish_failed", "published", "archiving",
     "archived"}
\* open: visibility is public; shown: publicStatus is published.
EventRow(status, open, shown) == [status |-> status, open |-> open, shown |-> shown]

\* stamp: eventStatus is published; shown: publicStatus is published; class:
\* the prefix of publicationKey.
Stand(status, stamp, shown, class) ==
    [status |-> status, stamp |-> stamp, shown |-> shown, class |-> class]
NoStand == Stand("none", FALSE, FALSE, "none")

\* Prefixes sort as strings do.
Rank(class) ==
    CASE class = "archived" -> 1
      [] class = "draft" -> 2
      [] class = "pending_review" -> 3
      [] class = "published" -> 4
      [] OTHER -> 5

\* A key of the index: its class, and the stands whose keys are not greater.
Start == [rank |-> 0, behind |-> {}]

\* A request at rest.  at: its next call; published, shown: what it remembers
\* of the event, or is about to make of it; eventHeld: nobody wrote the event
\* since; subject: its stand; held: stands nobody wrote since it read them;
\* page: stands still to rewrite; cursor: where its page starts or ended;
\* more: a LastEvaluatedKey was answered; current (history): the publication
\* it serves is still in progress.
Idle ==
    [at |-> "idle", task |-> "none", published |-> FALSE, shown |-> FALSE,
     eventHeld |-> FALSE, subject |-> None, held |-> {}, page |-> <<>>,
     cursor |-> Start, more |-> FALSE, current |-> FALSE]

Init ==
    /\ event \in {EventRow("draft", open, FALSE) : open \in BOOLEAN}
    /\ edition = 0
    /\ checkpoint = Start
    /\ stand = [s \in Stands |-> NoStand]
    /\ index = {}
    /\ req = [p \in Invocations |-> Idle]
    /\ owed = {}
-----------------------------------------------------------------------------
(* Requests, rows and the index *)

Elements(seq) == {seq[i] : i \in 1..Len(seq)}

\* A request goes on without writing.
Continue(p, r) ==
    /\ req' = [req EXCEPT ![p] = r]
    /\ UNCHANGED <<event, edition, checkpoint, stand, index, owed>>

Return(p) == Continue(p, Idle)

\* p writes the row of the event; whoever read it holds an old revision.
WriteEvent(p, row, r) ==
    /\ event' = row
    /\ req' = [q \in Invocations |->
                 IF q = p THEN r ELSE [req[q] EXCEPT !.eventHeld = FALSE]]
    /\ UNCHANGED <<stand, index>>

\* Where a key is after stand s moved to the end of its class.
Moved(key, s, class) ==
    [key EXCEPT !.behind = IF Rank(class) < key.rank THEN @ \cup {s} ELSE @ \ {s}]

Listed == {s \in Stands : stand[s] # NoStand}

Reindexed(s, class) ==
    {pair \in index : s \notin {pair[1], pair[2]}}
    \cup {<<t, s>> : t \in {t \in Listed \ {s} : Rank(stand[t].class) <= Rank(class)}}
    \cup {<<s, t>> : t \in {t \in Listed \ {s} : Rank(stand[t].class) > Rank(class)}}

\* p writes the row of stand s with a new publicationKey.
WriteStand(p, s, row, r) ==
    /\ stand' = [stand EXCEPT ![s] = row]
    /\ index' = Reindexed(s, row.class)
    /\ checkpoint' = Moved(checkpoint, s, row.class)
    /\ req' = [q \in Invocations |->
                 [IF q = p THEN r ELSE req[q] EXCEPT
                    !.held = @ \ {s}, !.cursor = Moved(@, s, row.class)]]
    /\ UNCHANGED <<event, edition>>

\* A request of some task read the event.
Begin(p, task, at) ==
    /\ req[p] = Idle
    /\ Continue(p, [Idle EXCEPT !.at = at, !.task = task, !.eventHeld = TRUE])

Crash(p) == req[p] # Idle /\ Return(p)
-----------------------------------------------------------------------------
(* updateEvent *)

BeginEdit(p) ==
    /\ event.status \in {"draft", "published"}
    /\ edition < MaxEditions
    /\ Begin(p, "edit", "edit")

Edit(p) ==
    /\ req[p].at = "edit"
    /\ \/ /\ req[p].eventHeld
          /\ \E open \in BOOLEAN :
                WriteEvent(p, EventRow("draft", open, FALSE), Idle)
          /\ edition' = edition + 1
          /\ checkpoint' = IF event.status = "published"
                           THEN Start ELSE checkpoint
          /\ owed' = {}
       \/ ~req[p].eventHeld /\ Return(p)
-----------------------------------------------------------------------------
(* publishEvent: each request rewrites one page of stands *)

\* A request that finds the event publishing joins the operation, or resumes
\* one whose request died.
BeginPublish(p) ==
    /\ event.status \notin {"archiving", "archived"}
    /\ req[p] = Idle
    /\ Continue(p,
        [Idle EXCEPT
            !.at = IF event.status = "publishing" THEN "query" ELSE "transition",
            !.task = "publish", !.shown = event.open, !.eventHeld = TRUE,
            !.cursor = checkpoint, !.current = event.status = "publishing"])

Approved == {s \in Stands : stand[s].status = "published"}

\* transitionToPublishing: after publish_failed with the operation and the
\* checkpoint it had, else a new operation, which nobody else serves.
Transition(p) ==
    /\ req[p].at = "transition"
    /\ \/ /\ req[p].eventHeld
          /\ event' = EventRow("publishing", event.open, FALSE)
          /\ req' = [q \in Invocations |->
                IF q = p
                THEN [req[p] EXCEPT !.at = "query", !.current = TRUE]
                ELSE [req[q] EXCEPT
                        !.eventHeld = FALSE,
                        !.current = @ /\ event.status = "publish_failed"]]
          /\ owed' = IF event.status = "publish_failed" THEN owed ELSE Approved
          /\ UNCHANGED <<edition, checkpoint, stand, index>>
       \/ ~req[p].eventHeld /\ Return(p)

\* The sequences of stands that a query of the index may answer from S: the
\* first ones of S, in their order.
Prefixes(S) ==
    {page \in UNION {[1..n -> S] : n \in 0..Cardinality(S)} :
        /\ \A i, j \in DOMAIN page : i < j => <<page[i], page[j]>> \in index
        /\ \A i \in DOMAIN page : \A s \in S \ Elements(page) :
               <<page[i], s>> \in index}

Ahead(key) == Listed \ key.behind
PagesFrom(key) ==
    {page \in Prefixes(Ahead(key)) :
        \/ Len(page) = PageSize
        \/ Len(page) < PageSize /\ Elements(page) = Ahead(key)}

\* DynamoDB answers the key of the last item it read whenever it read Limit
\* items, even if none is left.
LastKey(key, read) ==
    [rank |-> Rank(stand[read[Len(read)]].class),
     behind |-> key.behind \cup Elements(read)]

\* What a request does when it rewrote the last stand of its page.
AfterPage(r) ==
    IF r.page # <<>> THEN "stands"
    ELSE IF r.task = "archive" THEN "archived"
    ELSE IF r.more THEN "save"
    ELSE "finalize"

QueryPage(p) ==
    /\ req[p].at = "query"
    /\ req[p].task = "publish"
    /\ \E read \in PagesFrom(req[p].cursor) :
          LET full == Len(read) = PageSize
              r == [req[p] EXCEPT
                      !.page = read, !.held = Elements(read), !.more = full,
                      !.cursor = IF full THEN LastKey(@, read) ELSE Start]
          IN Continue(p, [r EXCEPT !.at = AfterPage(r)])

\* deriveStandPublication
Derived(status, published, shown) ==
    LET visible == status = "published" /\ published /\ shown
    IN Stand(status, published, visible, IF visible THEN "published" ELSE status)

\* Mutant of Snapshot: an archive leaves publicStatus as it was.
Snapshot_StillShown(r, row) ==
    IF r.task = "archive" THEN Stand(row.status, FALSE, row.shown, "archived")
    ELSE Derived(row.status, TRUE, r.shown)

\* Mutant of Snapshot: an archive also sets the status of the stand.
Snapshot_StatusArchived(r, row) ==
    IF r.task = "archive" THEN Stand("archived", FALSE, FALSE, "archived")
    ELSE Derived(row.status, TRUE, r.shown)

\* updateStandPublicationSnapshot and archiveStandSnapshot
Snapshot(r, row) ==
    IF r.task = "archive" THEN Stand(row.status, FALSE, FALSE, "archived")
    ELSE Derived(row.status, TRUE, r.shown)

\* A stand somebody wrote since is read again and tried once more; if that
\* fails too, the answer is an error and the saga can be asked for again.  The
\* index is eventually consistent, so a row of the page may be old from the
\* start.
RewriteStand(p) == LET s == Head(req[p].page)
                       r == [req[p] EXCEPT !.page = Tail(@)] IN
    /\ req[p].at \in {"stands", "retry"}
    /\ \/ /\ s \in req[p].held
          /\ WriteStand(p, s, Snapshot(req[p], stand[s]), [r EXCEPT !.at = AfterPage(r)])
          /\ owed' = IF req[p].current THEN owed \ {s} ELSE owed
       \/ /\ req[p].at = "stands"
          /\ Continue(p, [req[p] EXCEPT !.at = "reread"])
       \/ /\ req[p].at = "retry"
          /\ s \notin req[p].held
          /\ Return(p)

RereadStand(p) ==
    /\ req[p].at = "reread"
    /\ Continue(p, [req[p] EXCEPT !.at = "retry",
                                  !.held = @ \cup {Head(req[p].page)}])

\* savePublishCheckpoint, and the answer 202
SaveCheckpoint(p) ==
    /\ req[p].at = "save"
    /\ \/ /\ req[p].eventHeld
          /\ WriteEvent(p, event, Idle)
          /\ checkpoint' = req[p].cursor
          /\ UNCHANGED <<edition, owed>>
       \/ ~req[p].eventHeld /\ Return(p)

\* Mutant of Finalize: publishCheckpoint is not removed.
Finalize_KeepsCheckpoint(p) ==
    /\ req[p].at = "finalize"
    /\ \/ /\ req[p].eventHeld
          /\ WriteEvent(p, EventRow("published", event.open, req[p].shown), Idle)
          /\ UNCHANGED <<edition, checkpoint, owed>>
       \/ ~req[p].eventHeld /\ Return(p)

\* finalizePublishing
Finalize(p) ==
    /\ req[p].at = "finalize"
    /\ \/ /\ req[p].eventHeld
          /\ WriteEvent(p, EventRow("published", event.open, req[p].shown), Idle)
          /\ checkpoint' = Start
          /\ UNCHANGED <<edition, owed>>
       \/ ~req[p].eventHeld /\ Return(p)

\* Mutant of MarkFailed: the write has no condition.
MarkFailed_Unconditional(p) ==
    /\ req[p].task = "publish"
    /\ req[p].at # "transition"
    /\ WriteEvent(p, EventRow("publish_failed", event.open, FALSE), Idle)
    /\ UNCHANGED <<edition, checkpoint, owed>>

\* Any of these calls may fail: markPublishingFailed.
MarkFailed(p) ==
    /\ req[p].task = "publish"
    /\ req[p].at # "transition"
    /\ \/ /\ req[p].eventHeld
          /\ WriteEvent(p, EventRow("publish_failed", event.open, FALSE), Idle)
          /\ UNCHANGED <<edition, checkpoint, owed>>
       \/ ~req[p].eventHeld /\ Return(p)
-----------------------------------------------------------------------------
(* archiveEvent: all pages in one request *)

BeginArchive(p) ==
    /\ event.status # "archived"
    /\ Begin(p, "archive", IF event.status = "archiving" THEN "query" ELSE "archive")

StartArchive(p) ==
    /\ req[p].at = "archive"
    /\ \/ /\ req[p].eventHeld
          /\ WriteEvent(p, EventRow("archiving", event.open, FALSE),
                        [req[p] EXCEPT !.at = "query"])
          /\ owed' = {}
          /\ UNCHANGED <<edition, checkpoint>>
       \/ ~req[p].eventHeld /\ Return(p)

QueryAll(p) ==
    /\ req[p].at = "query"
    /\ req[p].task = "archive"
    /\ \E read \in Prefixes(Listed) :
          LET r == [req[p] EXCEPT !.page = read, !.held = Elements(read)]
          IN /\ Elements(read) = Listed
             /\ Continue(p, [r EXCEPT !.at = AfterPage(r)])

FinishArchive(p) ==
    /\ req[p].at = "archived"
    /\ \/ /\ req[p].eventHeld
          /\ WriteEvent(p, EventRow("archived", event.open, FALSE), Idle)
          /\ UNCHANGED <<edition, checkpoint, owed>>
       \/ ~req[p].eventHeld /\ Return(p)
-----------------------------------------------------------------------------
(* moderateStand *)

\* To publish a stand its event must be published.
BeginModerate(p, s, verdict) ==
    /\ verdict = "approve" => event.status = "published"
    /\ req[p] = Idle
    /\ Continue(p, [Idle EXCEPT !.at = "readStand", !.task = verdict,
                                !.published = event.status = "published",
                                !.shown = event.shown, !.subject = s])

ReadStand(p) == LET s == req[p].subject IN
    /\ req[p].at = "readStand"
    /\ IF stand[s].status = "pending_review"
       THEN Continue(p, [req[p] EXCEPT !.at = "moderate", !.held = {s}])
       ELSE Return(p)

\* Derived from the event as it was read before the stand.
Moderate(p) == LET s == req[p].subject
                   status == IF req[p].task = "approve" THEN "published"
                             ELSE "rejected" IN
    /\ req[p].at = "moderate"
    /\ \/ /\ s \in req[p].held
          /\ stand[s].status = "pending_review"
          /\ WriteStand(p, s, Derived(status, req[p].published, req[p].shown), Idle)
          /\ UNCHANGED owed
       \/ /\ s \notin req[p].held \/ stand[s].status # "pending_review"
          /\ Return(p)
-----------------------------------------------------------------------------
(* A stand in the hands of its exhibitor, and its assignment to another one *)

\* acceptInvitation reads the event, whatever its status, and puts a new stand.
BeginJoin(p, s) ==
    /\ stand[s] = NoStand
    /\ req[p] = Idle
    /\ Continue(p, [Idle EXCEPT !.at = "join", !.task = "join", !.subject = s,
                                !.published = event.status = "published"])

Join(p) == LET s == req[p].subject IN
    /\ req[p].at = "join"
    /\ \/ /\ stand[s] = NoStand
          /\ WriteStand(p, s, Stand("draft", req[p].published, FALSE, "draft"), Idle)
          /\ UNCHANGED owed
       \/ stand[s] # NoStand /\ Return(p)

\* updateStand, submitStand and reassignStand begin with a consistent read;
\* submitStand then reads the event.
Editable(s) == stand[s].status \in {"draft", "rejected"}

BeginStand(p, s, task) ==
    /\ IF task = "reassign" THEN stand[s] # NoStand ELSE Editable(s)
    /\ req[p] = Idle
    /\ Continue(p, [Idle EXCEPT !.at = IF task = "submit" THEN "readEvent" ELSE task,
                                !.task = task, !.subject = s, !.held = {s}])

ReadEvent(p) ==
    /\ req[p].at = "readEvent"
    /\ Continue(p, [req[p] EXCEPT !.at = "submit",
                                  !.published = event.status = "published"])

\* updateStand puts back the whole row it read.
EditedStand(row) == Stand(row.status, row.stamp, FALSE, row.status)

EditStand(p) == LET s == req[p].subject IN
    /\ req[p].at = "editStand"
    /\ \/ /\ s \in req[p].held /\ Editable(s)
          /\ WriteStand(p, s, EditedStand(stand[s]), Idle)
          /\ UNCHANGED owed
       \/ ~(s \in req[p].held /\ Editable(s)) /\ Return(p)

Submit(p) == LET s == req[p].subject IN
    /\ req[p].at = "submit"
    /\ \/ /\ s \in req[p].held /\ Editable(s)
          /\ WriteStand(p, s, Stand("pending_review", req[p].published, FALSE,
                                    "pending_review"), Idle)
          /\ UNCHANGED owed
       \/ ~(s \in req[p].held /\ Editable(s)) /\ Return(p)

\* The new owner is abstracted: what others see is a revision they do not hold.
Reassign(p) == LET s == req[p].subject IN
    /\ req[p].at = "reassign"
    /\ \/ /\ s \in req[p].held
          /\ req' = [q \in Invocations |->
                IF q = p THEN Idle ELSE [req[q] EXCEPT !.held = @ \ {s}]]
          /\ UNCHANGED <<event, edition, checkpoint, stand, index, owed>>
       \/ s \notin req[p].held /\ Return(p)
-----------------------------------------------------------------------------
PublishStep(p) ==
    \/ Transition(p) \/ QueryPage(p) \/ RewriteStand(p) \/ RereadStand(p)
    \/ SaveCheckpoint(p) \/ Finalize(p)

Request(p) ==
    \/ BeginEdit(p) \/ BeginPublish(p) \/ BeginArchive(p)
    \/ \E s \in Stands :
          \/ BeginJoin(p, s)
          \/ \E verdict \in {"approve", "reject"} : BeginModerate(p, s, verdict)
          \/ \E task \in {"editStand", "submit", "reassign"} : BeginStand(p, s, task)

Work(p) ==
    \/ PublishStep(p) \/ MarkFailed(p)
    \/ Edit(p) \/ StartArchive(p) \/ QueryAll(p) \/ FinishArchive(p)
    \/ ReadStand(p) \/ Moderate(p)
    \/ Join(p) \/ EditStand(p) \/ ReadEvent(p) \/ Submit(p) \/ Reassign(p)

Next == \E p \in Invocations : Request(p) \/ Work(p) \/ Crash(p)

Spec == Init /\ [][Next]_vars

\* An organizer publishes an event with some stands and asks again until it is
\* published; nobody interferes, nothing fails, and Lambda runs every request.
PublishingNext == \E p \in Invocations :
    \/ PublishStep(p)
    \/ event.status # "published" /\ BeginPublish(p)
    \/ event.status = "draft" /\ \E s \in Stands : BeginJoin(p, s)
    \/ Join(p)

PublishingSpec ==
    /\ Init /\ [][PublishingNext]_vars
    /\ \A p \in Invocations :
         /\ WF_vars(PublishStep(p))
         /\ WF_vars(event.status # "published" /\ BeginPublish(p))
-----------------------------------------------------------------------------
(* Properties *)

\* isEventPublic
IsEventPublic ==
    /\ event.status = "published"
    /\ event.open
    /\ event.shown

StandRows ==
    {NoStand} \cup
    [status : {"draft", "pending_review", "published", "rejected"},
     stamp : BOOLEAN, shown : BOOLEAN,
     class : {"archived", "draft", "pending_review", "published", "rejected"}]
EventRows ==
    [status : EventStatuses, open : BOOLEAN, shown : BOOLEAN]
Keys == [rank : 0..5, behind : SUBSET Stands]
Steps ==
    {"idle", "edit", "transition", "query", "stands", "reread", "retry", "save",
     "finalize", "archive", "archived", "readStand", "moderate", "join",
     "editStand", "readEvent", "submit", "reassign"}
Requests ==
    [at : Steps, task : Tasks \cup {"none"}, published : BOOLEAN,
     shown : BOOLEAN, eventHeld : BOOLEAN, subject : Stands \cup {None}, held : SUBSET Stands,
     page : Seq(Stands), cursor : Keys, more : BOOLEAN, current : BOOLEAN]

\* Rows, keys and requests have the shapes the code gives them.
TypeOK ==
    /\ event \in EventRows
    /\ edition \in Nat
    /\ checkpoint \in Keys
    /\ stand \in [Stands -> StandRows]
    /\ index \subseteq Stands \X Stands
    /\ req \in [Invocations -> Requests]
    /\ owed \subseteq Stands

\* What assertCanonicalStand requires of a stand whose publicStatus says
\* published, although five handlers write its four fields from rows and events
\* they read earlier (common/stand-domain.js).
CanonicalStand == \A s \in Stands :
    stand[s].shown =>
        /\ stand[s].status = "published"
        /\ stand[s].stamp
        /\ stand[s].class = "published"

\* An event becomes published only after every stand that was approved when
\* its publication began was rewritten by that publication, through failures,
\* resumptions, lost requests and the moves of stands in the index
\* (publishEvent).
PassComplete ==
    [][event.status = "publishing" /\ event'.status = "published"
        => owed = {}]_vars

\* The event lives the documented life: what visitors see was published in a
\* step of its own after its last edit, an archive is final, and only drafts
\* and published events change (docs/development/SPRINT-4.5F-CONSOLIDATION.md).
Lifecycle == INSTANCE EventLifecycle WITH status <- event.status,
                                          public <- IsEventPublic
KeepsLifecycle == Lifecycle!Spec

\* A publication that is asked for again and again, and that nothing disturbs,
\* comes to an end (SPRINT-4.5F-CONSOLIDATION.md: a pending page is checkpointed
\* and the next request goes on from there).
PublicationEnds == event.status = "publishing" ~> event.status = "published"
=============================================================================
