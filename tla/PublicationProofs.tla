-------------------------- MODULE PublicationProofs --------------------------
(***************************************************************************)
(* Theorems about Publication for any number of stands and requests and    *)
(* any size of a page.                                                     *)
(*                                                                         *)
(* The shape of a reachable state comes first: types, and what a request   *)
(* has and remembers at each of its steps (Good).  The life of the event,  *)
(* the fields of the stands and the completeness of a publication rest on  *)
(* it; the last also on the order of the index (Sorted), on the classes of *)
(* approved stands (Classed) and on where the stands that are owed can be  *)
(* (Owing).                                                                *)
(***************************************************************************)
EXTENDS Publication, FiniteSetTheorems, SequenceTheorems, TLAPS

PageSteps == {"stands", "reread", "retry"}
SubjectSteps ==
    {"readStand", "moderate", "join", "editStand", "readEvent", "submit", "reassign"}

\* What a request has at each step.
Formed(r) ==
    /\ r.at \in {"transition", "save", "finalize"} => r.task = "publish"
    /\ r.at \in {"archive", "archived"} => r.task = "archive"
    /\ r.at = "edit" => r.task = "edit"
    /\ r.at \in {"query"} \cup PageSteps => r.task \in {"publish", "archive"}
    /\ r.at \in PageSteps => r.page # <<>>
    /\ r.at \in {"transition", "archive", "query", "save", "finalize"} => r.page = <<>>
    /\ r.at = "finalize" => ~r.more
    /\ r.at \in SubjectSteps => r.subject \in Stands /\ ~r.eventHeld

\* Where the event is, as long as nobody wrote it since the request read it.
Holds(r, status) == r.eventHeld =>
    /\ r.at = "edit" => status \in {"draft", "published"}
    /\ r.at = "transition" => status \in {"draft", "publish_failed", "published"}
    /\ r.task = "publish" /\ r.at # "transition" => status = "publishing"
    /\ r.at = "archive" =>
          status \in {"draft", "publishing", "publish_failed", "published"}
    /\ r.task = "archive" /\ r.at # "archive" => status = "archiving"

Good(r, status, listed) ==
    /\ r \in Requests /\ Formed(r) /\ Holds(r, status)
    /\ Elements(r.page) \subseteq listed

Shape ==
    /\ TypeOK
    /\ \A p \in Invocations : Good(req[p], event.status, Listed)
-----------------------------------------------------------------------------
(* Values *)

LEMMA Typed ==
    ASSUME TypeOK, NEW p \in Invocations
    PROVE  /\ req[p] \in Requests /\ event.status \in EventStatuses
           /\ event.open \in BOOLEAN /\ event.shown \in BOOLEAN
BY DEF TypeOK, EventRows

LEMMA IdleType ==
    /\ Idle \in Requests /\ Idle.at = "idle" /\ Idle.task = "none"
    /\ Idle.page = <<>> /\ ~Idle.eventHeld
BY DEF Idle, Requests, Keys, Start, Steps

LEMMA StartType == Start \in Keys
BY DEF Start, Keys

LEMMA EventRowType ==
    ASSUME NEW status \in EventStatuses, NEW open \in BOOLEAN, NEW shown \in BOOLEAN
    PROVE  /\ EventRow(status, open, shown) \in EventRows
           /\ EventRow(status, open, shown).status = status
           /\ EventRow(status, open, shown).shown = shown
BY DEF EventRow, EventRows

LEMMA RankType == ASSUME NEW class PROVE Rank(class) \in 1..5
BY DEF Rank

LEMMA MovedType ==
    ASSUME NEW key \in Keys, NEW s \in Stands, NEW class
    PROVE  Moved(key, s, class) \in Keys
BY DEF Moved, Keys

\* A page is a sequence of stands, and its tail is one of the others.
LEMMA PageType ==
    ASSUME NEW S \in SUBSET Stands, NEW page \in Prefixes(S)
    PROVE  page \in Seq(Stands) /\ Elements(page) \in SUBSET S
<1>1. IsFiniteSet(S) /\ Cardinality(S) \in Nat
  BY StandsAssumption, FS_Subset, FS_CardinalityType
<1>2. PICK n \in 0..Cardinality(S) : page \in [1..n -> S]
  BY DEF Prefixes
<1> QED
  BY <1>1, <1>2 DEF Elements

LEMMA TailPage ==
    ASSUME NEW page \in Seq(Stands), page # <<>>
    PROVE  /\ Head(page) \in Stands /\ Tail(page) \in Seq(Stands)
           /\ Elements(page) = {Head(page)} \cup Elements(Tail(page))
<1>1. Len(page) \in Nat /\ Len(page) # 0 /\ Head(page) = page[1] /\ Head(page) \in Stands
  BY EmptySeq, HeadTailProperties, LenProperties
<1>2. Tail(page) \in Seq(Stands) /\ Len(Tail(page)) = Len(page) - 1
      /\ \A i \in 1..(Len(page) - 1) : Tail(page)[i] = page[i + 1]
  BY HeadTailProperties
<1> QED
  BY <1>1, <1>2 DEF Elements

LEMMA LastKeyType ==
    ASSUME NEW key \in Keys, NEW read \in Seq(Stands)
    PROVE  LastKey(key, read) \in Keys
BY RankType DEF LastKey, Keys, Elements

LEMMA DerivedType ==
    ASSUME NEW status \in {"draft", "pending_review", "published", "rejected"},
           NEW published \in BOOLEAN, NEW shown \in BOOLEAN
    PROVE  Derived(status, published, shown) \in StandRows \ {NoStand}
BY DEF Derived, Stand, StandRows, NoStand

LEMMA SnapshotType ==
    ASSUME NEW r \in Requests, NEW row \in StandRows \ {NoStand}
    PROVE  Snapshot(r, row) \in StandRows \ {NoStand}
BY DEF Snapshot, Derived, Stand, StandRows, NoStand, Requests
-----------------------------------------------------------------------------
(* Requests *)

LEMMA IdleGood == \A status, listed : Good(Idle, status, listed)
BY IdleType DEF Good, Formed, Holds, Elements, PageSteps, SubjectSteps

LEMMA Held == ASSUME Shape, NEW p \in Invocations
              PROVE  Good(req[p], event.status, Listed) /\ req[p] \in Requests
BY DEF Shape, Good

LEMMA ContinueShape ==
    ASSUME Shape, NEW p \in Invocations, NEW r, Good(r, event.status, Listed), Continue(p, r)
    PROVE  Shape'
BY DEF Continue, Shape, Good, TypeOK, Listed

LEMMA ReturnShape == ASSUME Shape, NEW p \in Invocations, Return(p) PROVE Shape'
BY IdleGood, ContinueShape DEF Return

\* Somebody else wrote the event.
LEMMA Loses ==
    ASSUME NEW r, NEW status, NEW listed, Good(r, status, listed)
    PROVE  \A now : Good([r EXCEPT !.eventHeld = FALSE], now, listed)
BY DEF Good, Formed, Holds, Requests

LEMMA WriteEventShape ==
    ASSUME Shape, NEW p \in Invocations, NEW row \in EventRows, NEW r, Good(r, row.status, Listed),
           WriteEvent(p, row, r), edition' \in Nat, checkpoint' \in Keys, owed' \in SUBSET Stands
    PROVE  Shape'
<1>1. \A q \in Invocations : Good([req[q] EXCEPT !.eventHeld = FALSE], row.status, Listed)
  BY Held, Loses
<1>2. \A q \in Invocations : Good(req'[q], row.status, Listed)
  BY <1>1 DEF WriteEvent
<1>3. req' \in [Invocations -> Requests]
  BY <1>1 DEF WriteEvent, Good
<1> QED
  BY <1>2, <1>3 DEF WriteEvent, Shape, TypeOK, Listed

\* Somebody else wrote a stand.
LEMMA Shifts ==
    ASSUME NEW r, NEW status, NEW listed, Good(r, status, listed), NEW s \in Stands, NEW class
    PROVE  Good([r EXCEPT !.held = @ \ {s}, !.cursor = Moved(@, s, class)], status, listed)
<1>1. r.cursor \in Keys
  BY DEF Good, Requests
<1>2. Moved(r.cursor, s, class) \in Keys
  BY <1>1, MovedType
<1> QED
  BY <1>2 DEF Good, Formed, Holds, Requests

LEMMA Grows ==
    ASSUME TypeOK, NEW p, NEW s \in Stands, NEW row \in StandRows \ {NoStand}, NEW r,
           WriteStand(p, s, row, r)
    PROVE  stand' \in [Stands -> StandRows] /\ Listed' = Listed \cup {s}
BY DEF WriteStand, TypeOK, Listed

LEMMA WriteStandShape ==
    ASSUME Shape, NEW p \in Invocations, NEW s \in Stands, NEW row \in StandRows \ {NoStand},
           NEW r, Good(r, event.status, Listed), WriteStand(p, s, row, r), owed' \in SUBSET Stands
    PROVE  Shape'
<1>1. \A q \in Invocations : Good(req'[q], event.status, Listed)
  BY Held, Shifts DEF WriteStand
<1>2. \A q \in Invocations : Good(req'[q], event.status, Listed')
  BY <1>1, Grows DEF Good, Shape
<1>3. req' \in [Invocations -> Requests]
  BY <1>1 DEF WriteStand, Good
<1>4. checkpoint' \in Keys
  BY MovedType DEF WriteStand, Shape, TypeOK
<1>5. index' \subseteq Stands \X Stands
  <2>1. index \subseteq Stands \X Stands
    BY DEF Shape, TypeOK
  <2>2. \A S \in SUBSET Stands :
           {<<t, s>> : t \in S} \cup {<<s, t>> : t \in S} \subseteq Stands \X Stands
    OBVIOUS
  <2>3. {t \in Listed \ {s} : Rank(stand[t].class) <= Rank(row.class)} \in SUBSET Stands
        /\ {t \in Listed \ {s} : Rank(stand[t].class) > Rank(row.class)} \in SUBSET Stands
    BY DEF Listed
  <2>4. index' = Reindexed(s, row.class)
    BY DEF WriteStand
  <2> QED
    BY <2>1, <2>2, <2>3, <2>4 DEF Reindexed
<1> QED
  BY <1>2, <1>3, <1>4, <1>5, Grows DEF WriteStand, Shape, TypeOK

LEMMA AfterPageGood ==
    ASSUME NEW r \in Requests, NEW status, NEW listed, Elements(r.page) \subseteq listed,
           Holds(r, status), r.task \in {"publish", "archive"}, r.at \in {"query"} \cup PageSteps
    PROVE  LET q == [r EXCEPT !.at = AfterPage(r)]
           IN /\ Good(q, status, listed)
              /\ q.at = AfterPage(r) /\ q.at \in {"stands", "archived", "save", "finalize"}
              /\ q.task = r.task /\ q.page = r.page /\ q.cursor = r.cursor /\ q.more = r.more
              /\ q.eventHeld = r.eventHeld /\ q.current = r.current
BY DEF AfterPage, Good, Formed, Holds, PageSteps, SubjectSteps, Requests, Steps

\* A request begins with what it read of the event.
LEMMA BeginShape ==
    ASSUME Shape, NEW p \in Invocations, Request(p)
    PROVE  Shape' /\ UNCHANGED <<event, edition, checkpoint, stand, index, owed>>
<1>0. event.status \in EventStatuses /\ event.open \in BOOLEAN /\ event.shown \in BOOLEAN
      /\ checkpoint \in Keys
  BY Typed DEF Shape, TypeOK
<1>1. \E r : Continue(p, r)
  BY DEF Request, BeginEdit, BeginArchive, Begin, BeginPublish, BeginJoin, BeginModerate, BeginStand
<1>2. CASE BeginEdit(p) \/ BeginArchive(p)
  <2> DEFINE Begun(at, task) == [Idle EXCEPT !.at = at, !.task = task, !.eventHeld = TRUE]
  <2>0. /\ "edit" \in Steps /\ "archive" \in Steps /\ "query" \in Steps
        /\ "edit" \in Tasks /\ "archive" \in Tasks
    BY DEF Steps, Tasks
  <2>1. \A at \in Steps, task \in Tasks :
           /\ Begun(at, task) \in Requests /\ Begun(at, task).at = at
           /\ Begun(at, task).task = task /\ Begun(at, task).page = <<>>
    BY IdleType DEF Requests
  <2>2. ASSUME NEW at \in Steps, NEW task \in Tasks, Begin(p, task, at),
               \/ task = "edit" /\ at = "edit" /\ event.status \in {"draft", "published"}
               \/ task = "archive" /\ at = "query" /\ event.status = "archiving"
               \/ /\ task = "archive" /\ at = "archive"
                  /\ event.status \in {"draft", "publishing", "publish_failed", "published"}
        PROVE  Shape'
    <3> HIDE DEF Begun
    <3>1. Good(Begun(at, task), event.status, Listed)
      BY <2>1, <2>2 DEF Good, Formed, Holds, Elements, PageSteps, SubjectSteps
    <3> QED
      BY <2>2, <3>1, ContinueShape DEF Begin, Begun
  <2>3. CASE BeginEdit(p)
    <3>1. Begin(p, "edit", "edit") /\ event.status \in {"draft", "published"}
      BY <2>3 DEF BeginEdit
    <3> QED
      BY <1>1, <2>0, <2>2, <3>1 DEF Continue
  <2>4. CASE BeginArchive(p)
    <3>1. \/ Begin(p, "archive", "query") /\ event.status = "archiving"
          \/ /\ Begin(p, "archive", "archive")
             /\ event.status \in {"draft", "publishing", "publish_failed", "published"}
      BY <1>0, <2>4 DEF BeginArchive, EventStatuses
    <3> QED
      BY <1>1, <2>0, <2>2, <3>1 DEF Continue
  <2> QED
    BY <1>1, <1>2, <2>3, <2>4 DEF Continue
<1>3. CASE BeginPublish(p)
  <2> DEFINE Begun(at, now) ==
               [Idle EXCEPT !.at = at, !.task = "publish", !.shown = event.open,
                            !.eventHeld = TRUE, !.cursor = checkpoint, !.current = now]
             at == IF event.status = "publishing" THEN "query" ELSE "transition"
             r == Begun(at, event.status = "publishing")
  <2>1. \A step \in Steps, now \in BOOLEAN :
           LET q == Begun(step, now)
           IN q \in Requests /\ q.at = step /\ q.task = "publish" /\ q.page = <<>>
    BY <1>0, IdleType DEF Requests, Tasks
  <2>2. at \in Steps /\ (event.status = "publishing") \in BOOLEAN
    BY DEF Steps
  <2>3. r \in Requests /\ r.at = at /\ r.task = "publish" /\ r.page = <<>>
    BY <2>1, <2>2
  <2>4. Continue(p, r)
    BY <1>3 DEF BeginPublish
  <2> HIDE DEF r
  <2>5. Good(r, event.status, Listed)
    BY <1>0, <1>3, <2>3 DEF BeginPublish, Good, Formed, Holds, Elements, PageSteps,
       SubjectSteps, EventStatuses
  <2> QED
    BY <2>4, <2>5, ContinueShape DEF Continue
<1>4. ASSUME NEW s \in Stands,
             \/ BeginJoin(p, s)
             \/ \E verdict \in {"approve", "reject"} : BeginModerate(p, s, verdict)
             \/ \E task \in {"editStand", "submit", "reassign"} : BeginStand(p, s, task)
      PROVE  Shape'
  <2> DEFINE Fresh(r) == /\ r \in Requests /\ r.at \in SubjectSteps /\ r.subject = s
                         /\ r.page = <<>> /\ ~r.eventHeld
  <2>1. \A r : Fresh(r) => Good(r, event.status, Listed)
    BY DEF Good, Formed, Holds, Elements, PageSteps, SubjectSteps
  <2>2. \A published \in BOOLEAN :
           Fresh([Idle EXCEPT !.at = "join", !.task = "join", !.subject = s,
                              !.published = published])
    BY IdleType DEF Idle, Requests, SubjectSteps, Steps, Tasks
  <2>a. SubjectSteps \subseteq Steps /\ "readStand" \in SubjectSteps
        /\ {"approve", "reject", "editStand", "submit", "reassign"} \subseteq Tasks
    BY DEF SubjectSteps, Steps, Tasks
  <2>3. \A verdict \in Tasks, published, shown \in BOOLEAN :
           Fresh([Idle EXCEPT !.at = "readStand", !.task = verdict,
                              !.published = published, !.shown = shown, !.subject = s])
    BY <2>a, IdleType DEF Requests
  <2>4. \A task \in Tasks, at \in SubjectSteps :
           Fresh([Idle EXCEPT !.at = at, !.task = task, !.subject = s, !.held = {s}])
    BY <2>a, IdleType DEF Requests
  <2> HIDE DEF Fresh
  <2>5. \A r : Fresh(r) /\ Continue(p, r) => Shape'
    BY <2>1, ContinueShape
  <2>6. CASE BeginJoin(p, s)
    BY <2>2, <2>5, <2>6 DEF BeginJoin
  <2>7. ASSUME NEW verdict \in {"approve", "reject"}, BeginModerate(p, s, verdict) PROVE Shape'
    BY <1>0, <2>a, <2>3, <2>5, <2>7 DEF BeginModerate
  <2>8. ASSUME NEW task \in {"editStand", "submit", "reassign"}, BeginStand(p, s, task) PROVE Shape'
    <3>1. (IF task = "submit" THEN "readEvent" ELSE task) \in SubjectSteps
      BY DEF SubjectSteps
    <3> QED
      BY <2>a, <2>4, <2>5, <2>8, <3>1 DEF BeginStand
  <2> QED
    BY <1>4, <2>6, <2>7, <2>8
<1> QED
  BY <1>1, <1>2, <1>3, <1>4 DEF Request, Continue

\* moderateStand, acceptInvitation and the exhibitor's requests.
LEMMA StandShape ==
    ASSUME Shape, NEW p \in Invocations,
           \/ ReadStand(p) \/ Moderate(p) \/ Join(p) \/ EditStand(p)
           \/ ReadEvent(p) \/ Submit(p) \/ Reassign(p)
    PROVE  Shape'
<1> DEFINE s == req[p].subject
<1>0. /\ req[p] \in Requests /\ s \in Stands /\ req[p].published \in BOOLEAN
      /\ req[p].shown \in BOOLEAN /\ stand[s] \in StandRows
  BY Held DEF ReadStand, Moderate, Join, EditStand, ReadEvent, Submit, Reassign, SubjectSteps, Good,
     Formed, Requests, Shape, TypeOK
<1>1. CASE ReadStand(p) \/ ReadEvent(p)
  <2>1. Good([req[p] EXCEPT !.at = "moderate", !.held = {s}], event.status, Listed)
        \/ req[p].at # "readStand"
    BY <1>0, Held DEF Good, Formed, Holds, Requests, PageSteps, SubjectSteps, Steps
  <2>2. \A published \in BOOLEAN :
           \/ Good([req[p] EXCEPT !.at = "submit", !.published = published], event.status, Listed)
           \/ req[p].at # "readEvent"
    BY <1>0, Held DEF Good, Formed, Holds, Requests, PageSteps, SubjectSteps, Steps
  <2>3. CASE ReadStand(p)
    BY <2>1, <2>3, ContinueShape, ReturnShape DEF ReadStand
  <2>4. CASE ReadEvent(p)
    BY <2>2, <2>4, ContinueShape DEF ReadEvent
  <2> QED
    BY <1>1, <2>3, <2>4
<1>2. ASSUME NEW row \in StandRows \ {NoStand}, WriteStand(p, s, row, Idle), UNCHANGED owed
      PROVE  Shape'
  BY <1>0, <1>2, IdleGood, WriteStandShape DEF Shape, TypeOK
<1>3. CASE Moderate(p)
  <2>1. \A status \in {"published", "rejected"} :
           Derived(status, req[p].published, req[p].shown) \in StandRows \ {NoStand}
    BY <1>0, DerivedType
  <2> QED
    BY <1>2, <1>3, <2>1, ReturnShape DEF Moderate
<1>4. CASE Join(p) \/ Submit(p)
  <2>1. /\ Stand("draft", req[p].published, FALSE, "draft") \in StandRows \ {NoStand}
        /\ Stand("pending_review", req[p].published, FALSE, "pending_review") \in StandRows \ {NoStand}
    BY <1>0 DEF Stand, StandRows, NoStand
  <2> QED
    BY <1>2, <1>4, <2>1, ReturnShape DEF Join, Submit
<1>5. CASE EditStand(p)
  <2>1. Editable(s) => EditedStand(stand[s]) \in StandRows \ {NoStand}
    BY <1>0 DEF Editable, EditedStand, Stand, StandRows, NoStand
  <2> QED
    BY <1>2, <1>5, <2>1, ReturnShape DEF EditStand
<1>6. CASE Reassign(p)
  <2>1. \A q \in Invocations : Good([req[q] EXCEPT !.held = @ \ {s}], event.status, Listed)
    BY <1>0, Held DEF Good, Formed, Holds, Requests
  <2>2. CASE Return(p)
    BY <2>2, ReturnShape
  <2>3. CASE ~Return(p)
    <3>1. \A q \in Invocations : Good(req'[q], event.status, Listed)
      BY <1>6, <2>1, <2>3, IdleGood DEF Reassign
    <3>2. req' \in [Invocations -> Requests]
      BY <1>6, <2>3, <3>1 DEF Reassign, Good
    <3> QED
      BY <1>6, <2>3, <3>1, <3>2 DEF Reassign, Shape, TypeOK, Listed
  <2> QED
    BY <2>2, <2>3
<1> QED
  BY <1>1, <1>3, <1>4, <1>5, <1>6

\* The pages of a publication or an archive.
LEMMA QueryShape ==
    ASSUME Shape, NEW p \in Invocations, QueryPage(p) \/ QueryAll(p) PROVE Shape'
<1>0. /\ Good(req[p], event.status, Listed) /\ req[p] \in Requests /\ req[p].cursor \in Keys
      /\ Listed \in SUBSET Stands
  BY Held DEF Requests, Listed
<1>1. CASE QueryPage(p)
  <2>1. PICK read \in PagesFrom(req[p].cursor) :
              LET full == Len(read) = PageSize
                  r == [req[p] EXCEPT
                          !.page = read, !.held = Elements(read), !.more = full,
                          !.cursor = IF full THEN LastKey(@, read) ELSE Start]
              IN Continue(p, [r EXCEPT !.at = AfterPage(r)])
    BY <1>1 DEF QueryPage
  <2>2. read \in Seq(Stands) /\ Elements(read) \subseteq Listed
    BY PageType DEF PagesFrom, Ahead, Listed
  <2> DEFINE full == Len(read) = PageSize
             r == [req[p] EXCEPT !.page = read, !.held = Elements(read), !.more = full,
                                 !.cursor = IF full THEN LastKey(@, read) ELSE Start]
  <2>3. (IF full THEN LastKey(req[p].cursor, read) ELSE Start) \in Keys
    BY <1>0, <2>2, LastKeyType, StartType
  <2>4. /\ r \in Requests /\ r.page = read /\ r.at = req[p].at /\ r.task = req[p].task
        /\ r.eventHeld = req[p].eventHeld
    BY <1>0, <2>2, <2>3 DEF Requests
  <2>5. Continue(p, [r EXCEPT !.at = AfterPage(r)])
    BY <2>1
  <2> HIDE DEF r
  <2>6. Good([r EXCEPT !.at = AfterPage(r)], event.status, Listed)
    BY <1>0, <1>1, <2>2, <2>4, AfterPageGood DEF QueryPage, Good, Holds
  <2> QED
    BY <2>5, <2>6, ContinueShape
<1>2. CASE QueryAll(p)
  <2>1. PICK read \in Prefixes(Listed) :
         LET r == [req[p] EXCEPT !.page = read, !.held = Elements(read)]
         IN Continue(p, [r EXCEPT !.at = AfterPage(r)])
    BY <1>2 DEF QueryAll
  <2>2. read \in Seq(Stands) /\ Elements(read) \subseteq Listed
    BY <1>0, PageType
  <2> DEFINE r == [req[p] EXCEPT !.page = read, !.held = Elements(read)]
  <2>3. /\ r \in Requests /\ r.page = read /\ r.at = req[p].at /\ r.task = req[p].task
        /\ r.eventHeld = req[p].eventHeld
    BY <1>0, <2>2 DEF Requests
  <2>4. Continue(p, [r EXCEPT !.at = AfterPage(r)])
    BY <2>1
  <2> HIDE DEF r
  <2>5. Good([r EXCEPT !.at = AfterPage(r)], event.status, Listed)
    BY <1>0, <1>2, <2>2, <2>3, AfterPageGood DEF QueryAll, Good, Holds
  <2> QED
    BY <2>4, <2>5, ContinueShape
<1> QED
  BY <1>1, <1>2

\* What a request that rewrites stands finds.
LEMMA Rewrites ==
    ASSUME Shape, NEW p \in Invocations, req[p].at \in PageSteps
    PROVE  LET page == req[p].page
               q == [req[p] EXCEPT !.page = Tail(@)]
           IN /\ page \in Seq(Stands) /\ Head(page) \in Listed /\ Head(page) \in Stands
              /\ Elements(page) = {Head(page)} \cup Elements(Tail(page))
              /\ q \in Requests /\ q.page = Tail(page)
              /\ q.at = req[p].at /\ q.task = req[p].task /\ q.task \in {"publish", "archive"}
              /\ q.cursor = req[p].cursor /\ q.more = req[p].more
              /\ q.eventHeld = req[p].eventHeld /\ q.current = req[p].current
              /\ LET r == [q EXCEPT !.at = AfterPage(q)]
                 IN /\ Good(r, event.status, Listed)
                    /\ r.at = AfterPage(q) /\ r.at \in {"stands", "archived", "save", "finalize"}
                    /\ r.task = req[p].task /\ r.page = Tail(page)
                    /\ r.cursor = req[p].cursor /\ r.more = req[p].more
                    /\ r.eventHeld = req[p].eventHeld /\ r.current = req[p].current
<1> DEFINE page == req[p].page
           q == [req[p] EXCEPT !.page = Tail(@)]
<1>1. /\ req[p] \in Requests /\ page \in Seq(Stands) /\ page # <<>> /\ Elements(page) \subseteq Listed
      /\ req[p].task \in {"publish", "archive"} /\ Holds(req[p], event.status)
  BY Held DEF Good, Formed, Requests
<1>2. /\ Head(page) \in Stands /\ Tail(page) \in Seq(Stands)
      /\ Elements(page) = {Head(page)} \cup Elements(Tail(page))
  BY <1>1, TailPage
<1>3. /\ q \in Requests /\ q.page = Tail(page) /\ q.at = req[p].at /\ q.task = req[p].task
      /\ q.cursor = req[p].cursor /\ q.more = req[p].more
      /\ q.eventHeld = req[p].eventHeld /\ q.current = req[p].current
  BY <1>1, <1>2 DEF Requests
<1> HIDE DEF q
<1>4. Holds(q, event.status) /\ Elements(q.page) \subseteq Listed
  BY <1>1, <1>2, <1>3 DEF Holds
<1> QED
  BY <1>1, <1>2, <1>3, <1>4, AfterPageGood DEF q

LEMMA RewriteShape ==
    ASSUME Shape, NEW p \in Invocations, RewriteStand(p) \/ RereadStand(p) PROVE Shape'
<1>0. req[p].at \in PageSteps /\ req[p] \in Requests /\ Good(req[p], event.status, Listed)
  BY Held DEF RewriteStand, RereadStand, PageSteps
<1> DEFINE s == Head(req[p].page)
<1>1. CASE RewriteStand(p)
  <2> DEFINE q == [req[p] EXCEPT !.page = Tail(@)]
             r == [q EXCEPT !.at = AfterPage(q)]
  <2>1. Good(r, event.status, Listed) /\ s \in Listed
    BY <1>0, Rewrites
  <2>2. Snapshot(req[p], stand[s]) \in StandRows \ {NoStand} /\ s \in Stands
    BY <1>0, <2>1, SnapshotType DEF Listed, Shape, TypeOK
  <2>3. CASE WriteStand(p, s, Snapshot(req[p], stand[s]), r) /\ owed' \in SUBSET Stands
    BY <2>1, <2>2, <2>3, WriteStandShape
  <2>4. CASE Continue(p, [req[p] EXCEPT !.at = "reread"])
    <3>1. Good([req[p] EXCEPT !.at = "reread"], event.status, Listed)
      BY <1>0 DEF Good, Formed, Holds, Requests, PageSteps, SubjectSteps, Steps
    <3> QED
      BY <2>4, <3>1, ContinueShape
  <2> QED
    BY <1>1, <2>3, <2>4, ReturnShape DEF RewriteStand, Shape, TypeOK
<1>2. CASE RereadStand(p)
  <2>1. s \in Stands
    BY <1>0, Rewrites
  <2>2. Good([req[p] EXCEPT !.at = "retry", !.held = @ \cup {s}], event.status, Listed)
    BY <1>0, <2>1 DEF Good, Formed, Holds, Requests, PageSteps, SubjectSteps, Steps
  <2> QED
    BY <1>2, <2>2, ContinueShape DEF RereadStand
<1> QED
  BY <1>1, <1>2
-----------------------------------------------------------------------------
(* Writes of the event *)

\* What each write of the event does to it, by a request that holds it.
Written(p) ==
    \/ /\ req[p].at = "edit" /\ req[p].eventHeld
       /\ \E open \in BOOLEAN : event' = EventRow("draft", open, FALSE)
       /\ edition' = edition + 1
    \/ /\ req[p].at = "transition" /\ req[p].eventHeld
       /\ event' = EventRow("publishing", event.open, FALSE)
       /\ UNCHANGED edition
    \/ /\ req[p].at = "finalize" /\ req[p].eventHeld
       /\ event' = EventRow("published", event.open, req[p].shown)
       /\ UNCHANGED edition
    \/ /\ req[p].task = "publish" /\ req[p].at # "transition" /\ req[p].eventHeld
       /\ event' = EventRow("publish_failed", event.open, FALSE)
       /\ UNCHANGED edition
    \/ /\ req[p].at = "archive" /\ req[p].eventHeld
       /\ event' = EventRow("archiving", event.open, FALSE)
       /\ UNCHANGED edition
    \/ /\ req[p].at = "archived" /\ req[p].eventHeld
       /\ event' = EventRow("archived", event.open, FALSE)
       /\ UNCHANGED edition

LEMMA WriteReturns ==
    ASSUME Shape, NEW p \in Invocations, NEW row \in EventRows, WriteEvent(p, row, Idle),
           edition' \in Nat, checkpoint' \in Keys, owed' \in SUBSET Stands
    PROVE  Shape'
BY IdleGood, WriteEventShape

LEMMA WriteShape ==
    ASSUME Shape, NEW p \in Invocations,
           Edit(p) \/ SaveCheckpoint(p) \/ Finalize(p) \/ MarkFailed(p) \/ FinishArchive(p)
    PROVE  Shape' /\ (UNCHANGED <<event, edition>> \/ Written(p))
<1>0. /\ Good(req[p], event.status, Listed) /\ req[p] \in Requests
      /\ event.status \in EventStatuses /\ event.open \in BOOLEAN /\ event \in EventRows
      /\ checkpoint \in Keys /\ req[p].cursor \in Keys /\ req[p].shown \in BOOLEAN
      /\ owed \in SUBSET Stands /\ {} \in SUBSET Stands /\ Start \in Keys
      /\ edition \in Nat /\ edition + 1 \in Nat
  BY Held, Typed, StartType DEF Shape, TypeOK, Requests
<1>1. CASE Return(p)
  BY <1>1, ReturnShape DEF Return, Continue
<1>2. CASE Edit(p) /\ ~Return(p)
  <2>1. PICK open \in BOOLEAN : WriteEvent(p, EventRow("draft", open, FALSE), Idle)
    BY <1>2 DEF Edit
  <2>2. EventRow("draft", open, FALSE) \in EventRows
    BY EventRowType DEF EventStatuses
  <2>3. Shape'
    BY <1>0, <1>2, <2>1, <2>2, WriteReturns DEF Edit
  <2> QED
    BY <1>2, <2>1, <2>3 DEF Edit, Written, WriteEvent
<1>3. CASE SaveCheckpoint(p) /\ ~Return(p)
  BY <1>0, <1>3, WriteReturns DEF SaveCheckpoint, WriteEvent
<1>4. ASSUME NEW status \in {"published", "publish_failed", "archived"}, NEW shown \in BOOLEAN,
             WriteEvent(p, EventRow(status, event.open, shown), Idle),
             edition' = edition, checkpoint' \in {checkpoint, Start}, owed' = owed
      PROVE  Shape'
  <2>1. EventRow(status, event.open, shown) \in EventRows
    BY <1>0, EventRowType DEF EventStatuses
  <2> QED
    BY <1>0, <1>4, <2>1, WriteReturns
<1>5. CASE Finalize(p) /\ ~Return(p)
  <2>1. Shape'
    BY <1>0, <1>4, <1>5 DEF Finalize
  <2> QED
    BY <1>5, <2>1 DEF Finalize, Written, WriteEvent
<1>6. CASE MarkFailed(p) /\ ~Return(p)
  <2>1. Shape'
    BY <1>0, <1>4, <1>6 DEF MarkFailed
  <2> QED
    BY <1>6, <2>1 DEF MarkFailed, Written, WriteEvent
<1>7. CASE FinishArchive(p) /\ ~Return(p)
  <2>1. Shape'
    BY <1>0, <1>4, <1>7 DEF FinishArchive
  <2> QED
    BY <1>7, <2>1 DEF FinishArchive, Written, WriteEvent
<1> QED
  BY <1>1, <1>2, <1>3, <1>5, <1>6, <1>7

LEMMA ArchiveShape ==
    ASSUME Shape, NEW p \in Invocations, StartArchive(p)
    PROVE  Shape' /\ (UNCHANGED <<event, edition>> \/ Written(p))
<1>0. Good(req[p], event.status, Listed) /\ event.open \in BOOLEAN
  BY Held, Typed DEF Shape
<1>1. CASE Return(p)
  BY <1>1, ReturnShape DEF Return, Continue
<1>2. CASE ~Return(p)
  <2> DEFINE r == [req[p] EXCEPT !.at = "query"]
             row == EventRow("archiving", event.open, FALSE)
  <2>1. WriteEvent(p, row, r) /\ UNCHANGED <<edition, checkpoint>> /\ owed' = {}
    BY <1>2 DEF StartArchive
  <2>2. row \in EventRows /\ row.status = "archiving"
    BY <1>0, EventRowType DEF EventStatuses
  <2>3. Good(r, row.status, Listed)
    <3>1. req[p].page = <<>>
      BY <1>0 DEF StartArchive, Good, Formed
    <3> QED
      BY <1>0, <2>2, <3>1 DEF StartArchive, Good, Formed, Holds, Requests, PageSteps, SubjectSteps, Steps
  <2>4. edition' \in Nat /\ checkpoint' \in Keys
    BY <2>1 DEF Shape, TypeOK
  <2>5. Shape'
    BY <2>1, <2>2, <2>3, <2>4, WriteEventShape
  <2> QED
    BY <1>2, <2>1, <2>5 DEF StartArchive, Written, WriteEvent
<1> QED
  BY <1>1, <1>2

LEMMA TransitionShape ==
    ASSUME Shape, NEW p \in Invocations, Transition(p)
    PROVE  Shape' /\ (UNCHANGED <<event, edition>> \/ Written(p))
<1>0. Good(req[p], event.status, Listed) /\ event.open \in BOOLEAN
  BY Held, Typed DEF Shape
<1>1. CASE Return(p)
  BY <1>1, ReturnShape DEF Return, Continue
<1>2. CASE ~Return(p)
  <2> DEFINE row == EventRow("publishing", event.open, FALSE)
             r == [req[p] EXCEPT !.at = "query", !.current = TRUE]
             Left(q) == [req[q] EXCEPT !.eventHeld = FALSE,
                                       !.current = @ /\ event.status = "publish_failed"]
  <2>1. /\ event' = row /\ UNCHANGED <<edition, checkpoint, stand, index>>
        /\ req' = [q \in Invocations |-> IF q = p THEN r ELSE Left(q)]
        /\ owed' = IF event.status = "publish_failed" THEN owed ELSE Approved
    BY <1>2 DEF Transition
  <2>2. row \in EventRows /\ row.status = "publishing"
    BY <1>0, EventRowType DEF EventStatuses
  <2>3. \A q \in Invocations : Good(Left(q), "publishing", Listed)
    BY Held DEF Good, Formed, Holds, Requests
  <2>4. Good(r, "publishing", Listed)
    <3>1. req[p].page = <<>> /\ req[p].task = "publish"
      BY <1>0 DEF Transition, Good, Formed
    <3> QED
      BY <1>0, <3>1 DEF Transition, Good, Formed, Holds, Requests, PageSteps, SubjectSteps, Steps
  <2> HIDE DEF row, r, Left
  <2>5. \A q \in Invocations : Good(req'[q], "publishing", Listed)
    BY <2>1, <2>3, <2>4
  <2>6. req' \in [Invocations -> Requests]
    BY <2>1, <2>3, <2>4 DEF Good
  <2>7. Approved \in SUBSET Stands
    BY DEF Approved
  <2>8. Shape'
    BY <2>1, <2>2, <2>5, <2>6, <2>7 DEF Shape, TypeOK, Listed
  <2> QED
    BY <1>2, <2>1, <2>8 DEF Transition, Written, row
<1> QED
  BY <1>1, <1>2

\* What a step does to the event.
LEMMA EventSteps ==
    ASSUME Shape, [Next]_vars
    PROVE  /\ Shape'
           /\ UNCHANGED <<event, edition>> \/ \E p \in Invocations : Written(p)
<1>1. CASE UNCHANGED vars
  BY <1>1 DEF vars, Shape, TypeOK, Listed
<1>2. ASSUME NEW p \in Invocations, Request(p)
      PROVE  Shape' /\ UNCHANGED <<event, edition>>
  BY <1>2, BeginShape
<1>3. ASSUME NEW p \in Invocations, Work(p)
      PROVE  Shape' /\ (UNCHANGED <<event, edition>> \/ Written(p))
  <2>1. CASE QueryPage(p) \/ QueryAll(p) \/ RewriteStand(p) \/ RereadStand(p)
    <3>1. UNCHANGED <<event, edition>>
      BY <2>1 DEF QueryPage, QueryAll, RewriteStand, RereadStand, Continue, Return, WriteStand
    <3> QED
      BY <2>1, <3>1, QueryShape, RewriteShape
  <2>2. CASE \/ ReadStand(p) \/ ReadEvent(p) \/ Moderate(p) \/ Join(p)
             \/ EditStand(p) \/ Submit(p) \/ Reassign(p)
    <3>1. UNCHANGED <<event, edition>>
      BY <2>2 DEF ReadStand, ReadEvent, Moderate, Join, EditStand, Submit, Reassign, Continue, Return,
                  WriteStand
    <3> QED
      BY <2>2, <3>1, StandShape
  <2>3. CASE \/ Edit(p) \/ SaveCheckpoint(p) \/ Finalize(p) \/ MarkFailed(p) \/ FinishArchive(p)
             \/ StartArchive(p) \/ Transition(p)
    BY <2>3, WriteShape, ArchiveShape, TransitionShape
  <2> QED
    BY <1>3, <2>1, <2>2, <2>3 DEF Work, PublishStep
<1>4. ASSUME NEW p \in Invocations, Crash(p) PROVE Shape' /\ UNCHANGED <<event, edition>>
  BY <1>4, ReturnShape DEF Crash, Return, Continue
<1> QED
  BY <1>1, <1>2, <1>3, <1>4 DEF Next

LEMMA ShapeInit == Init => Shape
<1> SUFFICES ASSUME Init PROVE Shape
  OBVIOUS
<1>1. event \in EventRows
  BY EventRowType DEF Init, EventStatuses
<1>2. TypeOK
  BY <1>1, IdleType, StartType DEF Init, TypeOK, StandRows
<1> QED
  BY <1>2, IdleGood DEF Init, Shape

(* Rows, keys, pages and requests keep their types, whatever overlaps or    *)
(* dies: no request rewrites a stand off an empty page, and no page names a *)
(* stand that does not exist.                                               *)
THEOREM TypeCorrect == Spec => []TypeOK
<1>1. Shape /\ [Next]_vars => Shape'
  BY EventSteps
<1>2. Shape => TypeOK
  BY DEF Shape
<1> QED
  BY <1>1, <1>2, ShapeInit, PTL DEF Spec

\* Every write of the event is a step of its life.
LEMMA LifeNext ==
    ASSUME Shape, [Next]_vars
    PROVE  [Lifecycle!Next]_(Lifecycle!lifecycle)
<1>1. CASE UNCHANGED <<event, edition>>
  BY <1>1 DEF Lifecycle!lifecycle, IsEventPublic
<1>2. ASSUME NEW p \in Invocations, Written(p) PROVE Lifecycle!Next
  <2>0. Holds(req[p], event.status) /\ Formed(req[p]) /\ event.status \in EventStatuses
    BY Held, Typed DEF Good, Shape
  <2>1. ASSUME NEW status, NEW open, event' = EventRow(status, open, FALSE), status # "published",
               UNCHANGED edition, NEW from, event.status \in from
        PROVE  Lifecycle!Move(from, status)
    BY <2>1 DEF EventRow, Lifecycle!Move, IsEventPublic
  <2>2. CASE req[p].at = "edit" /\ edition' = edition + 1
    <3>1. PICK open \in BOOLEAN : event' = EventRow("draft", open, FALSE)
      BY <1>2, <2>2, <2>0 DEF Written, Formed
    <3> QED
      BY <1>2, <2>0, <2>2, <3>1 DEF Written, Holds, EventRow, IsEventPublic, Lifecycle!Edit, Lifecycle!Next
  <2>3. CASE req[p].at = "transition" /\ event' = EventRow("publishing", event.open, FALSE)
             /\ req[p].eventHeld /\ UNCHANGED edition
    BY <2>0, <2>1, <2>3 DEF Holds, Lifecycle!Next
  <2>4. CASE req[p].at = "finalize" /\ event' = EventRow("published", event.open, req[p].shown)
             /\ req[p].eventHeld /\ UNCHANGED edition
    BY <2>0, <2>4 DEF Holds, Formed, EventRow, IsEventPublic, Lifecycle!Publish, Lifecycle!Next
  <2>5. CASE /\ req[p].task = "publish" /\ req[p].at # "transition"
             /\ event' = EventRow("publish_failed", event.open, FALSE)
             /\ req[p].eventHeld /\ UNCHANGED edition
    BY <2>0, <2>1, <2>5 DEF Holds, Lifecycle!Next
  <2>6. CASE req[p].at = "archive" /\ event' = EventRow("archiving", event.open, FALSE)
             /\ req[p].eventHeld /\ UNCHANGED edition
    BY <2>0, <2>1, <2>6 DEF Holds, Lifecycle!Next
  <2>7. CASE req[p].at = "archived" /\ event' = EventRow("archived", event.open, FALSE)
             /\ req[p].eventHeld /\ UNCHANGED edition
    BY <2>0, <2>1, <2>7 DEF Holds, Formed, Lifecycle!Next
  <2> QED
    BY <1>2, <2>2, <2>3, <2>4, <2>5, <2>6, <2>7 DEF Written
<1> QED
  BY <1>1, <1>2, EventSteps

LEMMA LifeInit == Init => Lifecycle!Init
BY DEF Init, EventRow, IsEventPublic, Lifecycle!Init

\* The event lives the documented life, however publications, archives, edits
\* and failures interleave: every write of its row is conditioned on the
\* revision that was read, and so on the status it is allowed from.
THEOREM LifeKept == Spec => KeepsLifecycle
<1> QED
  BY ShapeInit, LifeInit, EventSteps, LifeNext, PTL DEF Spec, KeepsLifecycle, Lifecycle!Spec

\* An archive is for good, and visitors see an event only as it was published:
\* it becomes public by a publication, and its content does not change while it
\* is.
OneWay ==
    /\ event.status = "archived" => event'.status = "archived"
    /\ event.status = "archiving" => event'.status \in {"archiving", "archived"}
    /\ IsEventPublic'
         => event.status = "publishing" \/ (IsEventPublic /\ edition' = edition)

LifeIsOneWay == [][OneWay]_vars

LEMMA LifecycleOneWay ==
    ASSUME [Lifecycle!Next]_(Lifecycle!lifecycle) PROVE OneWay
<1>1. CASE Lifecycle!Edit
  BY <1>1 DEF Lifecycle!Edit, OneWay
<1>2. CASE Lifecycle!Publish
  BY <1>2 DEF Lifecycle!Publish, OneWay
<1>3. ASSUME NEW from, NEW to, Lifecycle!Move(from, to),
             "archived" \notin from, "archiving" \in from => to = "archived"
      PROVE  OneWay
  BY <1>3 DEF Lifecycle!Move, OneWay
<1>4. CASE UNCHANGED Lifecycle!lifecycle
  BY <1>4 DEF Lifecycle!lifecycle, OneWay
<1> QED
  BY <1>1, <1>2, <1>3, <1>4 DEF Lifecycle!Next

\* No request that read the event earlier brings it back from an archive, or
\* shows visitors an edit that was not published.
THEOREM ArchivedForGood == Spec => LifeIsOneWay
<1>1. Shape /\ [Next]_vars => OneWay
  BY LifeNext, LifecycleOneWay
<1> QED
  BY <1>1, ShapeInit, EventSteps, PTL DEF Spec, LifeIsOneWay
-----------------------------------------------------------------------------
(* Stands *)

\* The row assertCanonicalStand accepts.
Canonical(row) ==
    row.shown => row.status = "published" /\ row.stamp /\ row.class = "published"

LEMMA CanonicalRows ==
    /\ \A status, published, shown : Canonical(Derived(status, published, shown))
    /\ \A status, stamp, class : Canonical(Stand(status, stamp, FALSE, class))
    /\ Canonical(NoStand)
BY DEF Canonical, Derived, Stand, NoStand

LEMMA CanonicalWrite ==
    ASSUME TypeOK, CanonicalStand, NEW p, NEW s, NEW row, NEW r, Canonical(row),
           WriteStand(p, s, row, r)
    PROVE  CanonicalStand'
BY DEF WriteStand, TypeOK, CanonicalStand, Canonical

LEMMA CanonicalNext ==
    ASSUME TypeOK, CanonicalStand, [Next]_vars
    PROVE  CanonicalStand'
<1>1. CASE UNCHANGED stand
  BY <1>1 DEF CanonicalStand
<1>2. ASSUME NEW p \in Invocations, RewriteStand(p)
      PROVE  UNCHANGED stand \/ \E s, row, r : Canonical(row) /\ WriteStand(p, s, row, r)
  <2>1. \A q, row : Canonical(Snapshot(q, row))
    BY CanonicalRows DEF Snapshot
  <2> QED
    BY <1>2, <2>1 DEF RewriteStand, Continue, Return
<1>3. ASSUME NEW p \in Invocations, Moderate(p) \/ Join(p) \/ EditStand(p) \/ Submit(p)
      PROVE UNCHANGED stand \/ \E s, row, r : Canonical(row) /\ WriteStand(p, s, row, r)
  BY <1>3, CanonicalRows DEF Moderate, Join, EditStand, EditedStand, Submit, Continue, Return
<1>4. \/ UNCHANGED stand
      \/ \E p \in Invocations : RewriteStand(p) \/ Moderate(p) \/ Join(p) \/ EditStand(p) \/ Submit(p)
  BY DEF Next, vars, Request, Work, PublishStep, Crash, BeginEdit, BeginArchive, Begin, BeginPublish,
         BeginJoin, BeginModerate, BeginStand, Continue, Return, Transition, QueryPage, RereadStand,
         SaveCheckpoint, Finalize, MarkFailed, Edit, StartArchive, QueryAll, FinishArchive, ReadStand,
         ReadEvent, Reassign, WriteEvent
<1> QED
  BY <1>1, <1>2, <1>3, <1>4, CanonicalWrite

\* Five handlers write the four fields of a stand that say whether visitors see
\* it, from rows read earlier; the row they leave is always one that
\* assertCanonicalStand accepts.
THEOREM StandCanonical == Spec => []CanonicalStand
<1>1. Init => CanonicalStand
  BY CanonicalRows DEF Init, CanonicalStand, Canonical
<1>2. Shape /\ CanonicalStand /\ [Next]_vars => Shape' /\ CanonicalStand'
  BY EventSteps, CanonicalNext DEF Shape
<1> QED
  BY <1>1, <1>2, ShapeInit, PTL DEF Spec
-----------------------------------------------------------------------------
(* Complete publications *)

\* The index is sorted by class, and a key has the lower classes behind it.
Closed(key) == \A s \in Listed : Rank(stand[s].class) < key.rank => s \in key.behind

Sorted ==
    /\ \A s, t \in Stands : <<s, t>> \in index =>
          s \in Listed /\ t \in Listed /\ Rank(stand[s].class) <= Rank(stand[t].class)
    /\ Closed(checkpoint)
    /\ \A p \in Invocations : Closed(req[p].cursor)

\* Approved stands stay in their class until an archive moves them, and then
\* nothing is published any more.
Archival == event.status \in {"archiving", "archived"}

Classed ==
    /\ \A s \in Approved : \/ stand[s].class = "published"
                           \/ stand[s].class = "archived" /\ Archival
    /\ \A p \in Invocations :
          req[p].task = "archive" /\ req[p].at # "archive" => Archival

\* A request of a publication, while nobody else wrote the event: what is owed
\* is ahead of its cursor or on its page.
Serves(r, debt, start) == r.task = "publish" /\ r.eventHeld =>
    /\ r.at = "transition" => r.cursor = start
    /\ r.at # "transition" =>
          r.current /\ debt \cap r.cursor.behind \subseteq Elements(r.page)
    /\ r.at \in PageSteps \cup {"finalize"} /\ ~r.more => debt \subseteq Elements(r.page)

Owing ==
    /\ owed \subseteq Approved
    /\ owed # {} => event.status \in {"publishing", "publish_failed"}
    /\ owed \cap checkpoint.behind = {}
    /\ event.status \in {"draft", "published"} => checkpoint = Start
    /\ \A p \in Invocations : Serves(req[p], owed, checkpoint)

Pass == Sorted /\ Classed /\ Owing
-----------------------------------------------------------------------------
(* The three kinds of steps *)

LEMMA IdleServes == (\A debt, start : Serves(Idle, debt, start)) /\ Idle.cursor = Start /\ Idle.task = "none"
BY IdleType DEF Serves, Idle

LEMMA StartClosed == Closed(Start) /\ Start.behind = {} /\ Start.rank = 0
BY RankType DEF Closed, Start

\* A request goes on.
LEMMA PassContinue ==
    ASSUME Shape, Pass, NEW p \in Invocations, NEW r, Continue(p, r),
           Closed(r.cursor), Serves(r, owed, checkpoint),
           r.task = "archive" /\ r.at # "archive" => Archival
    PROVE  Pass'
<1>1. /\ UNCHANGED <<event, checkpoint, stand, index, owed>>
      /\ \A q \in Invocations : req'[q] = IF q = p THEN r ELSE req[q]
  BY DEF Continue, Shape, TypeOK
<1>2. Sorted'
  BY <1>1 DEF Pass, Sorted, Closed, Listed
<1>3. Classed'
  BY <1>1 DEF Pass, Classed, Approved, Archival
<1>4. Owing'
  BY <1>1 DEF Pass, Owing, Approved, Serves
<1> QED
  BY <1>2, <1>3, <1>4 DEF Pass

LEMMA PassReturn == ASSUME Shape, Pass, NEW p \in Invocations, Return(p) PROVE Pass'
BY IdleServes, StartClosed, PassContinue DEF Return

\* A request writes the event: the others do not hold it any more.
LEMMA PassWriteEvent ==
    ASSUME Shape, Pass, NEW p \in Invocations, NEW row, NEW r, WriteEvent(p, row, r),
           Closed(r.cursor), r.task # "publish",
           Archival => Archival', r.task = "archive" => Archival',
           Closed(checkpoint'), owed' \subseteq Approved,
           owed' # {} => row.status \in {"publishing", "publish_failed"},
           owed' \cap checkpoint'.behind = {},
           row.status \in {"draft", "published"} => checkpoint' = Start
    PROVE  Pass'
<1>1. /\ UNCHANGED <<stand, index>> /\ event' = row
      /\ \A q \in Invocations \ {p} :
            /\ req'[q].cursor = req[q].cursor /\ req'[q].task = req[q].task
            /\ req'[q].at = req[q].at /\ ~req'[q].eventHeld
      /\ req'[p] = r
  BY Held DEF WriteEvent, Requests
<1>2. Sorted'
  BY <1>1 DEF Pass, Sorted, Closed, Listed
<1>3. Classed'
  BY <1>1 DEF Pass, Classed, Approved
<1>4. Owing'
  BY <1>1 DEF Pass, Owing, Approved, Serves
<1> QED
  BY <1>2, <1>3, <1>4 DEF Pass

LEMMA MovedStart == ASSUME NEW s, NEW class PROVE Moved(Start, s, class) = Start
BY RankType DEF Moved, Start

\* A stand that moves stays ahead of a key, unless its class changes.
LEMMA MovedDebt ==
    ASSUME NEW key \in Keys, Closed(key), NEW s \in Stands, NEW class, NEW debt,
           s \in debt => s \in Listed /\ Rank(stand[s].class) = Rank(class)
    PROVE  debt \cap Moved(key, s, class).behind \subseteq debt \cap key.behind
BY DEF Moved, Keys, Closed

LEMMA MovedClosed ==
    ASSUME TypeOK, NEW key \in Keys, Closed(key), NEW p, NEW s \in Stands,
           NEW row \in StandRows \ {NoStand}, NEW r, WriteStand(p, s, row, r)
    PROVE  Closed(Moved(key, s, row.class))'
<1>1. /\ Listed' = Listed \cup {s} /\ stand'[s] = row
      /\ \A t \in Listed \ {s} : stand'[t] = stand[t]
  BY Grows DEF WriteStand, TypeOK, Listed
<1>2. /\ Moved(key, s, row.class).rank = key.rank
      /\ Moved(key, s, row.class).behind =
           IF Rank(row.class) < key.rank THEN key.behind \cup {s} ELSE key.behind \ {s}
  BY DEF Moved, Keys
<1>3. \A t \in Listed' : Rank(stand'[t].class) < key.rank => t \in Moved(key, s, row.class).behind
  BY <1>1, <1>2 DEF Closed
<1> QED
  BY <1>2, <1>3 DEF Closed

\* A request writes a stand.
LEMMA PassWriteStand ==
    ASSUME Shape, Pass, NEW p \in Invocations, NEW s \in Stands,
           NEW row \in StandRows \ {NoStand}, NEW r \in Requests, WriteStand(p, s, row, r),
           Closed(r.cursor), Serves(r, owed', checkpoint),
           r.task = "archive" /\ r.at # "archive" => Archival,
           owed' \subseteq owed,
           s \in Approved => row.status = "published",
           s \in owed' => Rank(stand[s].class) = Rank(row.class),
           row.status = "published" =>
              row.class = "published" \/ (row.class = "archived" /\ Archival)
    PROVE  Pass'
<1> DEFINE old(q) == IF q = p THEN r ELSE req[q]
<1>0. /\ UNCHANGED <<event, edition>> /\ checkpoint' = Moved(checkpoint, s, row.class)
      /\ checkpoint \in Keys /\ Closed(checkpoint)
  BY DEF WriteStand, Pass, Sorted, Shape, TypeOK
<1>1. \A q \in Invocations :
         /\ old(q) \in Requests /\ old(q).cursor \in Keys /\ Closed(old(q).cursor)
         /\ Serves(old(q), owed', checkpoint)
         /\ old(q).task = "archive" /\ old(q).at # "archive" => Archival
  BY Held DEF Requests, Pass, Sorted, Classed, Owing, Serves
<1>2. \A q \in Invocations :
         /\ req'[q].cursor = Moved(old(q).cursor, s, row.class) /\ req'[q].task = old(q).task
         /\ req'[q].at = old(q).at /\ req'[q].eventHeld = old(q).eventHeld
         /\ req'[q].current = old(q).current /\ req'[q].page = old(q).page
         /\ req'[q].more = old(q).more
  <2> TAKE q \in Invocations
  <2>1. req'[q] = [old(q) EXCEPT !.held = @ \ {s}, !.cursor = Moved(@, s, row.class)]
    BY DEF WriteStand
  <2> HIDE DEF old
  <2> QED
    BY <1>1, <2>1 DEF Requests
<1> HIDE DEF old
<1>3. /\ Listed' = Listed \cup {s} /\ stand'[s] = row
      /\ \A t \in Stands \ {s} : stand'[t] = stand[t]
  <2>1. TypeOK /\ stand' = [stand EXCEPT ![s] = row]
    BY DEF WriteStand, Shape
  <2>2. Listed' = Listed \cup {s}
    BY <2>1, Grows
  <2> QED
    BY <2>1, <2>2 DEF TypeOK
<1>4. Sorted'
  <2>1. \A t, u \in Stands : <<t, u>> \in index' =>
           t \in Listed' /\ u \in Listed' /\ Rank(stand'[t].class) <= Rank(stand'[u].class)
    <3> TAKE t \in Stands, u \in Stands
    <3> HAVE <<t, u>> \in index'
    <3>1. \/ <<t, u>> \in index /\ t # s /\ u # s
          \/ u = s /\ t \in Listed \ {s} /\ Rank(stand[t].class) <= Rank(row.class)
          \/ t = s /\ u \in Listed \ {s} /\ Rank(stand[u].class) > Rank(row.class)
      BY DEF WriteStand, Reindexed
    <3> QED
      BY <1>3, <3>1, RankType DEF Pass, Sorted
  <2>2. Closed(checkpoint)'
    BY <1>0, MovedClosed DEF Shape
  <2>3. \A q \in Invocations : Closed(req[q].cursor)'
    BY <1>1, <1>2, MovedClosed DEF Shape
  <2> QED
    BY <2>1, <2>2, <2>3 DEF Sorted
<1>5. Classed'
  BY <1>0, <1>1, <1>2, <1>3 DEF Pass, Classed, Approved, Archival
<1>6. s \in owed' => s \in Listed /\ Rank(stand[s].class) = Rank(row.class)
  BY DEF Pass, Owing, Approved, Listed, NoStand, Stand
<1>7. /\ owed' \cap checkpoint'.behind \subseteq owed' \cap checkpoint.behind
      /\ \A q \in Invocations :
            owed' \cap req'[q].cursor.behind \subseteq owed' \cap old(q).cursor.behind
  <2>1. \A key \in Keys : Closed(key) =>
           owed' \cap Moved(key, s, row.class).behind \subseteq owed' \cap key.behind
    BY <1>6, MovedDebt
  <2> QED
    BY <1>0, <1>1, <1>2, <2>1
<1>8. Owing'
  <2>1. owed' \subseteq Approved'
    BY <1>3 DEF Pass, Owing, Approved
  <2>2. event.status \in {"draft", "published"} => checkpoint' = Start
    BY <1>0, MovedStart DEF Pass, Owing
  <2>3. \A q \in Invocations : Serves(req'[q], owed', checkpoint')
    BY <1>0, <1>1, <1>2, <1>7 DEF Serves
  <2> QED
    BY <1>0, <1>7, <2>1, <2>2, <2>3 DEF Pass, Owing
<1> QED
  BY <1>4, <1>5, <1>8 DEF Pass
-----------------------------------------------------------------------------
(* The steps *)

LEMMA PassBegin == ASSUME Shape, Pass, NEW p \in Invocations, Request(p) PROVE Pass'
<1>0. Closed(checkpoint) /\ owed \cap checkpoint.behind = {} /\ checkpoint \in Keys
      /\ event.open \in BOOLEAN
  BY Typed DEF Pass, Sorted, Owing, Shape, TypeOK
<1>1. CASE BeginPublish(p)
  <2> DEFINE Begun(at, now) ==
               [Idle EXCEPT !.at = at, !.task = "publish", !.shown = event.open,
                            !.eventHeld = TRUE, !.cursor = checkpoint, !.current = now]
             at == IF event.status = "publishing" THEN "query" ELSE "transition"
             r == Begun(at, event.status = "publishing")
  <2>1. /\ r.at = at /\ r.task = "publish" /\ r.cursor = checkpoint /\ r.page = <<>>
        /\ r.current = (event.status = "publishing")
    BY DEF Idle
  <2>2. Continue(p, r)
    BY <1>1 DEF BeginPublish
  <2> HIDE DEF r
  <2> QED
    BY <1>0, <2>1, <2>2, PassContinue DEF Serves, PageSteps
<1>2. CASE ~BeginPublish(p)
  <2> DEFINE Free(r) == /\ r.cursor = Start /\ r.task # "publish"
                        /\ r.task = "archive" /\ r.at # "archive" => Archival
  <2>1. \E r : Continue(p, r) /\ Free(r)
    <3>1. \A at, task : LET r == [Idle EXCEPT !.at = at, !.task = task, !.eventHeld = TRUE]
                        IN r.cursor = Start /\ r.task = task /\ r.at = at
      BY DEF Idle
    <3>2. \A s, was : Free([Idle EXCEPT !.at = "join", !.task = "join", !.subject = s,
                                        !.published = was])
      BY DEF Idle
    <3>3. \A s, was, shown : \A verdict \in {"approve", "reject"} :
             Free([Idle EXCEPT !.at = "readStand", !.task = verdict, !.published = was,
                               !.shown = shown, !.subject = s])
      BY DEF Idle
    <3>4. \A s, at : \A task \in {"editStand", "submit", "reassign"} :
             Free([Idle EXCEPT !.at = at, !.task = task, !.subject = s, !.held = {s}])
      BY DEF Idle
    <3>5. ASSUME NEW at, NEW task, Begin(p, task, at), task # "publish",
                 task = "archive" /\ at # "archive" => Archival
          PROVE  \E r : Continue(p, r) /\ Free(r)
      <4> DEFINE r == [Idle EXCEPT !.at = at, !.task = task, !.eventHeld = TRUE]
      <4>1. Continue(p, r)
        BY <3>5 DEF Begin
      <4>2. Free(r)
        BY <3>1, <3>5
      <4> HIDE DEF r
      <4> QED
        BY <4>1, <4>2
    <3>6. CASE BeginEdit(p)
      BY <3>5, <3>6 DEF BeginEdit
    <3>7. CASE BeginArchive(p)
      BY <3>5, <3>7 DEF BeginArchive, Archival
    <3> HIDE DEF Free
    <3>8. ASSUME NEW s \in Stands, BeginJoin(p, s) PROVE \E r : Continue(p, r) /\ Free(r)
      BY <3>2, <3>8 DEF BeginJoin
    <3>9. ASSUME NEW s \in Stands, NEW verdict \in {"approve", "reject"}, BeginModerate(p, s, verdict)
          PROVE  \E r : Continue(p, r) /\ Free(r)
      BY <3>3, <3>9 DEF BeginModerate
    <3>10. ASSUME NEW s \in Stands, NEW task \in {"editStand", "submit", "reassign"},
                  BeginStand(p, s, task)
           PROVE  \E r : Continue(p, r) /\ Free(r)
      BY <3>4, <3>10 DEF BeginStand
    <3> QED
      BY <1>2, <3>6, <3>7, <3>8, <3>9, <3>10 DEF Request
  <2> QED
    BY <2>1, StartClosed, PassContinue DEF Serves
<1> QED
  BY <1>1, <1>2

\* A query from a cursor: what is behind the last item read is behind the new
\* cursor, and a page that is not full is all there is.
LEMMA QueryCloses ==
    ASSUME Shape, Sorted, NEW key \in Keys, Closed(key), NEW read \in PagesFrom(key)
    PROVE  /\ Elements(read) \subseteq Listed
           /\ Len(read) # PageSize => Listed \subseteq key.behind \cup Elements(read)
           /\ Len(read) = PageSize => Closed(LastKey(key, read))
<1>1. Ahead(key) \in SUBSET Stands /\ read \in Prefixes(Ahead(key)) /\ Ahead(key) \subseteq Listed
  BY DEF PagesFrom, Ahead, Listed
<1>2. read \in Seq(Stands) /\ Elements(read) \subseteq Ahead(key)
  BY <1>1, PageType
<1>3. Len(read) # PageSize => Elements(read) = Ahead(key)
  BY DEF PagesFrom
<1>4. ASSUME Len(read) = PageSize PROVE Closed(LastKey(key, read))
  <2> DEFINE last == read[Len(read)]
  <2>1. Len(read) \in DOMAIN read /\ last \in Elements(read) /\ last \in Stands
    BY <1>2, <1>4, PageAssumption DEF Elements
  <2>2. \A s \in Ahead(key) \ Elements(read) : <<last, s>> \in index
    BY <1>1, <2>1 DEF Prefixes
  <2>3. \A s \in Ahead(key) \ Elements(read) : Rank(stand[last].class) <= Rank(stand[s].class)
    BY <1>1, <2>1, <2>2 DEF Sorted
  <2>4. \A s \in Listed : Rank(stand[s].class) < Rank(stand[last].class)
           => s \in key.behind \cup Elements(read)
    BY <2>3, RankType DEF Ahead
  <2> QED
    BY <2>4 DEF Closed, LastKey
<1> QED
  BY <1>1, <1>2, <1>3, <1>4 DEF Ahead

LEMMA PassQuery ==
    ASSUME Shape, Pass, NEW p \in Invocations, QueryPage(p) \/ QueryAll(p) PROVE Pass'
<1>0. /\ Good(req[p], event.status, Listed) /\ req[p] \in Requests /\ req[p].cursor \in Keys
      /\ Closed(req[p].cursor) /\ Serves(req[p], owed, checkpoint) /\ Listed \in SUBSET Stands
      /\ req[p].at = "query" /\ req[p].page = <<>>
      /\ req[p].task = "archive" => Archival
      /\ owed \subseteq Listed
  <2>1. req[p].at = "query" /\ req[p].page = <<>>
    BY Held DEF QueryPage, QueryAll, Good, Formed
  <2>2. owed \subseteq Listed
    BY DEF Pass, Owing, Approved, Listed, NoStand, Stand
  <2> QED
    BY <2>1, <2>2, Held DEF Requests, Listed, Pass, Sorted, Owing, Classed
<1>1. CASE QueryPage(p)
  <2>1. PICK read \in PagesFrom(req[p].cursor) :
              LET full == Len(read) = PageSize
                  r == [req[p] EXCEPT
                          !.page = read, !.held = Elements(read), !.more = full,
                          !.cursor = IF full THEN LastKey(@, read) ELSE Start]
              IN Continue(p, [r EXCEPT !.at = AfterPage(r)])
    BY <1>1 DEF QueryPage
  <2>2. read \in Seq(Stands)
    BY PageType DEF PagesFrom, Ahead, Listed
  <2> DEFINE full == Len(read) = PageSize
             key == IF full THEN LastKey(req[p].cursor, read) ELSE Start
             q == [req[p] EXCEPT !.page = read, !.held = Elements(read), !.more = full,
                                 !.cursor = IF full THEN LastKey(@, read) ELSE Start]
             r == [q EXCEPT !.at = AfterPage(q)]
  <2>3. /\ r.page = read /\ r.task = req[p].task /\ r.more = full /\ r.cursor = key
        /\ r.eventHeld = req[p].eventHeld /\ r.current = req[p].current /\ r.at = AfterPage(q)
        /\ q.task = "publish"
    BY <1>0, <1>1 DEF QueryPage, Requests
  <2>4. Continue(p, r)
    BY <2>1
  <2>5. r.at \in {"stands", "save", "finalize"}
    BY <2>3 DEF AfterPage
  <2> HIDE DEF r, q
  <2>6. Closed(key)
    BY <1>0, StartClosed, QueryCloses DEF Pass
  <2>7. r.task = "publish" /\ r.eventHeld =>
           /\ r.current /\ owed \cap req[p].cursor.behind = {}
    BY <1>0, <2>3 DEF Serves, Elements
  <2>8. full => key.behind = req[p].cursor.behind \cup Elements(read)
    BY DEF LastKey
  <2>9. ~full => key.behind = {} /\ Listed \subseteq req[p].cursor.behind \cup Elements(read)
    BY <1>0, StartClosed, QueryCloses DEF Pass
  <2> HIDE DEF full, key
  <2>10. Serves(r, owed, checkpoint)
    BY <1>0, <2>3, <2>5, <2>7, <2>8, <2>9 DEF Serves
  <2> QED
    BY <1>1, <2>3, <2>4, <2>6, <2>10, PassContinue DEF QueryPage
<1>2. CASE QueryAll(p)
  <2>1. PICK read \in Prefixes(Listed) :
         LET r == [req[p] EXCEPT !.page = read, !.held = Elements(read)]
         IN Continue(p, [r EXCEPT !.at = AfterPage(r)])
    BY <1>2 DEF QueryAll
  <2> DEFINE q == [req[p] EXCEPT !.page = read, !.held = Elements(read)]
             r == [q EXCEPT !.at = AfterPage(q)]
  <2>2. r.task = "archive" /\ r.cursor = req[p].cursor
    BY <1>0, <1>2 DEF QueryAll, Requests
  <2>3. Continue(p, r)
    BY <2>1
  <2> HIDE DEF r
  <2> QED
    BY <1>0, <1>2, <2>2, <2>3, PassContinue DEF QueryAll, Serves
<1> QED
  BY <1>1, <1>2

LEMMA PassRewrite ==
    ASSUME Shape, Pass, NEW p \in Invocations, RewriteStand(p) \/ RereadStand(p) PROVE Pass'
<1> DEFINE s == Head(req[p].page)
           q == [req[p] EXCEPT !.page = Tail(@)]
           r == [q EXCEPT !.at = AfterPage(q)]
<1>0. /\ req[p].at \in PageSteps /\ req[p] \in Requests
      /\ Closed(req[p].cursor) /\ Serves(req[p], owed, checkpoint)
      /\ req[p].task \in {"publish", "archive"}
      /\ req[p].task = "archive" => Archival
  <2>1. req[p].at \in PageSteps
    BY DEF RewriteStand, RereadStand, PageSteps
  <2> QED
    BY <2>1, Held DEF Good, Formed, PageSteps, Pass, Sorted, Owing, Classed
<1>1. CASE /\ WriteStand(p, s, Snapshot(req[p], stand[s]), r)
           /\ owed' = IF req[p].current THEN owed \ {s} ELSE owed
  <2>1. /\ s \in Listed /\ s \in Stands /\ Good(r, event.status, Listed)
        /\ Elements(req[p].page) = {s} \cup Elements(Tail(req[p].page))
        /\ r.at \in {"stands", "archived", "save", "finalize"}
        /\ r.task = req[p].task /\ r.page = Tail(req[p].page)
        /\ r.cursor = req[p].cursor /\ r.more = req[p].more
        /\ r.eventHeld = req[p].eventHeld /\ r.current = req[p].current
    BY <1>0, Rewrites
  <2>2. owed' = IF req[p].current THEN owed \ {s} ELSE owed
    BY <1>1
  <2> HIDE DEF r, s
  <2> DEFINE row == Snapshot(req[p], stand[s])
  <2>3. /\ row \in StandRows \ {NoStand} /\ row.status = stand[s].status
        /\ req[p].task = "archive" => row.class = "archived"
        /\ req[p].task = "publish" /\ row.status = "published" => row.class = "published"
    <3>1. row \in StandRows \ {NoStand}
      BY <1>0, <2>1, SnapshotType DEF Listed, Shape, TypeOK
    <3> QED
      BY <1>0, <3>1 DEF Snapshot, Derived, Stand
  <2> HIDE DEF row
  <2>4. Serves(r, owed', checkpoint)
    BY <1>0, <2>1, <2>2 DEF Serves, PageSteps
  <2>5. ASSUME s \in owed' PROVE Rank(stand[s].class) = Rank(row.class)
    <3>1. s \in owed /\ s \in Approved /\ ~Archival
      BY <2>2, <2>5 DEF Pass, Owing, Archival
    <3> QED
      BY <1>0, <2>3, <3>1 DEF Pass, Classed, Approved
  <2> QED
    BY <1>0, <1>1, <2>1, <2>2, <2>3, <2>4, <2>5, PassWriteStand DEF Good, Approved, row
<1>2. CASE Continue(p, [req[p] EXCEPT !.at = "reread"])
  <2> DEFINE n == [req[p] EXCEPT !.at = "reread"]
  <2>1. /\ n.at = "reread" /\ n.task = req[p].task /\ n.page = req[p].page /\ n.more = req[p].more
        /\ n.cursor = req[p].cursor /\ n.eventHeld = req[p].eventHeld /\ n.current = req[p].current
    BY <1>0 DEF Requests
  <2> HIDE DEF n
  <2>2. Serves(n, owed, checkpoint)
    BY <1>0, <2>1 DEF Serves, PageSteps
  <2> QED
    BY <1>0, <1>2, <2>1, <2>2, PassContinue DEF n
<1>3. CASE RereadStand(p)
  <2> DEFINE n == [req[p] EXCEPT !.at = "retry", !.held = @ \cup {s}]
  <2>1. /\ n.at = "retry" /\ n.task = req[p].task /\ n.page = req[p].page /\ n.more = req[p].more
        /\ n.cursor = req[p].cursor /\ n.eventHeld = req[p].eventHeld /\ n.current = req[p].current
    BY <1>0 DEF Requests
  <2>2. Continue(p, n)
    BY <1>3 DEF RereadStand
  <2> HIDE DEF n
  <2>3. Serves(n, owed, checkpoint)
    BY <1>0, <2>1 DEF Serves, PageSteps
  <2> QED
    BY <1>0, <2>1, <2>2, <2>3, PassContinue
<1>4. CASE Return(p)
  BY <1>4, PassReturn
<1> QED
  BY <1>1, <1>2, <1>3, <1>4 DEF RewriteStand

\* moderateStand, acceptInvitation and the exhibitor's requests leave approved
\* stands alone.
LEMMA PassStand ==
    ASSUME Shape, Pass, NEW p \in Invocations,
           \/ ReadStand(p) \/ Moderate(p) \/ Join(p) \/ EditStand(p)
           \/ ReadEvent(p) \/ Submit(p) \/ Reassign(p)
    PROVE  Pass'
<1> DEFINE s == req[p].subject
<1>0. /\ req[p] \in Requests /\ s \in Stands /\ ~req[p].eventHeld
      /\ req[p].published \in BOOLEAN /\ req[p].shown \in BOOLEAN /\ stand[s] \in StandRows
      /\ Closed(req[p].cursor)
      /\ req[p].task = "archive" => Archival
  <2>1. req[p].at \in SubjectSteps /\ req[p].at # "archive"
    BY DEF ReadStand, Moderate, Join, EditStand, ReadEvent, Submit, Reassign, SubjectSteps
  <2>2. Formed(req[p]) /\ req[p] \in Requests
    BY Held DEF Good
  <2> QED
    BY <2>1, <2>2 DEF Formed, Requests, Shape, TypeOK, Pass, Sorted, Classed
<1>1. CASE ReadStand(p) \/ ReadEvent(p)
  <2>1. \A r : /\ Continue(p, r) /\ r.cursor = req[p].cursor /\ r.task = req[p].task /\ ~r.eventHeld
               => Pass'
    BY <1>0, PassContinue DEF Serves
  <2>2. LET r == [req[p] EXCEPT !.at = "moderate", !.held = {s}]
        IN r.cursor = req[p].cursor /\ r.task = req[p].task /\ ~r.eventHeld
    BY <1>0 DEF Requests
  <2>3. \A now : LET r == [req[p] EXCEPT !.at = "submit", !.published = now]
                 IN r.cursor = req[p].cursor /\ r.task = req[p].task /\ ~r.eventHeld
    BY <1>0 DEF Requests
  <2>4. CASE ReadStand(p)
    BY <2>1, <2>2, <2>4, PassReturn DEF ReadStand
  <2>5. CASE ReadEvent(p)
    BY <2>1, <2>3, <2>5 DEF ReadEvent
  <2> QED
    BY <1>1, <2>4, <2>5
<1>2. ASSUME NEW row \in StandRows \ {NoStand}, WriteStand(p, s, row, Idle), UNCHANGED owed,
             s \notin Approved, row.status = "published" => row.class = "published"
      PROVE  Pass'
  <2>1. /\ Idle \in Requests /\ Closed(Idle.cursor) /\ Serves(Idle, owed', checkpoint)
        /\ Idle.task # "archive"
    BY IdleType, IdleServes, StartClosed
  <2>2. s \notin owed' /\ owed' \subseteq owed
    BY <1>2 DEF Pass, Owing
  <2> QED
    BY <1>0, <1>2, <2>1, <2>2, PassWriteStand
<1>3. CASE Moderate(p)
  <2>1. \A status \in {"published", "rejected"} :
           LET row == Derived(status, req[p].published, req[p].shown)
           IN row \in StandRows \ {NoStand} /\ (row.status = "published" => row.class = "published")
    <3>1. \A status, was, shown : LET row == Derived(status, was, shown)
                                  IN row.status = "published" => row.class = "published"
      BY DEF Derived, Stand
    <3> QED
      BY <1>0, <3>1, DerivedType
  <2> QED
    BY <1>2, <1>3, <2>1, PassReturn DEF Moderate, Approved
<1>4. CASE Join(p) \/ Submit(p)
  <2>1. \A was \in BOOLEAN : \A status \in {"draft", "pending_review"} :
           /\ Stand(status, was, FALSE, status) \in StandRows \ {NoStand}
           /\ Stand(status, was, FALSE, status).status # "published"
    BY DEF Stand, StandRows, NoStand
  <2>2. stand[s] = NoStand \/ Editable(s) => s \notin Approved
    BY DEF NoStand, Stand, Editable, Approved
  <2> QED
    BY <1>0, <1>2, <1>4, <2>1, <2>2, PassReturn DEF Join, Submit
<1>5. CASE EditStand(p)
  <2>1. Editable(s) => /\ EditedStand(stand[s]) \in StandRows \ {NoStand}
                       /\ EditedStand(stand[s]).status # "published"
                       /\ s \notin Approved
    BY <1>0 DEF Editable, EditedStand, Stand, StandRows, NoStand, Approved
  <2> QED
    BY <1>2, <1>5, <2>1, PassReturn DEF EditStand
<1>6. CASE Reassign(p) /\ ~Return(p)
  <2>1. /\ UNCHANGED <<event, edition, checkpoint, stand, index, owed>>
        /\ req' = [q \in Invocations |->
                     IF q = p THEN Idle ELSE [req[q] EXCEPT !.held = @ \ {s}]]
    BY <1>6 DEF Reassign
  <2>2. \A q \in Invocations \ {p} :
           /\ req'[q].cursor = req[q].cursor /\ req'[q].task = req[q].task
           /\ req'[q].at = req[q].at /\ req'[q].eventHeld = req[q].eventHeld
           /\ req'[q].current = req[q].current /\ req'[q].page = req[q].page
           /\ req'[q].more = req[q].more
    BY <2>1, Held DEF Requests
  <2>3. req'[p] = Idle
    BY <2>1
  <2>4. Sorted'
    BY <2>1, <2>2, <2>3, StartClosed, IdleServes DEF Pass, Sorted, Closed, Listed
  <2>5. Classed'
    BY <2>1, <2>2, <2>3, IdleServes DEF Pass, Classed, Approved, Archival
  <2>6. Owing'
    <3>1. \A q \in Invocations : Serves(req'[q], owed, checkpoint)
      BY <2>2, <2>3, IdleServes DEF Pass, Owing, Serves
    <3> QED
      BY <2>1, <3>1 DEF Pass, Owing, Approved
  <2> QED
    BY <2>4, <2>5, <2>6 DEF Pass
<1>7. CASE Return(p)
  BY <1>7, PassReturn
<1> QED
  BY <1>1, <1>3, <1>4, <1>5, <1>6, <1>7

\* Writes of the event by a request that holds it, and so knows its status.
LEMMA PassWrite ==
    ASSUME Shape, Pass, NEW p \in Invocations,
           \/ Edit(p) \/ SaveCheckpoint(p) \/ Finalize(p) \/ MarkFailed(p)
           \/ StartArchive(p) \/ FinishArchive(p)
    PROVE  Pass'
<1>0. /\ req[p] \in Requests /\ Formed(req[p]) /\ Holds(req[p], event.status)
      /\ Closed(req[p].cursor) /\ Closed(checkpoint) /\ Serves(req[p], owed, checkpoint)
      /\ req[p].at = "archived" => req[p].task = "archive" /\ req[p].at # "archive"
      /\ event.status \in EventStatuses
  BY Held, Typed DEF Good, Formed, Pass, Sorted, Owing, Shape
<1>1. CASE Return(p)
  BY <1>1, PassReturn
<1>2. ASSUME NEW status, NEW open, NEW shown, WriteEvent(p, EventRow(status, open, shown), Idle),
             Archival => status \in {"archiving", "archived"},
             Closed(checkpoint'), owed' \subseteq owed,
             owed' # {} => status \in {"publishing", "publish_failed"},
             owed' \cap checkpoint'.behind = {},
             status \in {"draft", "published"} => checkpoint' = Start
      PROVE  Pass'
  <2>1. /\ EventRow(status, open, shown).status = status
        /\ event' = EventRow(status, open, shown)
    BY <1>2 DEF EventRow, WriteEvent
  <2>2. Archival => Archival'
    BY <1>2, <2>1 DEF Archival
  <2>3. owed' \subseteq Approved
    BY <1>2 DEF Pass, Owing
  <2> QED
    BY <1>2, <2>1, <2>2, <2>3, IdleServes, StartClosed, PassWriteEvent
<1>3. CASE Edit(p) /\ ~Return(p)
  <2>1. /\ req[p].eventHeld /\ owed' = {}
        /\ checkpoint' = IF event.status = "published" THEN Start ELSE checkpoint
        /\ \E open \in BOOLEAN : WriteEvent(p, EventRow("draft", open, FALSE), Idle)
    BY <1>3 DEF Edit
  <2>2. event.status \in {"draft", "published"} /\ ~Archival
    BY <1>0, <1>3, <2>1 DEF Edit, Holds, Archival
  <2>3. checkpoint' = Start
    BY <2>1, <2>2 DEF Pass, Owing
  <2> QED
    BY <1>2, <2>1, <2>2, <2>3, StartClosed
<1>4. CASE SaveCheckpoint(p) /\ ~Return(p)
  <2>1. /\ req[p].eventHeld /\ owed' = owed /\ checkpoint' = req[p].cursor
        /\ WriteEvent(p, event, Idle) /\ req[p].at = "save"
    BY <1>4 DEF SaveCheckpoint
  <2>2. event.status = "publishing" /\ req[p].page = <<>> /\ req[p].task = "publish"
    BY <1>0, <2>1 DEF Formed, Holds
  <2>3. owed \cap req[p].cursor.behind = {}
    BY <1>0, <2>1, <2>2 DEF Serves, Elements
  <2>4. UNCHANGED event
    BY <2>1 DEF WriteEvent
  <2> QED
    BY <1>0, <2>1, <2>2, <2>3, <2>4, IdleServes, StartClosed, PassWriteEvent DEF Pass, Owing, Archival
<1>5. CASE Finalize(p) /\ ~Return(p)
  <2>1. /\ req[p].eventHeld /\ owed' = owed /\ checkpoint' = Start /\ req[p].at = "finalize"
        /\ WriteEvent(p, EventRow("published", event.open, req[p].shown), Idle)
    BY <1>5 DEF Finalize
  <2>2. event.status = "publishing" /\ req[p].page = <<>> /\ req[p].task = "publish" /\ ~req[p].more
    BY <1>0, <2>1 DEF Formed, Holds
  <2>3. owed = {}
    BY <1>0, <2>1, <2>2 DEF Serves, Elements
  <2> QED
    BY <1>2, <2>1, <2>2, <2>3, StartClosed DEF Archival
<1>6. CASE MarkFailed(p) /\ ~Return(p)
  <2>1. /\ req[p].eventHeld /\ UNCHANGED <<owed, checkpoint>> /\ req[p].task = "publish"
        /\ req[p].at # "transition"
        /\ WriteEvent(p, EventRow("publish_failed", event.open, FALSE), Idle)
    BY <1>6 DEF MarkFailed
  <2>2. event.status = "publishing"
    BY <1>0, <2>1 DEF Holds
  <2> QED
    BY <1>0, <1>2, <2>1, <2>2 DEF Pass, Owing, Archival
<1>7. CASE StartArchive(p) /\ ~Return(p)
  <2> DEFINE r == [req[p] EXCEPT !.at = "query"]
             row == EventRow("archiving", event.open, FALSE)
  <2>1. WriteEvent(p, row, r) /\ checkpoint' = checkpoint /\ owed' = {}
    BY <1>7 DEF StartArchive
  <2>2. r.cursor = req[p].cursor /\ r.task = "archive"
    BY <1>0, <1>7 DEF StartArchive, Formed, Requests
  <2>3. row.status = "archiving" /\ Archival'
    BY <2>1 DEF EventRow, WriteEvent, Archival
  <2> HIDE DEF r, row
  <2> QED
    BY <1>0, <2>1, <2>2, <2>3, PassWriteEvent
<1>8. CASE FinishArchive(p) /\ ~Return(p)
  <2>1. /\ req[p].eventHeld /\ UNCHANGED <<owed, checkpoint>> /\ req[p].at = "archived"
        /\ WriteEvent(p, EventRow("archived", event.open, FALSE), Idle)
    BY <1>8 DEF FinishArchive
  <2>2. event.status = "archiving" /\ owed = {}
    BY <1>0, <2>1 DEF Holds, Pass, Owing
  <2> QED
    BY <1>0, <1>2, <2>1, <2>2
<1> QED
  BY <1>1, <1>3, <1>4, <1>5, <1>6, <1>7, <1>8

\* A new publication owes all approved stands; one that failed goes on where
\* its checkpoint says.
LEMMA PassTransition == ASSUME Shape, Pass, NEW p \in Invocations, Transition(p) PROVE Pass'
<1>1. CASE Return(p)
  BY <1>1, PassReturn
<1>2. CASE ~Return(p)
  <2> DEFINE r == [req[p] EXCEPT !.at = "query", !.current = TRUE]
             Left(q) == [req[q] EXCEPT !.eventHeld = FALSE,
                                       !.current = @ /\ event.status = "publish_failed"]
  <2>1. /\ event' = EventRow("publishing", event.open, FALSE)
        /\ UNCHANGED <<edition, checkpoint, stand, index>>
        /\ req' = [q \in Invocations |-> IF q = p THEN r ELSE Left(q)]
        /\ owed' = IF event.status = "publish_failed" THEN owed ELSE Approved
        /\ req[p].at = "transition" /\ req[p].eventHeld
    BY <1>2 DEF Transition
  <2>2. /\ req[p] \in Requests /\ req[p].task = "publish" /\ req[p].page = <<>>
        /\ event.status \in {"draft", "publish_failed", "published"}
        /\ req[p].cursor = checkpoint
    BY <2>1, Held DEF Good, Formed, Holds, Pass, Owing, Serves
  <2>3. /\ r.at = "query" /\ r.task = "publish" /\ r.cursor = checkpoint /\ r.current
        /\ r.page = <<>>
    BY <2>2 DEF Requests
  <2>4. \A q \in Invocations : /\ Left(q).cursor = req[q].cursor /\ Left(q).task = req[q].task
                               /\ Left(q).at = req[q].at /\ ~Left(q).eventHeld
    BY Held DEF Requests
  <2> HIDE DEF r, Left
  <2>5. \A q \in Invocations : req'[q] = IF q = p THEN r ELSE Left(q)
    BY <2>1
  <2>6. event'.status = "publishing" /\ ~Archival /\ ~Archival'
    BY <2>1, <2>2 DEF EventRow, Archival
  <2>7. Sorted'
    BY <2>1, <2>3, <2>4, <2>5 DEF Pass, Sorted, Closed, Listed
  <2>8. Classed'
    BY <2>1, <2>3, <2>4, <2>5, <2>6 DEF Pass, Classed, Approved
  <2>9. owed' \subseteq Approved /\ owed' \cap checkpoint.behind = {}
    BY <2>1, <2>2, StartClosed DEF Pass, Owing
  <2>10. \A q \in Invocations : Serves(req'[q], owed', checkpoint)
    BY <2>3, <2>4, <2>5, <2>9 DEF Serves, PageSteps
  <2> QED
    BY <2>1, <2>6, <2>7, <2>8, <2>9, <2>10 DEF Pass, Owing, Approved
<1> QED
  BY <1>1, <1>2

LEMMA PassNext == ASSUME Shape, Pass, [Next]_vars PROVE Pass'
<1>1. CASE UNCHANGED vars
  BY <1>1 DEF vars, Pass, Sorted, Closed, Listed, Classed, Owing, Approved, Archival, Serves
<1>2. ASSUME NEW p \in Invocations, Work(p) PROVE Pass'
  BY <1>2, PassTransition, PassQuery, PassRewrite, PassStand, PassWrite DEF Work, PublishStep
<1>3. ASSUME NEW p \in Invocations, Crash(p) PROVE Pass'
  BY <1>3, PassReturn DEF Crash
<1> QED
  BY <1>1, <1>2, <1>3, PassBegin DEF Next

LEMMA PassInit == Init => Pass
<1> SUFFICES ASSUME Init PROVE Pass
  OBVIOUS
<1>1. Listed = {} /\ Approved = {}
  BY DEF Init, Listed, Approved, NoStand, Stand
<1> QED
  BY <1>1, IdleServes, StartClosed DEF Init, Pass, Sorted, Classed, Owing

\* Only finalizePublishing turns a publishing event into a published one, and
\* the request that does it has an empty last page.
LEMMA PassEnds ==
    ASSUME Shape, Pass, [Next]_vars, event.status = "publishing", event'.status = "published"
    PROVE  owed = {}
<1>1. PICK p \in Invocations : Written(p)
  BY EventSteps
<1>2. req[p].at = "finalize" /\ req[p].eventHeld
  BY <1>1 DEF Written, EventRow
<1>3. Serves(req[p], owed, checkpoint) /\ Formed(req[p])
  BY Held DEF Pass, Owing, Good
<1> QED
  BY <1>2, <1>3 DEF Serves, Formed, Elements

\* An event becomes published only after every stand that was approved when its
\* publication began was rewritten by it: what is owed stays ahead of the
\* checkpoint and of the cursor of each request that holds the event, although
\* requests overlap, die and resume, and stands move in the index.
THEOREM PublicationComplete == Spec => PassComplete
<1>1. Shape /\ Pass /\ [Next]_vars => Shape' /\ Pass'
  BY EventSteps, PassNext
<1>2. Shape /\ Pass /\ [Next]_vars
        => [event.status = "publishing" /\ event'.status = "published" => owed = {}]_vars
  BY PassEnds
<1> QED
  BY <1>1, <1>2, ShapeInit, PassInit, PTL DEF Spec, PassComplete
=============================================================================
