------------------------------- MODULE Listing -------------------------------
(***************************************************************************)
(* Reading a table that others write, page by page: the catalogue and its  *)
(* search, the lists of events, stands, invitations, members, orders,      *)
(* saved stands and audit rows, the leads of a stand, and the exports that *)
(* read everything.  A listing is the requests a client makes, each with   *)
(* the cursor of the answer before it, until an answer has none; a request *)
(* makes one query or several.  Each action is one awaited call.           *)
(*                                                                         *)
(* A query reads the rows of an index after a key, in the order of the     *)
(* index, at most Limit of them and as few as DynamoDB likes (its pages    *)
(* end at 1 MB), and has a LastEvaluatedKey unless it reached the end.     *)
(* Whether a row passes the filter of the handler (a public stand, the     *)
(* words searched, the status of a lead) is its being in `fit'.            *)
(*                                                                         *)
(* Answers are counts of rows: how often each row is in what a request has *)
(* collected, and in what the listing has answered.                        *)
(*                                                                         *)
(* Abstracted: the order of the rows in an answer, which is that of the    *)
(* index; the base64 form of a cursor, and cursors no answer held; the     *)
(* checks before the first query, which can only refuse (FailRead); the    *)
(* fields an answer leaves out; the size in bytes of an export.            *)
(***************************************************************************)
EXTENDS Integers, FiniteSets, Functions

CONSTANTS
    Rows, Events, Tables,
    TableOf,          \* the table a row belongs to
    EventOf,          \* the event of a row that is a stand, or names one
    Endpoints,        \* the endpoints a behaviour may read
    LastKey,          \* bound: the keys of an index are 1 .. LastKey
    PageLimit,        \* the limit the client asks for
    QueryPage,        \* QUERY_PAGE_SIZE, and the page sizes of the exports
    ListPages,        \* LIST_MAX_QUERY_PAGES
    ExportPages,      \* DEFAULT_MAX_PAGES
    BarrierAttempts,  \* attempts of loadPublicEvents
    MaxItems,         \* SYNC_EXPORT_MAX_ROWS, USER_EXPORT_MAX_ITEMS
    MaxChanges,       \* bound on the writes of others during a listing
    MaxFailures       \* bound on the calls of a listing that fail, or leave keys
                      \* of a batch unprocessed

ASSUME RowsAssumption == IsFiniteSet(Rows)
ASSUME TablesAssumption == TableOf \in [Rows -> Tables]
ASSUME EventsAssumption == EventOf \in [Rows -> Events]
ASSUME LimitsAssumption ==
    {LastKey, PageLimit, QueryPage, ListPages, ExportPages, BarrierAttempts,
     MaxItems}
        \subseteq Nat \ {0}

VARIABLES
    at,        \* the key of each row in its index, 0 for none
    fit,       \* rows that pass the filter
    hidden,    \* events that are not public
    changes,   \* how often others wrote
    failures,  \* how often a call failed
    endpoint, tables,  \* what is read
    step,      \* of the request: "idle" between two requests
    cursor,    \* the cursor of the next request, 0 for none
    scan,      \* for each table: the key read up to, queries made, more to come
    batch,     \* of the last query: the rows kept, with the keys they were read
               \* at, the last key read, and LastEvaluatedKey or 0
    lookup,    \* the lookups that follow a query, and how far they are
    items,     \* how often the request has collected each row
    size,      \* items.length: rows collected of each table
    got,       \* how often the listing has answered each row
    steady, lit,  \* history: rows and events as they were all along
    dark,      \* history: events hidden ever since the request was made
    lost       \* history: rows whose lookup was given up

table == <<at, fit, hidden, changes>>
history == <<steady, lit, dark>>
answers == <<items, size, got>>
listing == <<table, failures, endpoint, tables, step, cursor, scan, batch,
             lookup, answers, history, lost>>
-----------------------------------------------------------------------------
(* The endpoints *)

\* One query a request, its rows filtered, and looked up, afterwards.
Page(filters, lookups) ==
    [shape |-> "page", filters |-> filters, lookups |-> lookups,
     capped |-> FALSE, whole |-> FALSE]
\* Every row, of one table or of all; at most MaxItems, or refused.
Export(filters, capped, whole) ==
    [shape |-> "export", filters |-> filters, lookups |-> {},
     capped |-> capped, whole |-> whole]

GetStands == Page(TRUE, {"events"})
SearchStands == [GetStands EXCEPT !.shape = "search"]
PublicEvents == Page(TRUE, {})
PublicEventStands == Page(TRUE, {})
OrganizationEvents == Page(FALSE, {})
EventStands == Page(FALSE, {})
EventInvitations == Page(FALSE, {})
UserOrders == Page(FALSE, {})
\* A membership is left out that finds no organization.
MyMemberships == Page(TRUE, {})
OrganizationMembers == Page(TRUE, {})
AuditEvents == Page(TRUE, {})
SavedStands == Page(FALSE, {"stands", "events"})
LeadList == [PublicEvents EXCEPT !.shape = "matching"]
LeadsCsv == Export(TRUE, TRUE, FALSE)
UserExport == Export(FALSE, TRUE, TRUE)
UserStats == Export(FALSE, FALSE, TRUE)

AllEndpoints ==
    {GetStands, SearchStands, PublicEvents, PublicEventStands,
     OrganizationEvents, EventStands, EventInvitations, UserOrders,
     MyMemberships, OrganizationMembers, AuditEvents, SavedStands, LeadList,
     LeadsCsv, UserExport, UserStats}

ASSUME EndpointsAssumption == Endpoints \subseteq AllEndpoints

\* A row is shown if it passes a filter, or only if its event is public now.
Filtered(e) == e.filters \/ "stands" \in e.lookups
Barred(e) == "events" \in e.lookups
-----------------------------------------------------------------------------
Placements ==
    {p \in [Rows -> 0 .. LastKey] :
        \A r, s \in Rows : r # s /\ TableOf[r] = TableOf[s] /\ p[r] # 0
            => p[r] # p[s]}

Read == {r \in Rows : TableOf[r] \in tables}
Fresh == [t \in Tables |-> [from |-> 0, pages |-> 0, more |-> t \in tables]]
NoRows == [r \in Rows |-> 0]
NoSize == [t \in Tables |-> 0]
NoBatch == [kept |-> <<>>, end |-> 0, last |-> 0]
NoLookUp == [todo |-> {}, pending |-> {}, found |-> {}, attempt |-> 0]

\* The first request is made.  What the endpoint does not read stays as it is.
ListingInit ==
    /\ endpoint \in Endpoints
    /\ \E t \in Tables : tables = IF endpoint.whole THEN Tables ELSE {t}
    /\ at \in {p \in Placements : \A r \in Rows \ Read : p[r] = 0}
    /\ fit \in IF Filtered(endpoint) THEN SUBSET Read ELSE {Read}
    /\ hidden \in IF Barred(endpoint) THEN SUBSET Events ELSE {{}}
    /\ scan = Fresh
    /\ changes = 0 /\ failures = 0
    /\ step = "query"
    /\ cursor = 0
    /\ batch = NoBatch /\ lookup = NoLookUp
    /\ items = NoRows /\ size = NoSize /\ got = NoRows
    /\ steady = Rows /\ lit = Events \ hidden /\ dark = hidden /\ lost = {}

\* The next request of the listing: the dashboard's loadMoreOrders, or any
\* client that follows nextCursor.
Ask ==
    /\ step = "idle"
    /\ step' = "query"
    /\ scan' = [t \in Tables |-> [Fresh[t] EXCEPT !.from = cursor]]
    /\ items' = NoRows /\ size' = NoSize
    /\ dark' = hidden
    /\ UNCHANGED <<table, failures, endpoint, tables, cursor, batch, lookup,
                   got, steady, lit, lost>>
-----------------------------------------------------------------------------
(* What a request does with the rows it kept of a query: kept is a function *)
(* of these rows, with their keys.                                          *)

Keep(kept, rows) == Restrict(kept, DOMAIN kept \cap rows)
Taken(kept) == [r \in Rows |-> items[r] + IF r \in DOMAIN kept THEN 1 ELSE 0]
Grown(t, kept) == [size EXCEPT ![t] = @ + Cardinality(DOMAIN kept)]
Collect(t, kept) == items' = Taken(kept) /\ size' = Grown(t, kept)

Reply(t, kept, next) ==
    /\ Collect(t, kept)
    /\ got' = [r \in Rows |-> got[r] + Taken(kept)[r]]
    /\ cursor' = next
    /\ step' = IF next = 0 THEN "done" ELSE "idle"
    /\ scan' = Fresh

Refuse ==
    /\ step' = "refused"
    /\ items' = NoRows /\ size' = NoSize /\ scan' = Fresh
    /\ UNCHANGED <<got, cursor>>

\* Mutant of ReadOn: ExclusiveStartKey stays that of the query before.
ReadOn_SameKey(t, kept, last) ==
    /\ Collect(t, kept)
    /\ scan' = [scan EXCEPT ![t].more = last # 0]
    /\ step' = "query"
    /\ UNCHANGED <<got, cursor>>

\* The loop goes on: ExclusiveStartKey is the LastEvaluatedKey.
ReadOn(t, kept, last) ==
    /\ Collect(t, kept)
    /\ scan' = [scan EXCEPT ![t].from = last, ![t].pages = @ + 1,
                            ![t].more = last # 0]
    /\ step' = "query"
    /\ UNCHANGED <<got, cursor>>

\* The matches of a search up to the one with this key
UpTo(kept, key) == Keep(kept, {r \in DOMAIN kept : kept[r] <= key})
Missing(t) == PageLimit - size[t]
Fills(t, kept, key) == Cardinality(DOMAIN UpTo(kept, key)) = Missing(t)

\* Mutant of GatherSearch: the cursor is that of the query, whose last rows
\* are in no answer.
GatherSearch_QueryCursor(t, kept, end, last) ==
    IF Cardinality(DOMAIN kept) >= Missing(t)
    THEN \E r \in DOMAIN kept :
           Fills(t, kept, kept[r]) /\ Reply(t, UpTo(kept, kept[r]), last)
    ELSE IF last = 0 THEN Reply(t, kept, 0) ELSE ReadOn(t, kept, last)

\* searchPages: the cursor is the key of the match that filled the answer,
\* whatever the query read after it.
GatherSearch(t, kept, end, last) ==
    IF Cardinality(DOMAIN kept) >= Missing(t)
    THEN \E r \in DOMAIN kept :
           LET hasMore == kept[r] # end \/ last # 0
           IN /\ Fills(t, kept, kept[r])
              /\ Reply(t, UpTo(kept, kept[r]), IF hasMore THEN kept[r] ELSE 0)
    ELSE IF last = 0 THEN Reply(t, kept, 0) ELSE ReadOn(t, kept, last)

\* queryMatchingPage
GatherMatching(t, kept, last) ==
    IF \/ Grown(t, kept)[t] >= PageLimit
       \/ last = 0
       \/ scan[t].pages + 1 >= ListPages
    THEN Reply(t, kept, last)
    ELSE ReadOn(t, kept, last)

\* queryAllPages for each table, and the total of data-export
GatherExport(t, kept, last) ==
    LET others == \E u \in Tables \ {t} : scan[u].more
    IN IF endpoint.capped /\ Grown(t, kept)[t] > MaxItems THEN Refuse
       ELSE IF last # 0 \/ others THEN ReadOn(t, kept, last)
       ELSE IF endpoint.capped => SumFunction(Grown(t, kept)) <= MaxItems
            THEN Reply(t, kept, 0)
       ELSE Refuse

Gather(t, kept, end, last) ==
    CASE endpoint.shape = "page" -> Reply(t, kept, last)
      [] endpoint.shape = "search" -> GatherSearch(t, kept, end, last)
      [] endpoint.shape = "matching" -> GatherMatching(t, kept, last)
      [] endpoint.shape = "export" -> GatherExport(t, kept, last)
-----------------------------------------------------------------------------
(* The query, and the lookups after it *)

\* What of table t is in its index after a key
After(t, key) == {r \in Rows : TableOf[r] = t /\ at[r] > key}

\* Mutant of MatchLimit: the rows the request has already are not counted.
MatchLimit_Whole(t) == PageLimit

MatchLimit(t) == PageLimit - size[t]

QueryLimit(t) ==
    CASE endpoint.shape = "page" -> PageLimit
      [] endpoint.shape = "search" -> QueryPage
      [] endpoint.shape = "matching" -> MatchLimit(t)
      [] endpoint.shape = "export" ->
           IF endpoint.capped THEN QueryPage ELSE Cardinality(Rows)

EventsOf(kept) == {EventOf[r] : r \in DOMAIN kept}

\* The lookups that are left are made for what is left of the rows.
LookUp(t, kept, end, last, todo) ==
    IF DOMAIN kept = {} \/ todo = {}
    THEN /\ Gather(t, kept, end, last)
         /\ batch' = NoBatch /\ lookup' = NoLookUp
    ELSE /\ step' = "lookup"
         /\ batch' = [kept |-> kept, end |-> end, last |-> last]
         /\ lookup' = [todo |-> todo, pending |-> EventsOf(kept),
                       found |-> {}, attempt |-> 0]
         /\ UNCHANGED <<scan, answers, cursor>>

\* The rows of a page that pass the filter of the query
Filter(read) ==
    [r \in {s \in read : endpoint.filters => s \in fit} |-> at[r]]

\* A page ends at a row, or is empty when there is none after the key.
QueryPageTo(t, end, more) ==
    LET ahead == After(t, scan[t].from)
        read == {r \in ahead : at[r] <= end}
    IN /\ Cardinality(read) <= QueryLimit(t)
       /\ (end = 0) => (ahead = {} /\ ~more)
       /\ (read # ahead) => more
       /\ LookUp(t, Filter(read), end, IF more THEN end ELSE 0,
                 endpoint.lookups)

Query(t) ==
    /\ step = "query"
    /\ scan[t].more
    /\ IF endpoint.capped /\ scan[t].pages >= ExportPages
       THEN Refuse /\ batch' = NoBatch /\ lookup' = NoLookUp
       ELSE \E end \in {0} \cup {at[r] : r \in After(t, scan[t].from)},
               more \in BOOLEAN : QueryPageTo(t, end, more)
    /\ UNCHANGED <<table, failures, endpoint, tables, history, lost>>

\* A BatchGet may leave keys unprocessed.
Batched(keys) == {p \in SUBSET keys : p = keys \/ failures < MaxFailures}
CountFailure(some) == failures' = IF some THEN failures + 1 ELSE failures

\* One BatchGet of the saved stands; what it leaves unprocessed is not shown.
LookUpStands(t) ==
    /\ step = "lookup" /\ t \in tables
    /\ "stands" \in lookup.todo
    /\ \E processed \in Batched(DOMAIN batch.kept) :
         /\ LookUp(t, Keep(batch.kept, processed \cap fit), batch.end,
                   batch.last, lookup.todo \ {"stands"})
         /\ lost' = lost \cup (DOMAIN batch.kept \ processed)
         /\ CountFailure(DOMAIN batch.kept # processed)
    /\ UNCHANGED <<table, endpoint, tables, history>>

\* Mutant of PublicOf: the snapshot of the event in the stand is believed.
PublicOf_Snapshot(events) == events

\* The events a BatchGet finds public
PublicOf(events) == events \ hidden

\* One attempt of loadPublicEvents: any of the keys may be left unprocessed.
\* The rows of the events that were never processed are not shown.
LookUpEvents(t) ==
    /\ step = "lookup" /\ t \in tables
    /\ "stands" \notin lookup.todo
    /\ \E processed \in Batched(lookup.pending) :
         LET found == lookup.found \cup PublicOf(processed)
             pending == lookup.pending \ processed
             shown == {r \in Rows : EventOf[r] \in found}
         IN /\ CountFailure(pending # {})
            /\ IF pending = {} \/ lookup.attempt + 1 = BarrierAttempts
               THEN /\ LookUp(t, Keep(batch.kept, shown), batch.end, batch.last,
                              lookup.todo \ {"events"})
                    /\ lost' = lost \cup {r \in DOMAIN batch.kept :
                                            EventOf[r] \in pending}
               ELSE /\ lookup' = [lookup EXCEPT !.found = found,
                                    !.pending = pending, !.attempt = @ + 1]
                    /\ UNCHANGED <<step, scan, batch, answers, cursor, lost>>
    /\ UNCHANGED <<table, endpoint, tables, history>>

\* A call fails, and the client asks for the same page again; or a check
\* before the first query refuses, for good.
FailRead ==
    /\ step \in {"query", "lookup"}
    /\ failures < MaxFailures
    /\ failures' = failures + 1
    /\ \/ step' = "idle"
       \/ step' = "refused" /\ scan = Fresh
    /\ items' = NoRows /\ size' = NoSize /\ scan' = Fresh
    /\ batch' = NoBatch /\ lookup' = NoLookUp
    /\ UNCHANGED <<table, endpoint, tables, cursor, got, history, lost>>
-----------------------------------------------------------------------------
(* What others write meanwhile *)

Meanwhile ==
    /\ step \notin {"done", "refused"}
    /\ changes < MaxChanges
    /\ changes' = changes + 1
    /\ UNCHANGED <<failures, endpoint, tables, step, cursor, scan, batch,
                   lookup, answers, lost>>

\* A row enters the index, leaves it, or moves in it, as a stand does that is
\* published again.
Place(r, key) ==
    /\ Meanwhile
    /\ r \in Read
    /\ at' = [at EXCEPT ![r] = key]
    /\ at' # at /\ at' \in Placements
    /\ steady' = steady \ {r}
    /\ UNCHANGED <<fit, hidden, lit, dark>>

Touch(r) ==
    /\ Meanwhile
    /\ Filtered(endpoint) /\ r \in Read
    /\ fit' = IF r \in fit THEN fit \ {r} ELSE fit \cup {r}
    /\ steady' = steady \ {r}
    /\ UNCHANGED <<at, hidden, lit, dark>>

HideEvent(e) ==
    /\ Meanwhile
    /\ Barred(endpoint) /\ e \notin hidden
    /\ hidden' = hidden \cup {e}
    /\ lit' = lit \ {e}
    /\ UNCHANGED <<at, fit, steady, dark>>

ShowEvent(e) ==
    /\ Meanwhile
    /\ e \in hidden
    /\ hidden' = hidden \ {e}
    /\ dark' = dark \ {e}
    /\ UNCHANGED <<at, fit, steady, lit>>

Reader == Ask \/ \E t \in Tables : Query(t) \/ LookUpStands(t) \/ LookUpEvents(t)

ListingNext ==
    \/ Reader
    \/ FailRead
    \/ \E r \in Rows : Touch(r) \/ \E key \in 0 .. LastKey : Place(r, key)
    \/ \E e \in Events : HideEvent(e) \/ ShowEvent(e)

\* A request runs to its end, and the client follows the cursor.
ListingSpec == ListingInit /\ [][ListingNext]_listing /\ WF_listing(Reader)
-----------------------------------------------------------------------------
(* Properties *)

\* An answer of a list has at most the rows asked for, and an export at most
\* MaxItems.
ListingTypeOK ==
    /\ at \in Placements
    /\ fit \subseteq Rows
    /\ hidden \subseteq Events
    /\ endpoint \in Endpoints
    /\ tables \subseteq Tables
    /\ step \in {"idle", "query", "lookup", "done", "refused"}
    /\ cursor \in 0 .. LastKey
    /\ \A t \in Tables : /\ scan[t].from \in 0 .. LastKey
                         /\ scan[t].more => t \in tables
    /\ items \in [Rows -> Nat] /\ got \in [Rows -> Nat]
    /\ size \in [Tables -> Nat]
    /\ endpoint.shape # "export" => \A t \in Tables : size[t] <= PageLimit
    /\ step = "done" /\ endpoint.capped => SumFunction(size) <= MaxItems

\* Rows that the listing must show: in place and fit from its beginning on, and
\* under the barrier of an event that was public from its beginning on.
Due == {r \in steady : /\ at[r] # 0
                       /\ Filtered(endpoint) => r \in fit
                       /\ Barred(endpoint) => EventOf[r] \in lit}

\* Following the cursors of a list to its end, or an export, answers every row
\* that was there all along, once: whatever is published, hidden or moved
\* around it, wherever DynamoDB ends its pages and whatever page is asked for
\* again.  Only the rows whose lookup was given up are not promised.
StableRowsOnce ==
    /\ \A r \in steady : got[r] <= 1
    /\ step = "done" => \A r \in Due \ lost : got[r] = 1

\* What release 0.8.8 promises of the global stand reads: no answer shows a
\* stand whose event was hidden before the request and is since, although the
\* stand still carries the snapshot of a published event.
NothingHidden ==
    Barred(endpoint) /\ step \in {"idle", "done"} =>
        \A r \in Rows : items[r] > 0 => EventOf[r] \notin dark

\* A client that follows nextCursor comes to the end of the list: the pages
\* that are empty because nothing on them passes the filter still move on.
ListingEnds == <>(step \in {"done", "refused"})
=============================================================================
