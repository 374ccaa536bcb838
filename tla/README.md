# AI Pavilion: specifications of the backend's protocols

AI Pavilion runs virtual exhibitions as a service. Organizations own events,
events contain exhibitors' stands, visitors browse stands and buy products, and
organizations pay for a plan that limits how many events and stands they may
have. The program is a set of AWS Lambda functions (JavaScript,
`backend/lambda/`) over DynamoDB tables, with Stripe for payments, Cognito for
identities, SES for e-mail, and a browser front end (`frontend/src/`).

Nothing in the backend holds state in memory between requests and nothing takes
a lock. Every handler is a sequence of awaited reads and conditional writes, and
any number of them run at once, may die between two of them, and are retried.
So the correctness of the program rests on the conditions of its writes, on the
order of its awaits, and on two scheduled reconcilers that repair what was left
behind. That is what these specifications are about.

Paths below are relative to the repository; `lambda/` is `backend/lambda/`.

## 1. Inventory

### Components

| Component | Code | State it keeps | Operations that change it |
| --- | --- | --- | --- |
| Event quota | `lambda/events/quota-wrapper.js`, `lambda/common/quota-store.js`, `quota-model.js`, `lambda/quota-reconciliation/` | one counter row per organization (limit, used, reserved, available, overLimit, revision), a reservation per idempotency key, an occupancy per event | create, duplicate and archive of an event; scheduled repair; plan changes |
| Checkout | `lambda/checkout/` | orders (status, paymentIntentId, lastPaymentEventCreatedAt), lease rows of webhook events | create-intent, confirm-order, Stripe webhook |
| Payment reconciliation | `lambda/payment-reconciliation/` | none of its own | expires abandoned leases, settles stale orders, refreshes entitlements |
| Billing | `lambda/billing/` | entitlements, lease rows of subscription events | checkout and portal sessions, subscription webhook |
| Organizations | `lambda/organizations/`, `lambda/common/tenant.js`, `concurrency.js` | organizations (ownerUserId, revision), memberships (role, status, revision) | create, update, add, change and remove a member, transfer ownership |
| Accounts | `lambda/user-account/`, `pre-token-generation/`, `profile-sync/` | profiles, Cognito users | delete an account, sync a profile, scopes of a token |
| Invitations | `lambda/invitations/` (handler and `invite-wrapper.js`), `lambda/email-events/` | invitations, their occupancies in the counter of the event, delivery status | create, resend, revoke, accept; delivery notifications |
| Stands | `lambda/exhibitor-stands/`, `lambda/common/stand-domain.js` | stands (status, moderation, owner, revision) | edit, submit, withdraw |
| Events | `lambda/events/index.js`, `lambda/common/publication-state.js`, `public-event-barrier.js` | events (status, publication checkpoint, revision), stands' visibility | create, update, publish, duplicate, archive, moderate, reassign |
| Leads | `lambda/contact-stand/`, `lambda/exhibitor-leads/`, `lambda/common/lead-protection.js` | leads | submit, edit, export |
| Visitors' data | `lambda/user-orders/`, `user-saved-stands/`, `user-stats/`, `track-interaction/`, `data-export/` | saved stands, interaction counters | put, delete, add |
| Public catalogue | `lambda/get-stands/`, `get-stand-detail/`, `search-stands/`, `public-events/`, `lambda/common/catalog.js` | none | reads |
| Administration, audit | `lambda/admin/`, `lambda/audit-view/`, `lambda/common/audit.js` | audit rows, written in the transaction of what they record | none of their own: reports, and the audit rows of other writes |
| Front end | `frontend/src/` | session tokens, cart, cached revisions | API client with token refresh and retries, checkout, portal |
| Data migrations | `data/migrations/` | none | operator-run conditional updates |

### How they interact

- **Requests share rows.** `quota-wrapper.js` wraps the handler of
  `events/index.js`: it reserves a unit of the organization's counter, calls the
  base handler, and consumes or releases the reservation by the handler's status
  code. `invite-wrapper.js` does the same for invitations. The write of the event
  and the writes of the quota are separate transactions.
- **Reconcilers share rows with requests.** Both run every 15 minutes, read rows
  a page at a time, and write back what they computed, conditioned on part of
  what they read.
- **Stripe calls back.** Webhook events arrive late, twice and out of order, and
  are retried until answered with a 2xx. The same order is also written by the
  customer's confirmation and by the reconciler, each with its own idea of when
  the state it read was true.
- **Billing changes what quota relies on.** A subscription event changes the
  entitlement's limits, which the counter row copies.
- **Invitations and account deletion change memberships**, which the
  organizations' handlers read to authorize and to protect the owner.

### What is hard, and what correctness means

| Component | Hard | Correct when |
| --- | --- | --- |
| Event quota | concurrent reservations and first initializations, retries under one key, expiry of a reservation that was used, a reconciler that writes absolute values over running requests | the counter equation holds; no unit is returned twice or lost; one event per key; the limit is not exceeded; drift is repaired |
| Orders | reordered events, three writers, retries of create-intent, dead lease holders | paid only if the payment succeeded; settled orders stay; one intent per order; one worker per event; no order that the reconciler reaches hangs for ever |
| Memberships | changes read before a transfer or a removal and written after it; deletion of an account in several writes | never two owners; a removal is not undone |
| Billing | entitlement written by events and by the reconciler, ordered by a watermark | the entitlement follows the newest subscription state |
| Events | publishing and archiving are sagas over pages of stands with checkpoints, beside moderation | no stand of an archived event is public; a publication covers every approved stand |
| Invitations | acceptance, revocation, expiry and occupancy in separate writes | no unit of the stand quota moves without its row or is returned twice; an invitation pays once |
| Leads | a POST repeated by the browser whose attempts overlap at the server; two members editing a lead | one lead per message, stored before success is shown; no edit lost |
| Lists and exports | tables read page by page while rows move, batch reads that fail in part, events hidden meanwhile | a row that stayed is answered once; nothing hidden is shown; every listing ends |
| Browser checkout | one cart in several tabs, a request id in the memory of one, calls that are given up and go on at the server | pressing Pay again does not pay twice; what is charged is what was asked for |

The hazards of each, with their lines, are in `PROJECT.json`, together with the
properties that watch them. Those without a property have a note that says why:
most of them because the model shows them to happen. Section 5 lists these and the
other surprises.

## 2. Modules

| Module | Role |
| --- | --- |
| `QuotaCounter` | the counter row as a value and the arithmetic of each write of it |
| `EventQuota` | requests, plan changes and the reconciler on one organization's counter |
| `EventQuotaProofs` | its theorems |
| `WebhookLease` | the lease row of a webhook event as a value; `checkout` and `billing` share the protocol |
| `OrderPayment` | one order, its webhook events, Stripe, and the reconciler |
| `OrderPromise` | what an order and its events promise to whoever looks at their rows: the abstract specification `OrderPayment` implements |
| `OrderPaymentProofs` | its theorems, and that it implements `OrderPromise` |
| `Ownership` | the memberships of one organization and its owner |
| `OwnershipProofs` | its theorems |
| `EventLifecycle` | the documented life of an event: the abstract specification `Publication` implements |
| `Publication` | one event and its stands: publishing and archiving page by page, edits, moderation, acceptance |
| `PublicationProofs` | its theorems, and that it implements `EventLifecycle` |
| `InvitationQuota` | invitations, their occupancies and the stand quota of one event |
| `InvitationQuotaProofs` | its theorems |
| `BillingEntitlement` | checkouts of a plan, subscription events and the entitlement of one organization |
| `BillingEntitlementProofs` | its theorems |
| `LeadCapture` | a visitor's message from the click to the stored lead, and the edits of leads |
| `Listing` | the sixteen endpoints that read a table page by page while others write it |
| `VisitorProofs` | the theorems of `LeadCapture` and of `Listing`, which share nothing |
| `BrowserCheckout` | the cart and the checkout in the tabs of one browser |
| `BrowserCheckoutProofs` | its theorems |
| `MC...` | symmetry sets and small instances for TLC, one for each module that is run |

### Conventions

An invocation of a Lambda is a member of `Invocations`, with a `pc` that names
what it does next and the local variables it carries over an await. An action is
one awaited call and the branch taken on its result. A read followed only by a
conditional write whose condition covers what was read is one action, as the
write checks again. `Return` answers and forgets, `Crash` is a timeout, a dead
container or an exception the handler turns into a 5xx without writing. A
DynamoDB transaction, or one conditional update, is atomic. Mutants are
definitions named `<Operator>_<Bug>`, next to the operator they would replace;
nothing uses them in the specification.

### QuotaCounter and EventQuota

`counter` is the row `ORG#<id>` of the quota table, `reservation`, `resource`,
`answered` and `expired` are the columns of the source reservation of each
idempotency key, `occupancy` the row `OCC#EVENT#<id>`. `status` and `creator` are
the events, `index` what the global secondary index shows of them, `plan` the
entitlement's `maxActiveEvents`.

A create or duplicate request goes through `ensureEventCounter` (`ReadLimit`,
`CountUsage`, `InitializeCounter`, or `SetLimit`, and `Reread` when it loses a
race), `reserveUnit` (`AnswerReplay`, `AnswerRecovery`, `CheckRoom`, `Reserve`),
the base writer (`Capacity`, which counts events on the index, and
`CommitEvent`, or `DuplicateEvent`, whose source exists), and the settlement (`Consume` and `StoreResponse`, or
`Release`). An archive is `ArchiveEvent`, the last write of the saga, and
`ReleaseOccupancy`. The reconciler expires reservations one by one
(`ExpireReservation`), reads the counter (`ScanCounters`), defers if a
reservation is open (`ScanSources`), reads the plan and the events, and rewrites
the row if it differs and is still the row it read (`RepairCounter`).

Both events and reservations of one organization are enough, because no write
touches the counters of two. The counters of open invitations and of stands per
event live in the same table and use the same operators; they are in
`InvitationQuota`.

Time is only what decides races: a reservation expires 900 seconds after it was
made (`quota-store.js:390`) and the function that made it is ended after 60
(`template.yaml:1449`), so `Expire` waits for the invocation that holds the
reservation to be over, and for nothing else.

### WebhookLease, OrderPayment and OrderPromise

Orders do not interact, so there is one. `status`, `orderIntent` and `watermark`
are its columns; `stale` and `since` say that its `updatedAt` is 15 minutes old
and which invocations began before its last write, which is how the reconciler's
condition on `updatedAt` is kept without a clock of minutes. `row` is the lease
row of each event. `intent`, `keyIntent`, `handed`, `eventType`, `eventCreated`
and `acked` are Stripe, the external part: intents that are processed, succeed,
fail and are cancelled, an idempotency key that returns the same intent until
Stripe forgets it, and events delivered any number of times in any order until
one delivery is acknowledged.

A create-intent request is `ReserveOrder`, `LoadOrder`, `CreateIntent`,
`AttachIntent`; a confirmation is `BeginConfirm`, `RetrieveIntent` and then the
transition; a webhook delivery is `Deliver` (the first claim is its put),
`InspectClaim`, `Reclaim`, the transition, and `Mark` or `FailEvent`. The
transition, `transitionOrder`, is `ReadOrder`, which compares time stamps and
`ALLOWED_TRANSITIONS`, and `WriteOrder`, conditioned on the status read and on
the time stamp. The
reconciler is `AbandonLease`, `FailUnattached`, and `ScanOrder`, `RepairRetrieve`,
`RepairWrite` for an order with an intent.

A lease lasts 120 seconds (`WEBHOOK_LEASE_SECONDS`) and the function 30
(`template.yaml:116`), so `LeaseExpires` waits for the holder to be over. Stripe
keeps idempotency keys for 24 hours; `KeyExpires` assumes that no invocation spans
that moment. The assumption is one about use and not one the code makes true:
`attachPaymentIntent` (`checkout/index.js:324`) has no condition on
`paymentIntentId`, so a request that got the old intent just before the key was
forgotten and one that got a new intent just after it could both attach theirs, if the
first was declined in between. `KeepsPromise` says one intent per order under this
assumption.

A run of the reconciler scans the orders from the head of the table and stops after
20 pages of 100 rows or 100 candidates (`scanCandidates`,
`payment-reconciliation/index.js:76`), so an order that lies behind is never
visited. Whether a run takes the order (`ScanOrder`, `FailUnattached`) is therefore
left open by the fairness, and `Settles` excepts an order that from some time on
is `PassedOver`: stale, with no run looking at it. As long as the table has no more
than 2000 rows and 100 candidates every run reaches every order.

`OrderPromise` has no invocations, no leases, no Stripe and no reconciler: an
order that is opened, gets an intent, and is settled along
`ALLOWED_TRANSITIONS` with time stamps that never go back, and events that are
taken by one worker, given up, or finished for good. `KeepsPromise` instantiates
it with the worker of an event defined from the program counters and leases, and
the set of finished events from the lease rows.

### Ownership

`owner` is `ownerUserId` of the organization, `member` the membership rows
(`NoRow` if there is none; a removed member keeps a row, the tombstone),
`account` the profiles. Additions, changes, transfers, acceptances and account
deletions are requests in two or three steps: who asks is authorized and the
member read, then written. A change carries the revision the client saw,
anything the row has or had; `ChangeMember` is conditioned on it alone, as
`revisionCondition` is. A transfer is conditioned on roles, statuses and
`ownerUserId`, and increments nothing. `DeleteMember` deletes unconditionally.

Users in `Deletable` may delete their account. Accounts that own stands are
blocked from doing so; that is not modelled beyond the choice of the set.
Statuses and roles of the platform administrator, who has no membership but
passes `authorizeOrganization`, are: it may add exhibitors and change members,
and its transfers are refused by the transaction.

### EventLifecycle and Publication

`event` is the row of one event (`status`, and whether `visibility` and
`publicStatus` open it), `checkpoint` its `publishCheckpoint`, `stand` the rows
of its stands and `index` the order of `event-stands-index`, as the pairs of
stands of which the first comes before the second. A query answers the first
stands ahead of its cursor in that order (`Prefixes`, `PagesFrom`). The order matters:
a stand's key starts with a class (`draft`, `published`, ...) and ends with the
time of the write, so rewriting a stand moves it to the end of its class, in
front of or behind the cursor of whoever is reading (`Moved`).

A request is `BeginPublish` with `Transition`, `QueryPage`, `RewriteStand` (and
`RereadStand` when the row has changed), `SaveCheckpoint` or `Finalize`, or
`MarkFailed`; an archive is `BeginArchive`, `StartArchive`, `QueryAll`, the same
rewrites, and `FinishArchive`; edits, moderation, reassignment, acceptance and
the exhibitor's own writes are read-then-write requests. Revisions are kept as
"nobody wrote the row since I read it" (`eventHeld`, `held`), which is what the
condition asks and leaves the state space finite.

`owed` is history: the stands that were approved when the publication in
progress began and that it has not rewritten. `PassComplete` says it is empty
whenever the event becomes published. `CanonicalStand` is
`deriveStandPublication` as an invariant of the rows. `KeepsLifecycle`
instantiates `EventLifecycle`, which knows no stands, pages or requests.

### InvitationQuota

`status`, `deadline` and `passed` are the invitations, `source` and `legacy` the
two reservations an invitation may get (the one of its create request, and the
one `ensureInvitationOccupancy` makes for an invitation that has no occupancy),
`occupancy` and `until` its `OCC#INVITATION` row, `counter` the event's counter,
with the operators of `QuotaCounter`. Time is the set of deadlines that have
passed. A create is `BeginCreate` (which reserves), `WriteInvitation`,
`LinkCreated` or `RefuseCreate`; an acceptance `BeginAccept`, `FindOccupancy`,
`ReserveLegacy`, `LinkLegacy`, `AcceptInvitation`, with `Release` on
the refusals; a resend shares the middle; a revocation is `Revoke` and
`Release`. `Consume`, which turns the reserved unit into a used one, does not follow
`AcceptInvitation`: the answer that makes the stand holds it under `stand_id`,
`handleAccept` (`invite-wrapper.js:450`) looks for `standId`, finds none and answers
500 `STAND_ID_MISSING`. Only `AcceptDuplicate`, an overlapping acceptance by the same
recipient that finds the invitation accepted, is answered with a `standId` and
goes on to `Consume`. (Once the invitation is accepted a new acceptance is refused
before the base handler.) `ReservedExact` therefore says what a unit is held by, and
not that a stand holds one. The reconciler expires each kind of row and rewrites the counter from
two scans. `baseline` is history: reserved units that no row holds because the
invitation is older than the counter, until a repair counts for itself.

### BillingEntitlement

A submission of the checkout form leads to at most one subscription and is
identified with it. A checkout is `BeginCheckout`, `CreateCustomer`,
`SaveCustomer`, `CreateSession`; a webhook event goes through the lease protocol
of `WebhookLease`, and its write to the entitlement is conditioned on the
watermark of the last event. The reconciler reads the
entitlement, asks Stripe, and writes what it was told. Stripe's part (payment,
change, loss, cancellation, events that carry the state of their moment) is
external.

Stripe forgets the key of the customer a day after its first use. If the first user
saved its customer, the key is of no more use by then. If it died before it did
(`maker`, `orphan`), the key ages all the same, and two requests of a day later may
overlap on both sides of its end (`KeyExpires`): one holds the old customer and the
other makes a new one, `if_not_exists` stores one of them, and `ensureCustomer`
returns to each its own. `straddled` is the history of this, and `OneCustomer` excepts
it; without the exception TLC finds the two customers.

### LeadCapture

An attempt of `core/api.js` is a Lambda invocation of its own: it goes on when
the browser has stopped waiting and sends the next one. `page` is what the
visitor sees, `req` the attempts at the server, `leads` the table, and `log` in a
lead the history of what each edit's author had seen. The read of the event is a
consistent one (`public-event-barrier.js:80`), the read of the stand is not
(`contact-stand/index.js:253`): while `lagging`, a copy of the stand has not learnt
of the last change, and `ReadStand` may find either; `CatchUp` ends it. `dark` of an
attempt is the history of what was hidden, the stand in every copy, ever since the
attempt was sent.

### Listing

The endpoints differ in few things: how many queries a request makes and when
it stops (`shape`), whether rows are filtered after the read, which batch lookups
follow (`lookups`), whether the result is capped, and whether it reads all
tables; `AllEndpoints` lists the sixteen with these. A request is `Query` with
its lookups, `Gather`, and the answer with a cursor, which the client sends in
its next request. Others meanwhile move, add, remove or hide rows and hide and
show events, at most `MaxChanges` times. `steady` and `lit` are history: what has
not changed since the listing began; `lost` are the rows whose lookup was given
up without a word.

The rows a query has kept are a function `kept` from rows to the keys they were
read at, for a row may move while its page is looked up; what a request has
collected (`items`) and the listing has answered (`got`) are counts of rows, and
`size` is the length of the arrays of the code. The order of an array is that of the index, so
nothing is lost by this: the match that fills the answer of a search (`Fills`) is
the one with as many matches up to its key as were missing. The constants of
`Listing` are not those of a schema: `TableOf` and `EventOf` are any
functions, and only `Rows` is assumed to be finite, so that the rows of a page can
be counted.

### BrowserCheckout

`cart` is in localStorage and shared by `tab`s; the request id of a checkout is
in the memory of a tab, with the fingerprint of the cart it was drawn for. A
`call` is one run of `processCheckout`: `Press`, `Validate`, `CreateIntent`,
`Resolve` and `Reserve` (create-intent at the server), `Pay`, `Confirm`.
`GiveUp` is an attempt the browser no longer waits for: it stays in `late` and
still creates the order when it gets there. `edition` numbers the contents the
cart has had (history).

## 3. Runs

Bounds are the constants of each `.cfg`. Deadlock is checked in every run but
`leads`, `listing` and `publication_ends`, in which a behaviour may really stop
(all messages sent and edits spent, the listing at its end, the event
published). `MCSpec` of `MCOrderPayment` and `MCListing` names interchangeable
members in order instead of using symmetry, which TLC does not allow together
with liveness, and keeps the fairness of the specification.

| Run | Instance | Question |
| --- | --- | --- |
| `event_requests` | `TrafficSpec`: 3 keys, 3 events, 2 invocations, plans 1 and 2 with one change, a lagging index | Between repairs and without crashes or expiries, is the limit of the counter kept (`NoOversubscription`), and is every active event paid for (`CapacityCovered`)? |
| `event_retries` | 2 keys, 2 events, 2 invocations that crash anywhere, expiry, a reconciler that may die once, a lagging index | Is there one event per idempotency key (`OneEventPerKey`)? Can a request whose event exists always settle (`ConsumeSucceeds`)? |
| `event_repair` | `FairSpec`: 2 keys, 2 events of which one may be older than the counter, 1 invocation, a plan change | Do repairs keep the row's equation (`CounterBalanced`), the reserved column (`ReservedExact`), the units (`UnitsReturnWithTheirRow`)? Does the counter become exact for good (`Converges`)? |
| `orders` | `MCSpec`: 2 invocations, 2 intents, 2 events, 1 tick of the clock or 1 forgotten key, 1 failure | Is an order paid only by a payment (`PaidIsReal`)? Is an event worked on under its lease (`WorkerHoldsLease`)? Does it all implement `OrderPromise`: one worker per event, settled orders that stay, one intent per order (`KeepsPromise`)? Does every order leave `creating` and `pending`, unless Stripe is still processing or the reconciler reaches it no more (`Settles`)? |
| `members` | 3 users of whom 1 may delete the account, 2 invocations, revisions 1 and 2 | Is there never a second owner (`OwnerIsNamed`), and is a removal final (`RemovedStays`)? |
| `publication` | 2 stands, 2 requests, pages of 1, 1 edit of the event | Does publication cover every approved stand (`PassComplete`)? Is what visitors are told of a stand what its row says (`CanonicalStand`)? Does the event keep its documented life (`KeepsLifecycle`)? |
| `invitations` | 2 invitations, of which any may be older than the counter, 2 invocations, limit 2 | Is every reserved unit held by one row and every used one by a consumed occupancy (`ReservedExact`), and does no invitation pay twice (`PaidOnce`)? |
| `billing` | 2 invocations, 2 subscriptions, 2 customers, 3 events, 2 moments, 1 failure | Does the entitlement show a state a subscription has had (`EntitlementIsReal`)? Does the newest processed event win until the reconciler writes (`LatestEventWins`)? Is there one customer, unless two requests straddle the end of Stripe's key (`OneCustomer`)? |
| `leads` | 1 message, 3 attempts, 2 editors, 2 edits, with and without Turnstile | One lead per message (`OneLeadPerSubmission`), stored when success is shown (`SuccessIsStored`), never of an event, or of a stand in every copy, hidden all along (`NoLeadOfHidden`), and no edit lost (`NoLostUpdate`)? |
| `listing` | 16 endpoints, 4 rows in 2 tables, 2 events, pages of 2, 1 write of others, 2 failures | Do answers keep to their limits (`ListingTypeOK`)? Is a row that stayed answered once (`StableRowsOnce`)? Is nothing of a hidden event shown (`NothingHidden`)? Does every listing end (`ListingEnds`)? |
| `cart` | 2 tabs, 2 calls, 1 product at 2 prices, 3 edits, 2 request ids, a reload of each tab | Is a cart paid once from one page (`OneChargePerCart`), and at the prices of the attempt that was answered (`PaysWhatItAsked`)? |

One run shows where the code and its documents part, and is expected to find a
violation: in `publication_ends`, `PublicationEnds` fails under `PublishingSpec`,
which lets a single request be repeated until the event is published. With as
many draft stands as a page holds, each request rewrites the page, which moves
its stands behind the cursor, and finds a full page again.

### Why these bounds

- Two invocations are enough for a race of two requests on a row, and every row
  here is written by one conditional write at a time. In `event_requests` three
  keys and three events with a limit of two are what it takes to exceed a limit.
- `event_retries` has as many keys as invocations, so that two invocations may
  share a key or not, and one more event than the plan allows. The reconciler dies
  here and not in `event_repair`: a run that dies has done a prefix of its writes,
  and for `Converges` the next run starts from the rows as they are.
- `event_repair` has one invocation, because its questions are about the
  reconciler against a request; two plan values let the row be above and below
  its limit; an event that may be older than the counter makes the first count
  differ from the occupancies.
- Two events and two intents let events of the same and of different intents be
  reordered and redelivered, and let a forgotten key create a second intent. One
  failure is what a lease is for: the holder dies and a later delivery or the
  reconciler takes over. `orders` lets the clock tick, so that events are older,
  newer or equally old, or the key be forgotten; both in one behaviour is too much
  for its time and is not checked. Three events in `billing` are a newer, an older and an equally old one.
- Revision 2 lets every membership be changed once between the read and the write
  of another request. The theorems of `OwnershipProofs` hold for any bound.
- Two stands with pages of one put every stand on a page of its own, with the
  cursor between them; the edit makes a second publication start.
  `publication_ends` has pages of two, as its question is about full pages.
- Two invitations with a limit of two let one take the unit another has lost.
  Resends are off (`MaxResends = 0`), as one resend makes the run too long for
  its time; what they do is in section 5.
- Three attempts are what `CONFIG.api.retryAttempts` gives; two editors and two
  edits make one that is stale. The theorems of `VisitorProofs` hold for any
  number.
- Three rows in one of the two tables, read by pages of two, make a full page, a second one, and
  a row that moves from one to the other. One write is enough for each property
  to be at stake, as it is about rows and events that did not change; the theorems
  of `VisitorProofs` hold for any number of rows, tables, writes and failures, and
  any limits.
- Two tabs and two calls let two calls run in one tab, in two, or around a
  reload. `MaxQuantity = 1` leaves an empty and a full cart, and one product
  makes two carts equal or different.

Symmetry is used where members of a set are interchangeable and never in a run
with a liveness property.

### Fairness

- `WF(Continue(p) \/ Crash(p))` (`EventQuota`) and `WF(Continue(p))`
  (`OrderPayment`): Lambda runs an invocation it started to its end or ends it at
  the function's timeout. In `OrderPayment` the failures are counted, so that an
  invocation may not use its crash as an excuse for ever.
- `WF(Repair)` (`EventQuota`): the reconciler is started every 15 minutes by a
  schedule (`template.yaml:2476`) and reads all pages of its tables (`scanAll`). A run
  that dies is followed by another.
- `WF(RepairRetrieve \/ RepairWrite)` (`OrderPayment`): a run that took the order is
  done with it within its timeout (`template.yaml:2116`). That a run takes it is not
  assumed, as above.
- `WF(Expire(k))`, `WF(Age)`: time passes. `WF(IndexCatchUp)`: an index is
  eventually consistent.
- `WF(Reader)` (`Listing`): the client asks for the next page until there is none,
  and a request it made is answered.
- `PublishingSpec` (`Publication`): the organizer presses Publish again until the
  event is published, and each request runs to its end.

Nothing is assumed of customers, of Stripe or of deliveries: `Settles` does not
rely on a webhook ever arriving. `Converges` needs no new requests in the sense
that a behaviour with finitely many keys and events has finitely many; with an
endless stream the reconciler may defer a busy counter for ever, which is what
the code does.

## 4. Theorems

All are checked by TLAPS for every value of the constants that satisfies the
named assumptions of the modules (distinct names, finite sets, natural bounds).

**EventQuotaProofs.**
`TypeCorrect` (`Spec => []TypeOK`) includes that `used`, `reserved` and
`available` never go below zero. `TypeOK` is not inductive: whether `Reread` finds
a row, or a release finds a counter, depends on where each invocation is. The
invariant `Shape == TypeOK /\ WellFormed` adds which steps hold a key, an event
and a row, and which reservations and occupancies imply that the counter exists.
`BalancedAlways` proves `CounterBalanced` on top of it: every operator of
`QuotaCounter` keeps the equation, `TakeUnit` because `HasRoom` requires a unit
and no `overLimit`, the absolute writes because they compute it.
`ReservedAlwaysExact` proves `ReservedExact` from `Ledger`, which adds
`RepairFresh`: the revision the reconciler has read is never ahead of the row's,
and once it has seen no open reservation, an equal revision means that there is
still none, because whoever reserves increments the revision. This is why writing
0 over `reserved` loses nothing. `UnitsReturned` proves the action property
`UnitsReturnWithTheirRow`: of all writes of the row only `ReleaseSource` and
`ReleaseOccupancy` lower `used + reserved`, each in the transaction that ends the
row which held the unit.

`KeyCreatesOne` (`OneEventPerKey`) and `ConsumeNeverFails` (`ConsumeSucceeds`) need
to know whose a reservation is. `Custody`: the key of an invocation that holds one
(`HoldingSteps`) has a reservation, is neither expired nor on the reconciler's list
of expired ones, and is held by no other; until the invocation settles it
(`OpenSteps`) the reservation is open. It is kept because `Reserve` needs a key without
a reservation and no reservation ever becomes "none" again, and because `Expire`
waits for the holder. `Created`: an event of a key means that the key has a
reservation, and while an invocation has yet to write its event there is none of its
key.

`CoveredAlways` (`CapacityCovered`) and `NeverOversubscribed` (`NoOversubscription`)
are theorems of `TrafficSpec`, between repairs. Their invariant `Paid` says who pays
for an active event: a used unit, if the event is `Settled` (its occupancy is used, or
it is older than the counter, and then the first count has seen it on the index), or
else the open reservation of its key. There are no more settled events than `used`,
and by `ReservedExact` no more others than `reserved`. Of `Spec` neither is a theorem: after a
crash, an expired reservation and a repair, two creates pass both checks.

**OrderPaymentProofs.**
`Shape` is the types and what the place of an invocation says: whether it works on
an event, which was then sent and has a lease row, and whether it has an intent
(`CallShape`, `Delivered`, `RepairShape`). `HolderWorks` (`WorkerHoldsLease`) needs
`Leased`, an invocation at work has the row's token and the lease has not expired,
and `Alone`, no other has that token; both last because a claim takes a new token
and the lease outlives the invocation. `PaidByPayment` (`PaidIsReal`) needs `Told`:
whoever is about to write `paid` has it from Stripe. `PromiseKept` is the
refinement of `OrderPromise`, one lemma per abstract step. It needs `Dated` (no
time stamp is of the future), `Judged` (a write that is about to happen was allowed
from the status it read, and is conditioned on it) and `Attached` (whoever attaches
an intent has the one of the order's key, and the order has none or that one).
`SettledForGood` (`SettledStays`) says what follows for the rows:
a settled order, an intent and a processed event are never undone. It is read off the
refinement, and so is a theorem that no run checks, like `ArchivedForGood` below.

**BillingEntitlementProofs.**
`Shape` adds that what is spoken of has begun: a subscription in some state has a
session, an event is of such a subscription. `SameCustomer` (`OneCustomer`) needs
`OneKey`: a request that is to make a customer finds that the organization records
none or the key's, and one that has made it holds the recorded customer, or the key's
while none is recorded. `KeyExpires` breaks it where `straddled` says so, and `AgingShape`
says that nowhere else a request is left with an older customer. `RealEntitlement`
(`EntitlementIsReal`) needs `Told`: the state of a subscription, and what the
reconciler has retrieved of it, was reported by an event. `LatestWins`
(`LatestEventWins`) needs `Sent` and `Latest`: an event that was applied and not yet
marked is no newer than the entitlement either.

**OwnershipProofs.**
`TypeCorrect` rests on `Shape`: which steps have a target, that only an account
that may be deleted is being deleted, and that a transfer is between two
different people. `OwnerNamed` (`OwnerIsNamed`) needs nothing more: the only
write that makes an owner demotes, in the same transaction, the user that it
requires to be the named one, and by the invariant no one else has the role.
`RemovedForGood` (`RemovedStays`) needs `Changes`: a change that passed its read
expects a revision the row has or had, and a smaller one if the row has been
removed since. It is kept because a removal increments the revision
(`Advances`), and it is what makes the condition on the revision sufficient.

**PublicationProofs.**
`TypeCorrect` rests on `Shape`: each request is `Good`, that is a record with the
fields of one, whose task and page fit its step (`Formed`: a page that is being
rewritten is not empty), whose page names existing stands, and which knows where the
event is (`Holds`): as long as nobody has written the event since the request read
it, its status is one the request's next write is allowed from. Every writer takes
away what the others hold, so `Holds` asks nothing of them afterwards. `LifeKept`,
the refinement of `EventLifecycle`, follows: each write of the event (`Written`) is
conditioned on the revision, and so is a transition of the lifecycle.
`ArchivedForGood` (`LifeIsOneWay`) is what that life means to a visitor: an archive is
for good, and the content of a public event is what was published.
`StandCanonical` needs no more than `CanonicalStand` itself: the row each write
leaves is canonical, whatever was read.

`PublicationComplete` (`PassComplete`) adds `Pass`, in three parts. `Sorted`: the
index is ordered by class, and each cursor, and the checkpoint, has every stand of a
lower class behind it; then a stand that is rewritten within its class cannot fall
behind a cursor it was ahead of (`MovedDebt`). `Classed`: an approved stand stays in
class `published` until an archive has begun. `Owing`: what is owed is approved, is
ahead of the checkpoint, and, for each request that holds the event, ahead of its
cursor or on its page (`Serves`), and on its page if that is the last one. A request
that finalizes has an empty last page, so nothing is owed. The checkpoint is `Start`
in a draft or published event, so a new publication starts with everything ahead;
`Finalize_KeepsCheckpoint` is the bug this excludes. It needs nothing of the order in
which requests overlap, die, fail and resume: one that lost the event may do what it
likes with the stands, but cannot write the checkpoint or the outcome.

**InvitationQuotaProofs.**
`Inv` is `Shape` (the types, and that a request under way is about an invitation),
`Exact` (`ReservedExact`, as counts of rows) and `PaidOnce`. A transaction moves one
row, so it adds one to a count or takes one from it (`Gains`, `Loses`), and the
counter follows: `SourceMoves`, `LegacyMoves` and `OccupancyMoves` are the
three kinds of row, `Links` moves a unit from a reservation to its occupancy. A
repair that rewrites the counter ends what `ReservedExact` counts from, and the theorem
says nothing of the columns afterwards. `Stood` is the other half: a consumed occupancy
is of an accepted invitation, because only a request that found it accepted consumes.

**VisitorProofs, on `LeadCapture`.**
`TypeCorrect` rests on `Shape`, which adds that attempts run only after their
click, at an attempt number and with a token of the page. `LeadUnique` and
`SuccessStored` share `Told`: a lead belongs to the message its id is made of, an
attempt that was answered with success has stored its lead or found it, and a
page that shows success had such an answer; a bot is told the same and has no
lead. `HiddenHasNoLead` needs `Seen`: what an attempt has been told is public is not in
its `dark`, and no copy lags behind a stand that is. `EditsSeen` needs
`Counted`: a lead's revision is the number of its edits plus one, so an editor
whose revision the row still has saw all of them.

**BrowserCheckoutProofs.**
`Shape` adds that a call has a tab and, once it goes to the server, a request id.
`PaysWhatWasAsked` needs `Unplaced` and `Paying`: a request that was given up and
is still at the server is for an order that nobody has placed, and an order that a
call is about to pay exists with the bill of the call. `ChargedOnce` needs
`Drawn`: a page draws one request id for the contents a cart has (`Unique`), no
order is of a page or a cart to come (`Past`), and the order of the present page
and cart is the one the tab remembers, with the fingerprint of the cart
(`Known`), which is why `SameCheckout` finds it.

**VisitorProofs, on `Listing`.**
`PagesWithinLimit` (`ListingTypeOK`) needs `ListingShape`. That an answer has at
most `PageLimit` rows is not inductive: a request that goes on must have room for a
row (`AnswerShape`), and what is kept of the query under way must fit in (`Selected`),
which is where `MatchLimit`, and the match at which `searchPages` stops, are needed.
Rows are counted by `Cardinality`, so this is where `Rows` has to be finite.

`HiddenStaysHidden` (`NothingHidden`) needs `Unhidden`: neither what has been
collected nor what a lookup has found so far is of an event in `dark`. An event
that is hidden after it was found is not in `dark`, which only shrinks during a
request, and an attempt of `loadPublicEvents` adds none that is hidden then.

`EveryRowOnce` (`StableRowsOnce`) is the argument that pagination by cursor is
sound while others write, and its invariant `Paged` has a part for each place
where a row may be. `Answered`: the rows that stayed and are up to the cursor are in
the answers (once each, if they are `Promised`: due, and not given up), and none
after it. `Collected`: the rows after the cursor that the reads of this
request have passed (`Behind`) are in `items`, and no others.
`Batching`: the page whose rows are looked up has every row of its stretch of the
index, at its place (`Complete`), and what is due in it is either found or
still pending. An answer moves the cursor to what the request `Reaches`: for a query
that is used whole, its `LastEvaluatedKey` (`WholeReaches`); for a search that
filled up in the middle, the match it stopped at (`FirstReaches`), and with the key of
the query instead (`GatherSearch_QueryCursor`) the matches behind it would
be in no answer. A request that fails or is refused drops `items` and keeps the
cursor (`DropPaged`), so asking again repeats nothing. What others write makes rows
leave `steady` and events leave `lit`, and disturbs none of the rest.

Only model-checked: the liveness properties (`Converges`, `Settles`,
`ListingEnds`; TLC refutes `PublicationEnds`), which are out of the prover's reach.
Every other property that a run checks is a theorem.

## 5. What the models show that a reader may not expect

Behaviours the models have and that no property forbids, because they are how
the code works. Each was met while a stronger property was being tried.

- **Event quota.** A request that writes its event and dies before it uses its
  reservation lets the plan be exceeded: the reservation expires, and before the
  reconciler has counted events two creates pass both checks. `overLimit` stays
  set after archives brought the usage below the limit, until a repair finds
  another difference: releases give the unit back and do not compute it.
- **Orders.** A payment that succeeds between the reconciler's call to Stripe and
  its write is dropped as out of order, its event is marked processed, and the
  order stays `failed` (`SPRINT-4.5D-REPORT.md:55`).
- **Memberships.** The removal of an organizer that was read before a transfer to
  the same organizer and is written after it leaves an organization without an
  active owner: the transfer leaves the revision as it was
  (`CONCURRENCY-01.md:15`).
- **Publication.** An approved stand of a public event may stay hidden when its
  approval raced the publication; the row of a stand of an archived event may
  still say `published` (visitors are kept out by the barrier). The portal says
  "Event published." after one POST, also when the answer was 202
  (`portal.js:309`).
- **Invitations.** The acceptance that makes the stand is answered 500
  `STAND_ID_MISSING`, and its unit is never used: it stays reserved until the
  occupancy expires, is then returned while the stand exists, and the stand is
  counted again only by a repair. `SPRINT-4.5E.1-QUOTA-01-INVITE-01.md:31` asks for
  the transition from `reserved` to `used` after the stand is made; the handler of
  `tests/unit/quota-wrappers.test.js` answers with a `standId`, which the real one
  does not. A resend leaves the expiry of the occupancy, so that the
  invitation can be accepted after its unit was returned: a stand that nobody
  pays for (`SPRINT-4.5E.1-QUOTA-01-INVITE-01.md:29`). A repair that counted
  before a revocation takes its unit away again, and the release of the
  revocation then takes another invitation's. A reservation that a resend made for
  an old invitation blocks its acceptance, which is another actor's, when the
  resend died. The e-mail leaves before the reservation is linked, so a fast
  acceptance reserves a second unit, held for a week.
- **Billing.** Two requests on both sides of the end of an unsaved key are for two
  customers, and the session of one is for a customer the organization does not
  record. The plan of a session's metadata is preferred to that of the price
  the customer changed to (`PHASE-4-REPORT.md:34`). The reconciler's write has no
  condition on the watermark. The deletion of a subscription that was replaced
  suspends the organization. The first event is lost if its worker dies while
  duplicates were acknowledged.
- **Leads.** A stand that was hidden just before the message was sent may still be
  read as public, and gets the lead. With Turnstile, the retry of a message that was stored is answered
  403, as a token is verified once, and the visitor is told it failed; the
  documented replay needs a new token (`API-SURFACE.md:27`). The portal sends no
  `If-Match`, so each of its edits of a lead is answered 428
  (`CONCURRENCY-01.md:34`).
- **Lists.** Keys of a batch read that stay unprocessed are dropped from the page
  without a word. `getSavedStands` repeats no batch at all. The start page loads
  the first page only. Two clicks on "Load more" of the orders load a page twice.
- **Cart.** A reload or another tab has no request id and pays the same cart
  again. If `confirm-order` fails after the payment, each further attempt replays
  an order whose intent Stripe refuses, until the cart is changed, and then the
  paid items are paid again. `clearCart` drops what another tab added meanwhile. A
  price that changed under a request id is refused as a conflict until the page
  is reloaded. The total shown is never compared with what is charged.

## 6. Not modelled

The session of the browser with its token refresh, routing, forms and views;
delivery notifications of e-mail and the profile, saved-stand and interaction
writes, each one unconditional write of a row; the fields of an organization, an
event or a stand that decide nothing; audit rows, which are part of the
transactions they record; validation and signatures, which come before the first
write; response shapes, but for the one a later write depends on (`AcceptInvitation`);
the simulated payment and billing modes; the
administrator's reports; the triggers of the identity provider; migrations and
deployment scripts. TTL deletion of settled reservation rows is left out: it
would make a key usable again after days, beyond any retry. The page limits of the
payment reconciler are modelled only in that nothing is assumed to be reached; the
quota reconciler has none. Reads that are eventually consistent are modelled where
a later step depends on a fresher read beside them (the events index, the plan
read by the base writer, the profile of an heir, the pages of stands, the stand a
message is for).

## 7. Plan

The modules came in this order: money, plan limits and tenancy (`EventQuota`,
`OrderPayment`, `Ownership`), then publication, invitations and billing, then the
visitors' side (`LeadCapture`, `Listing`, `BrowserCheckout`).

Every invariant and action property that a run checks is a theorem now, and so are
the two refinements.

What is left, in this order:

1. The session of the browser: the token refresh that concurrent requests share.
2. A run of `InvitationQuota` with resends on a smaller instance.
