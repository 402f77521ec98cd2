# SmartStock: a TLA+ model of the inventory and command core

SmartStock is a multi-tenant inventory application: a FastAPI service over
PostgreSQL (`apps/api/smartstock_api`), a web workspace with an offline
warehouse client (`apps/web`), and a forecasting service. This project models
the part in which a mistake costs stock or money: the commands that change
inventory, the transactions they run in, the orders, receipts, shipments, returns and warehouse
tasks that are made of them, the delivery of their events, the purchase proposals
that an AI drafts and a person approves, and the queue in which the warehouse
client keeps commands while it is offline.

## Inventory of the system

| Component | State it keeps | Operations | What is hard, what makes it right | Here |
|---|---|---|---|---|
| Inventory ledger (`infrastructure/postgres_inventory.py`, `domain/inventory.py`) | positions (on_hand, reserved, version), append-only ledger lines, reservations, transfers | adjust, reserve, release, transfer, ship, receive, count, reconcile | concurrent commands on one position; staged transfers that arrive short; projections equal to the ledger; no oversell, no lost update | `InventoryLedger`, `ReferenceLedger` |
| Command transactions (both PostgreSQL stores, `infrastructure/database.py`) | idempotency records, row locks, the open transactions | claim, lock, compare, write, complete, commit | retries, crashes, reused keys, lock circles; a command takes effect once or not at all | `CommandTransactions`, `ExactlyOnceCommands` |
| Outbox dispatcher (`infrastructure/outbox.py`) | outbox rows, the row each worker holds | dispatch_one | several workers, a publisher that raises, crashes between delivery and commit; nothing lost, duplicates only where they must be | `OutboxDispatch`, `AtLeastOnce` |
| AI purchase proposals (`proposals/`, `domain/proposals.py`, `api/routes/proposals.py`) | proposals in the memory of one process | draft, approve, reject, execute, expire | handlers that overlap on threads, evidence that ages, a restart in mid-execution | `ProposalReview` |
| Orders, receipts, shipments, returns (`infrastructure/postgres_operations.py`, `domain/workflows.py`) | orders and lines, returns, allocations | create, transition, receive, allocate, ship, return | lifecycles that span stock, reservations and tasks; repeated, partial and excessive documents; lines, states, stock and documents agree | `Workflows`, `OrderRows`, `PurchaseReceiving`, `SalesFulfilment`, `Fulfilment` |
| Warehouse tasks (`postgres_operations.py`) | tasks with the position versions they pin | create, transition, count, ship, receive | pinned versions grow stale while other commands write the position; stock is posted only as its creator saw it | `WarehouseTasks`, `Fulfilment`; stale task versions in `OfflineQueue` |
| Warehouse PWA (`apps/web/src/data/warehouseOffline.ts`) | cached tasks, queued commands in IndexedDB | enqueue, sync, discard, retry, change identity | asynchronous steps over a shared store, conflicts, lost answers; order, nothing lost, one identity, drained | `OfflineQueue` |
| Valuation, FEFO allocation, availability (`domain/valuation.py`, `allocation.py`, `availability.py`) | none | pure functions | rounding, empty and negative inputs | not modelled (see Plan) |
| In-memory stores (`domain/inventory.py`, `operations.py`) | dictionaries | as their PostgreSQL twins | partial failure without a transaction; a document that fails half-way and is sent again is still posted once and whole | `ReferenceLedger`, `MemoryOperations` |
| Catalog, tenancy, permissions, conversations, reports, import, job envelope, forecasting, web pages | see their modules | reads, versioned CRUD, streaming, numerics | no protocol of their own | not modelled |

The stores meet in the database: every command of either store is one
transaction that claims an idempotency key, locks position rows, checks the
versions the client named, writes the projection, ledger, audit and outbox rows
and completes its key. The dispatcher reads the outbox rows those transactions
commit. An approved proposal calls `create_order`, an ordinary command under the
key `proposal:<id>`. The catalogue and the stock change underneath a proposal
while it waits. The PWA replays the commands it has queued to the task endpoints
under the keys they were recorded with, and its cache is cleared by the sign-in
code when the identity changes. In development mode both PostgreSQL stores are
replaced by the in-memory ones, which have locks in place of transactions.

## Modules

`InventoryLedger` has one action per command, each the effect of its whole
transaction: `Adjust`, `Reserve`, `ReleaseReservation`, `ConsumeReservation`
(one reservation of a shipment), `TransferStock`, `ShipTransfer`,
`ReceiveTransfer`, `PostCount`, and `Retry` for a key that is already used. A
command the code refuses rolls back and is a step not taken. The variables are
the tables; ledger lines are kept per idempotency key, which is the unique key
of their transaction. Sums over the ledger are cardinalities of sets of units,
so that the module needs no recursion and can be proved about. A stock key with
its nine dimensions is a member of `Position`; `Route` says which positions may
be source and destination, `IssuedAs` which position the ledger line of a
shipment names (in the code: the product of the order line, 'sellable',
'owned', no lot, no serial). Quantities are whole multiples of the last decimal
of NUMERIC(28,9). Costs are left out, so the commands are the uncosted ones of a
weighted-average organization; the two places where cost arithmetic can refuse
such a command (the average of an atomic transfer, which divides by the new
quantity) are kept.

`ReferenceLedger` is the in-process `InventoryLedger` of `domain/inventory.py`,
whose docstring calls it the reference transaction boundary whose rules the
PostgreSQL adapter uses under row locks. It is the abstract specification of
`InventoryLedger`, which sees through `ReservationsSeen`, `TransfersSeen` and
`CommandsSeen` what that ledger keeps of its tables. `ReferenceRules` says that
each command PostgreSQL commits is one the in-process ledger would have carried
out with the same result, but for the two kinds of transfers that the two treat
differently (`TransfersHeldStock`, `ReceivesIntoDebt`; see below).

`Fulfilment` composes the operations store over PostgreSQL. `Workflows` holds the
lifecycles of `domain/workflows.py` and of tasks; `OrderRows` the tables and what
every command shares (`WritePositions`, `TransitionOrder`, the ids of derived
tasks); `PurchaseReceiving` has `post_receipt`, with and without a task;
`SalesFulfilment` allocation, release, shipment and returns; `WarehouseTasks`
tasks, counts and the two halves of a transfer. Each command is one step, which
`CommandTransactions` justifies. An allocation, a shipment or a receipt is a
function from its lines to what they carry, so one step posts every line of it.
Versions that a client sends back at once are compared under the row lock and
only refuse, so they are left out; the position versions that a *task* stores
are kept, because anything may happen between the reading and the comparison.
`corrected` collects what counts, adjustments and short transfers put right, and
`seen` in a pinned task what its creator saw; both are for the properties.
Reservations are those of allocations; a reservation that a client makes for a
source of its own is in `InventoryLedger`, and is assumed here not to name an
order line.

`MemoryOperations` is `InMemoryOperationsStore` over `ReferenceLedger`. A document
holds the operations lock from its replay check to its record, but it moves stock
line by line under keys derived from its own (`PostLine`, `ReplayLine`), other
commands go to the ledger between the lines, a line that raises ends the request
with the lines before it in place (`LineRaises`, `FinishRaises`), and the client
may send the document again under its key with the old versions or with new ones
(`Resend`). The ledger's own commands are releases and adjustments, with and without
`allow_negative`, which the route passes on from the client. Quantities are added up as the number of their units (`Total`).

`CommandTransactions` opens that atomic step: requests claim (`Claim`,
`ClaimTaken`), lock rows one after another in the order of the command
(`LockRow`), compare and write (`Write`, `RefuseStale`), and `Commit`; they
`Crash` at any point and the database breaks circles (`DeadlockVictim`).
READ COMMITTED is modelled by what a statement sees when its wait is over:
`Blocked` names the transactions it waits for. It is checked to implement
`ExactlyOnceCommands`, in which a command is one atomic step; this is what
justifies the atomic actions of `InventoryLedger`.

`OutboxDispatch` splits `dispatch_one` into the select that locks a row, the
call of the publisher, and the commit, with failures and crashes between them.
Events are inserted by transactions that begin and commit in any order, since
`occurred_at` is the time a transaction began. It implements `AtLeastOnce`.

`ProposalReview` gives every approve or reject request the steps of its handler:
load, read each source, decide and store, create the order, store the result.
`ProposalStore.update` is `Store`: it writes the handler's own copy over
whatever is there. `alone` and `loaded` in a handler's record are history
variables for the properties.

`OfflineQueue` splits the functions of `warehouseOffline.ts` at their awaits, so
that what they read may be old when they write. `performSync` is a snapshot
(`SyncWarehouseQueue`), then for each command `MarkSyncing`, `Send`, the server's
`Serve`, and `FinishDone`, `FinishRefused` or `LoseConnection`, each of which
writes the record of the snapshot whatever has become of it. `activeSync` is
`sync # None`; `due` is a call of `synchronize` that has not run yet. The operator
acts on what the page shows: `shown` is the React state that `ShowCache`, the page's
`loadCache`, brings up to date at some later time (its reads and the render are one
step), so that `Discard` and `Retry` may be clicked on a row that is no longer so, and
`Discard` deletes the record whatever it has become. An enqueue
is its checks and its transaction, a retry its read and its put, a refresh its
request, the list and the write, a change of identity the clearing and the entry.
Identities change in the open page, with all that runs in it running on, by `Unload`
(`addUserUnloaded`) and by `Renew` (`addUserLoaded`, which calls `applyUser` with
whatever identity a renewed token names). `Load` is a page that is loaded again, with everything that was running gone;
`late` holds requests the page has given up and the server may still get. The
server is `transition_task`: claim, version, transition. `fate`, `left` and the field
`by` of an entry are history. `fate` says how a command left the queue without
effect: "discarded" while it was blocked, "withdrawn" by a discard from a stale row when
it waited again, "cleared" with the stores, "revived" by a retry that had read it before.
`left` is what was still running when the stores were last cleared.

`MC*` modules give the constants of the small instances; `*Proofs` modules and
`UnitTheorems` hold the theorems.

## Runs

| Run | Instance | Shows |
|---|---|---|
| `ledger` | 4 commands, a stock key in two warehouses and a serial position, quantities 1 and 2 | the projections equal the ledger and the active reservations, in_transit holds exactly what is under way, no oversell, no lost update, no reservation ended twice; every command is one of the in-process ledger (`ReferenceRules`) |
| `ledger_serial_shipment` | the same, with the line a shipment really writes for a serial unit | violated: the unit's position no longer reconciles |
| `outbox` | 3 events, 2 workers, 2 faults | at-least-once delivery, duplicates only after a rollback |
| `commands` | 4 requests: a command, its retry, another command with the same key, and one that locks the same two rows in the other order | refinement of `ExactlyOnceCommands`, agreement of answers, every request answered |
| `commands_retry` | the same, with a fingerprint that covers a stamp of the request | violated: the retry is refused as a conflict |
| `proposals` | 1 proposal, 2 requests, 3 sources that each change once | one order per proposal, evidence that held, success only with an order, the lifecycle when a request is alone, executions that end |
| `proposals_rejected` | an approval and a rejection | violated: a rejected proposal has an order |
| `orders` | a purchase and a sales order of two lines, 2 returns, tolerances 0 and 100 % | over partial and excessive receipts, repeated allocation, release, partial shipments, returns and cancellations: no line reserved or shipped beyond what was ordered, `shipped` and `partially_shipped` mean what they say, returns stay within what was shipped, receipts within the tolerance, and a receivable order keeps a receive task |
| `tasks` | orders of one line, a count and a transfer between two warehouses, adjustments with and without override | the positions equal what all the documents say (reservations, receipts, shipments, counts, goods under way), and a pinned task posts only on the stock its creator saw |
| `memory` | two documents of at most two lines, one adjustment or release, one return or task | a recorded document is posted once and whole however often it failed half-way, the order's lines add up to their documents, every claim of an active reservation is counted once, and a position's reservations exceed its stock by overrides of that position only |
| `offline` | 1 task, 3 commands, 2 identities, 3 events, an operator who presses "Sync now" | commands of a task take effect in order and behind no blocked one, leave the queue only when settled, stay discarded when they were blocked; what a workspace holds of another identity was running on in the page when the stores were cleared; every command is sent in the end, or one of its task is shown for review |
| `offline_return` | 2 commands, 1 identity | violated: a command recorded offline stays queued after the connection is back, with nothing else going wrong |

**Bounds.** Four commands are enough for a staged transfer with its stock and
receipt and one more command in between, or for stock, a reservation and both
ways to end it; versions are bounded by the number of commands, since each
commit raises a version by one. A second serial position, or a third route,
adds no new pair of interacting commands. With two workers one can hold the row
the other wants; three events leave one behind a failing head. Two rows are what
a circle of locks needs, four requests are the smallest set with a retry, a
reused key and that circle. Interactions between proposals go through the
sources only, so one proposal with two requests has every overlap of handlers,
and a source needs to change once to be stale. In
`OfflineQueue` commands and disturbances (a lost connection, a refusal, another
operator's move, a reload, a change of identity, going offline) share the bound
`MaxEvents`: with three, two commands meet one disturbance, which is what an
order can be broken with (a command that is refused or lost, and the one behind it),
one command meets two, and three meet none. Commands recorded from stale rows
are refused by their versions without any disturbance, and discards and retries are
not bounded at all, so that among three commands, too, some block, are discarded
from old rows and are put back. The two identities are users of one organization, so that each may
work on the other's tasks, and the other operator's move is an assignment, which leaves
the task to be worked on under a new version. The theorems on the same properties have no bound.

In `orders` a line has one unit and receipts may deliver up to two of it
(tolerance 100 %), as accepted and rejected ones, in two receipts; two allocations
per order are a reservation, its release and a new one, and two lines are what
shipping one of them takes. Two returns can together ask for more than was
shipped. In `tasks` the purchase line has two units, so that it can be received
in two parts around a count; a second bin in another warehouse is what a transfer
needs; positions are adjusted up to version `MaxVersion` = 2 and counted as 0
or 2. `Worked` and `Issued` name the tasks and the targets of state commands that
an instance follows; what is left out of them (`orders` follows the receive tasks,
`tasks` those that pin) does not touch what the properties of that run are about.
`tasks` issues no shipment and no return either, so that those terms of
`PositionsMatchDocuments` rest on the proof alone.
The passing runs together take every action. In `memory` two documents are one
that fails half-way and another that comes between it and its second try; a
failure needs a second line, and an order that is already shipped (`Opened`) is
where a return starts. `Stocked` is one adjustment per position before the first
document. Two positions are adjusted, with and without override: the sellable one
that a line of the order reserves, and the quarantined one that the count works on. `RequestKey` bounds the documents, `ClientKey` the ledger's own
commands, `MaxCreated` returns and tasks.

`MaxFaults`, `MaxVersion`, `MaxCommands`, `MaxEvents`, `MaxAllocations`,
`MaxReceipts`, `MaxLines` and `MaxCreated` are the only bounds on counters in the
specifications.

**Symmetry** is used for keys in the ledger and `memory` runs and for returns in
`orders`, which check safety only, and for workers, events and requests in
violation runs; runs with liveness use none.

**Deadlock** is unchecked where everything may be done: all requests answered,
all events published, all proposals reviewed, all orders closed, all keys used. The
ledger run checks it: `Retry`
is always possible once a key is used.

**Fairness.** `OutboxDispatch` has none: nothing in the repository calls
`dispatch_one` (see below), so that no event need ever be delivered, and the
module says only what holds whenever it is called. In `CommandTransactions` the fairness is of `Serve(r)`, what the server and the
database do for a request on its own thread and connection; crashes and new
requests are never required. In `ProposalReview` it is of `Handle(r)`, the rest
of a handler that has started; nobody is required to review a proposal. In
`OfflineQueue` it is of the page's own continuations (a call of `synchronize`, each
step of a synchronization, the writes of an enqueue and a retry, a change of
identity), since every await is answered or raises in the end, and of the
connection's return; nothing is assumed of what the page shows or the operator
does. `DiligentSpec`
adds an operator who presses "Sync now" whenever it is offered, which `Drains`
needs and `offline_return` goes without: nothing in the page calls
`synchronize` again after one has ended with commands left. `Fulfilment` and
`MemoryOperations` have no fairness: nothing obliges a person to order, count or
ship, and every command of theirs ends in the step in which it starts, or, line by
line, under a lock whose holder nothing can block.

## Disagreements found

Four are violated by a run and listed as findings in PROJECT.json:

1. `post_shipment` writes the ledger line of a serial, lot-tracked or consigned
   reservation under the key of untracked owned stock
   (`postgres_operations.py:1364`), so that reconciliation, which "must match
   exactly" (`docs/ARCHITECTURE.md:60`), does not (`ledger_serial_shipment`).
2. `create_order` hashes the time of the request, and inventory commands other
   than adjust their correlation id, so an identical retry conflicts, against
   `docs/contracts/API.md:30` (`commands_retry`).
3. A rejection that overlaps an approval is stored over it
   (`proposals/store.py:73`; `proposals_rejected`).
4. A call of `synchronize` joins the one that is running
   (`warehouseOffline.ts:331`), whose snapshot does not hold what was recorded
   since, so that a command recorded offline may stay queued against
   `WarehouseWorkspace.tsx:240` (`offline_return`).

The others were met while the modules were written. They are visible in a guard
or an assignment, and no run is spent on them:

- `docs/contracts/EVENTS.md:3` says that events are delivered at least once, but
  nothing constructs an `OutboxDispatcher` or calls `dispatch_one` outside
  `tests/test_postgres_rls.py:142`: `workers/celery_app.py` has no task and `main.py`
  no loop. What is checked and proved of the dispatcher is what a caller may rely on.
- `dispatch_one` records a failure in the transaction that the failure rolls
  back; `docs/contracts/EVENTS.md:22` promises error class and attempts.
- Approval re-reads product, supplier and warehouse but not the price
  (`proposals/builder.py:145`), against the comment in
  `api/routes/proposals.py:132`.
- The PostgreSQL ledger transfers stock that is not sellable
  (`postgres_inventory.py:772`, `:1029`); the in-process one finds none of it
  available (`domain/inventory.py:99`) and refuses, and it divides by zero when a
  staged receipt brings a position that was overridden to zero
  (`domain/inventory.py:964`). The docstring at `domain/inventory.py:376` says
  that the adapter uses the same rules.
- `docs/contracts/API.md:25` derives the allocation state from the active
  reservations, but a release leaves its order allocated or picking, and
  cancelling or backordering an order leaves its reservations active.
- The receive task of a return can never be completed: both stores refuse to
  complete it by a state command, and receiving the return leaves it as it is. A purchase order
  marked received without its task leaves the task open.
- Several commands of the operations store answer a replay with the row as it is now and not
  with the stored answer (`postgres_operations.py:191`, `:317`), so that a client that
  retries late may be shown a later state; `CommandTransactions` speaks of the
  command that a retry is an answer to and does not see the row.
- The in-memory store compares each return alone with what was shipped, where
  PostgreSQL adds up all of them; it consumes a reservation before it looks whose
  line it is (`domain/operations.py:1251`); it takes nothing back when a document
  fails half-way; its second try of an allocation or a shipment is refused, since
  the derived key's fingerprint names the correlation of the request; and a
  replayed receipt line puts its putaway task in place again, open.
- `addUserLoaded(applyUser)` (`AuthProvider.tsx:63`) changes the identity in the open
  page when a renewed token names another subject or organization. An enqueue, a retry
  or a synchronization of the former one runs on and may write its record after the
  stores were cleared, against `docs/contracts/API.md:30`, by which the cache "is
  cleared before a different authenticated user/organization identity may enter".
  `ClearedBeforeEntry` is what is left of that sentence, and `left` names the exceptions.
- `discardWarehouseCommand` deletes without looking (`warehouseOffline.ts:200`): when
  Retry has made a command pending again and the row is still shown, a synchronization
  that has taken its snapshot puts the discarded record back and sends it. No
  document speaks of it; `DiscardedStaysOut` is about commands that are blocked
  when they are discarded.
- A stale version is answered with 412, which the client stores as failed rather
  than as a conflict (`warehouseOffline.ts:293`), so that a retry sends the same
  version again.

## What is proved

Every safety and action property that the passing runs check is a theorem, and so
are the three refinements (`ReferenceRules`, `ExactlyOnceCommands`, `AtLeastOnce`).
The theorems hold for every value of the constants under the named assumptions of
the modules: `PositionAssumption`, `QuantityAssumption` and `KeyAssumption`
for the ledger, `FaultsAssumption` for the dispatcher, `CommandAssumption` for the
transactions, `SourceAssumption` for the proposals, `OrderAssumption`,
`ManualAssumption`, `ToleranceAssumption` and `FulfilmentAssumption` for orders and
tasks, `IdentityAssumption` and `BoundAssumption` for the offline queue,
`MemoryAssumption` and `AskedAssumption` for the in-memory store. They are
about `Spec`, without fairness. Most assumptions say what kind of thing a constant is
or that a set is finite. Three carry part of an argument:
`OrderAssumption` that an order has a line with a positive quantity (the code
refuses an order without lines and a line without quantity),
`ToleranceAssumption` that a request may carry the tolerance 0, the default of the
schema, and `AskedAssumption` that a return names lines of its order and positive
quantities and a transfer a positive one (the code refuses others).

*Ledger* (`InventoryLedgerProofs`). `TypeCorrect` is inductive as it stands.
`NeverOversold` is inductive together with it: each command either keeps
`reserved <= on_hand` at the positions it writes or is an override that leaves a
ledger line and a record of `allow_negative` behind, and neither is ever
deleted. `NoUpdateLost` is not inductive: nothing in it says that a version some
command has replaced is gone. The strengthening `Superseded` adds that every
version a command replaced is below the current version of its position; every
`UpdatePosition` raises the version, so a later command that compares with the
current one cannot name it again.

*The ledger's sums* (the same module, with the facts of `UnitTheorems`). A sum is
the cardinality of a set of units `{x} \X (1..n)`; `UnitTheorems` says that a new
term adds its units, a deleted one takes them, and a term that changes changes the
sum by as much. `LedgerInv` is `TypeOK`, `Fresh` (an unused key has no rows),
`SellableReserved` (only sellable positions are reserved), and one equation each for
the reserved column, the on_hand column and the in_transit account; `Reconciliation`
proves it inductive, with one step per command and equation. `ReservedIsReconciled`
and `InTransitIsCleared` follow for all routes. The on_hand column is what the
ledger lines say only where each shipment's line names the position it was reserved
from: `OnHandMatches` is stated for the positions that no other one's shipment names
and whose own are named right, which gives `AttributedIsReconciled` without a
condition and `OnHandIsReconciled` under `\A p \in Sellable : IssuedAs[p] = p`. The
run `ledger` has such routes; the other case is the finding of
`ledger_serial_shipment`. `ReservationEndedOnce` is an action property:
`ClaimsKept` says that no step touches a reservation that was ended, or the position
and quantity of an active one.

*Dispatcher* (`OutboxDispatchProofs`). The inductive invariant is `TypeOK`,
`HeldRows` (a row that a worker holds is committed and unpublished) and
`RowLock` (no two workers hold one row). `NoSpuriousDuplicates` needs the exact
account behind the bound, `Accounted`: the deliveries of an event are those that
were rolled back, plus one if the row is published or a worker has sent it and
not yet committed. `DispatchIsAtLeastOnce` is the refinement: a commit of the
command maps to `Accept`, `Publish` to `Deliver`, `CommitPublished` to `Settle`,
a publisher that raises after the broker took the event to `Deliver`, and every
other step to a stutter.

*Reference* (`InventoryLedgerProofs` as well). `ImplementsReference`: under the mapping each
command of `InventoryLedger` is the command of the same name of
`ReferenceLedger`, `Retry` is a stutter, and the two kinds of transfers in which
they differ are the two disjuncts of `ReferenceRules`. Beyond `TypeOK` it needs one fact
about earlier steps, `TransferRecorded`: an unused key has made no transfer, and
only the two-step command leaves one shipped.

*Transactions* (`CommandTransactionsProofs`). `Inv` is `TypeOK` with what the
locks give: `InOrder` (only composed commands are sent, only ended transactions
have answered), `KeyLock` (one open transaction at most holds a key, and nothing is
on record under it), `RowLock` (one at most holds a row), and `StillCurrent`: a
transaction that has written holds all its rows, and what it compared with is still
what they say. `LocksHold` proves it inductive; the
critical case is a commit, which changes rows that nobody else has compared.
`ExactlyOnce` then maps `Commit` to the command's one step, answers to answers
and every statement before them to a stutter; `AnswersTrue` carries the agreement
of every request's answer through the steps of the others.

*Proposals* (`ProposalReviewProofs`). `OrderedOnTruth` rests on `EvidenceInv`:
versions only grow, a handler that found all its sources as in the evidence read
each of them at or after its load, and the evidence is no newer than the load;
so at the load every source was exactly the evidence. `ApprovingTwiceOrdersOnce`
and `SuccessIsReal` rest on `OrdersInv`, the two properties and the fact that lies
between them: a handler about to record a success has its order. A restart empties
the store, but not the idempotency record, which refuses a second `create_order`
for the same proposal. `LifecycleKept` rests on `AloneInv`: a handler that has met no
other one is the only one at its proposal, and the copy it loaded, or the state it
has stored, is still what the store holds.

*Orders and tasks* (`FulfilmentProofs`). `RowsTyped` is the type invariant written
per table; it is stronger than `TypeOK` in what it says of a row that a later
command will read (a pinning task names the manual task and the position it pins,
a line of a return carries something). On it stand:

- `PinnedWorkPosted`, from `PinsHold`: until a position is written again it is what
  the creator of the task saw there. Every write raises the version, so a pin that is
  equal to it is a pin on the same stock.
- `ReceiptsWithinTolerance`: each receipt keeps a line under the tolerance that its
  own request carries. A later request may carry a smaller one, which is why the
  property speaks of some tolerance that a request may carry.
- `StatesAgreeWithLines`, from `Progress` (what every state of the two lifecycles
  says of the lines, the ones before and after the states the property names
  included) and `LinesReserved`.
- `ReceiveTaskKept`, from `TasksToCome`: the ids of the tasks that a receipt to come
  will open are still free, so that `_insert_task` really inserts.
- `OrderNotOverCommitted`, from `AllocationsNumbered`. An allocation looks at the
  active reservations of a line and not at what was shipped, so the bound holds for a
  reason outside the allocation: every state in which an order may still be allocated
  is one in which nothing of it has been shipped (`Progress`), and from then on a
  shipment turns active reservations into shipped units one for one.
- `ReturnsBounded`: an authorization that was refused or cancelled never comes back
  to life, and what a new one asks for is compared with all that stand.
- `PositionsAgree`, the books: the reserved column against the active reservations;
  for every product and condition the stock of all bins and the goods under way
  against receipts, shipments, returns and corrections (`Balanced`); and the lines of
  a purchase order against its receipts. It needs `ReturnsAwaited` (an authorization
  that may be received has not been), `TransfersFollowed` (a transfer that exists has
  its task completed, so it is not shipped twice) and `AllocationsNumbered` (a new
  reservation is written over none). `Sum` of integers is the difference of two sums
  of units, and each command's effect is a lemma on the rows it changes.

*Offline queue* (`OfflineQueueProofs`). `Typed` is `TypeOK` with `Bounded` (an enqueue
under way has room for its record) and `Recorded` (whatever is in flight, was given
up by the page, has taken effect or is about to be put back is on record). `InFlight` is
what a synchronization has yet to send and what it is sending.

- `StopsBehindBlocked`, from `Held`: no command in flight is of a task that has a
  blocked one. Only `FinishRefused` blocks a command, and it takes the task's commands
  out of the snapshot in the same step.
- `DiscardIsFinal`, from `Held` and `Kept` (nothing in flight has been discarded while
  it was blocked): however old the row that is clicked and the snapshot that is worked
  through, a blocked command is in no snapshot, and `MarkSyncing` puts back only what
  is. A discard from a stale row that meets a command in flight meets a pending or
  syncing one, whose fate is "withdrawn".
- `NothingLost`, from `Answered`: a response with data answers a command that has
  taken effect, so that deleting its record loses nothing.
- `CreationOrder`, from `SentInOrder` (each older command of the task of one that was
  sent, is under way or has been given up has taken effect or was withdrawn) and
  `TodoInOrder` (of one that is to be sent, or is sent before it by the same
  synchronization). A command takes effect once and is never "kept" again after it
  was withdrawn, so neither changes back.
- `NothingElseIsKept`, from `IdentityInv`: each record, and each command that something
  running may still write, is of the identity that the cache is for or was running
  on when the stores were last cleared (`left`). Nothing running may take up a command of
  another identity after the clearing, because it begins with what the stores hold
  then. That `left` may hold somebody else's command when the next one enters is one of
  the disagreements listed above.

*In-memory stores* (`MemoryOperationsProofs`). No transaction holds a document
together here, so that the argument has to say what is true between two of its lines.
The four properties follow from one invariant, `Inv`, in five parts:

- `LedgerInv`: types, `ReservationsCounted`, and `KeysFresh`, that a key without a
  record has made no reservation. Without the last one a reservation could be written
  over an active one, whose claim would never be given back.
- `WorkflowInv`: orders, returns and tasks are in states of their lifecycles, and a
  return has the lines it was created with.
- `DocumentInv`: each line of a recorded document is `Made` (posted under its own key,
  as the document says), and so is each line of the running one before the line it is
  at. It is inductive because a posted line is never posted again, whoever sends the
  document, and because `LineRaises` forgets a body only of a document that is not
  recorded. `Replays` compares all of the move
  but the line of the order it is for, as the fingerprints of the ledger do, and
  `Made` says as much.
- `ReturnsSent`: the return that a document names exists, which the resending of the
  document relies on.
- `QuantityInv`: what an order has processed and allocated is the sum of its recorded
  documents (`OrdersAddUp`), and there is still room for an allocation that is
  running (`AllocationFits`): it was compared with the line before its first
  reservation, and the operations lock keeps every other document away until it is
  recorded. That is why `allocated` stays within the line although the ledger's own
  commands come in between.

`OnlyOverridesOversell` is an action property over that invariant. Reservations may exceed
the stock they claim, because a client may override (`allow_negative`); what is proved is
that nothing else makes it so or worse. Each ledger command either leaves enough for
the claims that remain, or takes no more than it gives back (`NoShorter`, one lemma per
command): a shipment compares no stock and may take on_hand below zero after an
override, but by `ReservationsCounted` its claim is still in the reserved column, so
that both columns fall by the same amount.

A document is a sequence in an order that `SetToSeq` chooses. Nothing is assumed of
that choice: the lemmas on `Ascending`, `ReceiptMoves`, `AllocationMoves`,
`ReturnMoves` and `ShipmentMoves` show for any order of the lines that each move
carries a positive quantity and a derived key of its document that no other move has
(`OwnKeys`). With it `LinesPostedOnce` says more than `DocumentsPosted`: no two lines
of recorded documents share a posting, so that no stock is counted for both. Sums are those of `UnitTheorems`.

## What is only model-checked

Liveness under fairness (`EveryRequestAnswered`, `ExecutionResolved`, `Drains`) is beyond the prover and stays with TLC, and so does
what the four runs show that expect a violation: each is about one instance in which
the code does something else than a document says.

## Not modelled

- Costs: cost columns, cost layers (FIFO), landed cost and valuation postings. The
  guards by which they refuse a command are kept where they can (`CanValue`, the
  averages of transfers and returns). Layers are per product and warehouse and are
  neither moved by a transfer nor corrected by a count, so a FIFO issue may find
  too few of them; that needs a module of its own.
- `domain/allocation.py` (FEFO) and `domain/availability.py` (ATP): pure functions
  without state, planned with costs.
- The catalog (versioned create and update, read by everything else), tenants and
  permissions (row-level security is a static predicate), conversations, reports,
  imports, forecasting and the web pages: no protocol of their own. The one write
  of a conversation is `Draft` of `ProposalReview`.
- Reservations that a client makes for a source that names an order line, in
  `Fulfilment`; the doubles of the catalog and the platform; task-bound receipts
  and the replay of recorded keys in `MemoryOperations`.
- Several open pages of the PWA, each with a synchronization of its own over one
  store, and a second change of identity in the page before the first is complete. An operator whose token has expired counts as nobody, so that loading
  the page clears what was recorded offline; the model has that step, and
  `LeavesWhenSettled` counts it as a change of identity.
- A loop that calls `dispatch_one`, which the repository does not have, and the
  content of payloads. With one, `ORDER BY occurred_at` and nothing counted or put
  aside would mean that an event whose publication fails for ever holds up its
  organization's queue.

## Plan

1. `Costing`: FIFO consumption, weighted average, landed cost, FEFO and ATP
   against reference definitions over bounded inputs, and layers against
   positions across transfers and counts.
