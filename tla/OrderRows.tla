------------------------------ MODULE OrderRows ------------------------------
(***************************************************************************)
(* The rows that PostgresOperationsStore shares between purchase receiving,*)
(* sales fulfilment and warehouse tasks (postgres_operations.py): orders   *)
(* and their lines, receipts, reservations, returns, transfers, tasks, and *)
(* the stock positions they all write.                                     *)
(*                                                                         *)
(* A command is one step, since it is one transaction (see                 *)
(* CommandTransactions), and a command the code refuses is a step that is  *)
(* not taken.  The version of an order, a return, a task or a reservation  *)
(* is compared with the one the client has read under the lock of the row: *)
(* a command computed from an older reading is refused, and one computed   *)
(* from the present row is a step of this model.  So those versions are    *)
(* left out, and so are the position versions a client sends with its      *)
(* command.  Position versions that a task stores, its pins, are kept:     *)
(* time passes between their reading and their comparison.                 *)
(*                                                                         *)
(* A line of an order is named by its product, a position by product, bin  *)
(* and condition (ownership, lot, serial and unit of measure are those of  *)
(* untracked owned stock).  Stock is valued at its weighted average; of    *)
(* the costs only the guards that refuse a command are kept.  Reservations *)
(* are those of allocations: one that a client makes for a source of its   *)
(* own is assumed not to name an order line (InventoryLedger has those).   *)
(***************************************************************************)
EXTENDS Integers, Sequences, FiniteSets, Workflows

CONSTANTS
    Purchase,       \* purchase orders that may be created
    Sales,          \* sales orders that may be created
    Product,
    Bin,            \* storage locations
    Site,           \* the warehouse of a bin
    WarehouseOf,    \* the warehouse of an order
    Ordered,        \* per order, the quantity of each product; 0 is no line
    Return,         \* return authorizations that may be created
    ManualTask,     \* count and transfer tasks that a client may create
    Manual,         \* what each of them asks for
    MaxAllocations, \* bound on the allocations of one order
    MaxReceipts     \* bound on the receipts of one order

Order == Purchase \cup Sales
Condition == {"sellable", "quarantined"}
Position == Product \X Bin \X Condition
Warehouse == {Site[b] : b \in Bin}
Transfer == {m \in ManualTask : Manual[m].type = "transfer"}

ASSUME OrderAssumption ==
    /\ IsFiniteSet(Purchase) /\ IsFiniteSet(Sales) /\ Purchase \cap Sales = {}
    /\ IsFiniteSet(Product) /\ IsFiniteSet(Bin) /\ IsFiniteSet(Return)
    /\ Ordered \in [Order -> [Product -> Nat]]
    /\ \A o \in Order : \E p \in Product : Ordered[o][p] > 0   \* "an order requires at least one line"
    /\ WarehouseOf \in [Order -> Warehouse]
    /\ MaxAllocations \in Nat /\ MaxReceipts \in Nat

\* What _task_from_row and the task's own checks require of a task that moves stock.
ASSUME ManualAssumption ==
    /\ IsFiniteSet(ManualTask)
    /\ \A m \in ManualTask :
        /\ Manual[m].type \in {"count", "transfer"}
        /\ Manual[m].source \in Position
    /\ \A m \in Transfer :
        /\ Manual[m].destination \in Position
        /\ Site[Manual[m].source[2]] # Site[Manual[m].destination[2]]
        /\ Manual[m].source[1] = Manual[m].destination[1]
        /\ Manual[m].source[3] = Manual[m].destination[3]
        /\ Manual[m].quantity \in Nat \ {0}

VARIABLES
    onHand, reserved, version,  \* inventory_positions
    corrected,      \* per product and condition, what counts, adjustments and short transfers put right
    orderState,     \* operational_orders.state
    processed,      \* operational_order_lines.processed_quantity
    receipts,       \* per purchase order, the number of its receipts and what their lines add up to
    reservation,    \* reservations of sales order lines
    rma,            \* return_authorizations with their lines
    transfer,       \* transfers, by the task that shipped them
    task            \* warehouse_tasks

positionVars == <<onHand, reserved, version>>
orderVars == <<orderState, processed, receipts>>
vars == <<positionVars, corrected, orderVars, reservation, rma, transfer, task>>

-----------------------------------------------------------------------------
(* Rows. *)

Lines(o) == {p \in Product : Ordered[o][p] > 0}
BinsOf(o) == {b \in Bin : Site[b] = WarehouseOf[o]}

\* uuid5(allocation, posting): the order, the number of its allocation, the line and the bin.
ReservationId == Sales \X (1..MaxAllocations) \X Product \X Bin
NoReservation == [status |-> "none", quantity |-> 0]

NoReceipts == [number |-> 0, accepted |-> [p \in Product |-> 0], rejected |-> [p \in Product |-> 0]]
NoReturn == [state |-> "none"]
NoTransfer == [state |-> "none"]
NoTaskId == <<>>
NoTask == [type |-> "none", state |-> "none"]

\* Task ids are derived from what creates the task, or chosen for a manual one.
ReceiveOrderTask(o) == <<"receive", o>>
FollowUpTask(o, n) == <<"follow_up", o, n>>
PutawayTask(o, n, p) == <<"putaway", o, n, p>>
PickOrderTask(o) == <<"pick_order", o>>
PickTask(r) == <<"pick", r>>
ReturnTask(r) == <<"return", r>>
ManualTaskId(m) == <<"manual", m>>
TransferReceiptTask(m) == <<"transfer_receipt", m>>

TaskId ==
    {ReceiveOrderTask(o) : o \in Purchase}
      \cup {FollowUpTask(o, n) : o \in Purchase, n \in 1..MaxReceipts}
      \cup {PutawayTask(o, n, p) : o \in Purchase, n \in 1..MaxReceipts, p \in Product}
      \cup {PickOrderTask(o) : o \in Sales}
      \cup {PickTask(r) : r \in ReservationId}
      \cup {ReturnTask(r) : r \in Return}
      \cup {ManualTaskId(m) : m \in ManualTask}
      \cup {TransferReceiptTask(m) : m \in Transfer}

\* The sum of a function into Nat, as the number of its units.
Total(f) == Cardinality(UNION {{x} \X (1..f[x]) : x \in DOMAIN f})

\* SELECT sum(quantity) FROM reservations WHERE source_id=... AND status=...
ReservedFor(o, p, status) ==
    Total([r \in {x \in ReservationId : /\ x[1] = o /\ x[3] = p
                                        /\ reservation[x].status = status}
             |-> reservation[r].quantity])

-----------------------------------------------------------------------------
(* Positions.  A command adds a change of on_hand and of reserved to every   *)
(* position and writes it as often as it has lines there.                    *)

Nothing == [x \in Position |-> 0]

\* Mutant: a write that only reserves does not count as a change of the row.
WriteOnHandOnly(change, claim, writes) ==
    /\ \A x \in Position : reserved[x] + claim[x] >= 0
    /\ onHand' = [x \in Position |-> onHand[x] + change[x]]
    /\ reserved' = [x \in Position |-> reserved[x] + claim[x]]
    /\ version' = [x \in Position |-> IF change[x] = 0 THEN version[x] ELSE version[x] + writes[x]]

WritePositions(change, claim, writes) ==
    /\ \A x \in Position : reserved[x] + claim[x] >= 0
    /\ onHand' = [x \in Position |-> onHand[x] + change[x]]
    /\ reserved' = [x \in Position |-> reserved[x] + claim[x]]
    /\ version' = [x \in Position |-> version[x] + writes[x]]

\* One row that gets one write.
WritePosition(x, change, claim) ==
    WritePositions([Nothing EXCEPT ![x] = change], [Nothing EXCEPT ![x] = claim],
                   [Nothing EXCEPT ![x] = 1])

Available(x) == onHand[x] - reserved[x]

Correct(x, quantity) ==
    corrected' = [corrected EXCEPT ![<<x[1], x[3]>>] = @ + quantity]

-----------------------------------------------------------------------------
(* Lifecycles. *)

OrderWorkflow(o) == IF o \in Purchase THEN PurchaseWorkflow ELSE SalesWorkflow

OrderMayBecome(o, target) ==
    orderState[o] # "none" /\ target \in OrderWorkflow(o)[orderState[o]]

OrderCommands(o) == IF o \in Purchase THEN PurchaseCommands ELSE SalesCommands

TaskMayBecome(t, target) ==
    task[t] # NoTask /\ target \in TaskTransitions[task[t].state]

\* INSERT ... ON CONFLICT DO NOTHING of rows for the ids of a function.
WithTasks(rows, table) ==
    [t \in TaskId |-> IF t \in DOMAIN rows /\ table[t] = NoTask THEN rows[t] ELSE table[t]]

\* Mutant: a task gets the state of the count it has posted.
CompletedAsPosted(t, table) == [table EXCEPT ![t] = [@ EXCEPT !.state = "posted"]]

Completed(t, table) == [table EXCEPT ![t] = [@ EXCEPT !.state = "completed"]]

PlainTask(type, ref) == [type |-> type, state |-> "open", ref |-> ref]

\* A task that pins the version of a position; seen, what its creator saw there,
\* is for the properties.
PinnedTask(type, ref, x, pin, seen) ==
    [type |-> type, state |-> "open", ref |-> ref, position |-> x, pin |-> pin, seen |-> seen]

-----------------------------------------------------------------------------
(* Orders. *)

CreateOrder(o) ==
    /\ orderState[o] = "none"
    /\ orderState' = [orderState EXCEPT ![o] = IF o \in Purchase THEN "draft" ELSE "quote"]
    /\ UNCHANGED <<positionVars, corrected, processed, receipts, reservation, rma, transfer, task>>

\* _generate_task_for_order.  No command makes an order "allocated", so that the
\* pick task of a whole order is never created over PostgreSQL.
TasksForOrder(o, target) ==
    IF o \in Purchase /\ target = "acknowledged"
      THEN [t \in {ReceiveOrderTask(o)} |-> PlainTask("receive", o)]
    ELSE IF o \in Sales /\ target = "allocated"
      THEN [t \in {PickOrderTask(o)} |-> PlainTask("pick", o)]
    ELSE [t \in {} |-> NoTask]

TransitionOrder(o, target) ==
    /\ target \in OrderCommands(o)
    /\ OrderMayBecome(o, target)
    /\ orderState' = [orderState EXCEPT ![o] = target]
    /\ task' = WithTasks(TasksForOrder(o, target), task)
    /\ UNCHANGED <<positionVars, corrected, processed, receipts, reservation, rma, transfer>>

OrderInit ==
    /\ onHand = Nothing /\ reserved = Nothing /\ version = Nothing
    /\ corrected = [x \in Product \X Condition |-> 0]
    /\ orderState = [o \in Order |-> "none"]
    /\ processed = [o \in Order |-> [p \in Product |-> 0]]
    /\ receipts = [o \in Purchase |-> NoReceipts]
    /\ reservation = [r \in ReservationId |-> NoReservation]
    /\ rma = [r \in Return |-> NoReturn]
    /\ transfer = [m \in Transfer |-> NoTransfer]
    /\ task = [t \in TaskId |-> NoTask]

=============================================================================
