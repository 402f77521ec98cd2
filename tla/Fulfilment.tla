----------------------------- MODULE Fulfilment -----------------------------
(***************************************************************************)
(* Orders, receipts, shipments, returns and warehouse tasks over the stock *)
(* positions they share: the commands of PostgresOperationsStore in any    *)
(* order, by any number of clients.                                        *)
(***************************************************************************)
EXTENDS PurchaseReceiving, SalesFulfilment, WarehouseTasks

CONSTANTS
    Quantities,    \* quantities of the lines a request carries
    Counts,        \* results of a blind count
    Deltas,        \* quantities of an adjustment
    Adjusted,      \* positions that are adjusted
    Issued         \* targets of the state commands that clients issue

ASSUME FulfilmentAssumption ==
    /\ Quantities \subseteq Nat /\ Counts \subseteq Nat /\ Deltas \subseteq Int
    /\ Adjusted \subseteq Position

Init == OrderInit

-----------------------------------------------------------------------------
(* The requests of api/routes/operations.py and of the inventory routes. *)

PlaceOrder == \E o \in Order : CreateOrder(o)

CommandOrder == \E o \in Order : \E target \in OrderCommands(o) \cap Issued : TransitionOrder(o, target)

Receive ==
    \E o \in Purchase, tolerance \in Tolerance :
        \E lines \in ReceiptLines(o, Quantities) : PostReceipt(o, lines, tolerance, NoTaskId)

ReceiveForTask ==
    \E o \in Purchase, tolerance \in Tolerance, t \in TaskId :
        \E lines \in ReceiptLines(o, Quantities) : PostReceipt(o, lines, tolerance, t)

Reserve == \E o \in Sales : \E lines \in AllocationLines(o, Quantities) : Allocate(o, lines)

ReleaseAny == \E r \in ReservationId : Release(r)

Ship == \E o \in Sales : \E S \in (SUBSET ReservationId) \ {{}} : PostShipment(o, S)

OpenReturn ==
    \E r \in Return, o \in Sales : \E lines \in ReturnLines(o, Quantities) : CreateReturn(r, o, lines)

CommandReturn == \E r \in Return : \E target \in ReturnCommands \cap Issued : TransitionReturn(r, target)

\* Into bins of the warehouse the order belongs to.
TakeBack ==
    \E r \in {x \in Return : rma[x] # NoReturn} :
        \E bins \in [DOMAIN rma[r].lines -> BinsOf(rma[r].order)] : ReceiveReturn(r, bins)

AddTask == \E m \in ManualTask : CreateTask(m)

CommandTask ==
    \E t \in TaskId : \E target \in TaskCommands \cap Issued :
        /\ task[t].type \in Worked
        /\ TransitionTask(t, target)

Count == \E t \in TaskId, counted \in Counts : CompleteCount(t, counted)

ShipFromTask == \E t \in TaskId : ShipTransferTask(t)

ReceiveFromTask == \E t \in TaskId, got \in Quantities : ReceiveTransferTask(t, got)

AdjustStock ==
    \E x \in Adjusted, delta \in Deltas, allowNegative \in BOOLEAN : Adjust(x, delta, allowNegative)

Next ==
    \/ PlaceOrder \/ CommandOrder
    \/ Receive \/ ReceiveForTask
    \/ Reserve \/ ReleaseAny \/ Ship
    \/ OpenReturn \/ CommandReturn \/ TakeBack
    \/ AddTask \/ CommandTask \/ Count \/ ShipFromTask \/ ReceiveFromTask
    \/ AdjustStock

Spec == Init /\ [][Next]_vars

-----------------------------------------------------------------------------
(* Properties. *)

PlainTaskOK(k) ==
    /\ k.type \in {"receive", "putaway", "pick"}
    /\ k.state \in DOMAIN TaskTransitions
    /\ k.ref \in Order \cup Return

PinnedTaskOK(k) ==
    /\ k.type \in {"count", "transfer", "transfer_receipt"}
    /\ k.state \in DOMAIN TaskTransitions
    /\ k.position \in Position
    /\ k.pin \in Nat
    /\ k.seen \in Int \X Int

\* Every row of the order tables has the values its columns and checks allow.
TypeOK ==
    /\ onHand \in [Position -> Int]
    /\ reserved \in [Position -> Nat]
    /\ version \in [Position -> Nat]
    /\ corrected \in [Product \X Condition -> Int]
    /\ \A o \in Order : orderState[o] \in DOMAIN OrderWorkflow(o) \cup {"none"}
    /\ processed \in [Order -> [Product -> Nat]]
    /\ receipts \in [Purchase -> [number : Nat, accepted : [Product -> Nat], rejected : [Product -> Nat]]]
    /\ \A r \in ReservationId :
          /\ reservation[r].status \in {"none", "active", "released", "consumed"}
          /\ reservation[r].quantity \in Nat
    /\ \A r \in Return : rma[r] = NoReturn \/ rma[r].state \in DOMAIN ReturnWorkflow
    /\ \A m \in Transfer :
          transfer[m] = NoTransfer \/ transfer[m].state \in {"shipped", "received", "discrepancy_review"}
    /\ \A t \in TaskId : task[t] = NoTask \/ PlainTaskOK(task[t]) \/ PinnedTaskOK(task[t])

\* The sum of a function into Int: the units of its positive values less those of
\* its negative ones.
Sum(f) == Total(f) - Total([x \in DOMAIN f |-> -f[x]])

StockOf(p, c) == Sum([b \in Bin |-> onHand[<<p, b, c>>]])

InTransit(p, c) ==
    Sum([m \in {n \in Transfer : /\ transfer[n] # NoTransfer
                                   /\ Manual[n].source[1] = p /\ Manual[n].source[3] = c} |->
            IF transfer[m].state = "shipped" THEN transfer[m].shipped ELSE 0])

TakenBack(p) ==
    Sum([r \in {x \in Return : rma[x] # NoReturn} |->
        IF rma[r].received THEN ReturnQuantity(r, p) ELSE 0])

\* A position's reserved quantity is the sum of the active reservations on it.
ReservedMatches ==
    \A x \in Position :
        reserved[x] = Total([r \in {s \in ReservationId : /\ PositionOf(s) = x
                                                          /\ reservation[s].status = "active"} |->
                                reservation[r].quantity])

\* Sellable stock is what receipts accepted less what shipments took, quarantined
\* stock what receipts rejected and what returns brought back, and both with the
\* corrections and the goods between two warehouses.
StockMatches ==
    \A p \in Product :
        /\ StockOf(p, "sellable") + InTransit(p, "sellable") =
             Sum([o \in Purchase |-> receipts[o].accepted[p]])
               - Sum([o \in Sales |-> processed[o][p]]) + corrected[<<p, "sellable">>]
        /\ StockOf(p, "quarantined") + InTransit(p, "quarantined") =
             Sum([o \in Purchase |-> receipts[o].rejected[p]])
               + TakenBack(p) + corrected[<<p, "quarantined">>]

\* The quantity a purchase line has processed is what its receipts delivered.
LinesMatchReceipts ==
    \A o \in Purchase, p \in Product :
        processed[o][p] = receipts[o].accepted[p] + receipts[o].rejected[p]

\* The stock positions, the order lines and the documents that were posted agree:
\* no document is posted in part or twice, whatever the order of the commands.
PositionsMatchDocuments == ReservedMatches /\ StockMatches /\ LinesMatchReceipts

\* What is reserved for a line and what it has shipped never exceed what was
\* ordered, although the allocation counts only the reservations.
NoOverCommitment ==
    \A o \in Sales, p \in Product :
        ReservedFor(o, p, "active") + processed[o][p] <= Ordered[o][p]

\* A sales order that is shipped has every line shipped in full, and an order that
\* is partly shipped or received has not.  (A purchase order may be marked received
\* without a receipt, by a command of its own.)
CompleteWhenSaid ==
    /\ \A o \in Sales :
         /\ orderState[o] \in {"shipped", "delivered", "closed"} => processed[o] = Ordered[o]
         /\ orderState[o] = "partially_shipped" => processed[o] # Ordered[o]
    /\ \A o \in Purchase :
         orderState[o] = "partially_received" => \E p \in Product : processed[o][p] < Ordered[o][p]

\* The authorizations of an order that are neither rejected nor cancelled return
\* no more of a line than was shipped.
ReturnsWithinShipped ==
    \A o \in Sales, p \in Product :
        Total([r \in {x \in ReturnsOf(o) : rma[x].state \notin {"rejected", "cancelled"}} |->
                  ReturnQuantity(r, p)]) <= processed[o][p]

\* What has been received of a line stays within a tolerance that a request may
\* carry, however many receipts there were.
ReceivedWithinTolerance ==
    \A o \in Purchase, p \in Product :
        \E tolerance \in Tolerance : 100 * processed[o][p] <= Ordered[o][p] * (100 + tolerance)

\* The warehouse has a task to receive every order that may be received, unless
\* somebody has cancelled it.
ReceivableOrderHasTask ==
    \A o \in Purchase : orderState[o] \in {"acknowledged", "partially_received"} =>
        \E t \in TaskId : IsReceiveTaskOf(t, o) /\ task[t].state # "completed"

\* Stock is posted for a count or a transfer task only while its position is as
\* its creator saw it: nothing has been received, shipped or reserved there since.
PostsUnmoved(t) ==
    (/\ task[t].type \in {"count", "transfer", "transfer_receipt"}
     /\ task[t].state # "completed"
     /\ task'[t].state = "completed")
    => task[t].seen = <<onHand[task[t].position], reserved[task[t].position]>>

PinnedWorkIsCurrent == [][\A t \in TaskId : PostsUnmoved(t)]_vars

=============================================================================
