-------------------------- MODULE PurchaseReceiving --------------------------
(***************************************************************************)
(* Receipts against purchase orders: post_receipt, with or without the task*)
(* it completes (postgres_operations.py).                                  *)
(***************************************************************************)
EXTENDS OrderRows

CONSTANTS Tolerance   \* over-receipt percentages a request can carry

\* A request that names none carries 0.
ASSUME ToleranceAssumption == Tolerance \subseteq 0..100 /\ 0 \in Tolerance

Delivered(line) == line.accepted + line.rejected

\* A receipt has at most one line per order line, so its lines are a function of
\* the product.
ReceiptLines(o, quantities) ==
    UNION {[S -> {[bin |-> b, accepted |-> a, rejected |-> r] :
                     b \in BinsOf(o), a \in quantities, r \in quantities}
                  \ [bin : BinsOf(o), accepted : {0}, rejected : {0}]] :
             S \in (SUBSET Lines(o)) \ {{}}}

\* Mutant: each receipt is compared with the whole line instead of what is left of it.
WithinToleranceOfLine(o, lines, tolerance) ==
    \A p \in DOMAIN lines :
        100 * Delivered(lines[p]) <= Ordered[o][p] * (100 + tolerance)

WithinTolerance(o, lines, tolerance) ==
    \A p \in DOMAIN lines :
        100 * (processed[o][p] + Delivered(lines[p])) <= Ordered[o][p] * (100 + tolerance)

\* Mutant: rejected goods arrive in the sellable position.
ArrivalsSellable(lines) ==
    [x \in Position |->
        IF x[1] \in DOMAIN lines /\ lines[x[1]].bin = x[2] /\ x[3] = "sellable"
          THEN Delivered(lines[x[1]]) ELSE 0]

\* What the accepted and the rejected quantity of each line bring to a position.
Arrivals(lines) ==
    [x \in Position |->
        IF x[1] \in DOMAIN lines /\ lines[x[1]].bin = x[2]
          THEN IF x[3] = "sellable" THEN lines[x[1]].accepted ELSE lines[x[1]].rejected
          ELSE 0]

\* weighted_average_cost refuses a receipt into a position that is below zero.
CanValue(arrivals) == \A x \in Position : arrivals[x] > 0 => onHand[x] >= 0

BookArrivals(arrivals) ==
    WritePositions(arrivals, Nothing, [x \in Position |-> IF arrivals[x] > 0 THEN 1 ELSE 0])

BookReceiptLines(o, lines) ==
    processed' = [processed EXCEPT ![o] =
        [p \in Product |-> IF p \in DOMAIN lines THEN @[p] + Delivered(lines[p]) ELSE @[p]]]

\* The lines as they are read again after the update: open_quantity is never negative.
ReceivedTarget(o, lines) ==
    IF \A p \in Lines(o) : processed[o][p] + (IF p \in DOMAIN lines THEN Delivered(lines[p]) ELSE 0)
                             >= Ordered[o][p]
      THEN "received" ELSE "partially_received"

\* Every accepted line gets a putaway task.  It stores the version of the position
\* as the receipt left it, which no command compares.
PutawayTasks(o, n, lines) ==
    [t \in {PutawayTask(o, n, p) : p \in {q \in DOMAIN lines : lines[q].accepted > 0}} |->
        PlainTask("putaway", o)]

\* INSERT INTO receipts and receipt_lines.
WithReceipt(o, lines) ==
    [number   |-> receipts[o].number + 1,
     accepted |-> [p \in Product |->
        receipts[o].accepted[p] + (IF p \in DOMAIN lines THEN lines[p].accepted ELSE 0)],
     rejected |-> [p \in Product |->
        receipts[o].rejected[p] + (IF p \in DOMAIN lines THEN lines[p].rejected ELSE 0)]]

\* Mutant: a partial receipt leaves no further receive task.
NoFollowUp(o, n, t, target) == [u \in {} |-> NoTask]

\* A task-bound receipt that leaves the order open creates the next receive task.
FollowUp(o, n, t, target) ==
    [u \in IF t # NoTaskId /\ target = "partially_received" THEN {FollowUpTask(o, n)} ELSE {} |->
        PlainTask("receive", o)]

IsReceiveTaskOf(t, o) ==
    /\ task[t].type = "receive"
    /\ task[t].ref = o

\* The tail of the receipt, in the order of the code: line quantities and putaway
\* tasks, the order's state, the completed task, the follow-up task.
FinishReceipt(o, lines, t) ==
    LET n == receipts[o].number + 1
        target == ReceivedTarget(o, lines)
        put == WithTasks(PutawayTasks(o, n, lines), task)
        done == IF t = NoTaskId THEN put ELSE Completed(t, put)
    IN  /\ OrderMayBecome(o, target)
        /\ orderState' = [orderState EXCEPT ![o] = target]
        /\ receipts' = [receipts EXCEPT ![o] = WithReceipt(o, lines)]
        /\ task' = WithTasks(FollowUp(o, n, t, target), done)

\* t is NoTaskId for POST .../receipts and the task for POST .../{task}/receipt.
PostReceipt(o, lines, tolerance, t) ==
    /\ receipts[o].number < MaxReceipts
    /\ t # NoTaskId => IsReceiveTaskOf(t, o) /\ TaskMayBecome(t, "completed")
    /\ orderState[o] \in {"acknowledged", "partially_received"}
    /\ WithinTolerance(o, lines, tolerance)
    /\ CanValue(Arrivals(lines))
    /\ BookArrivals(Arrivals(lines))
    /\ BookReceiptLines(o, lines)
    /\ FinishReceipt(o, lines, t)
    /\ UNCHANGED <<corrected, reservation, rma, transfer>>

=============================================================================
