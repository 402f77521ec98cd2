---------------------------- MODULE WarehouseTasks ----------------------------
(***************************************************************************)
(* Warehouse tasks and the stock that the physical ones post: create_task, *)
(* transition_task, complete_count_task, ship_transfer_task and            *)
(* receive_transfer_task (postgres_operations.py), with post_count,        *)
(* ship_transfer and receive_transfer of the inventory store that they run *)
(* in their own session, and the adjustments that write the same rows      *)
(* without a task.                                                         *)
(***************************************************************************)
EXTENDS OrderRows

CONSTANTS
    Worked,        \* types of the tasks whose state the instance follows
    MaxVersion     \* bound on the version up to which a position is adjusted

\* A transfer task is a shipment or, with reference type transfer_receipt, a receipt.
Physical == {"count", "receive", "transfer", "transfer_receipt"}

\* The client pins the version of the position it has read.
CreateTask(m) ==
    /\ task[ManualTaskId(m)] = NoTask
    /\ task' = [task EXCEPT ![ManualTaskId(m)] =
          LET x == Manual[m].source IN
            PinnedTask(Manual[m].type, m, x, version[x], <<onHand[x], reserved[x]>>)]
    /\ UNCHANGED <<positionVars, corrected, orderVars, reservation, rma, transfer>>

TransitionTask(t, target) ==
    /\ target \in TaskCommands
    /\ ~(task[t].type \in Physical /\ target = "completed")
    /\ TaskMayBecome(t, target)
    /\ task' = [task EXCEPT ![t] = [@ EXCEPT !.state = target]]
    /\ UNCHANGED <<positionVars, corrected, orderVars, reservation, rma, transfer>>

PinHolds(t) == version[task[t].position] = task[t].pin

\* complete_count_task: the blind count becomes the quantity on hand.
CompleteCount(t, counted) ==
    LET x == task[t].position IN
      /\ task[t].type = "count"
      /\ TaskMayBecome(t, "completed")
      /\ PinHolds(t)
      /\ counted >= reserved[x]
      /\ WritePosition(x, counted - onHand[x], 0)
      /\ Correct(x, counted - onHand[x])
      /\ task' = Completed(t, task)
      /\ UNCHANGED <<orderVars, reservation, rma, transfer>>

ReceiptTaskOf(m) ==
    [t \in {TransferReceiptTask(m)} |->
        LET x == Manual[m].destination IN
          PinnedTask("transfer_receipt", m, x, version[x], <<onHand[x], reserved[x]>>)]

\* ship_transfer_task: stock leaves the source, and the receipt task pins the
\* destination as it is now.
ShipTransferTask(t) ==
    LET m == task[t].ref IN
      /\ task[t].type = "transfer"
      /\ TaskMayBecome(t, "completed")
      /\ PinHolds(t)
      /\ Available(Manual[m].source) >= Manual[m].quantity
      /\ WritePosition(Manual[m].source, -Manual[m].quantity, 0)
      /\ transfer' = [transfer EXCEPT ![m] =
            [state |-> "shipped", shipped |-> Manual[m].quantity, received |-> 0]]
      /\ task' = WithTasks(ReceiptTaskOf(m), Completed(t, task))
      /\ UNCHANGED <<corrected, orderVars, reservation, rma>>

AwaitsReceipt(m, got) ==
    /\ transfer[m].state = "shipped"
    /\ got <= transfer[m].shipped

\* receive_transfer_in_session; a receipt of nothing leaves the position alone.
BookTransferReceipt(m, got) ==
    /\ AwaitsReceipt(m, got)
    /\ IF got > 0 THEN WritePosition(Manual[m].destination, got, 0) ELSE UNCHANGED positionVars
    /\ Correct(Manual[m].destination, got - transfer[m].shipped)
    /\ transfer' = [transfer EXCEPT ![m] =
          [state |-> IF got = transfer[m].shipped THEN "received" ELSE "discrepancy_review",
           shipped |-> transfer[m].shipped, received |-> got]]

ReceiveTransferTask(t, got) ==
    /\ task[t].type = "transfer_receipt"
    /\ TaskMayBecome(t, "completed")
    /\ PinHolds(t)
    /\ BookTransferReceipt(task[t].ref, got)
    /\ task' = Completed(t, task)
    /\ UNCHANGED <<orderVars, reservation, rma>>

\* POST /v1/inventory/adjustments, with or without the override.
Adjust(x, delta, allowNegative) ==
    /\ version[x] < MaxVersion
    /\ allowNegative \/ onHand[x] + delta >= reserved[x]
    /\ WritePosition(x, delta, 0)
    /\ Correct(x, delta)
    /\ UNCHANGED <<orderVars, reservation, rma, transfer, task>>

=============================================================================
