--------------------------- MODULE SalesFulfilment ---------------------------
(***************************************************************************)
(* Sales orders after their confirmation: allocate_sales_order,            *)
(* post_shipment and the return authorizations (postgres_operations.py),   *)
(* and release_reservation (postgres_inventory.py), which takes any        *)
(* reservation.                                                            *)
(***************************************************************************)
EXTENDS OrderRows

-----------------------------------------------------------------------------
(* Allocation. *)

\* Lines of an allocation: at most one per order line and bin, so a function.
AllocationLines(o, quantities) ==
    UNION {[S -> quantities \ {0}] : S \in (SUBSET (Lines(o) \X BinsOf(o))) \ {{}}}

RequestedOf(p, lines) == Total([l \in {x \in DOMAIN lines : x[1] = p} |-> lines[l]])

\* Active reservations of the line and the lines of this request.
Requested(o, p, lines) == ReservedFor(o, p, "active") + RequestedOf(p, lines)

AllocationsOf(o) == {r[2] : r \in {x \in ReservationId : x[1] = o /\ reservation[x] # NoReservation}}

AllocatedTarget(o, lines) ==
    IF \A p \in Lines(o) : Requested(o, p, lines) >= Ordered[o][p]
      THEN "allocated" ELSE "partially_allocated"

AtPosition(l) == <<l[1], l[2], "sellable">>

\* What the lines of an allocation reserve at a position: one line writes it.
Claims(lines) ==
    [x \in Position |->
        IF x[3] = "sellable" /\ <<x[1], x[2]>> \in DOMAIN lines THEN lines[<<x[1], x[2]>>] ELSE 0]

WithReservations(o, n, lines) ==
    [r \in ReservationId |->
        IF r[1] = o /\ r[2] = n /\ <<r[3], r[4]>> \in DOMAIN lines
          THEN [status |-> "active", quantity |-> lines[<<r[3], r[4]>>]]
          ELSE reservation[r]]

PickTasks(o, n, lines) ==
    [t \in {PickTask(<<o, n, l[1], l[2]>>) : l \in DOMAIN lines} |-> PlainTask("pick", o)]

\* reserve every line, then derive the state of the order.
Allocate(o, lines) ==
    /\ orderState[o] \in {"confirmed", "partially_allocated", "backordered"}
    /\ Cardinality(AllocationsOf(o)) < MaxAllocations
    /\ \A p \in Lines(o) : RequestedOf(p, lines) > 0 => Requested(o, p, lines) <= Ordered[o][p]
    /\ \A l \in DOMAIN lines : Available(AtPosition(l)) >= lines[l]
    /\ WritePositions(Nothing, Claims(lines),
                      [x \in Position |-> IF Claims(lines)[x] > 0 THEN 1 ELSE 0])
    /\ LET n == Cardinality(AllocationsOf(o)) + 1
           target == AllocatedTarget(o, lines)
       IN  /\ OrderMayBecome(o, target)
           /\ orderState' = [orderState EXCEPT ![o] = target]
           /\ reservation' = WithReservations(o, n, lines)
           /\ task' = WithTasks(PickTasks(o, n, lines), task)
    /\ UNCHANGED <<corrected, processed, receipts, rma, transfer>>

PositionOf(r) == <<r[3], r[4], "sellable">>

Ended(S, status) ==
    [r \in ReservationId |->
        IF r \in S THEN [status |-> status, quantity |-> reservation[r].quantity] ELSE reservation[r]]

\* POST /v1/inventory/reservations/{id}/release knows nothing of orders.
Release(r) ==
    /\ reservation[r].status = "active"
    /\ WritePosition(PositionOf(r), 0, -reservation[r].quantity)
    /\ reservation' = Ended({r}, "released")
    /\ UNCHANGED <<corrected, orderVars, rma, transfer, task>>

-----------------------------------------------------------------------------
(* Shipment. *)

\* The units that a shipment of the reservations S takes from a position, of a line.
TakenFrom(S, x) == Total([r \in {s \in S : PositionOf(s) = x} |-> reservation[r].quantity])
ShippedOf(S, p) == Total([r \in {s \in S : s[3] = p} |-> reservation[r].quantity])

Shippable(o, S) ==
    /\ \A r \in S : r[1] = o /\ reservation[r].status = "active"
    /\ \A x \in {PositionOf(r) : r \in S} :
          /\ onHand[x] >= TakenFrom(S, x)
          /\ reserved[x] >= TakenFrom(S, x)
    /\ \A p \in Lines(o) : processed[o][p] + ShippedOf(S, p) <= Ordered[o][p]

\* Mutant: an order is shipped when the lines of this shipment are.
ShippedTargetOfLines(o, S) ==
    IF \A p \in {r[3] : r \in S} : processed[o][p] + ShippedOf(S, p) = Ordered[o][p]
      THEN "shipped" ELSE "partially_shipped"

ShippedTarget(o, S) ==
    IF \A p \in Lines(o) : processed[o][p] + ShippedOf(S, p) >= Ordered[o][p]
      THEN "shipped" ELSE "partially_shipped"

TakeFromPositions(S) ==
    WritePositions([x \in Position |-> -TakenFrom(S, x)], [x \in Position |-> -TakenFrom(S, x)],
                   [x \in Position |-> Cardinality({r \in S : PositionOf(r) = x})])

PostShipment(o, S) ==
    /\ orderState[o] \in {"picking", "partially_shipped"}
    /\ Shippable(o, S)
    /\ TakeFromPositions(S)
    /\ reservation' = Ended(S, "consumed")
    /\ processed' = [processed EXCEPT ![o] = [p \in Product |-> @[p] + ShippedOf(S, p)]]
    /\ OrderMayBecome(o, ShippedTarget(o, S))
    /\ orderState' = [orderState EXCEPT ![o] = ShippedTarget(o, S)]
    /\ UNCHANGED <<corrected, receipts, rma, transfer, task>>

-----------------------------------------------------------------------------
(* Returns. *)

ReturnsOf(o) == {r \in Return : rma[r] # NoReturn /\ rma[r].order = o}

ReturnQuantity(r, p) == IF p \in DOMAIN rma[r].lines THEN rma[r].lines[p] ELSE 0

\* Mutant: an authorization that has been received no longer counts.
ReturningUnreceived(o, p) ==
    Total([r \in {x \in ReturnsOf(o) : rma[x].state \in {"requested", "authorized"}}
             |-> ReturnQuantity(r, p)])

\* SELECT sum(quantity) ... WHERE state NOT IN ('rejected','cancelled')
Returning(o, p) ==
    Total([r \in {x \in ReturnsOf(o) : rma[x].state \notin {"rejected", "cancelled"}}
             |-> ReturnQuantity(r, p)])

\* return_lines is unique per return and order line, so the lines are a function.
ReturnLines(o, quantities) == UNION {[S -> quantities \ {0}] : S \in (SUBSET Lines(o)) \ {{}}}

CreateReturn(r, o, lines) ==
    /\ rma[r] = NoReturn
    /\ orderState[o] \in {"shipped", "delivered", "closed"}
    /\ \A p \in DOMAIN lines : Returning(o, p) + lines[p] <= processed[o][p]
    /\ rma' = [rma EXCEPT ![r] = [state |-> "requested", order |-> o, lines |-> lines, received |-> FALSE]]
    /\ UNCHANGED <<positionVars, corrected, orderVars, reservation, transfer, task>>

TransitionReturn(r, target) ==
    /\ target \in ReturnCommands
    /\ target \in ReturnWorkflow[rma[r].state]
    /\ rma' = [rma EXCEPT ![r].state = target]
    /\ task' = WithTasks([t \in IF target = "authorized" THEN {ReturnTask(r)} ELSE {} |->
                            PlainTask("receive", r)], task)
    /\ UNCHANGED <<positionVars, corrected, orderVars, reservation, transfer>>

\* Returned goods enter quarantine, each line at the bin the receipt names; the
\* new average divides by the new quantity.  bins is a function of the lines.
ReturnArrivals(r, bins) ==
    [x \in Position |->
        IF x[1] \in DOMAIN bins /\ bins[x[1]] = x[2] /\ x[3] = "quarantined"
          THEN rma[r].lines[x[1]] ELSE 0]

ReceiveReturn(r, bins) ==
    /\ rma[r].state = "authorized"
    /\ \A x \in Position : ReturnArrivals(r, bins)[x] > 0 => onHand[x] + ReturnArrivals(r, bins)[x] # 0
    /\ WritePositions(ReturnArrivals(r, bins), Nothing,
                      [x \in Position |-> IF ReturnArrivals(r, bins)[x] > 0 THEN 1 ELSE 0])
    /\ rma' = [rma EXCEPT ![r] = [@ EXCEPT !.state = "received", !.received = TRUE]]
    /\ UNCHANGED <<corrected, orderVars, reservation, transfer, task>>

=============================================================================
