--------------------------- MODULE ReferenceLedger ---------------------------
(***************************************************************************)
(* The in-process InventoryLedger (domain/inventory.py), which calls       *)
(* itself the reference transaction boundary whose rules the PostgreSQL    *)
(* adapter uses under row locks: the abstract specification of             *)
(* InventoryLedger, and the inventory below MemoryOperations.              *)
(*                                                                         *)
(* Every command runs under the store's lock, and raises before its first  *)
(* write or not at all, so it is one step, taken if nothing is raised.     *)
(* The version a command expects of a position is the present one in every *)
(* step that is taken, so only what it leaves in the fingerprint is kept.  *)
(* The lists of transactions and events, which only grow by what the step  *)
(* itself says, and the costs are left out.  A reservation or transfer is  *)
(* named by the key that made it.                                          *)
(***************************************************************************)
EXTENDS Integers

CONSTANTS
    Position,      \* stock keys
    Sellable,      \* those whose condition is sellable
    Serial,        \* those that carry a serial number
    Route,         \* pairs that agree on every dimension but the warehouse and bin
    Key,           \* idempotency keys
    Quantity       \* quantities a command can carry

VARIABLES
    onHand, reserved, version,   \* _positions; a stock key without an entry is all zero
    reservation,                 \* _reservations
    staged,                      \* _staged_transfers
    done                         \* _command_fingerprints and the result tables: per key, what it did

positionVars == <<onHand, reserved, version>>
ledgerVars == <<positionVars, reservation, staged, done>>

NoReservation == [status |-> "none"]
NoTransfer == [state |-> "none"]

\* What a command leaves under its key: its table and the positions it expected.
Did(op, expects) == [op |-> op, expects |-> expects]

\* "idempotency key was already used by another command", or a replay: no step.
Unused(k) == done[k] = {}

\* A snapshot of the position, changed and put back.
Move(p, onHandDelta, reservedDelta) ==
    /\ onHand' = [onHand EXCEPT ![p] = @ + onHandDelta]
    /\ reserved' = [reserved EXCEPT ![p] = @ + reservedDelta]
    /\ version' = [version EXCEPT ![p] = @ + 1]

Remember(k, op, expects) == done' = [done EXCEPT ![k] = @ \cup {Did(op, expects)}]

\* Mutant: what is reserved is available too.
OnHandOnly(p) == IF p \in Sellable THEN onHand[p] ELSE 0

\* Nothing else is available.
Available(p) == IF p \in Sellable THEN onHand[p] - reserved[p] ELSE 0

-----------------------------------------------------------------------------

Adjustable(p, delta, allowNegative) ==
    /\ delta # 0
    /\ p \in Serial => onHand[p] + delta \in 0..1
    /\ allowNegative \/ onHand[p] + delta >= reserved[p]

Adjust(k, p, delta, allowNegative) ==
    /\ Unused(k)
    /\ Adjustable(p, delta, allowNegative)
    /\ Move(p, delta, 0)
    /\ Remember(k, "adjust", {<<p, version[p]>>})
    /\ UNCHANGED <<reservation, staged>>

Reserve(k, p, q) ==
    /\ Unused(k)
    /\ p \in Sellable
    /\ Available(p) >= q
    /\ Move(p, 0, q)
    /\ reservation' = [reservation EXCEPT ![k] = [status |-> "active", position |-> p, quantity |-> q]]
    /\ Remember(k, "reserve", {<<p, version[p]>>})
    /\ UNCHANGED staged

\* Mutant: the reservation keeps its status.
EndNothing(r, status) == UNCHANGED reservation

End(r, status) ==
    reservation' = [reservation EXCEPT ![r] =
                       [status |-> status, position |-> @.position, quantity |-> @.quantity]]

\* The only command that does not look at the keys of the others.
UnusedToConsume(k) == \A did \in done[k] : did.op # "consume"

\* The stock is not compared with the reservation.
ConsumeReservation(k, r) ==
    /\ UnusedToConsume(k)
    /\ reservation[r].status = "active"
    /\ LET p == reservation[r].position
           q == reservation[r].quantity
       IN  /\ Move(p, -q, -q)
           /\ Remember(k, "consume", {<<p, version[p]>>})
    /\ End(r, "consumed")
    /\ UNCHANGED staged

ReleaseReservation(k, r) ==
    /\ Unused(k)
    /\ reservation[r].status = "active"
    /\ Move(reservation[r].position, 0, -reservation[r].quantity)
    /\ End(r, "released")
    /\ Remember(k, "release", {})
    /\ UNCHANGED staged

\* Both halves at once; the new average of the destination divides by its stock.
TransferStock(k, s, d, q) ==
    /\ Unused(k)
    /\ s \in Serial => q = 1
    /\ Available(s) >= q
    /\ onHand[d] + q # 0
    /\ onHand' = [onHand EXCEPT ![s] = @ - q, ![d] = @ + q]
    /\ version' = [version EXCEPT ![s] = @ + 1, ![d] = @ + 1]
    /\ Remember(k, "transfer", {<<s, version[s]>>, <<d, version[d]>>})
    /\ UNCHANGED <<reserved, reservation, staged>>

ShipTransfer(k, s, d, q) ==
    /\ Unused(k)
    /\ staged[k] = NoTransfer
    /\ s \in Serial => q = 1
    /\ Available(s) >= q
    /\ Move(s, -q, 0)
    /\ staged' = [staged EXCEPT ![k] = [state |-> "shipped", destination |-> d, shipped |-> q]]
    /\ Remember(k, "ship", {<<s, version[s]>>})
    /\ UNCHANGED reservation

\* A receipt of nothing leaves the destination alone; any other divides by its
\* new stock.
ReceiveTransfer(k, i, got) ==
    /\ Unused(k)
    /\ staged[i].state = "shipped"
    /\ got \in 0..staged[i].shipped
    /\ got > 0 => onHand[staged[i].destination] + got # 0
    /\ LET d == staged[i].destination IN
         IF got > 0
           THEN Move(d, got, 0) /\ Remember(k, "receive", {<<d, version[d]>>})
           ELSE UNCHANGED positionVars /\ Remember(k, "receive", {})
    /\ staged' = [staged EXCEPT ![i] =
          [state |-> "received", destination |-> @.destination, shipped |-> @.shipped]]
    /\ UNCHANGED reservation

PostCount(k, p, counted) ==
    /\ Unused(k)
    /\ p \in Serial => counted \in 0..1
    /\ counted >= reserved[p]
    /\ Move(p, counted - onHand[p], 0)
    /\ Remember(k, "count", {<<p, version[p]>>})
    /\ UNCHANGED <<reservation, staged>>

-----------------------------------------------------------------------------

LedgerInit ==
    /\ onHand = [p \in Position |-> 0]
    /\ reserved = [p \in Position |-> 0]
    /\ version = [p \in Position |-> 0]
    /\ reservation = [k \in Key |-> NoReservation]
    /\ staged = [k \in Key |-> NoTransfer]
    /\ done = [k \in Key |-> {}]

LedgerNext ==
    \E k \in Key :
        \/ \E p \in Position, q \in Quantity :
              \/ \E delta \in {q, -q}, allowNegative \in BOOLEAN : Adjust(k, p, delta, allowNegative)
              \/ Reserve(k, p, q)
              \/ PostCount(k, p, q)
        \/ \E p \in Position : PostCount(k, p, 0)
        \/ \E r \in Key : ConsumeReservation(k, r) \/ ReleaseReservation(k, r)
        \/ \E r \in Route, q \in Quantity : TransferStock(k, r[1], r[2], q) \/ ShipTransfer(k, r[1], r[2], q)
        \/ \E i \in Key, got \in Quantity \cup {0} : ReceiveTransfer(k, i, got)

LedgerSpec == LedgerInit /\ [][LedgerNext]_ledgerVars

=============================================================================
