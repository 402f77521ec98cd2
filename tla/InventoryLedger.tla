--------------------------- MODULE InventoryLedger ---------------------------
(***************************************************************************)
(* The inventory commands of PostgresInventoryStore                        *)
(* (infrastructure/postgres_inventory.py) and the stock side of            *)
(* PostgresOperationsStore.post_shipment, each as the one database         *)
(* transaction it is.  A command that the code refuses rolls its           *)
(* transaction back, so it is a step that is not taken.                    *)
(*                                                                         *)
(* Abstracted: a stock key (product, warehouse, bin, condition, ownership, *)
(* lot, serial, uom) is a member of Position; NUMERIC(28,9) quantities are *)
(* integers in units of the last decimal; the cost columns are left to a   *)
(* separate model of valuation, so the commands here are the uncosted ones *)
(* of a weighted-average tenant; the outbox event and the audit row every  *)
(* command inserts carry what its idempotency record carries.  The         *)
(* uuid4 of a reservation or transfer is the key that created it.          *)
(***************************************************************************)
EXTENDS Integers, FiniteSets

CONSTANTS
    Position,      \* stock keys; each has a row, possibly never written
    NoPosition,    \* the NULL dimensions of an external or discrepancy line
    Sellable,      \* positions whose condition is sellable
    Serial,        \* positions that carry a serial number
    Route,         \* pairs that agree on every dimension but the warehouse and bin
    IssuedAs,      \* the position a shipment's ledger line names, per reserved position
    Key,           \* idempotency keys of one tenant
    Quantity       \* quantities a request can carry

ASSUME PositionAssumption ==
    /\ NoPosition \notin Position
    /\ Sellable \subseteq Position
    /\ Serial \subseteq Position
    /\ Route \subseteq {r \in Position \X Position : r[1] # r[2]}
    /\ IssuedAs \in [Position -> Position]

ASSUME QuantityAssumption == Quantity \subseteq Nat \ {0}

ASSUME KeyAssumption == IsFiniteSet(Key)

VARIABLES
    onHand,        \* inventory_positions.on_hand
    reserved,      \* inventory_positions.reserved
    version,       \* inventory_positions.version
    ledger,        \* inventory_ledger_lines, by the idempotency key of their transaction
    reservation,   \* reservations, by the key of the command that made them
    transfer,      \* transfers with their one line, likewise
    record         \* idempotency_records

positionVars == <<onHand, reserved, version>>
vars == <<positionVars, ledger, reservation, transfer, record>>

-----------------------------------------------------------------------------
(* Rows. *)

Account == {"on_hand", "in_transit", "external", "discrepancy"}
Line == [account : Account, position : Position \cup {NoPosition}, quantity : Int]

NoReservation == [status |-> "none"]
ActiveRow == [status : {"active"}, position : Position, quantity : Quantity, version : {1}]
EndedRow == [status : {"released", "consumed"}, position : Position,
             quantity : Quantity, version : {2}]
Reservation == ActiveRow \cup EndedRow

NoTransfer == [state |-> "none"]
Transfer == [state : {"shipped", "received", "discrepancy_review"},
             source : Position, destination : Position,
             shipped : Quantity, received : Nat]

Unused == [op |-> "none"]
Operation == {"adjust", "reserve", "release", "consume", "transfer", "ship", "receive", "count"}

\* What a command's fingerprint binds to its key, as far as the properties tell
\* commands apart: the operation, the position versions it was computed from
\* and replaced, and allow_negative.
Command == [op : Operation, expects : SUBSET (Position \X Nat), allowNegative : BOOLEAN]

Entry(account, p, q) == [account |-> account, position |-> p, quantity |-> q]

-----------------------------------------------------------------------------
(* Totals, as the inventory_reconciliation view computes them.  A sum of    *)
(* naturals is the number of its units, so that it needs no recursion.      *)

LineUnits(k, l, n) == {<<k, l>>} \X (1..n)

Inflow(account, p) ==
    UNION {UNION {LineUnits(k, l, l.quantity) :
                    l \in {m \in ledger[k] : m.account = account /\ m.position = p}} : k \in Key}

Outflow(account, p) ==
    UNION {UNION {LineUnits(k, l, -l.quantity) :
                    l \in {m \in ledger[k] : m.account = account /\ m.position = p}} : k \in Key}

LedgerTotal(account, p) == Cardinality(Inflow(account, p)) - Cardinality(Outflow(account, p))

ReservedUnits(p) ==
    UNION {{k} \X (1..reservation[k].quantity) :
              k \in {m \in Key : /\ reservation[m].status = "active"
                                 /\ reservation[m].position = p}}

ReservationTotal(p) == Cardinality(ReservedUnits(p))

-----------------------------------------------------------------------------
(* Statements shared by the commands. *)

\* INSERT INTO idempotency_records ... ON CONFLICT DO NOTHING claims an unused key.
ClaimIdempotency(k) == record[k] = Unused

CompleteIdempotency(k, op, expects, allowNegative) ==
    record' = [record EXCEPT ![k] =
                  [op |-> op, expects |-> expects, allowNegative |-> allowNegative]]

PostLines(k, lines) == ledger' = [ledger EXCEPT ![k] = lines]

\* Mutant: availability that ignores reservations.
AvailableOnHand(p) == onHand[p]

Available(p) == onHand[p] - reserved[p]

\* Mutant: the statement forgets version=version+1.
UpdateWithoutVersion(p, nextOnHand, nextReserved) ==
    /\ nextReserved >= 0
    /\ onHand' = [onHand EXCEPT ![p] = nextOnHand]
    /\ reserved' = [reserved EXCEPT ![p] = nextReserved]
    /\ UNCHANGED version

\* Mutant: the statement leaves the reserved column out.
UpdateWithoutReserved(p, nextOnHand, nextReserved) ==
    /\ onHand' = [onHand EXCEPT ![p] = nextOnHand]
    /\ version' = [version EXCEPT ![p] = @ + 1]
    /\ UNCHANGED reserved

\* UPDATE inventory_positions, with the CHECK constraints of the table: reserved
\* is never negative and a serial position holds and reserves at most one unit.
UpdatePosition(p, nextOnHand, nextReserved) ==
    /\ nextReserved >= 0
    /\ p \in Serial => nextOnHand \in 0..1 /\ nextReserved \in 0..1
    /\ onHand' = [onHand EXCEPT ![p] = nextOnHand]
    /\ reserved' = [reserved EXCEPT ![p] = nextReserved]
    /\ version' = [version EXCEPT ![p] = @ + 1]

-----------------------------------------------------------------------------
(* Commands. *)

Adjust(k, p, delta, allowNegative, v) ==
    /\ ClaimIdempotency(k)
    /\ version[p] = v
    /\ allowNegative \/ onHand[p] + delta >= reserved[p]
    /\ UpdatePosition(p, onHand[p] + delta, reserved[p])
    /\ PostLines(k, {Entry("on_hand", p, delta), Entry("external", NoPosition, -delta)})
    /\ CompleteIdempotency(k, "adjust", {<<p, v>>}, allowNegative)
    /\ UNCHANGED <<reservation, transfer>>

Reserve(k, p, q, v) ==
    /\ ClaimIdempotency(k)
    /\ version[p] = v
    /\ p \in Sellable
    /\ Available(p) >= q
    /\ UpdatePosition(p, onHand[p], reserved[p] + q)
    /\ reservation' = [reservation EXCEPT ![k] =
          [status |-> "active", position |-> p, quantity |-> q, version |-> 1]]
    /\ CompleteIdempotency(k, "reserve", {<<p, v>>}, FALSE)
    /\ UNCHANGED <<ledger, transfer>>

\* The row that release and shipment lock, checked against the version they name.
ActiveReservation(r, rv) ==
    /\ reservation[r].status = "active"
    /\ reservation[r].version = rv

\* Mutant: the reservation row is not updated.
EndNothing(r, status) == UNCHANGED reservation

EndReservation(r, status) ==
    reservation' = [reservation EXCEPT ![r] =
                       [status |-> status, position |-> @.position,
                        quantity |-> @.quantity, version |-> @.version + 1]]

\* The release names the reservation's version and no position version.
ReleaseReservation(k, r, rv) ==
    /\ ClaimIdempotency(k)
    /\ ActiveReservation(r, rv)
    /\ LET p == reservation[r].position IN
         UpdatePosition(p, onHand[p], reserved[p] - reservation[r].quantity)
    /\ EndReservation(r, "released")
    /\ CompleteIdempotency(k, "release", {}, FALSE)
    /\ UNCHANGED <<ledger, transfer>>

\* One reservation of a shipment.  The shipment's line is written with the
\* order line's product, condition 'sellable', ownership 'owned' and neither
\* lot nor serial, which is IssuedAs of the reserved position.
ConsumeReservation(k, r, rv, v) ==
    /\ ClaimIdempotency(k)
    /\ ActiveReservation(r, rv)
    /\ LET p == reservation[r].position
           q == reservation[r].quantity
       IN  /\ version[p] = v
           /\ onHand[p] >= q
           /\ reserved[p] >= q
           /\ UpdatePosition(p, onHand[p] - q, reserved[p] - q)
           /\ PostLines(k, {Entry("on_hand", IssuedAs[p], -q), Entry("external", NoPosition, q)})
           /\ CompleteIdempotency(k, "consume", {<<p, v>>}, FALSE)
    /\ EndReservation(r, "consumed")
    /\ UNCHANGED transfer

\* The atomic transfer: out of one position and into another, through in_transit,
\* in a transfer that is stored as received.  The new average of the destination
\* divides by its new quantity.
TransferStock(k, s, d, q, vs, vd) ==
    /\ ClaimIdempotency(k)
    /\ version[s] = vs
    /\ version[d] = vd
    /\ Available(s) >= q
    /\ onHand[d] + q # 0
    /\ s \in Serial => q = 1 /\ onHand[s] - q \in 0..1
    /\ d \in Serial => onHand[d] + q \in 0..1
    /\ onHand' = [onHand EXCEPT ![s] = @ - q, ![d] = @ + q]
    /\ version' = [version EXCEPT ![s] = @ + 1, ![d] = @ + 1]
    /\ PostLines(k, {Entry("on_hand", s, -q), Entry("in_transit", s, q),
                     Entry("in_transit", d, -q), Entry("on_hand", d, q)})
    /\ transfer' = [transfer EXCEPT ![k] =
          [state |-> "received", source |-> s, destination |-> d, shipped |-> q, received |-> q]]
    /\ CompleteIdempotency(k, "transfer", {<<s, vs>>, <<d, vd>>}, FALSE)
    /\ UNCHANGED <<reserved, reservation>>

\* The first half of a staged transfer.  Only the source version is checked.
ShipTransfer(k, s, d, q, v) ==
    /\ ClaimIdempotency(k)
    /\ version[s] = v
    /\ s \in Serial => q = 1
    /\ Available(s) >= q
    /\ UpdatePosition(s, onHand[s] - q, reserved[s])
    /\ PostLines(k, {Entry("on_hand", s, -q), Entry("in_transit", s, q)})
    /\ transfer' = [transfer EXCEPT ![k] =
          [state |-> "shipped", source |-> s, destination |-> d, shipped |-> q, received |-> 0]]
    /\ CompleteIdempotency(k, "ship", {<<s, v>>}, FALSE)
    /\ UNCHANGED reservation

\* Mutant: only what arrived leaves in_transit.
ReceiptLinesOfArrived(t, got) ==
    {Entry("in_transit", t.source, -got)}
      \cup (IF got > 0 THEN {Entry("on_hand", t.destination, got)} ELSE {})

\* Mutant: what was shipped enters on_hand, short or not.
ReceiptLinesInFull(t, got) ==
    {Entry("in_transit", t.source, -t.shipped), Entry("on_hand", t.destination, t.shipped)}

ReceiptLines(t, got) ==
    {Entry("in_transit", t.source, -t.shipped)}
      \cup (IF got > 0 THEN {Entry("on_hand", t.destination, got)} ELSE {})
      \cup (IF got < t.shipped THEN {Entry("discrepancy", NoPosition, t.shipped - got)} ELSE {})

\* Mutant: the receipt's quantity is not compared with the shipment's.
AcceptAnyReceipt(t, got) == t.state = "shipped" /\ t.received = 0

AwaitsReceipt(t, got) == t.state = "shipped" /\ t.received = 0 /\ got <= t.shipped

\* The second half.  A receipt of nothing leaves the destination row, and so its
\* version, alone.
ReceiveTransfer(k, i, got, v) ==
    /\ ClaimIdempotency(k)
    /\ AwaitsReceipt(transfer[i], got)
    /\ LET t == transfer[i] IN
         /\ version[t.destination] = v
         /\ IF got > 0
              THEN UpdatePosition(t.destination, onHand[t.destination] + got, reserved[t.destination])
              ELSE UNCHANGED positionVars
         /\ PostLines(k, ReceiptLines(t, got))
         /\ transfer' = [transfer EXCEPT ![i] =
               [t EXCEPT !.received = got,
                         !.state = IF got = t.shipped THEN "received" ELSE "discrepancy_review"]]
         /\ CompleteIdempotency(k, "receive", IF got > 0 THEN {<<t.destination, v>>} ELSE {}, FALSE)
    /\ UNCHANGED reservation

CountLines(p, variance) ==
    IF variance = 0 THEN {}
    ELSE {Entry("on_hand", p, variance), Entry("discrepancy", NoPosition, -variance)}

PostCount(k, p, counted, v) ==
    /\ ClaimIdempotency(k)
    /\ version[p] = v
    /\ p \in Serial => counted \in 0..1
    /\ counted >= reserved[p]
    /\ UpdatePosition(p, counted, reserved[p])
    /\ PostLines(k, CountLines(p, counted - onHand[p]))
    /\ CompleteIdempotency(k, "count", {<<p, v>>}, FALSE)
    /\ UNCHANGED <<reservation, transfer>>

\* A retry with a used key: the stored body is returned, or the fingerprint
\* differs and the command is refused.  Neither writes.
Retry(k) == record[k] # Unused /\ UNCHANGED vars

-----------------------------------------------------------------------------

Init ==
    /\ onHand = [p \in Position |-> 0]
    /\ reserved = [p \in Position |-> 0]
    /\ version = [p \in Position |-> 0]
    /\ ledger = [k \in Key |-> {}]
    /\ reservation = [k \in Key |-> NoReservation]
    /\ transfer = [k \in Key |-> NoTransfer]
    /\ record = [k \in Key |-> Unused]

\* A version counts committed commands, so no client holds one above their number.
Version == 0..Cardinality(Key)

Delta == Quantity \cup {-q : q \in Quantity}

StockStep(k) ==
    \E p \in Position, v \in Version :
        \/ \E delta \in Delta, allowNegative \in BOOLEAN : Adjust(k, p, delta, allowNegative, v)
        \/ \E q \in Quantity : Reserve(k, p, q, v)
        \/ \E counted \in Quantity \cup {0} : PostCount(k, p, counted, v)

ReservationStep(k) ==
    \E r \in Key, rv \in {1, 2} :
        \/ ReleaseReservation(k, r, rv)
        \/ \E v \in Version : ConsumeReservation(k, r, rv, v)

TransferStep(k) ==
    \E v \in Version :
        \/ \E r \in Route, q \in Quantity :
              \/ \E vd \in Version : TransferStock(k, r[1], r[2], q, v, vd)
              \/ ShipTransfer(k, r[1], r[2], q, v)
        \/ \E i \in Key, got \in Quantity \cup {0} : ReceiveTransfer(k, i, got, v)

Next == \E k \in Key : StockStep(k) \/ ReservationStep(k) \/ TransferStep(k) \/ Retry(k)

Spec == Init /\ [][Next]_vars

-----------------------------------------------------------------------------
(* Properties. *)

\* Every row has its columns' types, and no transfer received more than it shipped.
TypeOK ==
    /\ onHand \in [Position -> Int]
    /\ reserved \in [Position -> Nat]
    /\ version \in [Position -> Nat]
    /\ ledger \in [Key -> SUBSET Line]
    /\ reservation \in [Key -> Reservation \cup {NoReservation}]
    /\ transfer \in [Key -> Transfer \cup {NoTransfer}]
    /\ \A k \in Key : transfer[k] # NoTransfer => transfer[k].received <= transfer[k].shipped
    /\ record \in [Key -> Command \cup {Unused}]

\* The projection's reserved column equals the sum of the active reservations
\* that the reconciliation view adds up: no interleaving of reserve, release and
\* shipment counts a claim twice or forgets one.
ReservedReconciled == \A p \in Position : reserved[p] = ReservationTotal(p)

\* The projection's on_hand column equals the sum of the on_hand ledger lines of
\* its stock key, whatever sequence of commands wrote them.
OnHandReconciled == \A p \in Position : onHand[p] = LedgerTotal("on_hand", p)

\* A staged transfer leaves nothing behind: what the in_transit account still
\* holds over all positions is what shipped transfers have not yet delivered,
\* short receipts included.
InTransitUnits == UNION {{k} \X (1..transfer[k].shipped) :
                            k \in {m \in Key : transfer[m].state = "shipped"}}

InTransitCleared ==
    Cardinality(UNION {Inflow("in_transit", p) : p \in Position})
      - Cardinality(UNION {Outflow("in_transit", p) : p \in Position})
    = Cardinality(InTransitUnits)

\* Stock is promised beyond what is on hand only where somebody adjusted that
\* position with allow_negative: reservations, shipments, transfers and counts
\* never do it on their own, nor does an override elsewhere leak here.
Overridden(p) ==
    \E k \in Key : /\ record[k].op = "adjust"
                   /\ record[k].allowNegative
                   /\ \E l \in ledger[k] : l.account = "on_hand" /\ l.position = p

NoOversell == \A p \in Position : ~Overridden(p) => reserved[p] <= onHand[p]

\* Optimistic concurrency excludes lost updates: two commands that both changed
\* a position were never computed from the same version of it.
NoLostUpdate ==
    \A k, m \in Key :
        (k # m /\ record[k] # Unused /\ record[m] # Unused)
          => record[k].expects \cap record[m].expects = {}

\* A reservation is released or consumed at most once, keeps what it claimed,
\* and ends only together with its units leaving the reserved column.
ReservationEndsOnce ==
    [][\A k \in Key :
          /\ reservation[k].status \in {"released", "consumed"} => UNCHANGED reservation[k]
          /\ reservation[k].status = "active" =>
               LET p == reservation[k].position IN
                 /\ reservation'[k].position = p
                 /\ reservation'[k].quantity = reservation[k].quantity
                 /\ reservation'[k].status # "active"
                      => reserved'[p] = reserved[p] - reservation[k].quantity]_vars

\* What the in-process ledger keeps of the tables.
ReservationsSeen == [k \in Key |->
    IF reservation[k] = NoReservation THEN NoReservation
    ELSE [status |-> reservation[k].status, position |-> reservation[k].position,
          quantity |-> reservation[k].quantity]]

TransfersSeen == [k \in Key |->
    IF record[k].op # "ship" THEN NoTransfer
    ELSE [state |-> IF transfer[k].state = "shipped" THEN "shipped" ELSE "received",
          destination |-> transfer[k].destination, shipped |-> transfer[k].shipped]]

CommandsSeen == [k \in Key |->
    IF record[k] = Unused THEN {}
    ELSE {[op |-> record[k].op, expects |-> record[k].expects]}]

Reference ==
    INSTANCE ReferenceLedger WITH
        reservation <- ReservationsSeen, staged <- TransfersSeen, done <- CommandsSeen

\* That ledger finds nothing available in stock that is not sellable.
TransfersHeldStock ==
    \E k \in Key : /\ transfer[k] = NoTransfer
                   /\ transfer'[k] # NoTransfer
                   /\ transfer'[k].source \notin Sellable

\* It divides by a destination's new stock when a staged transfer is received.
ReceivesIntoDebt ==
    \E k \in Key : /\ transfer[k].state = "shipped"
                   /\ transfer'[k].state # "shipped"
                   /\ transfer'[k].received > 0
                   /\ onHand'[transfer[k].destination] = 0

\* The in-process ledger calls itself the reference whose rules the PostgreSQL store
\* uses: every command this store commits is one that ledger would have carried out,
\* with the same positions, reservations and transfers after it, but for the
\* transfers of two kinds that it refuses.
ReferenceRules ==
    Reference!LedgerInit /\ [][Reference!LedgerNext \/ TransfersHeldStock \/ ReceivesIntoDebt]_vars

=============================================================================
