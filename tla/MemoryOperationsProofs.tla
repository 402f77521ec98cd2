----------------------- MODULE MemoryOperationsProofs -----------------------
(***************************************************************************)
(* Machine-checked proofs about MemoryOperations, for every set of orders, *)
(* products, keys, returns and tasks: the types of its tables, that every  *)
(* claim of a reservation is counted once, that a position falls short of  *)
(* its claims only by an override, and that a recorded document is posted  *)
(* once and whole.                                                         *)
(***************************************************************************)
EXTENDS MemoryOperations, UnitTheorems

-----------------------------------------------------------------------------
(* The inductive invariant, in four parts. *)

Positive == Nat \ {0}

\* The ledger: rows of their kinds, and a key without a record has reserved nothing.
Claim == [status : {"active", "consumed", "released"}, position : Position, quantity : Positive]
Staged == [state : {"shipped", "received"}, destination : Position, shipped : Nat]
DeedKind == {"adjust", "reserve", "consume", "release", "ship", "receive", "count"}
Deed == [op : DeedKind, expects : SUBSET (Position \X Nat)]

LedgerTyped ==
    /\ onHand \in [Position -> Int] /\ reserved \in [Position -> Nat] /\ version \in [Position -> Nat]
    /\ reservation \in [Key -> Claim \cup {NoReservation}]
    /\ staged \in [Key -> Staged \cup {NoTransfer}]
    /\ done \in [Key -> SUBSET Deed]

KeysFresh == \A k \in Key : done[k] = {} => reservation[k] = NoReservation

LedgerInv == LedgerTyped /\ KeysFresh /\ ReservationsCounted

\* Orders, returns and tasks are where their workflows can be.
ReturnRow == [state : DOMAIN ReturnWorkflow, order : Sales, lines : {Asked[r].lines : r \in Return}]
TaskRow == [state : DOMAIN TaskTransitions, pin : Nat]

OrderState == DOMAIN PurchaseWorkflow \cup DOMAIN SalesWorkflow \cup {"none"}

WorkflowInv ==
    /\ orderState \in [Order -> OrderState]
    /\ \A o \in Purchase : orderState[o] \in DOMAIN PurchaseWorkflow \cup {"none"}
    /\ \A o \in Sales : orderState[o] \in DOMAIN SalesWorkflow \cup {"none"}
    /\ rma \in [Return -> ReturnRow \cup {NoReturn}]
    /\ \A r \in Return : rma[r] # NoReturn => rma[r].lines = Asked[r].lines
    /\ task \in [TaskKey -> TaskRow \cup {NoTask}]

\* Documents: what was sent, what was posted of it, and where the running one is.
OrderLine == (Order \cup Return) \X Product
StockMove == [sub : SubKey, line : OrderLine, position : Position, quantity : Positive]
ShippedMove == [sub : SubKey, line : OrderLine, reservation : SubKey, position : Position, quantity : Positive]
AnyMove == StockMove \cup ShippedMove

Document(op, subjects, moves) == [op : {op}, of : subjects, moves : Seq(moves), seen : Seq(Nat)]
Documented ==
    Document("receipt", Purchase, StockMove) \cup Document("allocation", Sales, StockMove)
      \cup Document("shipment", Sales, ShippedMove) \cup Document("return", Return, StockMove)

Made(m) == posted[m.sub] # NoMove /\ SameCommand(posted[m.sub].move, m)

DocumentInv ==
    /\ body \in [RequestKey -> Documented \cup {NoBody}]
    /\ \A k \in RequestKey : body[k] # NoBody => Len(body[k].seen) = Len(body[k].moves)
    /\ posted \in [SubKey -> [move : AnyMove, seen : Nat] \cup {NoMove}]
    /\ recorded \subseteq RequestKey
    /\ \A k \in recorded : body[k] # NoBody /\ \A i \in DOMAIN body[k].moves : Made(body[k].moves[i])
    /\ running \in [key : RequestKey, at : Nat] \cup {Idle}
    /\ running # Idle =>
          /\ running.key \notin recorded /\ Doc # NoBody
          /\ running.at \in 1..(Len(Doc.moves) + 1)
          /\ \A i \in 1..(running.at - 1) : Made(Doc.moves[i])

ReturnsSent == \A k \in RequestKey : body[k].op = "return" => rma[body[k].of] # NoReturn

\* The quantities of the lines: those of the recorded documents, and room for the
\* allocation that is running.
FulfilledBy(o, p) ==
    Total([k \in Recorded("receipt", o) \cup Recorded("shipment", o) |-> MovedOf(body[k].moves, <<o, p>>)])
AllocatedBy(o, p) == Total([k \in Recorded("allocation", o) |-> MovedOf(body[k].moves, <<o, p>>)])

OrdersAddUp ==
    /\ \A o \in Order, p \in Product : processed[o][p] = Before(o, p) + FulfilledBy(o, p)
    /\ \A o \in Sales, p \in Product : allocated[o][p] = Before(o, p) + AllocatedBy(o, p)

AllocationFits ==
    running # Idle /\ Doc.op = "allocation" =>
        \A p \in Product : MovedOf(Doc.moves, <<Doc.of, p>>) > 0 =>
            allocated[Doc.of][p] + MovedOf(Doc.moves, <<Doc.of, p>>) <= Ordered[Doc.of][p]

QuantityInv ==
    /\ processed \in [Order -> [Product -> Nat]]
    /\ allocated \in [Sales -> [Product -> Nat]]
    /\ \A o \in Sales, p \in Product : allocated[o][p] <= Ordered[o][p]
    /\ OrdersAddUp
    /\ AllocationFits

Inv == LedgerInv /\ WorkflowInv /\ DocumentInv /\ ReturnsSent /\ QuantityInv

-----------------------------------------------------------------------------
(* The derived keys. *)

Label == {"accepted", "rejected", "allocation", "shipment"} \cup Return

LEMMA SubKeyFinite == IsFiniteSet(SubKey)
<1> DEFINE Pairs == RequestKey \X (1..MaxLines)
           Ids == Pairs \X Label
           f == [d \in Ids |-> <<d[1][1], d[1][2], d[2]>>]
<1>1. IsFiniteSet(RequestKey) /\ IsFiniteSet(Return) /\ MaxLines \in Nat
  BY MemoryAssumption
<1>2. IsFiniteSet(1..MaxLines)
  BY <1>1, FS_Interval
<1>3. IsFiniteSet({"accepted", "rejected", "allocation", "shipment"})
  <2>1. IsFiniteSet({"accepted"})
    BY FS_Singleton
  <2>2. IsFiniteSet({"accepted"} \cup {"rejected"})
    BY <2>1, FS_AddElement
  <2>3. IsFiniteSet(({"accepted"} \cup {"rejected"}) \cup {"allocation"})
    BY <2>2, FS_AddElement
  <2>4. IsFiniteSet((({"accepted"} \cup {"rejected"}) \cup {"allocation"}) \cup {"shipment"})
    BY <2>3, FS_AddElement
  <2>5. (({"accepted"} \cup {"rejected"}) \cup {"allocation"}) \cup {"shipment"}
          = {"accepted", "rejected", "allocation", "shipment"}
    OBVIOUS
  <2> QED
    BY <2>4, <2>5
<1>4. IsFiniteSet(Label)
  BY <1>1, <1>3, FS_Union DEF Label
<1>5. IsFiniteSet(Pairs)
  BY <1>1, <1>2, FS_Product
<1> HIDE DEF Pairs
<1>6. IsFiniteSet(Ids)
  BY <1>4, <1>5, FS_Product
<1>7. f \in Surjection(Ids, SubKey)
  <2>1. \A d \in Ids : d[1][1] \in RequestKey /\ d[1][2] \in 1..MaxLines /\ d[2] \in Label
    BY DEF Pairs
  <2>2. \A d \in Ids : f[d] \in SubKey
    BY <2>1 DEF SubKey, Label
  <2>3. ASSUME NEW s \in SubKey PROVE \E d \in Ids : f[d] = s
    <3>1. PICK k \in RequestKey, i \in 1..MaxLines, l \in Label : s = <<k, i, l>>
      BY DEF SubKey, Label
    <3>2. <<<<k, i>>, l>> \in Ids /\ f[<<<<k, i>>, l>>] = s
      BY <3>1 DEF Pairs
    <3> QED
      BY <3>2
  <2> QED
    BY <2>2, <2>3 DEF Surjection
<1> QED
  BY <1>6, <1>7, FS_Surjection

LEMMA KeysAre == SubKey \subseteq Key /\ ClientKey \subseteq Key /\ TaskKey \subseteq Key
BY MemoryAssumption

-----------------------------------------------------------------------------
(* Sums of the model are sums of UnitTheorems. *)

LEMMA TotalIs == \A f : Total(f) = SumOf(DOMAIN f, f)
BY DEF Total, SumOf, Units

\* A sum of naturals is one.
LEMMA TotalTyped ==
    ASSUME NEW f, IsFiniteSet(DOMAIN f), \A x \in DOMAIN f : f[x] \in Nat
    PROVE  Total(f) \in Nat
<1> DEFINE D == DOMAIN f
<1>1. SumOf(D, f) \in Nat
  BY SumTyped
<1> QED
  BY <1>1, TotalIs

LEMMA TotalOfNothing ==
    ASSUME NEW f, DOMAIN f = {}
    PROVE  Total(f) = 0
<1>1. SumOf({}, f) = 0
  BY SumOfNothing
<1> QED
  BY <1>1, TotalIs

\* A sum depends on its terms.
LEMMA TotalAgrees ==
    ASSUME NEW f, NEW g, DOMAIN f = DOMAIN g, \A x \in DOMAIN f : f[x] = g[x]
    PROVE  Total(f) = Total(g)
<1> DEFINE D == DOMAIN f
<1>1. SumOf(D, f) = SumOf(D, g)
  BY SumAgrees
<1> QED
  BY <1>1, TotalIs

\* A new term adds what it says.
LEMMA TotalGains ==
    ASSUME NEW f, NEW g, NEW x, IsFiniteSet(DOMAIN f), x \notin DOMAIN f, DOMAIN g = DOMAIN f \cup {x},
           \A y \in DOMAIN f : g[y] = f[y] /\ f[y] \in Nat, g[x] \in Nat
    PROVE  Total(g) = Total(f) + g[x] /\ Total(f) \in Nat /\ Total(g) \in Nat
<1> DEFINE D == DOMAIN f
<1>1. IsFiniteSet(D) /\ D \cap {x} = {} /\ \A y \in D \cup {x} : g[y] \in Nat
  OBVIOUS
<1>2. IsFiniteSet({x})
  BY FS_Singleton
<1>3. SumOf(D \cup {x}, g) = SumOf(D, g) + SumOf({x}, g)
  BY <1>1, <1>2, SumSplit
<1>4. SumOf({x}, g) = g[x]
  BY SumOfOne
<1>5. SumOf(D, g) = SumOf(D, f)
  BY SumAgrees
<1>6. SumOf(D, f) \in Nat
  BY SumTyped
<1>7. Total(g) = SumOf(D \cup {x}, g) /\ Total(f) = SumOf(D, f)
  BY TotalIs
<1> QED
  BY <1>3, <1>4, <1>5, <1>6, <1>7

-----------------------------------------------------------------------------
(* The ledger: what each command does to the claims of the reservations. *)

ActiveIn(R, p) == {x \in SubKey : R[x].status = "active" /\ R[x].position = p}
ClaimedIn(R, p) == [x \in ActiveIn(R, p) |-> R[x].quantity]
HeldBy(R, p) == Total(ClaimedIn(R, p))

LEMMA CountedIs ==
    ReservationsCounted <=> \A p \in Position : reserved[p] = HeldBy(reservation, p)
BY Zenon DEF ReservationsCounted, HeldBy, ClaimedIn, ActiveIn

\* A reservation that becomes active claims its quantity of its position.
LEMMA ClaimAdded ==
    ASSUME NEW R, NEW Q, NEW r \in SubKey, NEW p,
           \A x \in SubKey : x # r => Q[x] = R[x],
           \A x \in SubKey : R[x].status = "active" => R[x].quantity \in Nat,
           R[r].status # "active", Q[r].status = "active", Q[r].quantity \in Nat
    PROVE  /\ HeldBy(Q, p) = HeldBy(R, p) + (IF Q[r].position = p THEN Q[r].quantity ELSE 0)
           /\ HeldBy(R, p) \in Nat
<1> DEFINE f == ClaimedIn(R, p)
           g == ClaimedIn(Q, p)
<1>1. /\ DOMAIN f = ActiveIn(R, p) /\ \A x \in ActiveIn(R, p) : f[x] = R[x].quantity /\ f[x] \in Nat
      /\ DOMAIN g = ActiveIn(Q, p) /\ \A x \in ActiveIn(Q, p) : g[x] = Q[x].quantity
  BY DEF ClaimedIn, ActiveIn
<1>2. r \notin ActiveIn(R, p) /\ ActiveIn(R, p) \subseteq SubKey
  BY DEF ActiveIn
<1>3. IsFiniteSet(ActiveIn(R, p))
  BY <1>2, SubKeyFinite, FS_Subset
<1>4. CASE Q[r].position = p
  <2>1. ActiveIn(Q, p) = ActiveIn(R, p) \cup {r}
    BY <1>4 DEF ActiveIn
  <2>2. g[r] = Q[r].quantity
    BY <1>1, <2>1
  <2>3. \A y \in ActiveIn(R, p) : g[y] = f[y] /\ f[y] \in Nat
    BY <1>1, <1>2, <2>1
  <2> HIDE DEF f, g
  <2>4. Total(g) = Total(f) + g[r] /\ Total(f) \in Nat
    BY <1>1, <1>2, <1>3, <2>1, <2>2, <2>3, TotalGains
  <2> QED
    BY <1>4, <2>2, <2>4 DEF HeldBy, f, g
<1>5. CASE Q[r].position # p
  <2>1. ActiveIn(Q, p) = ActiveIn(R, p)
    BY <1>5, <1>2 DEF ActiveIn
  <2>2. \A x \in ActiveIn(R, p) : f[x] = g[x]
    BY <1>1, <1>2, <2>1
  <2> HIDE DEF f, g
  <2>3. Total(f) = Total(g)
    BY <1>1, <2>1, <2>2, TotalAgrees
  <2>4. Total(f) \in Nat
    BY <1>1, <1>3, TotalTyped
  <2> QED
    BY <1>5, <2>3, <2>4 DEF HeldBy, f, g
<1> QED
  BY <1>4, <1>5

\* Rows of the ledger.
LEMMA RowsAre ==
    ASSUME LedgerTyped, NEW k \in Key
    PROVE  /\ reservation[k].status = "active" =>
                 /\ reservation[k] \in Claim
                 /\ reservation[k].position \in Position /\ reservation[k].quantity \in Positive
           /\ staged[k].state = "shipped" =>
                 staged[k] \in Staged /\ staged[k].destination \in Position /\ staged[k].shipped \in Nat
BY DEF LedgerTyped, Claim, NoReservation, Staged, NoTransfer

\* A position that moves within its bounds keeps its types.
LEMMA MoveTyped ==
    ASSUME LedgerTyped, NEW p \in Position, NEW d \in Int, NEW e \in Int, Move(p, d, e), reserved[p] + e >= 0
    PROVE  /\ onHand' \in [Position -> Int] /\ reserved' \in [Position -> Nat] /\ version' \in [Position -> Nat]
           /\ onHand' = [onHand EXCEPT ![p] = @ + d]
           /\ reserved' = [reserved EXCEPT ![p] = @ + e]
BY DEF LedgerTyped, Move

\* A key that has done something has a record.
LEMMA Remembered ==
    ASSUME LedgerTyped, KeysFresh, NEW k \in Key, NEW op \in DeedKind,
           NEW e \in SUBSET (Position \X Nat), Remember(k, op, e),
           \A m \in Key \ {k} : reservation[m] = NoReservation => reservation'[m] = NoReservation
    PROVE  done' \in [Key -> SUBSET Deed] /\ KeysFresh'
<1>1. Did(op, e) \in Deed
  BY DEF Did, Deed
<1>2. done' = [done EXCEPT ![k] = @ \cup {Did(op, e)}]
  BY DEF Remember
<1>3. done' \in [Key -> SUBSET Deed]
  BY <1>1, <1>2 DEF LedgerTyped
<1>4. done'[k] # {} /\ \A m \in Key \ {k} : done'[m] = done[m]
  BY <1>2 DEF LedgerTyped
<1> QED
  BY <1>3, <1>4 DEF KeysFresh

\* A step that claims nothing.
LEMMA StockMoves ==
    ASSUME LedgerInv, NEW p \in Position, NEW d \in Int, Move(p, d, 0), UNCHANGED reservation
    PROVE  /\ onHand' \in [Position -> Int] /\ reserved' \in [Position -> Nat] /\ version' \in [Position -> Nat]
           /\ ReservationsCounted'
<1>1. LedgerTyped /\ reserved[p] \in Nat
  BY DEF LedgerInv, LedgerTyped
<1>2. /\ onHand' \in [Position -> Int] /\ reserved' \in [Position -> Nat] /\ version' \in [Position -> Nat]
      /\ onHand' = [onHand EXCEPT ![p] = @ + d] /\ reserved' = [reserved EXCEPT ![p] = @ + 0]
  BY <1>1, MoveTyped
<1>3. \A x \in Position : reserved'[x] = reserved[x]
  BY <1>1, <1>2 DEF LedgerTyped
<1>4. \A x : HeldBy(reservation', x) = HeldBy(reservation, x)
  OBVIOUS
<1>5. \A x \in Position : reserved'[x] = HeldBy(reservation', x)
  BY <1>3, <1>4, CountedIs DEF LedgerInv
<1>6. ReservationsCounted' <=> \A x \in Position : reserved'[x] = HeldBy(reservation', x)
  BY Zenon DEF ReservationsCounted, HeldBy, ClaimedIn, ActiveIn
<1> QED
  BY <1>2, <1>5, <1>6

LEMMA LedgerParts ==
    ASSUME LedgerInv
    PROVE  /\ LedgerTyped /\ KeysFresh /\ ReservationsCounted
           /\ \A p \in Position : /\ onHand[p] \in Int /\ reserved[p] \in Nat /\ version[p] \in Nat
                                  /\ reserved[p] = HeldBy(reservation, p)
BY CountedIs DEF LedgerInv, LedgerTyped

LEMMA LedgerFrame ==
    ASSUME LedgerInv, UNCHANGED ledgerVars
    PROVE  LedgerInv'
BY DEF LedgerInv, LedgerTyped, KeysFresh, ReservationsCounted, ledgerVars, positionVars

LEMMA AdjustKeeps ==
    ASSUME LedgerInv, NEW k \in Key, NEW p \in Position, NEW d \in Int, NEW allowNegative \in BOOLEAN,
           Adjust(k, p, d, allowNegative)
    PROVE  LedgerInv'
<1>1. Move(p, d, 0) /\ UNCHANGED reservation /\ UNCHANGED staged
  BY DEF Adjust
<1>3. /\ onHand' \in [Position -> Int] /\ reserved' \in [Position -> Nat] /\ version' \in [Position -> Nat]
      /\ ReservationsCounted'
  BY <1>1, StockMoves
<1>4. /\ Remember(k, "adjust", {<<p, version[p]>>})
      /\ "adjust" \in DeedKind /\ {<<p, version[p]>>} \in SUBSET (Position \X Nat)
  BY LedgerParts DEF Adjust, DeedKind
<1>5. done' \in [Key -> SUBSET Deed] /\ KeysFresh'
  BY <1>1, <1>4, LedgerParts, Remembered
<1> QED
  BY <1>1, <1>3, <1>5 DEF LedgerInv, LedgerTyped

LEMMA PostCountKeeps ==
    ASSUME LedgerInv, NEW k \in Key, NEW p \in Position, NEW counted \in Nat, PostCount(k, p, counted)
    PROVE  LedgerInv'
<1> DEFINE d == counted - onHand[p]
<1>1. Move(p, d, 0) /\ UNCHANGED reservation /\ UNCHANGED staged
  BY DEF PostCount
<1>2. d \in Int
  BY LedgerParts
<1> HIDE DEF d
<1>3. /\ onHand' \in [Position -> Int] /\ reserved' \in [Position -> Nat] /\ version' \in [Position -> Nat]
      /\ ReservationsCounted'
  BY <1>1, <1>2, StockMoves
<1>4. /\ Remember(k, "count", {<<p, version[p]>>})
      /\ "count" \in DeedKind /\ {<<p, version[p]>>} \in SUBSET (Position \X Nat)
  BY LedgerParts DEF PostCount, DeedKind
<1>5. done' \in [Key -> SUBSET Deed] /\ KeysFresh'
  BY <1>1, <1>4, LedgerParts, Remembered
<1> QED
  BY <1>1, <1>3, <1>5 DEF LedgerInv, LedgerTyped

LEMMA ShipTransferKeeps ==
    ASSUME LedgerInv, NEW k \in Key, NEW s \in Position, NEW d \in Position, NEW q \in Positive,
           ShipTransfer(k, s, d, q)
    PROVE  LedgerInv'
<1>1. Move(s, -q, 0) /\ UNCHANGED reservation /\ -q \in Int
  BY DEF ShipTransfer, Positive
<1>3. /\ onHand' \in [Position -> Int] /\ reserved' \in [Position -> Nat] /\ version' \in [Position -> Nat]
      /\ ReservationsCounted'
  BY <1>1, StockMoves
<1>4. /\ Remember(k, "ship", {<<s, version[s]>>})
      /\ "ship" \in DeedKind /\ {<<s, version[s]>>} \in SUBSET (Position \X Nat)
  BY LedgerParts DEF ShipTransfer, DeedKind
<1>5. done' \in [Key -> SUBSET Deed] /\ KeysFresh'
  BY <1>1, <1>4, LedgerParts, Remembered
<1>6. staged' \in [Key -> Staged \cup {NoTransfer}]
  BY LedgerParts DEF ShipTransfer, LedgerTyped, Staged, Positive
<1> QED
  BY <1>1, <1>3, <1>5, <1>6 DEF LedgerInv, LedgerTyped

LEMMA ReceiveTransferKeeps ==
    ASSUME LedgerInv, NEW k \in Key, NEW i \in Key, NEW got, ReceiveTransfer(k, i, got)
    PROVE  LedgerInv'
<1> DEFINE p == staged[i].destination
<1>1. p \in Position /\ staged[i] \in Staged /\ got \in Nat
  BY LedgerParts, RowsAre DEF ReceiveTransfer
<1>2. UNCHANGED reservation
  BY DEF ReceiveTransfer
<1>3. staged' \in [Key -> Staged \cup {NoTransfer}]
  <2>1. [state |-> "received", destination |-> p, shipped |-> staged[i].shipped] \in Staged
    BY <1>1 DEF Staged
  <2> QED
    BY <2>1, LedgerParts DEF ReceiveTransfer, LedgerTyped
<1>4. CASE got > 0
  <2>1. Move(p, got, 0) /\ Remember(k, "receive", {<<p, version[p]>>})
    BY <1>4 DEF ReceiveTransfer
  <2> HIDE DEF p
  <2>2. got \in Int
    BY <1>1
  <2>3. /\ onHand' \in [Position -> Int] /\ reserved' \in [Position -> Nat] /\ version' \in [Position -> Nat]
        /\ ReservationsCounted'
    BY <1>1, <1>2, <2>1, <2>2, StockMoves
  <2>4. {<<p, version[p]>>} \in SUBSET (Position \X Nat) /\ "receive" \in DeedKind
    BY <1>1, LedgerParts DEF DeedKind
  <2>5. done' \in [Key -> SUBSET Deed] /\ KeysFresh'
    BY <1>2, <2>1, <2>4, LedgerParts, Remembered
  <2> QED
    BY <1>2, <1>3, <2>3, <2>5 DEF LedgerInv, LedgerTyped
<1>5. CASE ~(got > 0)
  <2>1. UNCHANGED positionVars /\ Remember(k, "receive", {})
    BY <1>5 DEF ReceiveTransfer
  <2>2. {} \in SUBSET (Position \X Nat) /\ "receive" \in DeedKind
    BY DEF DeedKind
  <2>3. done' \in [Key -> SUBSET Deed] /\ KeysFresh'
    BY <1>2, <2>1, <2>2, LedgerParts, Remembered
  <2>4. ReservationsCounted'
    BY <1>2, <2>1, LedgerParts DEF ReservationsCounted, positionVars
  <2> QED
    BY <1>2, <1>3, <2>1, <2>3, <2>4 DEF LedgerInv, LedgerTyped, positionVars
<1> QED
  BY <1>4, <1>5

\* A new reservation holds back what was available.
LEMMA ReserveKeeps ==
    ASSUME LedgerInv, NEW k \in SubKey, NEW p \in Position, NEW q \in Positive, Reserve(k, p, q)
    PROVE  LedgerInv'
<1> DEFINE R == reservation
           Q == [reservation EXCEPT ![k] = [status |-> "active", position |-> p, quantity |-> q]]
<1>1. k \in Key /\ q \in Nat
  BY KeysAre DEF Positive
<1>2. Move(p, 0, q) /\ reservation' = Q /\ UNCHANGED staged /\ done[k] = {}
  BY DEF Reserve, Unused
<1>4. R[k] = NoReservation
  BY <1>1, <1>2, LedgerParts DEF KeysFresh
<1>5. /\ reservation' \in [Key -> Claim \cup {NoReservation}]
      /\ Q[k] = [status |-> "active", position |-> p, quantity |-> q]
      /\ \A x \in Key : x # k => Q[x] = R[x]
  BY <1>1, <1>2, LedgerParts DEF LedgerTyped, Claim
<1>6. \A x \in SubKey : R[x].status = "active" => R[x].quantity \in Nat
  BY LedgerParts, RowsAre, KeysAre DEF Positive
<1>7. /\ R[k].status # "active" /\ Q[k].status = "active" /\ Q[k].quantity = q /\ Q[k].position = p
      /\ \A x \in SubKey : x # k => Q[x] = R[x]
  BY <1>4, <1>5, KeysAre DEF NoReservation
<1>8. reserved[p] + q >= 0 /\ q \in Int /\ 0 \in Int
  BY <1>1, LedgerParts
<1>9. /\ onHand' \in [Position -> Int] /\ reserved' \in [Position -> Nat] /\ version' \in [Position -> Nat]
      /\ onHand' = [onHand EXCEPT ![p] = @ + 0] /\ reserved' = [reserved EXCEPT ![p] = @ + q]
  BY <1>1, <1>2, <1>8, LedgerParts, MoveTyped
<1> HIDE DEF R, Q
<1>10. \A x : /\ HeldBy(Q, x) = HeldBy(R, x) + (IF p = x THEN q ELSE 0)
              /\ HeldBy(R, x) \in Nat
  BY <1>1, <1>6, <1>7, ClaimAdded
<1>11. ASSUME NEW x \in Position PROVE reserved'[x] = HeldBy(Q, x)
  <2>1. reserved[x] = HeldBy(R, x) /\ reserved[x] \in Nat
    BY LedgerParts DEF R
  <2>2. reserved'[x] = reserved[x] + (IF p = x THEN q ELSE 0)
    BY <1>1, <1>9, <2>1, LedgerParts DEF LedgerTyped
  <2> QED
    BY <1>1, <1>10, <2>1, <2>2
<1>12. ReservationsCounted'
  <2>1. \A x \in Position : reserved'[x] = HeldBy(reservation', x)
    BY <1>2, <1>11 DEF Q
  <2> QED
    BY <2>1, Zenon DEF ReservationsCounted, HeldBy, ClaimedIn, ActiveIn
<1>13. done' \in [Key -> SUBSET Deed] /\ KeysFresh'
  <2>1. /\ Remember(k, "reserve", {<<p, version[p]>>})
        /\ "reserve" \in DeedKind /\ {<<p, version[p]>>} \in SUBSET (Position \X Nat)
    BY LedgerParts DEF Reserve, DeedKind
  <2>2. \A m \in Key \ {k} : reservation[m] = NoReservation => reservation'[m] = NoReservation
    BY <1>2, <1>5 DEF Q, R
  <2> QED
    BY <1>1, <2>1, <2>2, LedgerParts, Remembered
<1> QED
  BY <1>2, <1>5, <1>9, <1>12, <1>13, LedgerParts DEF LedgerInv, LedgerTyped

\* A reservation that ends gives back what it held, and takes it from the stock or not.
LEMMA EndKeeps ==
    ASSUME LedgerInv, NEW k \in Key, NEW r \in SubKey, NEW status \in {"consumed", "released"},
           reservation[r].status = "active", End(r, status),
           NEW d \in {0, -reservation[r].quantity},
           Move(reservation[r].position, d, -reservation[r].quantity),
           UNCHANGED staged, NEW op \in DeedKind, NEW e \in SUBSET (Position \X Nat), Remember(k, op, e)
    PROVE  LedgerInv'
<1> DEFINE R == reservation
           Q == reservation'
           p == reservation[r].position
           q == reservation[r].quantity
<1>1. r \in Key /\ R[r] \in Claim /\ p \in Position /\ q \in Nat /\ d \in Int /\ -q \in Int /\ (d = 0 \/ d = -q)
  BY LedgerParts, RowsAre, KeysAre DEF Positive
<1>2. Q = [reservation EXCEPT ![r] = [status |-> status, position |-> p, quantity |-> q]]
  BY DEF End
<1>3. /\ reservation' \in [Key -> Claim \cup {NoReservation}]
      /\ Q[r] = [status |-> status, position |-> p, quantity |-> q]
      /\ \A x \in Key : x # r => Q[x] = R[x]
  <2>1. [status |-> status, position |-> p, quantity |-> q] \in Claim
    BY <1>1 DEF Claim
  <2> QED
    BY <1>1, <1>2, <2>1, LedgerParts DEF LedgerTyped
<1>4. \A x \in SubKey : R[x].status = "active" => R[x].quantity \in Nat
  BY LedgerParts, RowsAre, KeysAre DEF Positive
<1>5. Q[r].status # "active"
  BY <1>3
<1>6. \A x \in SubKey : x # r => R[x] = Q[x]
  BY <1>3, KeysAre
<1>7. \A x \in SubKey : Q[x].status = "active" => Q[x].quantity \in Nat
  BY <1>4, <1>5, <1>6
<1>8. Move(p, d, -q) /\ R[r].status = "active" /\ R[r].quantity = q /\ R[r].position = p
  OBVIOUS
<1> HIDE DEF R, Q, p, q
<1>9. \A x : /\ HeldBy(R, x) = HeldBy(Q, x) + (IF p = x THEN q ELSE 0)
             /\ HeldBy(Q, x) \in Nat
  BY <1>1, <1>5, <1>6, <1>7, <1>8, ClaimAdded
<1>10. /\ reserved[p] = HeldBy(R, p) /\ reserved[p] >= q
  BY <1>1, <1>9, LedgerParts DEF R
<1>11. reserved[p] + -q >= 0
  BY <1>1, <1>10, LedgerParts
<1>12. /\ onHand' \in [Position -> Int] /\ reserved' \in [Position -> Nat] /\ version' \in [Position -> Nat]
       /\ onHand' = [onHand EXCEPT ![p] = @ + d] /\ reserved' = [reserved EXCEPT ![p] = @ + -q]
  BY <1>1, <1>8, <1>11, LedgerParts, MoveTyped
<1>13. ASSUME NEW x \in Position PROVE reserved'[x] = HeldBy(Q, x)
  <2>1. reserved[x] = HeldBy(R, x) /\ reserved[x] \in Nat
    BY LedgerParts DEF R
  <2>2. reserved'[x] = reserved[x] - (IF p = x THEN q ELSE 0)
    BY <1>1, <1>12, <2>1, LedgerParts DEF LedgerTyped
  <2> QED
    BY <1>1, <1>9, <2>1, <2>2
<1>14. ReservationsCounted'
  <2>1. \A x \in Position : reserved'[x] = HeldBy(reservation', x)
    BY <1>13 DEF Q
  <2> QED
    BY <2>1, Zenon DEF ReservationsCounted, HeldBy, ClaimedIn, ActiveIn
<1>15. done' \in [Key -> SUBSET Deed] /\ KeysFresh'
  <2>1. R[r] # NoReservation
    BY <1>8 DEF NoReservation
  <2>2. \A m \in Key \ {k} : reservation[m] = NoReservation => reservation'[m] = NoReservation
    BY <1>3, <2>1 DEF Q, R
  <2> QED
    BY <2>2, LedgerParts, Remembered
<1> QED
  BY <1>3, <1>12, <1>14, <1>15, LedgerParts DEF LedgerInv, LedgerTyped

LEMMA ConsumeKeeps ==
    ASSUME LedgerInv, NEW k \in Key, NEW r \in SubKey, ConsumeReservation(k, r)
    PROVE  LedgerInv'
<1> DEFINE p == reservation[r].position
           q == reservation[r].quantity
<1>1. /\ reservation[r].status = "active" /\ End(r, "consumed") /\ UNCHANGED staged
      /\ Move(p, -q, -q) /\ Remember(k, "consume", {<<p, version[p]>>})
  BY DEF ConsumeReservation
<1>2. {<<p, version[p]>>} \in SUBSET (Position \X Nat) /\ "consume" \in DeedKind
  BY <1>1, LedgerParts, RowsAre, KeysAre DEF DeedKind
<1>3. -q \in {0, -reservation[r].quantity} /\ "consumed" \in {"consumed", "released"}
  OBVIOUS
<1> QED
  BY <1>1, <1>2, <1>3, EndKeeps

LEMMA ReleaseKeeps ==
    ASSUME LedgerInv, NEW k \in Key, NEW r \in SubKey, ReleaseReservation(k, r)
    PROVE  LedgerInv'
<1>1. /\ reservation[r].status = "active" /\ End(r, "released") /\ UNCHANGED staged
      /\ Move(reservation[r].position, 0, -reservation[r].quantity) /\ Remember(k, "release", {})
  BY DEF ReleaseReservation
<1>2. {} \in SUBSET (Position \X Nat) /\ "release" \in DeedKind
  BY DEF DeedKind
<1>3. 0 \in {0, -reservation[r].quantity} /\ "released" \in {"consumed", "released"}
  OBVIOUS
<1> QED
  BY <1>1, <1>2, <1>3, EndKeeps

-----------------------------------------------------------------------------
(* Sequences. *)

LEMMA FunctionIsSeq ==
    ASSUME NEW n \in Nat, NEW S, NEW f \in [1..n -> S]
    PROVE  f \in Seq(S) /\ Len(f) = n /\ DOMAIN f = 1..n
OBVIOUS

LEMMA SetToSeqIs ==
    ASSUME NEW S, IsFiniteSet(S)
    PROVE  /\ Cardinality(S) \in Nat
           /\ SetToSeq(S) \in [1..Cardinality(S) -> S]
           /\ Len(SetToSeq(S)) = Cardinality(S)
<1>1. Cardinality(S) \in Nat /\ ExistsBijection(1..Cardinality(S), S)
  BY FS_CardinalityType
<1> DEFINE n == Cardinality(S)
<1>2. PICK f : f \in Bijection(1..n, S)
  BY <1>1 DEF ExistsBijection
<1>3. f \in [1..n -> S] /\ IsInjective(f)
  BY <1>2 DEF Bijection, Injection, IsInjective
<1>4. SetToSeq(S) \in [1..n -> S]
  BY <1>3 DEF SetToSeq
<1> HIDE DEF n
<1>5. Len(SetToSeq(S)) = n
  BY <1>1, <1>4, FunctionIsSeq DEF n
<1> QED
  BY <1>1, <1>4, <1>5 DEF n

\* A set of numbers has a member of every rank, and no two ranks share one.
LEMMA AscendingIs ==
    ASSUME NEW S \in SUBSET Nat, IsFiniteSet(S)
    PROVE  /\ Cardinality(S) \in Nat /\ Ascending(S) \in [1..Cardinality(S) -> S]
           /\ \A i, j \in DOMAIN Ascending(S) : Ascending(S)[i] = Ascending(S)[j] => i = j
<1> DEFINE N == Cardinality(S)
           UpTo(n) == {m \in S : m <= n}
           rank == [n \in S |-> Cardinality(UpTo(n))]
<1>1. N \in Nat /\ IsFiniteSet(1..N) /\ Cardinality(1..N) = N
  BY FS_CardinalityType, FS_Interval
<1>2. \A n \in S : IsFiniteSet(UpTo(n)) /\ Cardinality(UpTo(n)) \in 1..N
  <2> SUFFICES ASSUME NEW n \in S PROVE IsFiniteSet(UpTo(n)) /\ Cardinality(UpTo(n)) \in 1..N
    OBVIOUS
  <2>1. UpTo(n) \in SUBSET S /\ n \in UpTo(n)
    OBVIOUS
  <2> HIDE DEF UpTo
  <2>2. IsFiniteSet(UpTo(n)) /\ Cardinality(UpTo(n)) <= N
    BY <2>1, FS_Subset
  <2>3. Cardinality(UpTo(n)) \in Nat /\ Cardinality(UpTo(n)) # 0
    BY <2>1, <2>2, FS_CardinalityType, FS_EmptySet
  <2> QED
    BY <1>1, <2>2, <2>3
<1>3. ASSUME NEW a \in S, NEW b \in S, a < b PROVE Cardinality(UpTo(a)) # Cardinality(UpTo(b))
  <2>1. a \in Nat /\ b \in Nat
    OBVIOUS
  <2>2. b \in UpTo(b) /\ b \notin UpTo(a)
    BY <1>3, <2>1
  <2>3. \A m \in S : m \in Nat /\ (m <= a => m <= b)
    BY <1>3, <2>1
  <2>4. UpTo(a) \in SUBSET UpTo(b)
    BY <2>3
  <2> HIDE DEF UpTo
  <2> QED
    BY <1>2, <2>2, <2>4, FS_Subset
<1>4. rank \in Injection(S, 1..N)
  <2>1. rank \in [S -> 1..N]
    BY <1>2
  <2>2. \A a, b \in S : rank[a] = rank[b] => a = b
    <3> SUFFICES ASSUME NEW a \in S, NEW b \in S, rank[a] = rank[b], a # b PROVE FALSE
      OBVIOUS
    <3>1. a < b \/ b < a
      OBVIOUS
    <3> HIDE DEF UpTo
    <3> QED
      BY <1>3, <3>1
  <2> QED
    BY <2>1, <2>2 DEF Injection, IsInjective
<1> HIDE DEF UpTo
<1>5. rank \in Surjection(S, 1..N)
  <2> HIDE DEF rank
  <2> QED
    BY <1>1, <1>4, FS_Injection
<1> DEFINE member(i) == CHOOSE n \in S : Cardinality(UpTo(n)) = i
<1>6. ASSUME NEW i \in 1..N PROVE member(i) \in S /\ Cardinality(UpTo(member(i))) = i
  <2>1. \E n \in S : Cardinality(UpTo(n)) = i
    BY <1>5 DEF Surjection
  <2> QED
    BY <2>1
<1>7. Ascending(S) = [i \in 1..N |-> member(i)]
  BY DEF Ascending, UpTo
<1> HIDE DEF member
<1>8. \A i \in 1..N : Ascending(S)[i] = member(i)
  BY <1>7
<1> QED
  BY <1>1, <1>6, <1>7, <1>8

-----------------------------------------------------------------------------
(* The moves of documents. *)

LEMMA PlacesAre ==
    /\ \A p \in Product : <<p, "sellable">> \in Position /\ <<p, "quarantined">> \in Position
    /\ \A o \in Order : IsFiniteSet(Lines(o)) /\ Lines(o) \subseteq Product /\ Cardinality(Lines(o)) <= MaxLines
    /\ MaxLines \in Nat
<1>1. \A o \in Order : Lines(o) \in SUBSET Product
  BY DEF Lines
<1>2. IsFiniteSet(Product)
  BY MemoryAssumption
<1>3. \A o \in Order : IsFiniteSet(Lines(o))
  BY <1>1, <1>2, FS_Subset
<1> QED
  BY <1>1, <1>3, MemoryAssumption DEF Condition

\* The lines of a document are numbered within its bound.
LEMMA LinesNumbered ==
    ASSUME NEW o \in Order, NEW T \in SUBSET Lines(o)
    PROVE  /\ IsFiniteSet(T) /\ Cardinality(T) \in Nat /\ 1..Cardinality(T) \subseteq 1..MaxLines
           /\ SetToSeq(T) \in [1..Cardinality(T) -> T]
           /\ Len(SetToSeq(T)) = Cardinality(T) /\ DOMAIN SetToSeq(T) = 1..Cardinality(T)
           /\ \A i \in 1..Cardinality(T) : SetToSeq(T)[i] \in Product
<1>1. IsFiniteSet(Lines(o)) /\ Lines(o) \subseteq Product /\ Cardinality(Lines(o)) <= MaxLines /\ MaxLines \in Nat
  BY PlacesAre
<1>2. IsFiniteSet(T) /\ Cardinality(T) <= Cardinality(Lines(o))
  BY <1>1, FS_Subset
<1>3. Cardinality(T) \in Nat /\ Cardinality(Lines(o)) \in Nat
  BY <1>1, <1>2, FS_CardinalityType
<1>4. SetToSeq(T) \in [1..Cardinality(T) -> T] /\ Len(SetToSeq(T)) = Cardinality(T)
  BY <1>2, SetToSeqIs
<1> QED
  BY <1>1, <1>2, <1>3, <1>4

LEMMA SubKeysAre ==
    \A k \in RequestKey, i \in 1..MaxLines :
        /\ <<k, i, "accepted">> \in SubKey /\ <<k, i, "rejected">> \in SubKey
        /\ <<k, i, "allocation">> \in SubKey /\ <<k, i, "shipment">> \in SubKey
        /\ \A r \in Return : <<k, i, r>> \in SubKey
BY DEF SubKey

\* Half a line and its number.
LEMMA HalvesNumbered ==
    ASSUME NEW n \in Nat, NEW h \in 1..(2 * n)
    PROVE  (h + 1) \div 2 \in 1..n
OBVIOUS

LEMMA HalvesDistinct ==
    ASSUME NEW h \in Nat, NEW g \in Nat, (h + 1) \div 2 = (g + 1) \div 2, (h % 2 = 1) = (g % 2 = 1)
    PROVE  h = g
OBVIOUS

\* The moves of a document are under its own key, each under another derived one.
OwnKeys(k, moves) ==
    \A i, j \in DOMAIN moves : moves[i].sub[1] = k /\ (moves[i].sub = moves[j].sub => i = j)

LEMMA ReceiptMovesTyped ==
    ASSUME NEW k \in RequestKey, NEW o \in Purchase, NEW lines \in LinesFrom(Lines(o), ReceiptLine)
    PROVE  ReceiptMoves(k, o, lines) \in Seq(StockMove) /\ OwnKeys(k, ReceiptMoves(k, o, lines))
<1>1. PICK T \in SUBSET Lines(o) : lines \in [T -> ReceiptLine]
  BY DEF LinesFrom
<1> DEFINE n == Cardinality(T)
           products == SetToSeq(T)
           LineOf(h) == (h + 1) \div 2
           Accepted(h) == h % 2 = 1
           Amount(h) == IF Accepted(h) THEN lines[products[LineOf(h)]].accepted
                                       ELSE lines[products[LineOf(h)]].rejected
           S == {h \in 1..(2 * Len(products)) : Amount(h) > 0}
           halves == Ascending(S)
           Half(h) == [sub |-> <<k, LineOf(h), IF Accepted(h) THEN "accepted" ELSE "rejected">>,
                       line |-> <<o, products[LineOf(h)]>>,
                       position |-> <<products[LineOf(h)], IF Accepted(h) THEN "sellable" ELSE "quarantined">>,
                       quantity |-> Amount(h)]
<1>2. o \in Order
  BY DEF Order
<1>3. /\ n \in Nat /\ 1..n \subseteq 1..MaxLines /\ products \in [1..n -> T] /\ Len(products) = n
      /\ \A i \in 1..n : products[i] \in Product
  BY <1>2, LinesNumbered
<1>4. \A p \in T : lines[p].accepted \in Nat /\ lines[p].rejected \in Nat
  BY <1>1, MemoryAssumption DEF ReceiptLine
<1>5. S \in SUBSET Nat /\ S \in SUBSET (1..(2 * n)) /\ IsFiniteSet(1..(2 * n))
  <2> DEFINE e == 2 * n
  <2> HIDE DEF n
  <2>1. n \in Nat /\ Len(products) = n /\ e \in Int /\ 1 \in Int
    BY <1>3
  <2> HIDE DEF products, Amount
  <2>2. S \in SUBSET (1..(2 * n)) /\ 1..(2 * n) \subseteq Nat
    BY <2>1
  <2> HIDE DEF e, S
  <2>3. IsFiniteSet(1..e)
    BY <2>1, FS_Interval
  <2> QED
    BY <2>2, <2>3 DEF e
<1>6. ASSUME NEW h \in S PROVE Half(h) \in StockMove
  <2>1. h \in 1..(2 * n) /\ Amount(h) > 0
    BY <1>5
  <2>2. LineOf(h) \in 1..n
    BY <1>3, <2>1, HalvesNumbered
  <2> HIDE DEF n, LineOf
  <2>3. products[LineOf(h)] \in Product /\ products[LineOf(h)] \in T /\ LineOf(h) \in 1..MaxLines
    BY <1>3, <2>2
  <2>4. Amount(h) \in Positive
    BY <1>4, <2>1, <2>3 DEF Positive
  <2>5. <<o, products[LineOf(h)]>> \in OrderLine
    BY <1>2, <2>3 DEF OrderLine
  <2> HIDE DEF Amount, products
  <2>6. CASE Accepted(h)
    <3>1. <<k, LineOf(h), "accepted">> \in SubKey /\ <<products[LineOf(h)], "sellable">> \in Position
      BY <2>3, SubKeysAre, PlacesAre
    <3> QED
      BY <2>4, <2>5, <2>6, <3>1 DEF StockMove
  <2>7. CASE ~Accepted(h)
    <3>1. <<k, LineOf(h), "rejected">> \in SubKey /\ <<products[LineOf(h)], "quarantined">> \in Position
      BY <2>3, SubKeysAre, PlacesAre
    <3> QED
      BY <2>4, <2>5, <2>7, <3>1 DEF StockMove
  <2> QED
    BY <2>6, <2>7
<1>7. ReceiptMoves(k, o, lines) = [i \in DOMAIN halves |-> Half(halves[i])]
  BY <1>1 DEF ReceiptMoves
<1>8. ASSUME NEW h \in S, NEW g \in S, Half(h).sub = Half(g).sub PROVE h = g
  <2>1. /\ LineOf(h) = LineOf(g)
        /\ (IF Accepted(h) THEN "accepted" ELSE "rejected") = (IF Accepted(g) THEN "accepted" ELSE "rejected")
    BY <1>8
  <2>2. Accepted(h) = Accepted(g)
    BY <2>1
  <2>3. h \in Nat /\ g \in Nat
    BY <1>5
  <2> QED
    BY <2>1, <2>2, <2>3, HalvesDistinct
<1>9. \A h \in S : Half(h).sub[1] = k
  OBVIOUS
<1> HIDE DEF Half, S, n
<1>10. IsFiniteSet(S)
  BY <1>5, FS_Subset
<1>11. /\ Cardinality(S) \in Nat /\ halves \in [1..Cardinality(S) -> S]
      /\ \A i, j \in DOMAIN halves : halves[i] = halves[j] => i = j
  BY <1>5, <1>10, AscendingIs
<1> HIDE DEF halves
<1>12. [i \in DOMAIN halves |-> Half(halves[i])] \in [1..Cardinality(S) -> StockMove]
  BY <1>6, <1>11
<1>13. OwnKeys(k, [i \in DOMAIN halves |-> Half(halves[i])])
  BY <1>11, <1>8, <1>9 DEF OwnKeys
<1> QED
  BY <1>7, <1>11, <1>12, <1>13, FunctionIsSeq

LEMMA AllocationMovesTyped ==
    ASSUME NEW k \in RequestKey, NEW o \in Sales, NEW lines \in LinesFrom(Lines(o), Quantities \ {0})
    PROVE  AllocationMoves(k, o, lines) \in Seq(StockMove) /\ OwnKeys(k, AllocationMoves(k, o, lines))
<1>1. PICK T \in SUBSET Lines(o) : lines \in [T -> Quantities \ {0}]
  BY DEF LinesFrom
<1> DEFINE n == Cardinality(T)
           products == SetToSeq(T)
           Whole(i) == [sub |-> <<k, i, "allocation">>, line |-> <<o, products[i]>>,
                        position |-> <<products[i], "sellable">>, quantity |-> lines[products[i]]]
<1>2. o \in Order
  BY DEF Order
<1>3. /\ n \in Nat /\ 1..n \subseteq 1..MaxLines /\ products \in [1..n -> T] /\ DOMAIN products = 1..n
      /\ \A i \in 1..n : products[i] \in Product
  BY <1>2, LinesNumbered
<1>4. ASSUME NEW i \in 1..n PROVE Whole(i) \in StockMove
  <2>1. lines[products[i]] \in Positive
    BY <1>1, <1>3, MemoryAssumption DEF Positive
  <2>2. <<o, products[i]>> \in OrderLine /\ <<products[i], "sellable">> \in Position
    BY <1>2, <1>3, PlacesAre DEF OrderLine
  <2>3. <<k, i, "allocation">> \in SubKey
    BY <1>3, SubKeysAre
  <2> QED
    BY <2>1, <2>2, <2>3 DEF StockMove
<1>5. AllocationMoves(k, o, lines) = [i \in DOMAIN products |-> Whole(i)]
  BY <1>1 DEF AllocationMoves
<1>6. \A i, j : Whole(i).sub[1] = k /\ (Whole(i).sub = Whole(j).sub => i = j)
  OBVIOUS
<1> HIDE DEF Whole, n, products
<1>7. [i \in DOMAIN products |-> Whole(i)] \in [1..n -> StockMove]
  BY <1>3, <1>4
<1>8. OwnKeys(k, [i \in DOMAIN products |-> Whole(i)])
  BY <1>6 DEF OwnKeys
<1> QED
  BY <1>3, <1>5, <1>7, <1>8, FunctionIsSeq

LEMMA ReturnMovesTyped ==
    ASSUME WorkflowInv, NEW k \in RequestKey, NEW r \in Return, rma[r] # NoReturn, NEW named
    PROVE  ReturnMoves(k, r, named) \in Seq(StockMove) /\ OwnKeys(k, ReturnMoves(k, r, named))
<1> DEFINE T == DOMAIN Asked[r].lines
           n == Cardinality(T)
           products == SetToSeq(T)
           S == {i \in DOMAIN products : products[i] \in named}
           chosen == Ascending(S)
           Whole(i) == [sub |-> <<k, i, r>>, line |-> <<r, products[i]>>,
                        position |-> <<products[i], "quarantined">>, quantity |-> Asked[r].lines[products[i]]]
<1>1. rma[r].lines = Asked[r].lines
  BY DEF WorkflowInv
<1>2. /\ T \in SUBSET Lines(Asked[r].order) /\ Asked[r].order \in Order
      /\ \A p \in T : Asked[r].lines[p] \in Positive
  BY AskedAssumption DEF Order, Positive
<1> HIDE DEF T
<1>3. /\ n \in Nat /\ 1..n \subseteq 1..MaxLines /\ products \in [1..n -> T] /\ DOMAIN products = 1..n
      /\ \A i \in 1..n : products[i] \in Product
  BY <1>2, LinesNumbered
<1>4. ASSUME NEW i \in 1..n PROVE Whole(i) \in StockMove
  <2>1. Asked[r].lines[products[i]] \in Positive
    BY <1>2, <1>3
  <2>2. <<r, products[i]>> \in OrderLine /\ <<products[i], "quarantined">> \in Position
    BY <1>3, PlacesAre DEF OrderLine
  <2>3. <<k, i, r>> \in SubKey
    BY <1>3, SubKeysAre
  <2> QED
    BY <2>1, <2>2, <2>3 DEF StockMove
<1>5. ReturnMoves(k, r, named) = [i \in DOMAIN chosen |-> Whole(chosen[i])]
  BY <1>1 DEF ReturnMoves, T
<1>6. S \in SUBSET Nat /\ S \in SUBSET (1..n) /\ IsFiniteSet(1..n)
  BY <1>3, FS_Interval
<1>7. \A i, j : Whole(i).sub[1] = k /\ (Whole(i).sub = Whole(j).sub => i = j)
  OBVIOUS
<1> HIDE DEF Whole, S, n, products
<1>8. IsFiniteSet(S)
  BY <1>6, FS_Subset
<1>9. /\ Cardinality(S) \in Nat /\ chosen \in [1..Cardinality(S) -> S]
      /\ \A i, j \in DOMAIN chosen : chosen[i] = chosen[j] => i = j
  BY <1>6, <1>8, AscendingIs
<1> HIDE DEF chosen
<1>10. [i \in DOMAIN chosen |-> Whole(chosen[i])] \in [1..Cardinality(S) -> StockMove]
  BY <1>4, <1>6, <1>9
<1>11. OwnKeys(k, [i \in DOMAIN chosen |-> Whole(chosen[i])])
  BY <1>7, <1>9 DEF OwnKeys
<1> QED
  BY <1>5, <1>9, <1>10, <1>11, FunctionIsSeq

LEMMA ShipmentMovesTyped ==
    ASSUME LedgerTyped, NEW k \in RequestKey, NEW o \in Sales,
           NEW pairs \in SeqOf(Lines(o) \X {r \in SubKey : reservation[r] # NoReservation}, MaxLines)
    PROVE  ShipmentMoves(k, o, pairs) \in Seq(ShippedMove) /\ OwnKeys(k, ShipmentMoves(k, o, pairs))
<1>1. PICK n \in 0..MaxLines : pairs \in [1..n -> Lines(o) \X {r \in SubKey : reservation[r] # NoReservation}]
  BY DEF SeqOf
<1>2. o \in Order
  BY DEF Order
<1>3. n \in Nat /\ 1..n \subseteq 1..MaxLines /\ Lines(o) \subseteq Product
  BY <1>2, PlacesAre
<1>4. ASSUME NEW i \in DOMAIN pairs
      PROVE  [sub |-> <<k, i, "shipment">>, line |-> <<o, pairs[i][1]>>, reservation |-> pairs[i][2],
              position |-> reservation[pairs[i][2]].position,
              quantity |-> reservation[pairs[i][2]].quantity] \in ShippedMove
  <2>1. /\ i \in 1..MaxLines /\ pairs[i][1] \in Product /\ pairs[i][2] \in SubKey
        /\ reservation[pairs[i][2]] # NoReservation
    BY <1>1, <1>3
  <2>2. reservation[pairs[i][2]] \in Claim
    BY <2>1, KeysAre DEF LedgerTyped
  <2>3. reservation[pairs[i][2]].position \in Position /\ reservation[pairs[i][2]].quantity \in Positive
    BY <2>2 DEF Claim
  <2>4. <<o, pairs[i][1]>> \in OrderLine /\ <<k, i, "shipment">> \in SubKey
    BY <1>2, <2>1, SubKeysAre DEF OrderLine
  <2> QED
    BY <2>1, <2>3, <2>4 DEF ShippedMove
<1>5. ShipmentMoves(k, o, pairs) \in [1..n -> ShippedMove]
  BY <1>1, <1>4 DEF ShipmentMoves
<1>6. OwnKeys(k, ShipmentMoves(k, o, pairs))
  BY DEF ShipmentMoves, OwnKeys
<1> QED
  BY <1>3, <1>5, <1>6, FunctionIsSeq

-----------------------------------------------------------------------------
(* What is sent. *)

LEMMA MoveIs ==
    ASSUME NEW m \in AnyMove
    PROVE  m.sub \in SubKey /\ m.position \in Position /\ m.quantity \in Positive /\ m.quantity \in Nat
BY DEF AnyMove, StockMove, ShippedMove, Positive

\* A command is the same as itself.
LEMMA SameAsItself == \A m \in AnyMove : SameCommand(m, m)
<1>1. \A m \in StockMove : SameCommand(m, m)
  BY DEF StockMove, SameCommand
<1>2. \A m \in ShippedMove : SameCommand(m, m)
  BY DEF ShippedMove, SameCommand
<1> QED
  BY <1>1, <1>2 DEF AnyMove

LEMMA MovesAre ==
    /\ \A s \in Seq(StockMove) : s \in Seq(AnyMove)
    /\ \A s \in Seq(ShippedMove) : s \in Seq(AnyMove)
<1>1. StockMove \subseteq AnyMove /\ ShippedMove \subseteq AnyMove
  BY DEF AnyMove
<1> HIDE DEF AnyMove
<1> QED
  BY <1>1

LEMMA DocumentIs ==
    ASSUME NEW b \in Documented
    PROVE  /\ b.moves \in Seq(AnyMove) /\ b.seen \in Seq(Nat)
           /\ b.op \in {"receipt", "allocation", "shipment", "return"}
           /\ b.op = "receipt" => b.of \in Purchase
           /\ b.op = "allocation" => b.of \in Sales
           /\ b.op = "return" => b.of \in Return
           /\ b.op = "shipment" => b.of \in Sales /\ b.moves \in Seq(ShippedMove)
           /\ b # NoBody
<1>1. ASSUME b \in Document("receipt", Purchase, StockMove)
      PROVE  b.op = "receipt" /\ b.of \in Purchase /\ b.moves \in Seq(StockMove) /\ b.seen \in Seq(Nat) /\ b # NoBody
  BY <1>1 DEF Document, NoBody
<1>2. ASSUME b \in Document("allocation", Sales, StockMove)
      PROVE  b.op = "allocation" /\ b.of \in Sales /\ b.moves \in Seq(StockMove) /\ b.seen \in Seq(Nat) /\ b # NoBody
  BY <1>2 DEF Document, NoBody
<1>3. ASSUME b \in Document("shipment", Sales, ShippedMove)
      PROVE  b.op = "shipment" /\ b.of \in Sales /\ b.moves \in Seq(ShippedMove) /\ b.seen \in Seq(Nat) /\ b # NoBody
  BY <1>3 DEF Document, NoBody
<1>4. ASSUME b \in Document("return", Return, StockMove)
      PROVE  b.op = "return" /\ b.of \in Return /\ b.moves \in Seq(StockMove) /\ b.seen \in Seq(Nat) /\ b # NoBody
  BY <1>4 DEF Document, NoBody
<1>5. \/ b \in Document("receipt", Purchase, StockMove) \/ b \in Document("allocation", Sales, StockMove)
      \/ b \in Document("shipment", Sales, ShippedMove) \/ b \in Document("return", Return, StockMove)
  BY DEF Documented
<1> QED
  BY <1>1, <1>2, <1>3, <1>4, <1>5, MovesAre

LEMMA LinesAre ==
    ASSUME NEW b \in Documented
    PROVE  /\ Len(b.moves) \in Nat /\ DOMAIN b.moves = 1..Len(b.moves)
           /\ Len(b.seen) \in Nat /\ DOMAIN b.seen = 1..Len(b.seen)
           /\ \A i \in DOMAIN b.moves : b.moves[i] \in AnyMove
           /\ \A i \in DOMAIN b.seen : b.seen[i] \in Nat
<1>1. b.moves \in Seq(AnyMove) /\ b.seen \in Seq(Nat)
  BY DocumentIs
<1> QED
  BY <1>1

\* The versions that are read for the moves.
LEMMA ReadingTyped ==
    ASSUME version \in [Position -> Nat], NEW moves \in Seq(AnyMove)
    PROVE  Reading(moves) \in Seq(Nat) /\ Len(Reading(moves)) = Len(moves) /\ DOMAIN Reading(moves) = DOMAIN moves
<1>1. Len(moves) \in Nat /\ DOMAIN moves = 1..Len(moves) /\ \A i \in 1..Len(moves) : moves[i] \in AnyMove
  OBVIOUS
<1>2. ASSUME NEW i \in 1..Len(moves)
      PROVE  version[moves[i].position]
               + Cardinality({j \in 1..(i - 1) : moves[j].position = moves[i].position}) \in Nat
  <2> DEFINE T == {j \in 1..(i - 1) : moves[j].position = moves[i].position}
  <2> DEFINE e == i - 1
  <2>1. e \in Int
    BY <1>1
  <2>2. T \in SUBSET (1..e)
    OBVIOUS
  <2> HIDE DEF T, e
  <2>3. 1 \in Int
    OBVIOUS
  <2>4. IsFiniteSet(1..e)
    BY <2>1, <2>3, FS_Interval
  <2>5. IsFiniteSet(T)
    BY <2>2, <2>4, FS_Subset
  <2>6. Cardinality(T) \in Nat
    BY <2>5, FS_CardinalityType
  <2>7. version[moves[i].position] \in Nat
    BY <1>1, MoveIs
  <2> QED
    BY <2>6, <2>7 DEF T
<1>3. Reading(moves) \in [1..Len(moves) -> Nat]
  BY <1>1, <1>2 DEF Reading
<1> DEFINE n == Len(moves)
<1> HIDE DEF n
<1>4. n \in Nat /\ Reading(moves) \in [1..n -> Nat]
  BY <1>1, <1>3 DEF n
<1>5. Reading(moves) \in Seq(Nat) /\ Len(Reading(moves)) = n /\ DOMAIN Reading(moves) = 1..n
  BY <1>4, FunctionIsSeq
<1> QED
  BY <1>1, <1>5 DEF n

\* A document that can begin.
Sendable(b) ==
    b \in Documented /\ Len(b.seen) = Len(b.moves) /\ (b.op = "return" => rma[b.of] # NoReturn)

LEMMA SendSendable ==
    ASSUME version \in [Position -> Nat], NEW k \in RequestKey, NEW op, NEW subjects, NEW kind,
           \A s \in Seq(kind) : s \in Seq(AnyMove),
           \A d \in Document(op, subjects, kind) : d \in Documented,
           NEW of \in subjects, op = "return" => rma[of] # NoReturn,
           NEW moves \in Seq(kind), OwnKeys(k, moves), Send(k, op, of, moves)
    PROVE  \E b : Begin(k, b) /\ Sendable(b) /\ OwnKeys(k, b.moves)
<1> DEFINE b == [op |-> op, of |-> of, moves |-> moves, seen |-> Reading(moves)]
<1>1. Begin(k, b)
  BY DEF Send, Body
<1>2. Reading(moves) \in Seq(Nat) /\ Len(Reading(moves)) = Len(moves)
  BY ReadingTyped
<1>3. b \in Document(op, subjects, kind)
  BY <1>2 DEF Document
<1>4. Sendable(b)
  BY <1>2, <1>3 DEF Sendable
<1>5. b.moves = moves
  OBVIOUS
<1> HIDE DEF b
<1> QED
  BY <1>1, <1>4, <1>5

LEMMA DocumentsSendable ==
    ASSUME LedgerTyped, WorkflowInv, NEW k \in RequestKey, Documents(k)
    PROVE  \E b : Begin(k, b) /\ Sendable(b) /\ OwnKeys(k, b.moves)
<1>1. version \in [Position -> Nat]
  BY DEF LedgerTyped
<1>2. /\ \A d \in Document("receipt", Purchase, StockMove) : d \in Documented
      /\ \A d \in Document("allocation", Sales, StockMove) : d \in Documented
      /\ \A d \in Document("shipment", Sales, ShippedMove) : d \in Documented
      /\ \A d \in Document("return", Return, StockMove) : d \in Documented
  BY DEF Documented
<1>3. CASE \E o \in Purchase : \E lines \in LinesFrom(Lines(o), ReceiptLine) :
             Send(k, "receipt", o, ReceiptMoves(k, o, lines))
  <2>1. PICK o \in Purchase : \E lines \in LinesFrom(Lines(o), ReceiptLine) :
               Send(k, "receipt", o, ReceiptMoves(k, o, lines))
    BY <1>3
  <2>2. PICK moves \in Seq(StockMove) : OwnKeys(k, moves) /\ Send(k, "receipt", o, moves)
    BY <2>1, ReceiptMovesTyped
  <2> QED
    BY <1>1, <1>2, <2>2, MovesAre, SendSendable
<1>4. CASE \E o \in Sales : \E lines \in LinesFrom(Lines(o), Quantities \ {0}) :
             Send(k, "allocation", o, AllocationMoves(k, o, lines))
  <2>1. PICK o \in Sales : \E lines \in LinesFrom(Lines(o), Quantities \ {0}) :
               Send(k, "allocation", o, AllocationMoves(k, o, lines))
    BY <1>4
  <2>2. PICK moves \in Seq(StockMove) : OwnKeys(k, moves) /\ Send(k, "allocation", o, moves)
    BY <2>1, AllocationMovesTyped
  <2> QED
    BY <1>1, <1>2, <2>2, MovesAre, SendSendable
<1>5. CASE \E o \in Sales :
             \E pairs \in SeqOf(Lines(o) \X {r \in SubKey : reservation[r] # NoReservation}, MaxLines) :
               Send(k, "shipment", o, ShipmentMoves(k, o, pairs))
  <2>1. PICK o \in Sales :
             \E pairs \in SeqOf(Lines(o) \X {r \in SubKey : reservation[r] # NoReservation}, MaxLines) :
               Send(k, "shipment", o, ShipmentMoves(k, o, pairs))
    BY <1>5
  <2>2. PICK moves \in Seq(ShippedMove) : OwnKeys(k, moves) /\ Send(k, "shipment", o, moves)
    BY <2>1, ShipmentMovesTyped
  <2> QED
    BY <1>1, <1>2, <2>2, MovesAre, SendSendable
<1>6. CASE \E r \in {x \in Return : rma[x] # NoReturn} : \E S \in SUBSET DOMAIN rma[r].lines :
             Send(k, "return", r, ReturnMoves(k, r, S))
  <2>1. PICK r \in Return : rma[r] # NoReturn /\ \E S : Send(k, "return", r, ReturnMoves(k, r, S))
    BY <1>6
  <2>2. PICK moves \in Seq(StockMove) : OwnKeys(k, moves) /\ Send(k, "return", r, moves)
    BY <2>1, ReturnMovesTyped
  <2> QED
    BY <1>1, <1>2, <2>1, <2>2, MovesAre, SendSendable
<1> QED
  BY <1>3, <1>4, <1>5, <1>6 DEF Documents

LEMMA ResendSendable ==
    ASSUME LedgerTyped, DocumentInv, ReturnsSent, NEW k \in RequestKey, Resend(k)
    PROVE  \E b : Begin(k, b) /\ Sendable(b) /\ b.moves = body[k].moves
<1> DEFINE a == body[k]
<1>1. a \in Documented /\ Len(a.seen) = Len(a.moves)
  BY DEF Resend, DocumentInv
<1>2. PICK refreshed \in SUBSET DOMAIN a.moves :
        Begin(k, Body(a.op, a.of, a.moves,
            [i \in DOMAIN a.moves |-> IF i \in refreshed THEN Reading(a.moves)[i] ELSE a.seen[i]]))
  BY DEF Resend
<1>3. a.op = "return" => rma[a.of] # NoReturn
  BY DEF ReturnsSent
<1> HIDE DEF a
<1> DEFINE n == Len(a.moves)
           seen == [i \in DOMAIN a.moves |-> IF i \in refreshed THEN Reading(a.moves)[i] ELSE a.seen[i]]
           b == [op |-> a.op, of |-> a.of, moves |-> a.moves, seen |-> seen]
<1>4. n \in Nat /\ DOMAIN a.moves = 1..n /\ DOMAIN a.seen = 1..n /\ \A i \in 1..n : a.seen[i] \in Nat
  BY <1>1, LinesAre
<1>5. a.moves \in Seq(AnyMove) /\ version \in [Position -> Nat]
  BY <1>1, DocumentIs DEF LedgerTyped
<1>6. Reading(a.moves) \in Seq(Nat) /\ Len(Reading(a.moves)) = n
  BY <1>5, ReadingTyped
<1>7. \A i \in 1..n : Reading(a.moves)[i] \in Nat
  BY <1>6
<1>8. seen \in [1..n -> Nat]
  BY <1>4, <1>7
<1> HIDE DEF n, seen
<1>9. seen \in Seq(Nat) /\ Len(seen) = n
  BY <1>4, <1>8, FunctionIsSeq
<1>10. Begin(k, b)
  BY <1>2 DEF Body, seen
<1>11. b \in Documented
  <2>1. ASSUME NEW op, NEW T, NEW M, a \in Document(op, T, M) PROVE b \in Document(op, T, M)
    BY <1>9, <2>1 DEF Document
  <2> HIDE DEF b
  <2> QED
    BY <1>1, <2>1 DEF Documented
<1>12. Sendable(b)
  BY <1>3, <1>9, <1>11 DEF Sendable, n
<1>13. b.moves = body[k].moves
  BY DEF a
<1> HIDE DEF b
<1> QED
  BY <1>10, <1>12, <1>13

-----------------------------------------------------------------------------
(* Orders, returns and tasks. *)

LEMMA WorkflowsClosed ==
    /\ \A s \in DOMAIN PurchaseWorkflow : PurchaseWorkflow[s] \subseteq DOMAIN PurchaseWorkflow
    /\ \A s \in DOMAIN SalesWorkflow : SalesWorkflow[s] \subseteq DOMAIN SalesWorkflow
    /\ \A s \in DOMAIN ReturnWorkflow : ReturnWorkflow[s] \subseteq DOMAIN ReturnWorkflow \ {"none"}
    /\ \A s \in DOMAIN TaskTransitions : TaskTransitions[s] \subseteq DOMAIN TaskTransitions
BY DEF PurchaseWorkflow, SalesWorkflow, SalesTransitions, ReturnWorkflow, TaskTransitions

\* Returns that exist stay.
ReturnsKept == \A r \in Return : rma[r] # NoReturn => rma'[r] # NoReturn

LEMMA OrderBecomes ==
    ASSUME WorkflowInv, NEW o \in Order, NEW target,
           orderState' = [orderState EXCEPT ![o] = target], UNCHANGED <<rma, task>>,
           o \in Purchase => target \in DOMAIN PurchaseWorkflow,
           o \in Sales => target \in DOMAIN SalesWorkflow
    PROVE  WorkflowInv' /\ ReturnsKept
<1>0. target \in OrderState
  BY DEF Order, OrderState
<1>1. /\ orderState' \in [Order -> OrderState] /\ orderState'[o] = target
      /\ \A x \in Order \ {o} : orderState'[x] = orderState[x]
  BY <1>0 DEF WorkflowInv
<1>2. Purchase \subseteq Order /\ Sales \subseteq Order
  BY DEF Order
<1>3. /\ \A x \in Purchase : orderState'[x] \in DOMAIN PurchaseWorkflow \cup {"none"}
      /\ \A x \in Sales : orderState'[x] \in DOMAIN SalesWorkflow \cup {"none"}
  BY <1>1, <1>2 DEF WorkflowInv
<1> QED
  BY <1>1, <1>3 DEF WorkflowInv, ReturnsKept

LEMMA MayBecomeTyped ==
    ASSUME WorkflowInv, NEW o \in Order, NEW target, OrderMayBecome(o, target)
    PROVE  /\ o \in Purchase => target \in DOMAIN PurchaseWorkflow
           /\ o \in Sales => target \in DOMAIN SalesWorkflow
<1>1. orderState[o] # "none" /\ (o \in Purchase \/ o \in Sales)
  BY DEF OrderMayBecome, Order
<1>2. o \in Purchase => target \in DOMAIN PurchaseWorkflow
  BY <1>1, WorkflowsClosed DEF WorkflowInv, OrderMayBecome
<1>3. o \in Sales => target \in DOMAIN SalesWorkflow
  BY <1>1, WorkflowsClosed, MemoryAssumption DEF WorkflowInv, OrderMayBecome
<1> QED
  BY <1>2, <1>3

\* A return that moves along its workflow.
LEMMA ReturnBecomes ==
    ASSUME WorkflowInv, NEW r \in Return, rma[r] # NoReturn, NEW target \in DOMAIN ReturnWorkflow, target # "none",
           rma' = [rma EXCEPT ![r].state = target], UNCHANGED <<orderState, task>>
    PROVE  WorkflowInv' /\ ReturnsKept
<1>1. rma[r] \in ReturnRow /\ rma[r].lines = Asked[r].lines
  BY DEF WorkflowInv
<1>2. /\ [rma[r] EXCEPT !.state = target] \in ReturnRow
      /\ [rma[r] EXCEPT !.state = target].lines = Asked[r].lines
      /\ [rma[r] EXCEPT !.state = target] # NoReturn
  BY <1>1 DEF ReturnRow, NoReturn
<1>3. rma' = [rma EXCEPT ![r] = [rma[r] EXCEPT !.state = target]]
  OBVIOUS
<1>4. /\ rma' \in [Return -> ReturnRow \cup {NoReturn}]
      /\ rma'[r] = [rma[r] EXCEPT !.state = target]
      /\ \A x \in Return \ {r} : rma'[x] = rma[x]
  BY <1>2, <1>3 DEF WorkflowInv
<1>5. \A x \in Return : rma'[x] # NoReturn => rma'[x].lines = Asked[x].lines
  BY <1>2, <1>4 DEF WorkflowInv
<1>6. ReturnsKept
  BY <1>2, <1>4 DEF ReturnsKept
<1> QED
  BY <1>4, <1>5, <1>6 DEF WorkflowInv

LEMMA CreateReturnKeeps ==
    ASSUME WorkflowInv, NEW r \in Return, CreateReturn(r, Asked[r].order, Asked[r].lines)
    PROVE  WorkflowInv' /\ ReturnsKept
<1> DEFINE row == [state |-> "requested", order |-> Asked[r].order, lines |-> Asked[r].lines]
<1>1. row \in ReturnRow /\ row # NoReturn /\ row.lines = Asked[r].lines
  <2>1. "requested" \in DOMAIN ReturnWorkflow
    BY DEF ReturnWorkflow
  <2>2. Asked[r].order \in Sales
    BY AskedAssumption
  <2> QED
    BY <2>1, <2>2 DEF ReturnRow, NoReturn
<1> HIDE DEF row
<1>2. rma' = [rma EXCEPT ![r] = row] /\ UNCHANGED <<orderState, task>>
  BY DEF CreateReturn, row
<1>3. /\ rma' \in [Return -> ReturnRow \cup {NoReturn}]
      /\ rma'[r] = row /\ \A x \in Return \ {r} : rma'[x] = rma[x]
  BY <1>1, <1>2 DEF WorkflowInv
<1>4. ReturnsKept /\ \A x \in Return : rma'[x] # NoReturn => rma'[x].lines = Asked[x].lines
  BY <1>1, <1>3 DEF WorkflowInv, ReturnsKept
<1> QED
  BY <1>2, <1>3, <1>4 DEF WorkflowInv

\* A step of tasks alone.
LEMMA TasksBecome ==
    ASSUME WorkflowInv, task' \in [TaskKey -> TaskRow \cup {NoTask}], UNCHANGED <<orderState, rma>>
    PROVE  WorkflowInv' /\ ReturnsKept
BY DEF WorkflowInv, ReturnsKept

LEMMA TaskKeysAre == \A m \in ManualTask : PostTask(m) \in TaskKey /\ ReceiptTask(m) \in TaskKey
BY DEF TaskKey, PostTask, ReceiptTask

LEMMA TaskBecomes ==
    ASSUME WorkflowInv, NEW t \in TaskKey, NEW target, TaskMayBecome(t, target)
    PROVE  [task EXCEPT ![t].state = target] \in [TaskKey -> TaskRow \cup {NoTask}]
<1>1. task[t] \in TaskRow /\ task[t].state \in DOMAIN TaskTransitions
  BY DEF WorkflowInv, TaskMayBecome, TaskRow
<1>2. target \in DOMAIN TaskTransitions
  BY <1>1, WorkflowsClosed DEF TaskMayBecome
<1>3. [task[t] EXCEPT !.state = target] \in TaskRow
  BY <1>1, <1>2 DEF TaskRow
<1>4. [task EXCEPT ![t].state = target] = [task EXCEPT ![t] = [task[t] EXCEPT !.state = target]]
  OBVIOUS
<1> QED
  BY <1>3, <1>4 DEF WorkflowInv

LEMMA OrderRequestsKeep ==
    ASSUME WorkflowInv, OrderRequests
    PROVE  WorkflowInv' /\ ReturnsKept
<1>1. ASSUME NEW o \in Order, CreateOrder(o)
      PROVE  WorkflowInv' /\ ReturnsKept
  <2> DEFINE target == IF o \in Purchase THEN "draft" ELSE "quote"
  <2>1. orderState' = [orderState EXCEPT ![o] = target] /\ UNCHANGED <<rma, task>>
    BY <1>1 DEF CreateOrder
  <2>2. /\ o \in Purchase => target \in DOMAIN PurchaseWorkflow
        /\ o \in Sales => target \in DOMAIN SalesWorkflow
    BY MemoryAssumption DEF PurchaseWorkflow, SalesWorkflow, SalesTransitions
  <2> HIDE DEF target
  <2> QED
    BY <2>1, <2>2, OrderBecomes
<1>2. ASSUME NEW o \in Order, NEW target, TransitionOrder(o, target)
      PROVE  WorkflowInv' /\ ReturnsKept
  <2>1. /\ orderState' = [orderState EXCEPT ![o] = target] /\ UNCHANGED <<rma, task>>
        /\ OrderMayBecome(o, target)
    BY <1>2 DEF TransitionOrder
  <2> QED
    BY <2>1, MayBecomeTyped, OrderBecomes
<1>3. ASSUME NEW r \in Return, NEW target, TransitionReturn(r, target)
      PROVE  WorkflowInv' /\ ReturnsKept
  <2>1. /\ rma' = [rma EXCEPT ![r].state = target] /\ UNCHANGED <<orderState, task>>
        /\ rma[r] # NoReturn /\ target \in ReturnWorkflow[rma[r].state]
    BY <1>3 DEF TransitionReturn
  <2>2. rma[r].state \in DOMAIN ReturnWorkflow
    BY <2>1 DEF WorkflowInv, ReturnRow
  <2>3. target \in DOMAIN ReturnWorkflow /\ target # "none"
    BY <2>1, <2>2, WorkflowsClosed
  <2> QED
    BY <2>1, <2>3, ReturnBecomes
<1> QED
  BY <1>1, <1>2, <1>3, CreateReturnKeeps DEF OrderRequests

LEMMA TaskRequestsKeep ==
    ASSUME LedgerInv, WorkflowInv, TaskRequests
    PROVE  LedgerInv' /\ WorkflowInv' /\ ReturnsKept
<1>1. ASSUME NEW m \in ManualTask, CreateTask(m)
      PROVE  LedgerInv' /\ WorkflowInv' /\ ReturnsKept
  <2>1. [state |-> "open", pin |-> version[Manual[m].source]] \in TaskRow
    <3>1. Manual[m].source \in Position
      BY AskedAssumption
    <3>2. "open" \in DOMAIN TaskTransitions
      BY DEF TaskTransitions
    <3> QED
      BY <3>1, <3>2, LedgerParts DEF TaskRow
  <2>2. task' \in [TaskKey -> TaskRow \cup {NoTask}]
    BY <1>1, <2>1 DEF CreateTask, WorkflowInv
  <2>3. UNCHANGED <<orderState, rma>> /\ UNCHANGED ledgerVars
    BY <1>1 DEF CreateTask
  <2>4. LedgerInv'
    BY <2>3, LedgerFrame
  <2> QED
    BY <2>2, <2>3, <2>4, TasksBecome
<1>2. ASSUME NEW m \in ManualTask, ShipTransferTask(m)
      PROVE  LedgerInv' /\ WorkflowInv' /\ ReturnsKept
  <2> DEFINE s == Manual[m].source
             d == Manual[m].destination
             q == Manual[m].quantity
  <2>1. s \in Position /\ d \in Position /\ q \in Positive
    BY <1>2, AskedAssumption DEF ShipTransferTask, Positive
  <2>2. PostTask(m) \in TaskKey /\ ReceiptTask(m) \in TaskKey /\ PostTask(m) \in Key
    BY TaskKeysAre, KeysAre
  <2>3. ShipTransfer(PostTask(m), s, d, q)
    BY <1>2 DEF ShipTransferTask
  <2>4. LedgerInv'
    <3> HIDE DEF s, d, q
    <3> QED
      BY <2>1, <2>2, <2>3, ShipTransferKeeps
  <2>5. [state |-> "open", pin |-> version[d]] \in TaskRow
    BY <2>1, LedgerParts DEF TaskRow, TaskTransitions
  <2>6. [task EXCEPT ![PostTask(m)].state = "completed"] \in [TaskKey -> TaskRow \cup {NoTask}]
    BY <1>2, <2>2, TaskBecomes DEF ShipTransferTask
  <2>7. task' = [[task EXCEPT ![PostTask(m)].state = "completed"]
                   EXCEPT ![ReceiptTask(m)] = [state |-> "open", pin |-> version[d]]]
    BY <1>2 DEF ShipTransferTask
  <2>8. task' \in [TaskKey -> TaskRow \cup {NoTask}]
    BY <2>5, <2>6, <2>7
  <2>9. UNCHANGED <<orderState, rma>>
    BY <1>2 DEF ShipTransferTask
  <2> QED
    BY <2>4, <2>8, <2>9, TasksBecome
<1>3. ASSUME NEW m \in ManualTask, NEW got, ReceiveTransferTask(m, got)
      PROVE  LedgerInv' /\ WorkflowInv' /\ ReturnsKept
  <2>1. PostTask(m) \in Key /\ ReceiptTask(m) \in TaskKey /\ ReceiptTask(m) \in Key
    BY TaskKeysAre, KeysAre
  <2>2. ReceiveTransfer(ReceiptTask(m), PostTask(m), got)
    BY <1>3 DEF ReceiveTransferTask
  <2>3. LedgerInv'
    BY <2>1, <2>2, ReceiveTransferKeeps
  <2>4. task' \in [TaskKey -> TaskRow \cup {NoTask}]
    BY <1>3, <2>1, TaskBecomes DEF ReceiveTransferTask
  <2>5. UNCHANGED <<orderState, rma>>
    BY <1>3 DEF ReceiveTransferTask
  <2> QED
    BY <2>3, <2>4, <2>5, TasksBecome
<1>4. ASSUME NEW m \in ManualTask, NEW counted \in Quantities, CompleteCountTask(m, counted)
      PROVE  LedgerInv' /\ WorkflowInv' /\ ReturnsKept
  <2>1. PostTask(m) \in TaskKey /\ PostTask(m) \in Key /\ Manual[m].source \in Position /\ counted \in Nat
    BY TaskKeysAre, KeysAre, AskedAssumption, MemoryAssumption
  <2>2. PostCount(PostTask(m), Manual[m].source, counted)
    BY <1>4 DEF CompleteCountTask
  <2>3. LedgerInv'
    BY <2>1, <2>2, PostCountKeeps
  <2>4. task' \in [TaskKey -> TaskRow \cup {NoTask}]
    BY <1>4, <2>1, TaskBecomes DEF CompleteCountTask
  <2>5. UNCHANGED <<orderState, rma>>
    BY <1>4 DEF CompleteCountTask
  <2> QED
    BY <2>3, <2>4, <2>5, TasksBecome
<1>5. ASSUME NEW t \in TaskKey, NEW target, TransitionTask(t, target)
      PROVE  LedgerInv' /\ WorkflowInv' /\ ReturnsKept
  <2>1. task' \in [TaskKey -> TaskRow \cup {NoTask}]
    BY <1>5, TaskBecomes DEF TransitionTask
  <2>2. UNCHANGED <<orderState, rma>> /\ UNCHANGED ledgerVars
    BY <1>5 DEF TransitionTask
  <2>3. LedgerInv'
    BY <2>2, LedgerFrame
  <2> QED
    BY <2>1, <2>2, <2>3, TasksBecome
<1> QED
  BY <1>1, <1>2, <1>3, <1>4, <1>5 DEF TaskRequests

\* The commands of the ledger itself: adjustments and releases.
LEMMA LedgerRequestsKeep ==
    ASSUME LedgerInv, LedgerRequests
    PROVE  LedgerInv'
<1>1. PICK k \in ClientKey :
        \/ \E p \in Adjusted, delta \in Deltas, allowNegative \in BOOLEAN :
              AdjustStock(k, p, delta, allowNegative)
        \/ \E r \in SubKey : ReleaseAny(k, r)
  BY DEF LedgerRequests
<1>2. k \in Key
  BY KeysAre
<1>3. ASSUME NEW p \in Adjusted, NEW delta \in Deltas, NEW allowNegative \in BOOLEAN,
             AdjustStock(k, p, delta, allowNegative)
      PROVE  LedgerInv'
  <2>1. p \in Position /\ delta \in Int
    BY MemoryAssumption
  <2> QED
    BY <1>2, <1>3, <2>1, AdjustKeeps DEF AdjustStock
<1>4. ASSUME NEW r \in SubKey, ReleaseAny(k, r) PROVE LedgerInv'
  BY <1>2, <1>4, ReleaseKeeps DEF ReleaseAny
<1> QED
  BY <1>1, <1>3, <1>4

-----------------------------------------------------------------------------
(* What each kind of step leaves alone. *)

LEMMA RequestsLeave ==
    /\ OrderRequests => UNCHANGED ledgerVars /\ UNCHANGED <<processed, allocated, body, recorded, running, posted>>
    /\ TaskRequests => UNCHANGED <<processed, allocated, body, recorded, running, posted>>
    /\ LedgerRequests => UNCHANGED operationVars
<1>1. OrderRequests => UNCHANGED ledgerVars /\ UNCHANGED <<processed, allocated, body, recorded, running, posted>>
  BY DEF OrderRequests, CreateOrder, TransitionOrder, CreateReturn, TransitionReturn, documentVars
<1>2. TaskRequests => UNCHANGED <<processed, allocated, body, recorded, running, posted>>
  BY DEF TaskRequests, CreateTask, ShipTransferTask, ReceiveTransferTask, CompleteCountTask, TransitionTask,
         documentVars
<1>3. LedgerRequests => UNCHANGED operationVars
  BY DEF LedgerRequests, AdjustStock, ReleaseAny
<1> QED
  BY <1>1, <1>2, <1>3

LEMMA DocumentFrame ==
    ASSUME DocumentInv, UNCHANGED <<body, recorded, running, posted>>
    PROVE  DocumentInv'
<1>1. Doc' = Doc
  BY DEF Doc
<1>2. (\A k \in recorded : body[k] # NoBody /\ \A i \in DOMAIN body[k].moves : Made(body[k].moves[i]))'
  BY DEF DocumentInv, Made
<1>3. (running # Idle => \A i \in 1..(running.at - 1) : Made(Doc.moves[i]))'
  BY <1>1 DEF DocumentInv, Made
<1> QED
  BY <1>1, <1>2, <1>3 DEF DocumentInv

LEMMA ReturnsFrame ==
    ASSUME ReturnsSent, DocumentInv, UNCHANGED body, ReturnsKept
    PROVE  ReturnsSent'
<1> SUFFICES ASSUME NEW k \in RequestKey, body'[k].op = "return" PROVE rma'[body'[k].of] # NoReturn
  BY DEF ReturnsSent
<1>1. body[k].op = "return" /\ rma[body[k].of] # NoReturn
  BY DEF ReturnsSent
<1>2. body[k] \in Documented
  BY <1>1 DEF DocumentInv, NoBody
<1>3. body[k].of \in Return
  BY <1>1, <1>2, DocumentIs
<1> QED
  BY <1>1, <1>3 DEF ReturnsKept

LEMMA QuantityFrame ==
    ASSUME QuantityInv, UNCHANGED <<processed, allocated, body, recorded, running>>
    PROVE  QuantityInv'
BY DEF QuantityInv, OrdersAddUp, FulfilledBy, AllocatedBy, AllocationFits, Doc, Recorded

-----------------------------------------------------------------------------
(* Sums over the recorded documents. *)

KeysOf(C, B, ops, o) == {x \in C : B[x].op \in ops /\ B[x].of = o}
MovedBy(C, B, ops, o, p) == [x \in KeysOf(C, B, ops, o) |-> MovedOf(B[x].moves, <<o, p>>)]
MovedSum(C, B, ops, o, p) == Total(MovedBy(C, B, ops, o, p))

Fulfils == {"receipt", "shipment"}
Allocates == {"allocation"}

AddsUp ==
    /\ \A o \in Order, p \in Product : processed[o][p] = Before(o, p) + MovedSum(recorded, body, Fulfils, o, p)
    /\ \A o \in Sales, p \in Product : allocated[o][p] = Before(o, p) + MovedSum(recorded, body, Allocates, o, p)

LEMMA AddsUpIs == OrdersAddUp <=> AddsUp
<1>1. \A o : Recorded("receipt", o) \cup Recorded("shipment", o) = KeysOf(recorded, body, Fulfils, o)
  BY DEF Recorded, KeysOf, Fulfils
<1>2. \A o : Recorded("allocation", o) = KeysOf(recorded, body, Allocates, o)
  BY DEF Recorded, KeysOf, Allocates
<1>3. \A o, p : FulfilledBy(o, p) = MovedSum(recorded, body, Fulfils, o, p)
  BY <1>1, Zenon DEF FulfilledBy, MovedSum, MovedBy
<1>4. \A o, p : AllocatedBy(o, p) = MovedSum(recorded, body, Allocates, o, p)
  BY <1>2, Zenon DEF AllocatedBy, MovedSum, MovedBy
<1> QED
  BY <1>3, <1>4, Zenon DEF OrdersAddUp, AddsUp

LEMMA AddsUpNext ==
    ASSUME \A o \in Order, p \in Product : processed'[o][p] = Before(o, p) + MovedSum(recorded', body', Fulfils, o, p),
           \A o \in Sales, p \in Product : allocated'[o][p] = Before(o, p) + MovedSum(recorded', body', Allocates, o, p)
    PROVE  OrdersAddUp'
<1>1. /\ \A o : (Recorded("receipt", o) \cup Recorded("shipment", o))' = KeysOf(recorded', body', Fulfils, o)
      /\ \A o : Recorded("allocation", o)' = KeysOf(recorded', body', Allocates, o)
  BY DEF Recorded, KeysOf, Fulfils, Allocates
<1>2. \A o, p : FulfilledBy(o, p)' = MovedSum(recorded', body', Fulfils, o, p)
  BY <1>1, Zenon DEF FulfilledBy, MovedSum, MovedBy
<1>3. \A o, p : AllocatedBy(o, p)' = MovedSum(recorded', body', Allocates, o, p)
  BY <1>1, Zenon DEF AllocatedBy, MovedSum, MovedBy
<1>4. ASSUME NEW o \in Order, NEW p \in Product PROVE processed'[o][p] = Before(o, p) + FulfilledBy(o, p)'
  BY <1>2, Zenon
<1>5. ASSUME NEW o \in Sales, NEW p \in Product PROVE allocated'[o][p] = Before(o, p) + AllocatedBy(o, p)'
  BY <1>3, Zenon
<1>6. \A o, p : Before(o, p)' = Before(o, p)
  BY DEF Before
<1> QED
  BY <1>4, <1>5, <1>6, Zenon DEF OrdersAddUp

\* A document moves a natural number of units for a line.
LEMMA MovedTyped ==
    ASSUME NEW b \in Documented, NEW l
    PROVE  MovedOf(b.moves, l) \in Nat
<1> DEFINE D == {j \in DOMAIN b.moves : b.moves[j].line = l}
           f == [i \in D |-> b.moves[i].quantity]
           n == Len(b.moves)
<1>1. n \in Nat /\ DOMAIN b.moves = 1..n /\ \A i \in DOMAIN b.moves : b.moves[i] \in AnyMove
  BY LinesAre
<1>2. \A i \in D : f[i] \in Nat
  BY <1>1, MoveIs
<1>3. D \in SUBSET (1..n) /\ IsFiniteSet(1..n)
  BY <1>1, FS_Interval
<1>4. DOMAIN f = D
  OBVIOUS
<1>5. MovedOf(b.moves, l) = Total(f)
  BY DEF MovedOf
<1> HIDE DEF D, f, n
<1>6. IsFiniteSet(D)
  BY <1>3, FS_Subset
<1> QED
  BY <1>2, <1>4, <1>5, <1>6, TotalTyped

\* The bodies of recorded documents are what counts.
LEMMA SameRecords ==
    ASSUME NEW C, NEW B, NEW D, \A x \in C : D[x] = B[x]
    PROVE  \A ops, o, p : MovedSum(C, D, ops, o, p) = MovedSum(C, B, ops, o, p)
<1> SUFFICES ASSUME NEW ops, NEW o, NEW p PROVE MovedSum(C, D, ops, o, p) = MovedSum(C, B, ops, o, p)
  OBVIOUS
<1>1. KeysOf(C, D, ops, o) = KeysOf(C, B, ops, o)
  BY DEF KeysOf
<1>2. \A x \in KeysOf(C, B, ops, o) : D[x] = B[x]
  BY DEF KeysOf
<1>3. MovedBy(C, D, ops, o, p) = MovedBy(C, B, ops, o, p)
  BY <1>1, <1>2 DEF MovedBy
<1> QED
  BY <1>3 DEF MovedSum

LEMMA SumsStay ==
    ASSUME OrdersAddUp, UNCHANGED <<processed, allocated, recorded>>, \A x \in recorded : body'[x] = body[x]
    PROVE  OrdersAddUp'
<1>1. \A ops, o, p : MovedSum(recorded, body', ops, o, p) = MovedSum(recorded, body, ops, o, p)
  BY SameRecords
<1>2. AddsUp
  BY AddsUpIs
<1>3. processed' = processed /\ allocated' = allocated /\ recorded' = recorded
  OBVIOUS
<1>4. ASSUME NEW o \in Order, NEW p \in Product
      PROVE  processed'[o][p] = Before(o, p) + MovedSum(recorded', body', Fulfils, o, p)
  <2>1. processed[o][p] = Before(o, p) + MovedSum(recorded, body, Fulfils, o, p)
    BY <1>2, Zenon DEF AddsUp
  <2>2. MovedSum(recorded', body', Fulfils, o, p) = MovedSum(recorded, body, Fulfils, o, p)
    BY <1>1, <1>3, Zenon
  <2> QED
    BY <1>3, <2>1, <2>2, Zenon
<1>5. ASSUME NEW o \in Sales, NEW p \in Product
      PROVE  allocated'[o][p] = Before(o, p) + MovedSum(recorded', body', Allocates, o, p)
  <2>1. allocated[o][p] = Before(o, p) + MovedSum(recorded, body, Allocates, o, p)
    BY <1>2, Zenon DEF AddsUp
  <2>2. MovedSum(recorded', body', Allocates, o, p) = MovedSum(recorded, body, Allocates, o, p)
    BY <1>1, <1>3, Zenon
  <2> QED
    BY <1>3, <2>1, <2>2, Zenon
<1> QED
  BY <1>4, <1>5, AddsUpNext, Zenon

\* A document that is recorded adds what it moved to the lines of its order.
LEMMA RecordAdded ==
    ASSUME NEW C, IsFiniteSet(C), NEW B, NEW k, k \notin C,
           \A x \in C \cup {k} : B[x] \in Documented, NEW ops, NEW o, NEW p
    PROVE  /\ MovedSum(C \cup {k}, B, ops, o, p) = MovedSum(C, B, ops, o, p)
                + (IF B[k].op \in ops /\ B[k].of = o THEN MovedOf(B[k].moves, <<o, p>>) ELSE 0)
           /\ MovedSum(C, B, ops, o, p) \in Nat
<1> DEFINE f == MovedBy(C, B, ops, o, p)
           g == MovedBy(C \cup {k}, B, ops, o, p)
           S == KeysOf(C, B, ops, o)
           T == KeysOf(C \cup {k}, B, ops, o)
<1>1. S \in SUBSET C /\ k \notin S
  BY DEF KeysOf
<1>2. IsFiniteSet(S)
  BY <1>1, FS_Subset
<1>3. \A x \in C \cup {k} : MovedOf(B[x].moves, <<o, p>>) \in Nat
  BY MovedTyped
<1>4. /\ DOMAIN f = S /\ \A x \in S : f[x] = MovedOf(B[x].moves, <<o, p>>)
      /\ DOMAIN g = T /\ \A x \in T : g[x] = MovedOf(B[x].moves, <<o, p>>)
  BY DEF MovedBy
<1>5. \A x \in DOMAIN f : f[x] \in Nat
  BY <1>1, <1>3, <1>4
<1>6. CASE B[k].op \in ops /\ B[k].of = o
  <2>1. T = S \cup {k}
    BY <1>6 DEF KeysOf
  <2>2. g[k] = MovedOf(B[k].moves, <<o, p>>) /\ g[k] \in Nat
    BY <1>3, <1>4, <2>1
  <2>3. \A y \in DOMAIN f : g[y] = f[y] /\ f[y] \in Nat
    BY <1>4, <1>5, <2>1
  <2> HIDE DEF f, g, S, T
  <2>4. Total(g) = Total(f) + g[k] /\ Total(f) \in Nat
    BY <1>1, <1>2, <1>4, <2>1, <2>2, <2>3, TotalGains
  <2> QED
    BY <1>6, <2>2, <2>4 DEF MovedSum, f, g
<1>7. CASE ~(B[k].op \in ops /\ B[k].of = o)
  <2>1. T = S
    BY <1>7 DEF KeysOf
  <2>2. g = f
    BY <2>1 DEF MovedBy
  <2> HIDE DEF f, g, S, T
  <2>3. Total(f) \in Nat
    BY <1>2, <1>4, <1>5, TotalTyped
  <2>4. MovedSum(C \cup {k}, B, ops, o, p) = MovedSum(C, B, ops, o, p)
    BY <2>2 DEF MovedSum, f, g
  <2>5. MovedSum(C, B, ops, o, p) \in Nat
    BY <2>3 DEF MovedSum, f
  <2> QED
    BY <1>7, <2>4, <2>5
<1> QED
  BY <1>6, <1>7

LEMMA RecordedAre ==
    ASSUME DocumentInv
    PROVE  /\ IsFiniteSet(recorded)
           /\ \A k \in recorded : k \in RequestKey /\ body[k] \in Documented
           /\ running # Idle =>
                 /\ running \in [key : RequestKey, at : Nat]
                 /\ running.key \in RequestKey /\ running.at \in Nat /\ running.key \notin recorded
                 /\ Doc \in Documented /\ Len(Doc.seen) = Len(Doc.moves)
                 /\ Len(Doc.moves) \in Nat /\ DOMAIN Doc.moves = 1..Len(Doc.moves)
<1>1. IsFiniteSet(recorded)
  BY MemoryAssumption, FS_Subset DEF DocumentInv
<1>2. \A k \in recorded : k \in RequestKey /\ body[k] \in Documented
  BY DEF DocumentInv
<1>3. ASSUME running # Idle
      PROVE  /\ running \in [key : RequestKey, at : Nat]
             /\ running.key \in RequestKey /\ running.at \in Nat /\ running.key \notin recorded
             /\ Doc \in Documented /\ Len(Doc.seen) = Len(Doc.moves)
  BY <1>3 DEF DocumentInv, Doc
<1> QED
  BY <1>1, <1>2, <1>3, LinesAre

-----------------------------------------------------------------------------
(* A document begins. *)

LEMMA BeginKeepsDocuments ==
    ASSUME DocumentInv, NEW k \in RequestKey, NEW b, Begin(k, b), Sendable(b)
    PROVE  DocumentInv'
<1>1. /\ k \notin recorded /\ body' = [body EXCEPT ![k] = b] /\ running' = [key |-> k, at |-> 1]
      /\ recorded' = recorded /\ posted' = posted
  BY DEF Begin
<1>2. b \in Documented /\ b # NoBody /\ Len(b.seen) = Len(b.moves) /\ Len(b.moves) \in Nat
  BY DocumentIs, LinesAre DEF Sendable
<1>3. /\ body' \in [RequestKey -> Documented \cup {NoBody}]
      /\ body'[k] = b /\ \A x \in RequestKey \ {k} : body'[x] = body[x]
  BY <1>1, <1>2 DEF DocumentInv
<1>4. running'.key = k /\ running'.at = 1 /\ running' \in [key : RequestKey, at : Nat]
  BY <1>1
<1>5. \A x \in recorded : x \in RequestKey \ {k} /\ body'[x] = body[x]
  BY <1>1, <1>3 DEF DocumentInv
<1>6. \A x \in RequestKey : body'[x] # NoBody => Len(body'[x].seen) = Len(body'[x].moves)
  BY <1>2, <1>3 DEF DocumentInv
<1>7. \A x \in recorded' : body'[x] # NoBody /\ \A i \in DOMAIN body'[x].moves : 
                               /\ posted'[body'[x].moves[i].sub] # NoMove
                               /\ SameCommand(posted'[body'[x].moves[i].sub].move, body'[x].moves[i])
  BY <1>1, <1>5 DEF DocumentInv, Made
<1>8. Doc' = b
  BY <1>3, <1>4 DEF Doc
<1>9. 1 \in 1..(Len(b.moves) + 1) /\ 1..(1 - 1) = {}
  BY <1>2
<1>10. (\A x \in recorded : body[x] # NoBody /\ \A i \in DOMAIN body[x].moves : Made(body[x].moves[i]))'
  BY <1>7 DEF Made
<1>11. running'.at \in 1..(Len(Doc'.moves) + 1) /\ 1..(running'.at - 1) = {}
  BY <1>2, <1>4, <1>8
<1>12. posted' \in [SubKey -> [move : AnyMove, seen : Nat] \cup {NoMove}] /\ recorded' \subseteq RequestKey
  BY <1>1 DEF DocumentInv
<1> QED
  BY <1>1, <1>2, <1>3, <1>4, <1>6, <1>8, <1>10, <1>11, <1>12 DEF DocumentInv

LEMMA BeginKeeps ==
    ASSUME Inv, NEW k \in RequestKey, NEW b, Begin(k, b), Sendable(b)
    PROVE  Inv'
<1>1. LedgerInv /\ WorkflowInv /\ DocumentInv /\ ReturnsSent /\ QuantityInv
  BY DEF Inv
<1>2. /\ UNCHANGED ledgerVars /\ UNCHANGED <<orderState, processed, allocated, rma, task, recorded>>
      /\ k \notin recorded /\ Admissible(b)
      /\ body' = [body EXCEPT ![k] = b] /\ running' = [key |-> k, at |-> 1]
  BY DEF Begin
<1>3. LedgerInv' /\ WorkflowInv'
  BY <1>1, <1>2, LedgerFrame DEF WorkflowInv
<1>4. DocumentInv'
  BY <1>1, BeginKeepsDocuments
<1>5. body'[k] = b /\ \A x \in RequestKey \ {k} : body'[x] = body[x]
  BY <1>1, <1>2 DEF DocumentInv
<1>6. ReturnsSent'
  BY <1>1, <1>2, <1>5 DEF ReturnsSent, Sendable
<1>7. OrdersAddUp'
  <2>1. \A x \in recorded : body'[x] = body[x]
    BY <1>1, <1>2, <1>5 DEF DocumentInv
  <2>2. OrdersAddUp
    BY <1>1 DEF QuantityInv
  <2> QED
    BY <1>2, <2>1, <2>2, SumsStay
<1>8. AllocationFits'
  <2>1. Doc' = b
    BY <1>2, <1>5 DEF Doc
  <2>2. ASSUME b.op = "allocation"
        PROVE  \A p \in Product : MovedOf(b.moves, <<b.of, p>>) > 0 =>
                  allocated[b.of][p] + MovedOf(b.moves, <<b.of, p>>) <= Ordered[b.of][p]
    BY <1>2, <2>2 DEF Admissible
  <2> QED
    BY <1>2, <2>1, <2>2 DEF AllocationFits
<1>9. QuantityInv'
  BY <1>1, <1>2, <1>7, <1>8 DEF QuantityInv
<1> QED
  BY <1>3, <1>4, <1>6, <1>9 DEF Inv

-----------------------------------------------------------------------------
(* A document runs: the line it is at is one of its own. *)

LEMMA LineRunning ==
    ASSUME DocumentInv, AtMove
    PROVE  /\ running # Idle /\ running.at \in 1..Len(Doc.moves)
           /\ ThisMove \in AnyMove /\ ThisSeen \in Nat
           /\ Doc.op \in {"receipt", "allocation", "shipment", "return"}
           /\ Doc.op = "shipment" => ThisMove.reservation \in SubKey
<1>1. running # Idle /\ running.at \in DOMAIN Doc.moves
  BY DEF AtMove, Resting
<1>2. /\ Doc \in Documented /\ Len(Doc.seen) = Len(Doc.moves)
      /\ running.at \in 1..Len(Doc.moves) /\ running.at \in DOMAIN Doc.moves
  BY <1>1, RecordedAre
<1>3. /\ Len(Doc.moves) \in Nat /\ Len(Doc.seen) \in Nat /\ DOMAIN Doc.seen = 1..Len(Doc.seen)
      /\ ThisMove \in AnyMove /\ \A i \in DOMAIN Doc.seen : Doc.seen[i] \in Nat
  BY <1>2, LinesAre DEF ThisMove
<1>4. ThisSeen \in Nat
  BY <1>2, <1>3 DEF ThisSeen
<1>5. Doc.op \in {"receipt", "allocation", "shipment", "return"}
  BY <1>2, DocumentIs
<1>6. ASSUME Doc.op = "shipment" PROVE ThisMove.reservation \in SubKey
  <2>1. Doc.moves \in Seq(ShippedMove)
    BY <1>2, <1>6, DocumentIs
  <2>2. Doc.moves[running.at] \in ShippedMove
    BY <1>2, <2>1
  <2> QED
    BY <2>2 DEF ThisMove, ShippedMove
<1> QED
  BY <1>1, <1>2, <1>3, <1>4, <1>5, <1>6

\* The document goes to its next line, or stops.
Moves == running' = Idle \/ NextLine

LEMMA RunsOn ==
    ASSUME DocumentInv, running # Idle, UNCHANGED body, NextLine
    PROVE  /\ running' \in [key : RequestKey, at : Nat] /\ running'.key = running.key
           /\ running'.at = running.at + 1 /\ Doc' = Doc
<1>1. running \in [key : RequestKey, at : Nat]
  BY DEF DocumentInv
<1> QED
  BY <1>1 DEF NextLine, Doc

\* A line that is made, now or before, and nothing else forgotten.
LEMMA LineKeepsDocuments ==
    ASSUME DocumentInv, AtMove, UNCHANGED <<body, recorded>>, Moves,
           posted' \in [SubKey -> [move : AnyMove, seen : Nat] \cup {NoMove}],
           \A s \in SubKey : posted[s] # NoMove => posted'[s] = posted[s],
           posted'[ThisMove.sub] # NoMove, SameCommand(posted'[ThisMove.sub].move, ThisMove)
    PROVE  DocumentInv'
<1> DEFINE Kept(m) == posted'[m.sub] # NoMove /\ SameCommand(posted'[m.sub].move, m)
<1>1. \A m \in AnyMove : Made(m) => Kept(m)
  BY MoveIs DEF Made
<1>2. ASSUME NEW k \in recorded
      PROVE  body[k] # NoBody /\ \A i \in DOMAIN body[k].moves : Kept(body[k].moves[i])
  <2>1. body[k] \in Documented /\ \A i \in DOMAIN body[k].moves : body[k].moves[i] \in AnyMove
    BY RecordedAre, LinesAre
  <2> HIDE DEF Kept
  <2> QED
    BY <1>1, <2>1 DEF DocumentInv
<1>3. (\A k \in recorded : body[k] # NoBody /\ \A i \in DOMAIN body[k].moves : Made(body[k].moves[i]))'
  BY <1>2 DEF Made
<1>4. CASE running' = Idle
  BY <1>3, <1>4 DEF DocumentInv
<1>5. CASE NextLine
  <2>1. /\ running # Idle /\ running.at \in 1..Len(Doc.moves) /\ Doc \in Documented
        /\ Len(Doc.moves) \in Nat /\ running.key \notin recorded /\ DOMAIN Doc.moves = 1..Len(Doc.moves)
        /\ \A i \in 1..(running.at - 1) : Made(Doc.moves[i])
    BY LineRunning, RecordedAre DEF DocumentInv
  <2>2. /\ running' \in [key : RequestKey, at : Nat] /\ running'.key = running.key
        /\ running'.at = running.at + 1 /\ Doc' = Doc
    BY <1>5, <2>1, RunsOn
  <2>3. running'.at \in 1..(Len(Doc'.moves) + 1)
    BY <2>1, <2>2
  <2>4. ASSUME NEW i \in 1..(running'.at - 1) PROVE Kept(Doc'.moves[i])
    <3>1. CASE i = running.at
      BY <2>2, <3>1 DEF ThisMove
    <3>2. CASE i # running.at
      <4>1. i \in 1..(running.at - 1) /\ i \in 1..Len(Doc.moves)
        BY <2>1, <2>2, <3>2
      <4>2. Doc.moves[i] \in AnyMove /\ Made(Doc.moves[i])
        BY <2>1, <4>1, LinesAre
      <4> HIDE DEF Kept
      <4> QED
        BY <1>1, <2>2, <4>2
    <3> QED
      BY <3>1, <3>2
  <2>5. (\A i \in 1..(running.at - 1) : Made(Doc.moves[i]))'
    BY <2>4 DEF Made
  <2>6. running'.key \notin recorded' /\ Doc' # NoBody
    BY <2>1, <2>2, DocumentIs
  <2> QED
    BY <1>3, <2>2, <2>3, <2>5, <2>6 DEF DocumentInv
<1> QED
  BY <1>4, <1>5 DEF Moves

LEMMA LineKeepsQuantities ==
    ASSUME DocumentInv, QuantityInv, running # Idle, UNCHANGED <<processed, allocated, body, recorded>>, Moves
    PROVE  QuantityInv'
<1>1. OrdersAddUp'
  BY DEF QuantityInv, OrdersAddUp, FulfilledBy, AllocatedBy, Recorded
<1>2. AllocationFits'
  <2>1. CASE running' = Idle
    BY <2>1 DEF AllocationFits
  <2>2. CASE NextLine
    <3>1. Doc' = Doc
      BY <2>2, RunsOn
    <3>2. AllocationFits
      BY DEF QuantityInv
    <3> QED
      BY <3>1, <3>2 DEF AllocationFits
  <2> QED
    BY <2>1, <2>2 DEF Moves
<1> QED
  BY <1>1, <1>2 DEF QuantityInv

-----------------------------------------------------------------------------
(* The lines of a document. *)

LEMMA PostMoveKeeps ==
    ASSUME LedgerInv, DocumentInv, AtMove, PostMove
    PROVE  LedgerInv'
<1> DEFINE m == ThisMove
<1>1. /\ m \in AnyMove /\ Doc.op \in {"receipt", "allocation", "shipment", "return"}
      /\ Doc.op = "shipment" => m.reservation \in SubKey
  BY LineRunning
<1>2. m.sub \in SubKey /\ m.sub \in Key /\ m.position \in Position /\ m.quantity \in Positive /\ m.quantity \in Int
  BY <1>1, MoveIs, KeysAre
<1>3. CASE Doc.op \in {"receipt", "return"}
  <2>1. Adjust(m.sub, m.position, m.quantity, FALSE)
    BY <1>3 DEF PostMove
  <2> QED
    BY <1>2, <2>1, AdjustKeeps
<1>4. CASE Doc.op = "allocation"
  <2>1. Reserve(m.sub, m.position, m.quantity)
    BY <1>4 DEF PostMove
  <2> QED
    BY <1>2, <2>1, ReserveKeeps
<1>5. CASE Doc.op = "shipment"
  <2>1. ConsumeReservation(m.sub, m.reservation)
    BY <1>5 DEF PostMove
  <2> QED
    BY <1>1, <1>2, <1>5, <2>1, ConsumeKeeps
<1> QED
  BY <1>1, <1>3, <1>4, <1>5

LEMMA PostLineKeeps ==
    ASSUME Inv, PostLine
    PROVE  Inv'
<1>1. LedgerInv /\ WorkflowInv /\ DocumentInv /\ ReturnsSent /\ QuantityInv
  BY DEF Inv
<1>2. /\ AtMove /\ PostMove /\ posted[ThisMove.sub] = NoMove /\ Moves
      /\ posted' = [posted EXCEPT ![ThisMove.sub] = [move |-> ThisMove, seen |-> ThisSeen]]
      /\ UNCHANGED <<orderState, processed, allocated, rma, task, body, recorded>>
  BY DEF PostLine, Postable, Moves
<1>3. running # Idle /\ ThisMove \in AnyMove /\ ThisSeen \in Nat /\ ThisMove.sub \in SubKey
  BY <1>1, <1>2, LineRunning, MoveIs
<1>4. LedgerInv'
  BY <1>1, <1>2, PostMoveKeeps
<1>5. WorkflowInv'
  BY <1>1, <1>2 DEF WorkflowInv
<1>6. DocumentInv'
  <2> DEFINE m == ThisMove
             row == [move |-> m, seen |-> ThisSeen]
  <2>1. row \in [move : AnyMove, seen : Nat] /\ row.move = m /\ row # NoMove
    BY <1>3 DEF NoMove
  <2>2. posted \in [SubKey -> [move : AnyMove, seen : Nat] \cup {NoMove}] /\ m.sub \in SubKey
    BY <1>1, <1>3 DEF DocumentInv
  <2>3. posted' = [posted EXCEPT ![m.sub] = row] /\ posted[m.sub] = NoMove
    BY <1>2
  <2> HIDE DEF row, m
  <2>4. /\ posted' \in [SubKey -> [move : AnyMove, seen : Nat] \cup {NoMove}]
        /\ \A s \in SubKey : posted[s] # NoMove => posted'[s] = posted[s]
        /\ posted'[m.sub] = row
    BY <2>1, <2>2, <2>3
  <2>5. posted'[m.sub] # NoMove /\ posted'[m.sub].move = m
    BY <2>1, <2>4
  <2>6. SameCommand(posted'[m.sub].move, m)
    BY <1>3, <2>5, SameAsItself DEF m
  <2> QED
    BY <1>1, <1>2, <2>4, <2>5, <2>6, LineKeepsDocuments DEF m
<1>7. ReturnsSent'
  BY <1>1, <1>2 DEF ReturnsSent
<1>8. QuantityInv'
  BY <1>1, <1>2, <1>3, LineKeepsQuantities
<1> QED
  BY <1>4, <1>5, <1>6, <1>7, <1>8 DEF Inv

LEMMA ReplayLineKeeps ==
    ASSUME Inv, ReplayLine
    PROVE  Inv'
<1>1. LedgerInv /\ WorkflowInv /\ DocumentInv /\ ReturnsSent /\ QuantityInv
  BY DEF Inv
<1>2. /\ AtMove /\ Replays /\ NextLine /\ Moves
      /\ UNCHANGED ledgerVars /\ UNCHANGED <<orderState, processed, allocated, rma, task, body, recorded, posted>>
  BY DEF ReplayLine, Moves
<1>3. running # Idle
  BY <1>1, <1>2, LineRunning
<1>4. posted[ThisMove.sub] # NoMove /\ SameCommand(posted[ThisMove.sub].move, ThisMove)
  BY <1>2 DEF Replays
<1>5. DocumentInv'
  <2>1. posted' \in [SubKey -> [move : AnyMove, seen : Nat] \cup {NoMove}]
    BY <1>1, <1>2 DEF DocumentInv
  <2> QED
    BY <1>1, <1>2, <1>4, <2>1, LineKeepsDocuments
<1>6. QuantityInv'
  BY <1>1, <1>2, <1>3, LineKeepsQuantities
<1>7. LedgerInv'
  BY <1>1, <1>2, LedgerFrame
<1> QED
  BY <1>1, <1>2, <1>5, <1>6, <1>7 DEF Inv, WorkflowInv, ReturnsSent

\* A document that stops may be forgotten, if it is not recorded.
LEMMA StopKeeps ==
    ASSUME Inv, running # Idle, running' = Idle,
           body' \in {body, [body EXCEPT ![running.key] = NoBody]},
           UNCHANGED ledgerVars, UNCHANGED <<orderState, processed, allocated, rma, task, recorded, posted>>
    PROVE  Inv'
<1>1. LedgerInv /\ WorkflowInv /\ DocumentInv /\ ReturnsSent /\ QuantityInv
  BY DEF Inv
<1>2. /\ running.key \in RequestKey \ recorded /\ recorded \subseteq RequestKey
      /\ body \in [RequestKey -> Documented \cup {NoBody}]
  BY <1>1, RecordedAre DEF DocumentInv
<1>3. /\ body' \in [RequestKey -> Documented \cup {NoBody}]
      /\ \A k \in RequestKey : body'[k] = body[k] \/ body'[k] = NoBody
      /\ \A k \in recorded : body'[k] = body[k]
  BY <1>2
<1>4. DocumentInv'
  <2>1. \A k \in RequestKey : body'[k] # NoBody => Len(body'[k].seen) = Len(body'[k].moves)
    BY <1>1, <1>3 DEF DocumentInv
  <2>2. (\A k \in recorded : body[k] # NoBody /\ \A i \in DOMAIN body[k].moves : Made(body[k].moves[i]))'
    BY <1>1, <1>3 DEF DocumentInv, Made
  <2> QED
    BY <1>1, <1>3, <2>1, <2>2 DEF DocumentInv
<1>5. ReturnsSent'
  BY <1>1, <1>3 DEF ReturnsSent, NoBody
<1>6. OrdersAddUp'
  <2>1. OrdersAddUp
    BY <1>1 DEF QuantityInv
  <2> QED
    BY <1>3, <2>1, SumsStay
<1>7. QuantityInv'
  BY <1>1, <1>6 DEF QuantityInv, AllocationFits
<1>8. LedgerInv' /\ WorkflowInv'
  BY <1>1, LedgerFrame DEF WorkflowInv
<1> QED
  BY <1>4, <1>5, <1>7, <1>8 DEF Inv

LEMMA RaisesKeep ==
    ASSUME Inv, LineRaises \/ FinishRaises
    PROVE  Inv'
<1>1. CASE LineRaises
  <2>1. running # Idle /\ running' = Idle /\ body' \in {body, [body EXCEPT ![running.key] = NoBody]}
    BY <1>1 DEF LineRaises, AtMove, Resting
  <2>2. UNCHANGED ledgerVars /\ UNCHANGED <<orderState, processed, allocated, rma, task, recorded, posted>>
    BY <1>1 DEF LineRaises
  <2> QED
    BY <2>1, <2>2, StopKeeps
<1>2. CASE FinishRaises
  <2>1. running # Idle /\ running' = Idle /\ body' \in {body, [body EXCEPT ![running.key] = NoBody]}
    BY <1>2 DEF FinishRaises, AllLines, Resting
  <2>2. UNCHANGED ledgerVars /\ UNCHANGED <<orderState, processed, allocated, rma, task, recorded, posted>>
    BY <1>2 DEF FinishRaises
  <2> QED
    BY <2>1, <2>2, StopKeeps
<1> QED
  BY <1>1, <1>2

-----------------------------------------------------------------------------
(* A document is recorded. *)

LEMMA BeforeTyped ==
    \A o \in Order, p \in Product : Before(o, p) \in Nat /\ Before(o, p) <= Ordered[o][p] /\ Ordered[o][p] \in Nat
BY MemoryAssumption DEF Before

LEMMA FinishKeepsDocuments ==
    ASSUME DocumentInv, Finish
    PROVE  DocumentInv'
<1>1. /\ running # Idle /\ running.at = Len(Doc.moves) + 1
      /\ recorded' = recorded \cup {running.key} /\ running' = Idle /\ UNCHANGED <<body, posted>>
  BY DEF Finish, AllLines, Resting
<1>2. /\ running.key \in RequestKey /\ Doc # NoBody
      /\ Len(Doc.moves) \in Nat /\ DOMAIN Doc.moves = 1..Len(Doc.moves)
      /\ \A i \in 1..(running.at - 1) : Made(Doc.moves[i])
  BY <1>1, RecordedAre DEF DocumentInv
<1>3. \A i \in DOMAIN Doc.moves : Made(Doc.moves[i])
  BY <1>1, <1>2
<1>4. \A k \in recorded \cup {running.key} : body[k] # NoBody /\ \A i \in DOMAIN body[k].moves : Made(body[k].moves[i])
  BY <1>2, <1>3 DEF DocumentInv, Doc
<1>5. (\A k \in recorded : body[k] # NoBody /\ \A i \in DOMAIN body[k].moves : Made(body[k].moves[i]))'
  BY <1>1, <1>4 DEF Made
<1>6. recorded' \subseteq RequestKey
  BY <1>1, <1>2 DEF DocumentInv
<1> QED
  BY <1>1, <1>5, <1>6 DEF DocumentInv

LEMMA FinishKeepsWorkflows ==
    ASSUME WorkflowInv, DocumentInv, ReturnsSent, Finish
    PROVE  WorkflowInv' /\ ReturnsKept
<1>1. running # Idle /\ Finishes /\ UNCHANGED task
  BY DEF Finish, AllLines, Resting
<1>2. running.key \in RequestKey /\ Doc \in Documented
  BY <1>1, RecordedAre
<1>3. CASE Doc.op = "return"
  <2>1. rma' = [rma EXCEPT ![Doc.of].state = "received"] /\ UNCHANGED <<orderState, task>>
    BY <1>1, <1>3 DEF Finish, Target
  <2>2. Doc.of \in Return /\ rma[Doc.of] # NoReturn
    BY <1>2, <1>3, DocumentIs DEF ReturnsSent, Doc
  <2>3. "received" \in DOMAIN ReturnWorkflow /\ "received" # "none"
    BY DEF ReturnWorkflow
  <2> QED
    BY <2>1, <2>2, <2>3, ReturnBecomes
<1>4. CASE Doc.op # "return"
  <2>1. /\ orderState' = [orderState EXCEPT ![Doc.of] = Target] /\ UNCHANGED <<rma, task>>
        /\ OrderMayBecome(Doc.of, Target)
    BY <1>1, <1>4 DEF Finish, Finishes
  <2>2. Doc.of \in Order
    BY <1>2, <1>4, DocumentIs DEF Order
  <2> HIDE DEF Target
  <2>3. /\ Doc.of \in Purchase => Target \in DOMAIN PurchaseWorkflow
        /\ Doc.of \in Sales => Target \in DOMAIN SalesWorkflow
    BY <2>1, <2>2, MayBecomeTyped
  <2> QED
    BY <2>1, <2>2, <2>3, OrderBecomes
<1> QED
  BY <1>3, <1>4

LEMMA FinishKeepsQuantities ==
    ASSUME DocumentInv, QuantityInv, Finish
    PROVE  QuantityInv'
<1> DEFINE k == running.key
           moved(o, p) == MovedOf(Doc.moves, <<o, p>>)
<1>1. /\ running # Idle /\ recorded' = recorded \cup {k} /\ running' = Idle /\ UNCHANGED body
      /\ processed' = IF Doc.op \in Fulfils
                        THEN [processed EXCEPT ![Doc.of] = NextProcessed(Doc.of)] ELSE processed
      /\ allocated' = IF Doc.op = "allocation"
                        THEN [allocated EXCEPT ![Doc.of] = NextAllocated(Doc.of)] ELSE allocated
  BY DEF Finish, AllLines, Resting, Fulfils
<1>2. /\ IsFiniteSet(recorded) /\ k \notin recorded /\ k \in RequestKey
      /\ Doc \in Documented /\ Doc = body[k] /\ \A x \in recorded \cup {k} : body[x] \in Documented
  BY <1>1, RecordedAre DEF Doc
<1>3. \A o, p : moved(o, p) \in Nat
  BY <1>2, MovedTyped
<1>4. \A ops, o, p :
        /\ MovedSum(recorded', body', ops, o, p)
             = MovedSum(recorded, body, ops, o, p) + (IF Doc.op \in ops /\ Doc.of = o THEN moved(o, p) ELSE 0)
        /\ MovedSum(recorded, body, ops, o, p) \in Nat
  <2> SUFFICES ASSUME NEW ops, NEW o, NEW p
               PROVE  /\ MovedSum(recorded', body', ops, o, p) = MovedSum(recorded, body, ops, o, p)
                           + (IF Doc.op \in ops /\ Doc.of = o THEN moved(o, p) ELSE 0)
                      /\ MovedSum(recorded, body, ops, o, p) \in Nat
    OBVIOUS
  <2>1. /\ MovedSum(recorded \cup {k}, body, ops, o, p) = MovedSum(recorded, body, ops, o, p)
             + (IF body[k].op \in ops /\ body[k].of = o THEN MovedOf(body[k].moves, <<o, p>>) ELSE 0)
        /\ MovedSum(recorded, body, ops, o, p) \in Nat
    <3> HIDE DEF k
    <3> QED
      BY <1>2, RecordAdded
  <2> QED
    BY <1>1, <1>2, <2>1, Zenon
<1>5. /\ \A o \in Order, p \in Product : processed[o][p] = Before(o, p) + MovedSum(recorded, body, Fulfils, o, p)
      /\ \A o \in Sales, p \in Product : allocated[o][p] = Before(o, p) + MovedSum(recorded, body, Allocates, o, p)
  BY AddsUpIs DEF QuantityInv, AddsUp
<1>6. /\ processed \in [Order -> [Product -> Nat]] /\ allocated \in [Sales -> [Product -> Nat]]
      /\ \A o \in Sales, p \in Product : allocated[o][p] <= Ordered[o][p]
      /\ Doc.op \in Fulfils => Doc.of \in Order
      /\ Doc.op = "allocation" => Doc.of \in Sales
      /\ Sales \subseteq Order
  BY <1>2, DocumentIs DEF QuantityInv, Fulfils, Order
<1>7. \A o \in Order, p \in Product :
        processed'[o][p] = processed[o][p] + (IF Doc.op \in Fulfils /\ Doc.of = o THEN moved(o, p) ELSE 0)
  <2> HIDE DEF moved
  <2>1. Doc.op \in Fulfils => \A p \in Product : NextProcessed(Doc.of)[p] = processed[Doc.of][p] + moved(Doc.of, p)
    BY DEF NextProcessed, moved
  <2> QED
    BY <1>1, <1>3, <1>6, <2>1
<1>8. \A o \in Sales, p \in Product :
        allocated'[o][p] = allocated[o][p] + (IF Doc.op \in Allocates /\ Doc.of = o THEN moved(o, p) ELSE 0)
  <2> HIDE DEF moved
  <2>1. \A p \in Product : NextAllocated(Doc.of)[p] = allocated[Doc.of][p] + moved(Doc.of, p)
    BY DEF NextAllocated, moved
  <2> QED
    BY <1>1, <1>3, <1>6, <2>1 DEF Allocates
<1>9. processed' \in [Order -> [Product -> Nat]] /\ allocated' \in [Sales -> [Product -> Nat]]
  <2> HIDE DEF moved
  <2>1. \A o \in Order : NextProcessed(o) \in [Product -> Nat]
    BY <1>3, <1>6 DEF NextProcessed, moved
  <2>2. \A o \in Sales : NextAllocated(o) \in [Product -> Nat]
    BY <1>3, <1>6 DEF NextAllocated, moved
  <2> QED
    BY <1>1, <1>6, <2>1, <2>2
<1>10. \A o \in Sales, p \in Product : allocated'[o][p] <= Ordered[o][p]
  <2> SUFFICES ASSUME NEW o \in Sales, NEW p \in Product PROVE allocated'[o][p] <= Ordered[o][p]
    OBVIOUS
  <2>1. Doc.op = "allocation" /\ Doc.of = o /\ moved(o, p) > 0 => allocated[o][p] + moved(o, p) <= Ordered[o][p]
    BY <1>1 DEF QuantityInv, AllocationFits
  <2> HIDE DEF moved
  <2>2. moved(o, p) \in Nat /\ allocated[o][p] \in Nat /\ Ordered[o][p] \in Nat /\ allocated[o][p] <= Ordered[o][p]
    BY <1>3, <1>6, BeforeTyped
  <2> QED
    BY <1>8, <2>1, <2>2 DEF Allocates
<1>11. OrdersAddUp'
  <2> HIDE DEF moved
  <2>1. ASSUME NEW o \in Order, NEW p \in Product
        PROVE  processed'[o][p] = Before(o, p) + MovedSum(recorded', body', Fulfils, o, p)
    <3>1. /\ MovedSum(recorded, body, Fulfils, o, p) \in Nat /\ Before(o, p) \in Nat /\ moved(o, p) \in Nat
          /\ processed[o][p] = Before(o, p) + MovedSum(recorded, body, Fulfils, o, p)
          /\ MovedSum(recorded', body', Fulfils, o, p) = MovedSum(recorded, body, Fulfils, o, p)
               + (IF Doc.op \in Fulfils /\ Doc.of = o THEN moved(o, p) ELSE 0)
      BY <1>3, <1>4, <1>5, BeforeTyped
    <3> QED
      BY <1>7, <3>1
  <2>2. ASSUME NEW o \in Sales, NEW p \in Product
        PROVE  allocated'[o][p] = Before(o, p) + MovedSum(recorded', body', Allocates, o, p)
    <3>1. /\ MovedSum(recorded, body, Allocates, o, p) \in Nat /\ Before(o, p) \in Nat /\ moved(o, p) \in Nat
          /\ allocated[o][p] = Before(o, p) + MovedSum(recorded, body, Allocates, o, p)
          /\ MovedSum(recorded', body', Allocates, o, p) = MovedSum(recorded, body, Allocates, o, p)
               + (IF Doc.op \in Allocates /\ Doc.of = o THEN moved(o, p) ELSE 0)
      BY <1>3, <1>4, <1>5, <1>6, BeforeTyped
    <3> QED
      BY <1>8, <3>1
  <2> QED
    BY <2>1, <2>2, AddsUpNext
<1>12. AllocationFits'
  BY <1>1 DEF AllocationFits
<1> QED
  BY <1>9, <1>10, <1>11, <1>12 DEF QuantityInv

LEMMA FinishKeeps ==
    ASSUME Inv, Finish
    PROVE  Inv'
<1>1. LedgerInv /\ WorkflowInv /\ DocumentInv /\ ReturnsSent /\ QuantityInv
  BY DEF Inv
<1>2. UNCHANGED ledgerVars /\ UNCHANGED body
  BY DEF Finish
<1>3. LedgerInv'
  BY <1>1, <1>2, LedgerFrame
<1>4. WorkflowInv' /\ ReturnsKept
  BY <1>1, FinishKeepsWorkflows
<1>5. DocumentInv'
  BY <1>1, FinishKeepsDocuments
<1>6. ReturnsSent'
  BY <1>1, <1>2, <1>4, ReturnsFrame
<1>7. QuantityInv'
  BY <1>1, FinishKeepsQuantities
<1> QED
  BY <1>3, <1>4, <1>5, <1>6, <1>7 DEF Inv

-----------------------------------------------------------------------------
(* The invariant, and what follows from it. *)

LEMMA InitInv == Init => Inv
<1> SUFFICES ASSUME Init PROVE Inv
  OBVIOUS
<1>1. LedgerInv
  <2>1. LedgerTyped /\ KeysFresh
    BY MemoryAssumption DEF Init, LedgerTyped, KeysFresh
  <2>2. ASSUME NEW p \in Position PROVE HeldBy(reservation, p) = 0
    <3>1. ActiveIn(reservation, p) = {}
      BY KeysAre DEF ActiveIn, Init, NoReservation
    <3>2. DOMAIN ClaimedIn(reservation, p) = {}
      BY <3>1 DEF ClaimedIn
    <3> QED
      BY <3>2, TotalOfNothing DEF HeldBy
  <2>3. \A p \in Position : reserved[p] = 0
    BY DEF Init
  <2>4. \A p \in Position : reserved[p] = HeldBy(reservation, p)
    BY <2>2, <2>3, Zenon
  <2> QED
    BY <2>1, <2>4, CountedIs DEF LedgerInv
<1>2. WorkflowInv
  <2>1. orderState = Opened
    BY DEF Init
  <2>2. \A o \in Purchase : o \in Order /\ Opened[o] \in DOMAIN PurchaseWorkflow \cup {"none"}
    BY MemoryAssumption DEF Order, PurchaseWorkflow
  <2>3. \A o \in Sales : o \in Order /\ Opened[o] \in DOMAIN SalesWorkflow \cup {"none"}
    BY MemoryAssumption DEF Order, SalesWorkflow, SalesTransitions
  <2>4. Opened \in [Order -> OrderState]
    BY <2>2, <2>3, MemoryAssumption DEF Order, OrderState
  <2>5. rma = [r \in Return |-> NoReturn] /\ task = [t \in TaskKey |-> NoTask]
    BY DEF Init
  <2> QED
    BY <2>1, <2>2, <2>3, <2>4, <2>5 DEF WorkflowInv
<1>3. DocumentInv
  BY DEF Init, DocumentInv
<1>4. ReturnsSent
  BY DEF Init, ReturnsSent, NoBody
<1>5. QuantityInv
  <2>1. /\ processed = [o \in Order |-> [p \in Product |-> Before(o, p)]]
        /\ allocated = [o \in Sales |-> [p \in Product |-> Before(o, p)]]
        /\ recorded = {} /\ running = Idle /\ Sales \subseteq Order
    BY DEF Init, Order
  <2>2. \A ops, o, p : MovedSum(recorded, body, ops, o, p) = 0
    <3> SUFFICES ASSUME NEW ops, NEW o, NEW p PROVE MovedSum(recorded, body, ops, o, p) = 0
      OBVIOUS
    <3>1. DOMAIN MovedBy(recorded, body, ops, o, p) = {}
      BY <2>1 DEF MovedBy, KeysOf
    <3> QED
      BY <3>1, TotalOfNothing DEF MovedSum
  <2>3. \A o \in Order, p \in Product : Before(o, p) \in Nat /\ Before(o, p) <= Ordered[o][p]
    BY BeforeTyped
  <2>4. AddsUp
    BY <2>1, <2>2, <2>3 DEF AddsUp
  <2>5. AllocationFits
    BY <2>1 DEF AllocationFits
  <2>6. processed \in [Order -> [Product -> Nat]] /\ allocated \in [Sales -> [Product -> Nat]]
    BY <2>1, <2>3
  <2>7. \A o \in Sales, p \in Product : allocated[o][p] <= Ordered[o][p]
    BY <2>1, <2>3
  <2> QED
    BY <2>4, <2>5, <2>6, <2>7, AddsUpIs DEF QuantityInv
<1> QED
  BY <1>1, <1>2, <1>3, <1>4, <1>5 DEF Inv

LEMMA RequestsKeep ==
    ASSUME Inv, OrderRequests \/ TaskRequests \/ LedgerRequests
    PROVE  Inv'
<1>1. LedgerInv /\ WorkflowInv /\ DocumentInv /\ ReturnsSent /\ QuantityInv
  BY DEF Inv
<1>2. LedgerInv' /\ WorkflowInv' /\ ReturnsKept
  <2>1. CASE OrderRequests
    BY <1>1, <2>1, RequestsLeave, LedgerFrame, OrderRequestsKeep
  <2>2. CASE TaskRequests
    BY <1>1, <2>2, TaskRequestsKeep
  <2>3. CASE LedgerRequests
    <3>1. LedgerInv'
      BY <1>1, <2>3, LedgerRequestsKeep
    <3>2. UNCHANGED <<orderState, rma, task>>
      BY <2>3, RequestsLeave DEF operationVars
    <3> QED
      BY <1>1, <3>1, <3>2 DEF WorkflowInv, ReturnsKept
  <2> QED
    BY <2>1, <2>2, <2>3
<1>3. UNCHANGED <<processed, allocated, body, recorded, running, posted>>
  BY RequestsLeave DEF operationVars
<1>4. DocumentInv' /\ ReturnsSent' /\ QuantityInv'
  BY <1>1, <1>2, <1>3, DocumentFrame, ReturnsFrame, QuantityFrame
<1> QED
  BY <1>2, <1>4 DEF Inv

LEMMA NextInv == Inv /\ [Next]_vars => Inv'
<1> SUFFICES ASSUME Inv, [Next]_vars PROVE Inv'
  OBVIOUS
<1>1. LedgerTyped /\ WorkflowInv /\ DocumentInv /\ ReturnsSent
  BY DEF Inv, LedgerInv
<1>2. ASSUME NEW k \in RequestKey, Documents(k) \/ Resend(k) PROVE Inv'
  <2>1. PICK b : Begin(k, b) /\ Sendable(b)
    BY <1>1, <1>2, DocumentsSendable, ResendSendable
  <2> QED
    BY <2>1, BeginKeeps
<1>3. CASE UNCHANGED vars
  <2>1. UNCHANGED ledgerVars /\ UNCHANGED operationVars
    BY <1>3 DEF vars
  <2>2. LedgerInv' /\ DocumentInv' /\ QuantityInv'
    BY <2>1, LedgerFrame, DocumentFrame, QuantityFrame DEF Inv, operationVars
  <2> QED
    BY <2>1, <2>2 DEF Inv, WorkflowInv, ReturnsSent, operationVars
<1> QED
  BY <1>2, <1>3, RequestsKeep, PostLineKeeps, ReplayLineKeeps, RaisesKeep, FinishKeeps DEF Next

LEMMA InvHolds == Spec => []Inv
BY InitInv, NextInv, PTL DEF Spec

\* The lines of a document never change, so neither do their keys.
KeysOwned == \A k \in RequestKey : body[k] # NoBody => OwnKeys(k, body[k].moves)

LEMMA KeysOwnedStep == Inv /\ KeysOwned /\ [Next]_vars => KeysOwned'
<1> SUFFICES ASSUME Inv, KeysOwned, [Next]_vars PROVE KeysOwned'
  OBVIOUS
<1>1. LedgerTyped /\ WorkflowInv /\ DocumentInv /\ ReturnsSent /\ body \in [RequestKey -> Documented \cup {NoBody}]
  BY DEF Inv, LedgerInv, DocumentInv
<1>2. ASSUME NEW k \in RequestKey, NEW b, Begin(k, b), OwnKeys(k, b.moves) PROVE KeysOwned'
  <2>1. body' = [body EXCEPT ![k] = b]
    BY <1>2 DEF Begin
  <2>2. body'[k] = b /\ \A x \in RequestKey \ {k} : body'[x] = body[x]
    BY <1>1, <2>1
  <2> QED
    BY <1>2, <2>2 DEF KeysOwned, OwnKeys
<1>3. ASSUME NEW k \in RequestKey, Documents(k) PROVE KeysOwned'
  <2>1. PICK b : Begin(k, b) /\ OwnKeys(k, b.moves)
    BY <1>1, <1>3, DocumentsSendable
  <2> QED
    BY <1>2, <2>1
<1>4. ASSUME NEW k \in RequestKey, Resend(k) PROVE KeysOwned'
  <2>1. PICK b : Begin(k, b) /\ b.moves = body[k].moves
    BY <1>1, <1>4, ResendSendable
  <2>2. OwnKeys(k, body[k].moves)
    BY <1>4 DEF Resend, KeysOwned
  <2> QED
    BY <1>2, <2>1, <2>2
<1>5. CASE LineRaises
  <2>1. \A x \in RequestKey : body'[x] = body[x] \/ body'[x] = NoBody
    BY <1>1, <1>5 DEF LineRaises
  <2> QED
    BY <2>1 DEF KeysOwned, OwnKeys
<1>6. CASE UNCHANGED body
  BY <1>6 DEF KeysOwned, OwnKeys
<1>7. CASE OrderRequests \/ TaskRequests \/ LedgerRequests
  BY <1>6, <1>7, RequestsLeave DEF operationVars
<1>8. CASE PostLine \/ ReplayLine \/ Finish \/ FinishRaises
  BY <1>6, <1>8 DEF PostLine, ReplayLine, Finish, FinishRaises
<1>9. CASE UNCHANGED vars
  BY <1>6, <1>9 DEF vars, operationVars
<1> QED
  BY <1>3, <1>4, <1>5, <1>7, <1>8, <1>9 DEF Next

LEMMA KeysOwnedHolds == Spec => []KeysOwned
<1>1. Init => KeysOwned
  BY DEF Init, KeysOwned
<1> QED
  BY <1>1, KeysOwnedStep, InvHolds, PTL DEF Spec

LEMMA InvTyped == Inv => TypeOK
<1> SUFFICES ASSUME Inv PROVE TypeOK
  OBVIOUS
<1>1. LedgerTyped /\ WorkflowInv /\ DocumentInv /\ QuantityInv
  BY DEF Inv, LedgerInv
<1>2. onHand \in [Position -> Int] /\ reserved \in [Position -> Nat] /\ version \in [Position -> Nat]
  BY <1>1 DEF LedgerTyped
<1>3. /\ \A o \in Purchase : orderState[o] \in DOMAIN PurchaseWorkflow \cup {"none"}
      /\ \A o \in Sales : orderState[o] \in DOMAIN SalesWorkflow \cup {"none"}
      /\ \A r \in Return : rma[r] = NoReturn \/ rma[r].state \in DOMAIN ReturnWorkflow
      /\ \A t \in TaskKey : task[t] = NoTask \/ task[t].state \in DOMAIN TaskTransitions
  BY <1>1 DEF WorkflowInv, ReturnRow, TaskRow
<1>4. \A o \in Order : processed[o] \in [Product -> Nat]
  BY <1>1 DEF QuantityInv
<1>5. ASSUME NEW o \in Sales, NEW p \in Product PROVE allocated[o][p] \in 0..Ordered[o][p]
  <2>1. allocated[o][p] \in Nat /\ allocated[o][p] <= Ordered[o][p]
    BY <1>1 DEF QuantityInv
  <2>2. Ordered[o][p] \in Nat
    BY BeforeTyped DEF Order
  <2> QED
    BY <2>1, <2>2
<1>6. recorded \subseteq RequestKey
  BY <1>1 DEF DocumentInv
<1>7. running = Idle \/ (running.key \in RequestKey \ recorded /\ running.at \in 1..(Len(Doc.moves) + 1))
  BY <1>1, RecordedAre DEF DocumentInv
<1> QED
  BY <1>2, <1>3, <1>4, <1>5, <1>6, <1>7 DEF TypeOK

\* Every table of the in-memory store holds rows of its kind: an order, a return and
\* a task is where its workflow can be, an allocation never exceeds the line it is
\* for, and the document that holds the lock is not recorded yet and is at one of
\* its lines (domain/operations.py, InMemoryOperationsStore).
THEOREM TypeCorrect == Spec => []TypeOK
BY InvHolds, InvTyped, PTL

\* However often a document fails between two lines and is sent again, and whatever
\* adjustments and releases come in between: once it is recorded each of its lines
\* was posted under its own key as the document says, and what an order has
\* processed and allocated is the sum of its recorded documents (post_receipt,
\* allocate, post_shipment and receive_return of domain/operations.py).
THEOREM RecordedDocumentsPosted == Spec => []DocumentsPosted
<1>1. Inv => DocumentsPosted
  <2> SUFFICES ASSUME Inv PROVE DocumentsPosted
    OBVIOUS
  <2>1. \A k \in recorded : \A i \in DOMAIN body[k].moves :
          /\ posted[body[k].moves[i].sub] # NoMove
          /\ SameCommand(posted[body[k].moves[i].sub].move, body[k].moves[i])
    BY DEF Inv, DocumentInv, Made
  <2>2. OrdersAddUp
    BY DEF Inv, QuantityInv
  <2> QED
    BY <2>1, <2>2, Zenon DEF OrdersAddUp, FulfilledBy, AllocatedBy, DocumentsPosted
<1> QED
  BY <1>1, InvHolds, PTL

\* Each line of each recorded document has a posting of its own: two lines never
\* share one, be they of one document or of two, so that no stock was counted for
\* both (the keys "{key}:{posting.id}:{label}" and the like that post_receipt, its
\* siblings and the ledger's command fingerprints agree on).
PostingsOwn ==
    \A k, l \in recorded : \A i \in DOMAIN body[k].moves, j \in DOMAIN body[l].moves :
        /\ SameCommand(posted[body[k].moves[i].sub].move, body[k].moves[i])
        /\ body[k].moves[i].sub = body[l].moves[j].sub => k = l /\ i = j

THEOREM LinesPostedOnce == Spec => []PostingsOwn
<1>1. Inv /\ KeysOwned => PostingsOwn
  <2> SUFFICES ASSUME Inv, KeysOwned, NEW k \in recorded, NEW l \in recorded,
                      NEW i \in DOMAIN body[k].moves, NEW j \in DOMAIN body[l].moves
               PROVE  /\ SameCommand(posted[body[k].moves[i].sub].move, body[k].moves[i])
                      /\ body[k].moves[i].sub = body[l].moves[j].sub => k = l /\ i = j
    BY DEF PostingsOwn
  <2>1. /\ k \in RequestKey /\ l \in RequestKey /\ body[k] # NoBody /\ body[l] # NoBody
        /\ SameCommand(posted[body[k].moves[i].sub].move, body[k].moves[i])
    BY DEF Inv, DocumentInv, Made
  <2>2. OwnKeys(k, body[k].moves) /\ OwnKeys(l, body[l].moves)
    BY <2>1 DEF KeysOwned
  <2>3. body[k].moves[i].sub[1] = k /\ body[l].moves[j].sub[1] = l
    BY <2>2 DEF OwnKeys
  <2>4. ASSUME body[k].moves[i].sub = body[l].moves[j].sub PROVE k = l /\ i = j
    <3>1. k = l
      BY <2>3, <2>4, Zenon
    <3>2. OwnKeys(k, body[k].moves) /\ j \in DOMAIN body[k].moves
          /\ body[k].moves[i].sub = body[k].moves[j].sub
      BY <2>2, <2>4, <3>1
    <3>3. i = j
      BY <3>2, Zenon DEF OwnKeys
    <3> QED
      BY <3>1, <3>3
  <2> QED
    BY <2>1, <2>4
<1> QED
  BY <1>1, InvHolds, KeysOwnedHolds, PTL

\* What a position holds back is what its active reservations claim: no order of
\* receipts, allocations, shipments, counts, transfers, adjustments, overrides and
\* releases loses or doubles a claim (reserve, consume_reservation and
\* release_reservation of domain/inventory.py under domain/operations.py).
THEOREM ReservationsStayCounted == Spec => []ReservationsCounted
<1>1. Inv => ReservationsCounted
  BY DEF Inv, LedgerInv
<1> QED
  BY <1>1, InvHolds, PTL

-----------------------------------------------------------------------------
(* What makes a position short of what its reservations claim. *)

NoShorter == \A x \in Position : ~(Short(x)' > Short(x))

\* A move leaves enough for the claims, or takes no more than it gives back.
LEMMA MoveShortens ==
    ASSUME LedgerInv, NEW p \in Position, NEW d \in Int, NEW e \in Int, Move(p, d, e),
           onHand[p] + d >= reserved[p] + e \/ d >= e
    PROVE  NoShorter
<1> SUFFICES ASSUME NEW x \in Position PROVE ~(Short(x)' > Short(x))
  BY DEF NoShorter
<1>1. onHand[x] \in Int /\ reserved[x] \in Int
  BY LedgerParts
<1>2. /\ onHand'[x] = onHand[x] + (IF x = p THEN d ELSE 0)
      /\ reserved'[x] = reserved[x] + (IF x = p THEN e ELSE 0)
  BY <1>1, LedgerParts DEF Move, LedgerTyped
<1> QED
  BY <1>1, <1>2 DEF Short

\* Nothing moves.
LEMMA StillNoShorter ==
    ASSUME LedgerInv, UNCHANGED positionVars
    PROVE  NoShorter
<1> SUFFICES ASSUME NEW x \in Position PROVE ~(Short(x)' > Short(x))
  BY DEF NoShorter
<1>1. onHand[x] \in Int /\ reserved[x] \in Int /\ onHand'[x] = onHand[x] /\ reserved'[x] = reserved[x]
  BY LedgerParts DEF positionVars
<1> QED
  BY <1>1 DEF Short

LEMMA AdjustShortens ==
    ASSUME LedgerInv, NEW k, NEW p \in Position, NEW d \in Int, Adjust(k, p, d, FALSE)
    PROVE  NoShorter
<1>1. Move(p, d, 0) /\ onHand[p] + d >= reserved[p] + 0
  BY LedgerParts DEF Adjust, Adjustable
<1> QED
  BY <1>1, MoveShortens

LEMMA ReserveShortens ==
    ASSUME LedgerInv, NEW k, NEW p \in Position, NEW q \in Positive, Reserve(k, p, q)
    PROVE  NoShorter
<1>1. Move(p, 0, q) /\ q \in Int /\ onHand[p] + 0 >= reserved[p] + q
  BY LedgerParts DEF Reserve, Available, Positive
<1> QED
  BY <1>1, MoveShortens

LEMMA PostCountShortens ==
    ASSUME LedgerInv, NEW k, NEW p \in Position, NEW counted \in Nat, PostCount(k, p, counted)
    PROVE  NoShorter
<1> DEFINE d == counted - onHand[p]
<1>1. Move(p, d, 0) /\ d \in Int /\ onHand[p] + d >= reserved[p] + 0
  BY LedgerParts DEF PostCount
<1> QED
  BY <1>1, MoveShortens

LEMMA ShipTransferShortens ==
    ASSUME LedgerInv, NEW k, NEW s \in Position, NEW d, NEW q \in Positive, ShipTransfer(k, s, d, q)
    PROVE  NoShorter
<1>1. Move(s, -q, 0) /\ -q \in Int /\ onHand[s] + -q >= reserved[s] + 0
  BY LedgerParts DEF ShipTransfer, Available, Positive
<1> QED
  BY <1>1, MoveShortens

LEMMA ReceiveTransferShortens ==
    ASSUME LedgerInv, NEW k, NEW i \in Key, NEW got, ReceiveTransfer(k, i, got)
    PROVE  NoShorter
<1> DEFINE p == staged[i].destination
<1>1. p \in Position /\ got \in Nat
  BY LedgerParts, RowsAre DEF ReceiveTransfer
<1>2. CASE got > 0
  <2>1. Move(p, got, 0)
    BY <1>2 DEF ReceiveTransfer
  <2> HIDE DEF p
  <2> QED
    BY <1>1, <2>1, MoveShortens
<1>3. CASE ~(got > 0)
  <2>1. UNCHANGED positionVars
    BY <1>3 DEF ReceiveTransfer
  <2> QED
    BY <2>1, StillNoShorter
<1> QED
  BY <1>2, <1>3

\* A shipment and a release give back what the reservation claims.
LEMMA EndingShortens ==
    ASSUME LedgerInv, NEW k, NEW r \in SubKey, ConsumeReservation(k, r) \/ ReleaseReservation(k, r)
    PROVE  NoShorter
<1> DEFINE p == reservation[r].position
           q == reservation[r].quantity
<1>1. reservation[r].status = "active"
  BY DEF ConsumeReservation, ReleaseReservation
<1>2. p \in Position /\ q \in Nat
  BY <1>1, LedgerParts, RowsAre, KeysAre DEF Positive
<1>3. Move(p, -q, -q) \/ Move(p, 0, -q)
  BY DEF ConsumeReservation, ReleaseReservation
<1> HIDE DEF p, q
<1>4. -q \in Int /\ -q >= -q /\ 0 >= -q
  BY <1>2
<1> QED
  BY <1>2, <1>3, <1>4, MoveShortens

LEMMA PostLineShortens ==
    ASSUME LedgerInv, DocumentInv, PostLine
    PROVE  NoShorter
<1> DEFINE m == ThisMove
<1>1. AtMove /\ PostMove
  BY DEF PostLine
<1>2. /\ m \in AnyMove /\ Doc.op \in {"receipt", "allocation", "shipment", "return"}
      /\ Doc.op = "shipment" => m.reservation \in SubKey
  BY <1>1, LineRunning
<1>3. m.position \in Position /\ m.quantity \in Positive /\ m.quantity \in Int
  BY <1>2, MoveIs
<1>4. CASE Doc.op \in {"receipt", "return"}
  <2>1. Adjust(m.sub, m.position, m.quantity, FALSE)
    BY <1>1, <1>4 DEF PostMove
  <2> QED
    BY <1>3, <2>1, AdjustShortens
<1>5. CASE Doc.op = "allocation"
  <2>1. Reserve(m.sub, m.position, m.quantity)
    BY <1>1, <1>5 DEF PostMove
  <2> QED
    BY <1>3, <2>1, ReserveShortens
<1>6. CASE Doc.op = "shipment"
  <2>1. ConsumeReservation(m.sub, m.reservation)
    BY <1>1, <1>6 DEF PostMove
  <2> QED
    BY <1>2, <1>6, <2>1, EndingShortens
<1> QED
  BY <1>2, <1>4, <1>5, <1>6

LEMMA TaskRequestsShorten ==
    ASSUME LedgerInv, TaskRequests
    PROVE  NoShorter
<1>1. ASSUME NEW m \in ManualTask, ShipTransferTask(m) PROVE NoShorter
  <2> DEFINE s == Manual[m].source
             d == Manual[m].destination
             q == Manual[m].quantity
  <2>1. s \in Position /\ q \in Positive /\ ShipTransfer(PostTask(m), s, d, q)
    BY <1>1, AskedAssumption DEF ShipTransferTask, Positive
  <2> HIDE DEF s, d, q
  <2> QED
    BY <2>1, ShipTransferShortens
<1>2. ASSUME NEW m \in ManualTask, NEW got, ReceiveTransferTask(m, got) PROVE NoShorter
  <2>1. PostTask(m) \in Key /\ ReceiveTransfer(ReceiptTask(m), PostTask(m), got)
    BY <1>2, TaskKeysAre, KeysAre DEF ReceiveTransferTask
  <2> QED
    BY <2>1, ReceiveTransferShortens
<1>3. ASSUME NEW m \in ManualTask, NEW counted \in Quantities, CompleteCountTask(m, counted) PROVE NoShorter
  <2>1. Manual[m].source \in Position /\ counted \in Nat /\ PostCount(PostTask(m), Manual[m].source, counted)
    BY <1>3, AskedAssumption, MemoryAssumption DEF CompleteCountTask
  <2> QED
    BY <2>1, PostCountShortens
<1>4. ASSUME UNCHANGED ledgerVars PROVE NoShorter
  BY <1>4, StillNoShorter DEF ledgerVars
<1>5. \/ \E m \in ManualTask : ShipTransferTask(m)
      \/ \E m \in ManualTask : \E got \in Quantities : ReceiveTransferTask(m, got) \/ CompleteCountTask(m, got)
      \/ UNCHANGED ledgerVars
  BY DEF TaskRequests, CreateTask, TransitionTask
<1> QED
  BY <1>1, <1>2, <1>3, <1>4, <1>5

ByOverride(x) == \E k \in ClientKey, delta \in Deltas : AdjustStock(k, x, delta, TRUE)

LEMMA LedgerRequestsShorten ==
    ASSUME LedgerInv, LedgerRequests, NEW x \in Position, Short(x)' > Short(x)
    PROVE  ByOverride(x)
<1>1. PICK k \in ClientKey :
        \/ \E p \in Adjusted, delta \in Deltas, allowNegative \in BOOLEAN :
              AdjustStock(k, p, delta, allowNegative)
        \/ \E r \in SubKey : ReleaseAny(k, r)
  BY DEF LedgerRequests
<1>2. ASSUME NEW r \in SubKey, ReleaseAny(k, r) PROVE FALSE
  <2>1. NoShorter
    BY <1>2, EndingShortens DEF ReleaseAny
  <2> QED
    BY <2>1 DEF NoShorter
<1>3. ASSUME NEW p \in Adjusted, NEW delta \in Deltas, NEW allowNegative \in BOOLEAN,
             AdjustStock(k, p, delta, allowNegative)
      PROVE  ByOverride(x)
  <2>1. p \in Position /\ delta \in Int /\ Adjust(k, p, delta, allowNegative)
    BY <1>3, MemoryAssumption DEF AdjustStock
  <2>2. allowNegative = TRUE
    <3> SUFFICES ASSUME allowNegative = FALSE PROVE FALSE
      OBVIOUS
    <3>1. NoShorter
      BY <2>1, AdjustShortens
    <3> QED
      BY <3>1 DEF NoShorter
  <2>3. p = x
    <3> SUFFICES ASSUME p # x PROVE FALSE
      OBVIOUS
    <3>1. Move(p, delta, 0) /\ onHand[x] \in Int /\ reserved[x] \in Int
      BY <2>1, LedgerParts DEF Adjust
    <3>2. onHand'[x] = onHand[x] /\ reserved'[x] = reserved[x]
      BY <2>1, <3>1, LedgerParts DEF Move, LedgerTyped
    <3> QED
      BY <3>1, <3>2 DEF Short
  <2> QED
    BY <1>3, <2>2, <2>3 DEF ByOverride
<1> QED
  BY <1>1, <1>2, <1>3

LEMMA NextShortens ==
    ASSUME Inv, [Next]_vars, NEW x \in Position, Short(x)' > Short(x)
    PROVE  ByOverride(x)
<1>1. LedgerInv /\ DocumentInv
  BY DEF Inv
<1>2. CASE LedgerRequests
  BY <1>1, <1>2, LedgerRequestsShorten
<1>3. CASE UNCHANGED ledgerVars
  BY <1>1, <1>3, StillNoShorter DEF NoShorter, ledgerVars
<1>4. CASE TaskRequests
  BY <1>1, <1>4, TaskRequestsShorten DEF NoShorter
<1>5. CASE PostLine
  BY <1>1, <1>5, PostLineShortens DEF NoShorter
<1>6. CASE OrderRequests
  BY <1>3, <1>6, RequestsLeave
<1>7. CASE ReplayLine \/ LineRaises \/ Finish \/ FinishRaises
  BY <1>3, <1>7 DEF ReplayLine, LineRaises, Finish, FinishRaises
<1>8. CASE \E k \in RequestKey : Documents(k) \/ Resend(k)
  <2>1. PICK k \in RequestKey : \E b : Begin(k, b)
    BY <1>8 DEF Documents, Send, Resend
  <2>2. PICK b : Begin(k, b)
    BY <2>1
  <2> QED
    BY <1>3, <2>2 DEF Begin
<1>9. CASE UNCHANGED vars
  BY <1>3, <1>9 DEF vars
<1> QED
  BY <1>2, <1>4, <1>5, <1>6, <1>7, <1>8, <1>9 DEF Next

\* What a position lacks of its reservations grows only by an adjustment that says
\* allow_negative and is of that position: whatever half-posted documents, counts,
\* transfers, releases and overrides of other positions come between, nothing else
\* sells what is reserved, although consume_reservation of domain/inventory.py does
\* not compare the stock with the reservation it ships.
THEOREM OnlyOverridesOversell == Spec => ShortByOverrideOnly
<1>1. ASSUME Inv, [Next]_vars
      PROVE  [\A p \in Position : Short(p)' > Short(p) =>
                \E k \in ClientKey, delta \in Deltas : AdjustStock(k, p, delta, TRUE)]_vars
  BY <1>1, NextShortens DEF ByOverride
<1>2. Inv /\ [Next]_vars =>
        [\A p \in Position : Short(p)' > Short(p) =>
            \E k \in ClientKey, delta \in Deltas : AdjustStock(k, p, delta, TRUE)]_vars
  BY <1>1
<1> QED
  BY <1>2, InvHolds, PTL DEF Spec, ShortByOverrideOnly

=============================================================================
