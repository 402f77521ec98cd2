------------------------ MODULE InventoryLedgerProofs ------------------------
(***************************************************************************)
(* Machine-checked proofs about InventoryLedger, for every set of          *)
(* positions, keys and quantities.                                         *)
(***************************************************************************)
EXTENDS InventoryLedger, UnitTheorems, FiniteSetTheorems, TLAPS

-----------------------------------------------------------------------------
(* Types. *)

LEMMA InitTypeOK == Init => TypeOK
BY DEF Init, TypeOK, NoReservation, NoTransfer, Unused

LEMMA CompleteTyped ==
    ASSUME TypeOK, NEW k \in Key, NEW op \in Operation, NEW allow \in BOOLEAN,
           NEW e \in SUBSET (Position \X Nat), CompleteIdempotency(k, op, e, allow)
    PROVE  record' \in [Key -> Command \cup {Unused}]
BY DEF TypeOK, CompleteIdempotency, Command

LEMMA UpdateTyped ==
    ASSUME TypeOK, NEW p \in Position, NEW q \in Int, NEW r \in Int, UpdatePosition(p, q, r)
    PROVE  /\ onHand' \in [Position -> Int]
           /\ reserved' \in [Position -> Nat]
           /\ version' \in [Position -> Nat]
BY DEF TypeOK, UpdatePosition

LEMMA AdjustTypeOK ==
    ASSUME TypeOK, NEW k \in Key, NEW p \in Position, NEW delta \in Delta,
           NEW allow \in BOOLEAN, NEW v \in Version, Adjust(k, p, delta, allow, v)
    PROVE  TypeOK'
<1>1. delta \in Int /\ v \in Nat /\ onHand[p] + delta \in Int /\ reserved[p] \in Int
  BY QuantityAssumption, KeyAssumption, FS_CardinalityType DEF Delta, Version, TypeOK
<1>2. record' \in [Key -> Command \cup {Unused}]
  BY <1>1, CompleteTyped DEF Adjust, Operation
<1>3. /\ onHand' \in [Position -> Int]
      /\ reserved' \in [Position -> Nat]
      /\ version' \in [Position -> Nat]
  BY <1>1, UpdateTyped DEF Adjust
<1>4. ledger' \in [Key -> SUBSET Line]
  BY <1>1 DEF Adjust, PostLines, TypeOK, Line, Entry, Account
<1> QED
  BY <1>2, <1>3, <1>4 DEF Adjust, TypeOK

LEMMA ReserveTypeOK ==
    ASSUME TypeOK, NEW k \in Key, NEW p \in Position, NEW q \in Quantity,
           NEW v \in Version, Reserve(k, p, q, v)
    PROVE  TypeOK'
<1>1. q \in Int /\ v \in Nat /\ onHand[p] \in Int /\ reserved[p] + q \in Int
  BY QuantityAssumption, KeyAssumption, FS_CardinalityType DEF Version, TypeOK
<1>2. record' \in [Key -> Command \cup {Unused}]
  <2>1. {<<p, v>>} \in SUBSET (Position \X Nat) /\ "reserve" \in Operation
    BY <1>1 DEF Operation
  <2>2. CompleteIdempotency(k, "reserve", {<<p, v>>}, FALSE)
    BY DEF Reserve
  <2> QED
    BY <2>1, <2>2, CompleteTyped
<1>3. /\ onHand' \in [Position -> Int]
      /\ reserved' \in [Position -> Nat]
      /\ version' \in [Position -> Nat]
  BY <1>1, UpdateTyped DEF Reserve
<1>4. reservation' \in [Key -> Reservation \cup {NoReservation}]
  BY DEF Reserve, TypeOK, Reservation, ActiveRow
<1> QED
  BY <1>2, <1>3, <1>4 DEF Reserve, TypeOK

LEMMA ActiveTyped ==
    ASSUME TypeOK, NEW r \in Key, reservation[r].status = "active"
    PROVE  /\ reservation[r] \in ActiveRow
           /\ reservation[r].position \in Position
           /\ reservation[r].quantity \in Quantity
           /\ reservation[r].quantity \in Nat \ {0}
<1>1. reservation[r] \in ActiveRow \cup EndedRow \cup {NoReservation}
  BY DEF TypeOK, Reservation
<1>2. reservation[r] # NoReservation
  BY DEF NoReservation
<1>3. reservation[r] \notin EndedRow
  BY DEF EndedRow
<1>4. reservation[r] \in ActiveRow
  BY <1>1, <1>2, <1>3
<1> QED
  BY <1>4, QuantityAssumption DEF ActiveRow

LEMMA EndTyped ==
    ASSUME TypeOK, NEW r \in Key, reservation[r].status = "active",
           NEW status \in {"released", "consumed"}, EndReservation(r, status)
    PROVE  reservation' \in [Key -> Reservation \cup {NoReservation}]
<1>1. reservation[r] \in ActiveRow
  BY ActiveTyped
<1>2. [status |-> status, position |-> reservation[r].position,
       quantity |-> reservation[r].quantity, version |-> reservation[r].version + 1] \in EndedRow
  BY <1>1 DEF ActiveRow, EndedRow
<1> QED
  BY <1>2 DEF EndReservation, TypeOK, Reservation

LEMMA ReleaseTypeOK ==
    ASSUME TypeOK, NEW k \in Key, NEW r \in Key, NEW rv \in {1, 2}, ReleaseReservation(k, r, rv)
    PROVE  TypeOK'
<1>1. reservation[r].status = "active"
  BY DEF ReleaseReservation, ActiveReservation
<1> DEFINE p == reservation[r].position
           q == reservation[r].quantity
<1>2. p \in Position /\ q \in Int /\ onHand[p] \in Int /\ reserved[p] \in Int
  BY <1>1, ActiveTyped DEF TypeOK
<1>3. /\ onHand' \in [Position -> Int]
      /\ reserved' \in [Position -> Nat]
      /\ version' \in [Position -> Nat]
  <2>1. UpdatePosition(p, onHand[p], reserved[p] - q)
    BY DEF ReleaseReservation
  <2> QED
    BY <1>2, <2>1, UpdateTyped
<1>4. record' \in [Key -> Command \cup {Unused}]
  <2>1. "release" \in Operation
    BY DEF Operation
  <2> QED
    BY <2>1, CompleteTyped DEF ReleaseReservation
<1>5. reservation' \in [Key -> Reservation \cup {NoReservation}]
  BY <1>1, EndTyped DEF ReleaseReservation
<1> QED
  BY <1>3, <1>4, <1>5 DEF ReleaseReservation, TypeOK

LEMMA ConsumeTypeOK ==
    ASSUME TypeOK, NEW k \in Key, NEW r \in Key, NEW rv \in {1, 2}, NEW v \in Version,
           ConsumeReservation(k, r, rv, v)
    PROVE  TypeOK'
<1>1. reservation[r].status = "active"
  BY DEF ConsumeReservation, ActiveReservation
<1> DEFINE p == reservation[r].position
           q == reservation[r].quantity
<1>2. p \in Position /\ q \in Int /\ onHand[p] \in Int /\ reserved[p] \in Int /\ v \in Nat
  BY <1>1, ActiveTyped, KeyAssumption, FS_CardinalityType DEF TypeOK, Version
<1>3. /\ onHand' \in [Position -> Int]
      /\ reserved' \in [Position -> Nat]
      /\ version' \in [Position -> Nat]
  <2>1. UpdatePosition(p, onHand[p] - q, reserved[p] - q)
    BY DEF ConsumeReservation
  <2> QED
    BY <1>2, <2>1, UpdateTyped
<1>4. record' \in [Key -> Command \cup {Unused}]
  <2>1. "consume" \in Operation /\ {<<p, v>>} \in SUBSET (Position \X Nat)
    BY <1>2 DEF Operation
  <2>2. CompleteIdempotency(k, "consume", {<<p, v>>}, FALSE)
    BY DEF ConsumeReservation
  <2> QED
    BY <2>1, <2>2, CompleteTyped
<1>5. reservation' \in [Key -> Reservation \cup {NoReservation}]
  BY <1>1, EndTyped DEF ConsumeReservation
<1>6. ledger' \in [Key -> SUBSET Line]
  BY <1>2, PositionAssumption DEF ConsumeReservation, PostLines, TypeOK, Line, Entry, Account
<1> QED
  BY <1>3, <1>4, <1>5, <1>6 DEF ConsumeReservation, TypeOK

LEMMA TransferStockTypeOK ==
    ASSUME TypeOK, NEW k \in Key, NEW r \in Route, NEW q \in Quantity,
           NEW vs \in Version, NEW vd \in Version, TransferStock(k, r[1], r[2], q, vs, vd)
    PROVE  TypeOK'
<1> DEFINE s == r[1]
           d == r[2]
<1>1. s \in Position /\ d \in Position /\ s # d
  BY PositionAssumption
<1>2. q \in Nat \ {0} /\ vs \in Nat /\ vd \in Nat
  BY QuantityAssumption, KeyAssumption, FS_CardinalityType DEF Version
<1> HIDE DEF s, d
<1>3. TransferStock(k, s, d, q, vs, vd)
  BY DEF s, d
<1>4. /\ onHand' \in [Position -> Int]
      /\ reserved' \in [Position -> Nat]
      /\ version' \in [Position -> Nat]
  BY <1>1, <1>2, <1>3 DEF TransferStock, TypeOK
<1>5. record' \in [Key -> Command \cup {Unused}]
  <2>1. "transfer" \in Operation /\ {<<s, vs>>, <<d, vd>>} \in SUBSET (Position \X Nat)
    BY <1>1, <1>2 DEF Operation
  <2>2. CompleteIdempotency(k, "transfer", {<<s, vs>>, <<d, vd>>}, FALSE)
    BY <1>3 DEF TransferStock
  <2> QED
    BY <2>1, <2>2, CompleteTyped
<1>6. ledger' \in [Key -> SUBSET Line]
  BY <1>1, <1>2, <1>3 DEF TransferStock, PostLines, TypeOK, Line, Entry, Account
<1>7. [state |-> "received", source |-> s, destination |-> d, shipped |-> q, received |-> q]
        \in Transfer
  BY <1>1, <1>2 DEF Transfer
<1>8. /\ transfer' \in [Key -> Transfer \cup {NoTransfer}]
      /\ \A i \in Key : transfer'[i] # NoTransfer => transfer'[i].received <= transfer'[i].shipped
  BY <1>2, <1>3, <1>7 DEF TransferStock, TypeOK
<1> QED
  BY <1>3, <1>4, <1>5, <1>6, <1>8 DEF TransferStock, TypeOK

LEMMA ShipTypeOK ==
    ASSUME TypeOK, NEW k \in Key, NEW r \in Route, NEW q \in Quantity, NEW v \in Version,
           ShipTransfer(k, r[1], r[2], q, v)
    PROVE  TypeOK'
<1> DEFINE s == r[1]
           d == r[2]
<1>1. s \in Position /\ d \in Position /\ s # d
  BY PositionAssumption
<1>2. q \in Nat \ {0} /\ v \in Nat
  BY QuantityAssumption, KeyAssumption, FS_CardinalityType DEF Version
<1> HIDE DEF s, d
<1>3. ShipTransfer(k, s, d, q, v)
  BY DEF s, d
<1>4. /\ onHand' \in [Position -> Int]
      /\ reserved' \in [Position -> Nat]
      /\ version' \in [Position -> Nat]
  <2>1. onHand[s] - q \in Int /\ reserved[s] \in Int
    BY <1>1, <1>2 DEF TypeOK
  <2>2. UpdatePosition(s, onHand[s] - q, reserved[s])
    BY <1>3 DEF ShipTransfer
  <2> QED
    BY <1>1, <2>1, <2>2, UpdateTyped
<1>5. record' \in [Key -> Command \cup {Unused}]
  <2>1. "ship" \in Operation /\ {<<s, v>>} \in SUBSET (Position \X Nat)
    BY <1>1, <1>2 DEF Operation
  <2>2. CompleteIdempotency(k, "ship", {<<s, v>>}, FALSE)
    BY <1>3 DEF ShipTransfer
  <2> QED
    BY <2>1, <2>2, CompleteTyped
<1>6. ledger' \in [Key -> SUBSET Line]
  BY <1>1, <1>2, <1>3 DEF ShipTransfer, PostLines, TypeOK, Line, Entry, Account
<1>7. [state |-> "shipped", source |-> s, destination |-> d, shipped |-> q, received |-> 0]
        \in Transfer
  BY <1>1, <1>2 DEF Transfer
<1>8. /\ transfer' \in [Key -> Transfer \cup {NoTransfer}]
      /\ \A i \in Key : transfer'[i] # NoTransfer => transfer'[i].received <= transfer'[i].shipped
  BY <1>2, <1>3, <1>7 DEF ShipTransfer, TypeOK
<1> QED
  BY <1>3, <1>4, <1>5, <1>6, <1>8 DEF ShipTransfer, TypeOK

LEMMA ShippedTyped ==
    ASSUME TypeOK, NEW i \in Key, transfer[i].state = "shipped"
    PROVE  /\ transfer[i] \in Transfer
           /\ transfer[i].source \in Position
           /\ transfer[i].destination \in Position
           /\ transfer[i].shipped \in Quantity
           /\ transfer[i].shipped \in Nat \ {0}
<1>1. transfer[i] \in Transfer \cup {NoTransfer}
  BY DEF TypeOK
<1>2. transfer[i] # NoTransfer
  BY DEF NoTransfer
<1> QED
  BY <1>1, <1>2, QuantityAssumption DEF Transfer

LEMMA ReceiveTypeOK ==
    ASSUME TypeOK, NEW k \in Key, NEW i \in Key, NEW got \in Quantity \cup {0}, NEW v \in Version,
           ReceiveTransfer(k, i, got, v)
    PROVE  TypeOK'
<1> DEFINE t == transfer[i]
           d == t.destination
<1>1. got \in Nat /\ v \in Nat
  BY QuantityAssumption, KeyAssumption, FS_CardinalityType DEF Version
<1>2. t.state = "shipped" /\ got <= t.shipped
  BY DEF ReceiveTransfer, AwaitsReceipt
<1>3. /\ t \in Transfer
      /\ t.source \in Position
      /\ d \in Position
      /\ t.shipped \in Nat
  BY <1>2, ShippedTyped
<1>4. /\ onHand' \in [Position -> Int]
      /\ reserved' \in [Position -> Nat]
      /\ version' \in [Position -> Nat]
  <2>1. CASE got > 0
    <3>1. onHand[d] + got \in Int /\ reserved[d] \in Int
      BY <1>1, <1>3 DEF TypeOK
    <3>2. UpdatePosition(d, onHand[d] + got, reserved[d])
      BY <2>1 DEF ReceiveTransfer
    <3> QED
      BY <1>3, <3>1, <3>2, UpdateTyped
  <2>2. CASE ~(got > 0)
    BY <2>2 DEF ReceiveTransfer, positionVars, TypeOK
  <2> QED
    BY <2>1, <2>2
<1>5. record' \in [Key -> Command \cup {Unused}]
  <2> DEFINE e == IF got > 0 THEN {<<d, v>>} ELSE {}
  <2>1. "receive" \in Operation /\ e \in SUBSET (Position \X Nat)
    BY <1>1, <1>3 DEF Operation
  <2>2. CompleteIdempotency(k, "receive", e, FALSE)
    BY DEF ReceiveTransfer
  <2> QED
    BY <2>1, <2>2, CompleteTyped
<1>6. ledger' \in [Key -> SUBSET Line]
  <2>1. ReceiptLines(t, got) \in SUBSET Line
    BY <1>1, <1>3 DEF ReceiptLines, Line, Entry, Account
  <2>2. PostLines(k, ReceiptLines(t, got))
    BY DEF ReceiveTransfer
  <2> HIDE DEF t
  <2> QED
    BY <2>1, <2>2 DEF PostLines, TypeOK
<1>7. /\ transfer' \in [Key -> Transfer \cup {NoTransfer}]
      /\ \A j \in Key : transfer'[j] # NoTransfer => transfer'[j].received <= transfer'[j].shipped
  <2> DEFINE after == [t EXCEPT !.received = got,
                          !.state = IF got = t.shipped THEN "received" ELSE "discrepancy_review"]
  <2>1. transfer' = [transfer EXCEPT ![i] = after]
    BY DEF ReceiveTransfer
  <2>2. after \in Transfer /\ after.received = got /\ after.shipped = t.shipped
    BY <1>1, <1>3 DEF Transfer
  <2> HIDE DEF after
  <2> QED
    BY <1>2, <2>1, <2>2 DEF TypeOK
<1> QED
  BY <1>4, <1>5, <1>6, <1>7 DEF ReceiveTransfer, TypeOK

LEMMA CountTypeOK ==
    ASSUME TypeOK, NEW k \in Key, NEW p \in Position, NEW counted \in Quantity \cup {0},
           NEW v \in Version, PostCount(k, p, counted, v)
    PROVE  TypeOK'
<1>1. counted \in Nat /\ v \in Nat /\ onHand[p] \in Int /\ reserved[p] \in Int
  BY QuantityAssumption, KeyAssumption, FS_CardinalityType DEF Version, TypeOK
<1>2. record' \in [Key -> Command \cup {Unused}]
  <2>1. {<<p, v>>} \in SUBSET (Position \X Nat) /\ "count" \in Operation
    BY <1>1 DEF Operation
  <2>2. CompleteIdempotency(k, "count", {<<p, v>>}, FALSE)
    BY DEF PostCount
  <2> QED
    BY <2>1, <2>2, CompleteTyped
<1>3. /\ onHand' \in [Position -> Int]
      /\ reserved' \in [Position -> Nat]
      /\ version' \in [Position -> Nat]
  BY <1>1, UpdateTyped DEF PostCount
<1>4. ledger' \in [Key -> SUBSET Line]
  BY <1>1, PositionAssumption DEF PostCount, PostLines, CountLines, TypeOK, Line, Entry, Account
<1> QED
  BY <1>2, <1>3, <1>4 DEF PostCount, TypeOK

LEMMA StutterTypeOK == TypeOK /\ UNCHANGED vars => TypeOK'
BY DEF TypeOK, vars, positionVars

LEMMA NextTypeOK == TypeOK /\ [Next]_vars => TypeOK'
<1> SUFFICES ASSUME TypeOK, [Next]_vars PROVE TypeOK'
  OBVIOUS
<1>1. CASE UNCHANGED vars
  BY <1>1, StutterTypeOK
<1>2. ASSUME NEW k \in Key, StockStep(k) PROVE TypeOK'
  BY <1>2, AdjustTypeOK, ReserveTypeOK, CountTypeOK DEF StockStep
<1>3. ASSUME NEW k \in Key, ReservationStep(k) PROVE TypeOK'
  BY <1>3, ReleaseTypeOK, ConsumeTypeOK DEF ReservationStep
<1>4. ASSUME NEW k \in Key, TransferStep(k) PROVE TypeOK'
  BY <1>4, TransferStockTypeOK, ShipTypeOK, ReceiveTypeOK DEF TransferStep
<1>5. ASSUME NEW k \in Key, Retry(k) PROVE TypeOK'
  BY <1>5, StutterTypeOK DEF Retry
<1> QED
  BY <1>1, <1>2, <1>3, <1>4, <1>5 DEF Next

\* Every committed command leaves rows of the right types: quantities stay
\* integers, reserved never goes below zero, an ended reservation is at version
\* 2, and no transfer received more than it shipped.
THEOREM TypeCorrect == Spec => []TypeOK
BY InitTypeOK, NextTypeOK, PTL DEF Spec

-----------------------------------------------------------------------------
(* What every command does: it writes the lines and the record of the one key *)
(* it claimed, the versions it names are the current ones, and it moves them   *)
(* on.                                                                         *)

Claims(k) ==
    /\ record[k] = Unused
    /\ \A m \in Key \ {k} : ledger'[m] = ledger[m] /\ record'[m] = record[m]

Replaces(k) ==
    /\ \A p \in Position : version'[p] >= version[p]
    /\ \A e \in record'[k].expects :
          /\ e \in Position \X Nat
          /\ version[e[1]] = e[2]
          /\ version'[e[1]] > e[2]

Commits(k) == Claims(k) /\ Replaces(k)

LEMMA UpdateReplaces ==
    ASSUME TypeOK, NEW k \in Key, NEW p \in Position, NEW q \in Int, NEW r \in Int,
           UpdatePosition(p, q, r),
           record'[k].expects \subseteq {<<p, version[p]>>}
    PROVE  Replaces(k)
<1>1. /\ version' = [version EXCEPT ![p] = @ + 1]
      /\ version \in [Position -> Nat]
  BY DEF UpdatePosition, TypeOK
<1>2. \A s \in Position : version'[s] >= version[s]
  BY <1>1
<1>3. version'[p] > version[p] /\ <<p, version[p]>> \in Position \X Nat
  BY <1>1
<1> QED
  BY <1>2, <1>3 DEF Replaces

LEMMA StockCommits ==
    ASSUME TypeOK, NEW k \in Key, StockStep(k)
    PROVE  Commits(k)
<1>1. Claims(k)
  BY DEF StockStep, Adjust, Reserve, PostCount, ClaimIdempotency, PostLines,
         CompleteIdempotency, Claims, TypeOK
<1>2. ASSUME NEW p \in Position, NEW delta \in Delta, NEW allow \in BOOLEAN, NEW v \in Version,
             Adjust(k, p, delta, allow, v)
      PROVE  Replaces(k)
  <2>1. UpdatePosition(p, onHand[p] + delta, reserved[p])
    BY <1>2 DEF Adjust
  <2>2. onHand[p] + delta \in Int /\ reserved[p] \in Int
    BY QuantityAssumption DEF Delta, TypeOK
  <2>3. record'[k].expects = {<<p, version[p]>>}
    BY <1>2 DEF Adjust, CompleteIdempotency, TypeOK
  <2> QED
    BY <2>1, <2>2, <2>3, UpdateReplaces
<1>3. ASSUME NEW p \in Position, NEW q \in Quantity, NEW v \in Version, Reserve(k, p, q, v)
      PROVE  Replaces(k)
  <2>1. UpdatePosition(p, onHand[p], reserved[p] + q)
    BY <1>3 DEF Reserve
  <2>2. onHand[p] \in Int /\ reserved[p] + q \in Int
    BY QuantityAssumption DEF TypeOK
  <2>3. record'[k].expects = {<<p, version[p]>>}
    BY <1>3 DEF Reserve, CompleteIdempotency, TypeOK
  <2> QED
    BY <2>1, <2>2, <2>3, UpdateReplaces
<1>4. ASSUME NEW p \in Position, NEW counted \in Quantity \cup {0}, NEW v \in Version,
             PostCount(k, p, counted, v)
      PROVE  Replaces(k)
  <2>1. UpdatePosition(p, counted, reserved[p])
    BY <1>4 DEF PostCount
  <2>2. counted \in Int /\ reserved[p] \in Int
    BY QuantityAssumption DEF TypeOK
  <2>3. record'[k].expects = {<<p, version[p]>>}
    BY <1>4 DEF PostCount, CompleteIdempotency, TypeOK
  <2> QED
    BY <2>1, <2>2, <2>3, UpdateReplaces
<1> QED
  BY <1>1, <1>2, <1>3, <1>4 DEF StockStep, Commits

LEMMA ReservationCommits ==
    ASSUME TypeOK, NEW k \in Key, ReservationStep(k)
    PROVE  Commits(k)
<1>1. Claims(k)
  BY DEF ReservationStep, ReleaseReservation, ConsumeReservation, ClaimIdempotency,
         PostLines, CompleteIdempotency, Claims, TypeOK
<1>2. PICK r \in Key, rv \in {1, 2} :
         \/ ReleaseReservation(k, r, rv)
         \/ \E v \in Version : ConsumeReservation(k, r, rv, v)
  BY DEF ReservationStep
<1> DEFINE p == reservation[r].position
           q == reservation[r].quantity
<1>3. reservation[r].status = "active"
  BY <1>2 DEF ReleaseReservation, ConsumeReservation, ActiveReservation
<1>4. p \in Position /\ q \in Nat /\ onHand[p] \in Int /\ reserved[p] \in Int
  BY <1>3, ActiveTyped DEF TypeOK
<1>5. record'[k].expects \subseteq {<<p, version[p]>>}
  BY <1>2 DEF ReleaseReservation, ConsumeReservation, CompleteIdempotency, TypeOK
<1>6. \/ UpdatePosition(p, onHand[p], reserved[p] - q)
      \/ UpdatePosition(p, onHand[p] - q, reserved[p] - q)
  BY <1>2 DEF ReleaseReservation, ConsumeReservation
<1> HIDE DEF p, q
<1>7. \E x \in Int, y \in Int : UpdatePosition(p, x, y)
  <2>1. onHand[p] - q \in Int /\ reserved[p] - q \in Int
    BY <1>4
  <2> QED
    BY <1>4, <1>6, <2>1
<1> QED
  BY <1>1, <1>4, <1>5, <1>7, UpdateReplaces DEF Commits

LEMMA TransferCommits ==
    ASSUME TypeOK, NEW k \in Key, TransferStep(k)
    PROVE  Commits(k)
<1>1. ASSUME NEW s \in Position, NEW d \in Position, NEW q \in Quantity,
             NEW v \in Version, NEW vd \in Version, s # d, TransferStock(k, s, d, q, v, vd)
      PROVE  Commits(k)
  <2>1. Claims(k)
    BY <1>1 DEF TransferStock, ClaimIdempotency, PostLines, CompleteIdempotency, Claims, TypeOK
  <2>2. record'[k].expects = {<<s, version[s]>>, <<d, version[d]>>}
    BY <1>1 DEF TransferStock, CompleteIdempotency, TypeOK
  <2>3. version' = [version EXCEPT ![s] = @ + 1, ![d] = @ + 1] /\ version \in [Position -> Nat]
    BY <1>1 DEF TransferStock, TypeOK
  <2>4. /\ \A p \in Position : version'[p] >= version[p]
        /\ version'[s] > version[s]
        /\ version'[d] > version[d]
    BY <1>1, <2>3
  <2>5. Replaces(k)
    BY <2>2, <2>3, <2>4 DEF Replaces
  <2> QED
    BY <2>1, <2>5 DEF Commits
<1>2. ASSUME NEW s \in Position, NEW d \in Position, NEW q \in Quantity, NEW v \in Version,
             ShipTransfer(k, s, d, q, v)
      PROVE  Commits(k)
  <2>1. Claims(k)
    BY <1>2 DEF ShipTransfer, ClaimIdempotency, PostLines, CompleteIdempotency, Claims, TypeOK
  <2>2. record'[k].expects = {<<s, version[s]>>}
    BY <1>2 DEF ShipTransfer, CompleteIdempotency, TypeOK
  <2>3. UpdatePosition(s, onHand[s] - q, reserved[s])
    BY <1>2 DEF ShipTransfer
  <2>4. onHand[s] - q \in Int /\ reserved[s] \in Int
    BY QuantityAssumption DEF TypeOK
  <2> QED
    BY <2>1, <2>2, <2>3, <2>4, UpdateReplaces DEF Commits
<1>3. ASSUME NEW i \in Key, NEW got \in Quantity \cup {0}, NEW v \in Version,
             ReceiveTransfer(k, i, got, v)
      PROVE  Commits(k)
  <2> DEFINE d == transfer[i].destination
  <2>1. Claims(k)
    BY <1>3 DEF ReceiveTransfer, ClaimIdempotency, PostLines, CompleteIdempotency, Claims, TypeOK
  <2>2. d \in Position /\ got \in Nat /\ onHand[d] + got \in Int /\ reserved[d] \in Int
    BY <1>3, QuantityAssumption, ShippedTyped DEF ReceiveTransfer, AwaitsReceipt, TypeOK
  <2>3. CASE got > 0
    <3>1. record'[k].expects = {<<d, version[d]>>}
      BY <1>3, <2>3 DEF ReceiveTransfer, CompleteIdempotency, TypeOK
    <3>2. UpdatePosition(d, onHand[d] + got, reserved[d])
      BY <1>3, <2>3 DEF ReceiveTransfer
    <3> QED
      BY <2>1, <2>2, <3>1, <3>2, UpdateReplaces DEF Commits
  <2>4. CASE ~(got > 0)
    <3>1. record'[k].expects = {}
      BY <1>3, <2>4 DEF ReceiveTransfer, CompleteIdempotency, TypeOK
    <3>2. version' = version
      BY <1>3, <2>4 DEF ReceiveTransfer, positionVars
    <3> QED
      BY <2>1, <3>1, <3>2 DEF Commits, Replaces, TypeOK
  <2> QED
    BY <2>3, <2>4
<1>4. \A r \in Route : r[1] \in Position /\ r[2] \in Position /\ r[1] # r[2]
  BY PositionAssumption
<1> QED
  BY <1>1, <1>2, <1>3, <1>4 DEF TransferStep

LEMMA StepCommits ==
    ASSUME TypeOK, Next, ~UNCHANGED vars
    PROVE  \E k \in Key : Commits(k)
BY StockCommits, ReservationCommits, TransferCommits DEF Next, Retry

LEMMA OverrideStays ==
    ASSUME TypeOK, Next, NEW p \in Position, Overridden(p)
    PROVE  Overridden(p)'
<1>1. CASE UNCHANGED vars
  BY <1>1 DEF Overridden, vars
<1>2. CASE ~UNCHANGED vars
  <2> PICK k \in Key : Claims(k)
    BY <1>2, StepCommits DEF Commits
  <2> PICK m \in Key : /\ record[m].op = "adjust"
                       /\ record[m].allowNegative
                       /\ \E l \in ledger[m] : l.account = "on_hand" /\ l.position = p
    BY DEF Overridden
  <2>1. m # k
    BY DEF Claims, Unused
  <2> QED
    BY <2>1 DEF Claims, Overridden
<1> QED
  BY <1>1, <1>2

-----------------------------------------------------------------------------
(* Availability. *)

\* A step leaves p with no less available than before, or with something
\* available, or with an override on record.
Justified(p) ==
    \/ onHand'[p] - reserved'[p] >= onHand[p] - reserved[p]
    \/ reserved'[p] <= onHand'[p]
    \/ Overridden(p)'

LEMMA UpdateElsewhere ==
    ASSUME TypeOK, NEW p \in Position, NEW s \in Position, p # s,
           NEW q \in Int, NEW r \in Int, UpdatePosition(s, q, r)
    PROVE  Justified(p)
BY DEF UpdatePosition, TypeOK, Justified

LEMMA AdjustJustified ==
    ASSUME TypeOK, NEW k \in Key, NEW s \in Position, NEW delta \in Delta,
           NEW allow \in BOOLEAN, NEW v \in Version, Adjust(k, s, delta, allow, v),
           NEW p \in Position
    PROVE  Justified(p)
<1>1. delta \in Int /\ onHand[s] + delta \in Int /\ reserved[s] \in Int
  BY QuantityAssumption DEF Delta, TypeOK
<1>2. UpdatePosition(s, onHand[s] + delta, reserved[s])
  BY DEF Adjust
<1>3. CASE p # s
  BY <1>1, <1>2, <1>3, UpdateElsewhere
<1>4. CASE p = s /\ ~allow
  BY <1>1, <1>4 DEF Adjust, UpdatePosition, Justified, TypeOK
<1>5. CASE p = s /\ allow
  <2>1. record'[k].op = "adjust" /\ record'[k].allowNegative
    BY <1>5 DEF Adjust, CompleteIdempotency, TypeOK
  <2>2. Entry("on_hand", s, delta) \in ledger'[k]
    BY DEF Adjust, PostLines, TypeOK
  <2>3. Overridden(p)'
    BY <1>5, <2>1, <2>2 DEF Overridden, Entry
  <2> QED
    BY <2>3 DEF Justified
<1> QED
  BY <1>3, <1>4, <1>5

LEMMA StockJustified ==
    ASSUME TypeOK, NEW k \in Key, StockStep(k), NEW p \in Position
    PROVE  Justified(p)
<1>1. ASSUME NEW s \in Position, NEW q \in Quantity, NEW v \in Version, Reserve(k, s, q, v)
      PROVE  Justified(p)
  <2>1. q \in Nat /\ onHand[s] \in Int /\ reserved[s] + q \in Int
    BY QuantityAssumption DEF TypeOK
  <2>2. UpdatePosition(s, onHand[s], reserved[s] + q) /\ onHand[s] - reserved[s] >= q
    BY <1>1 DEF Reserve, Available
  <2>3. CASE p # s
    BY <2>1, <2>2, <2>3, UpdateElsewhere
  <2>4. CASE p = s
    BY <2>1, <2>2, <2>4 DEF UpdatePosition, Justified, TypeOK
  <2> QED
    BY <2>3, <2>4
<1>2. ASSUME NEW s \in Position, NEW counted \in Quantity \cup {0}, NEW v \in Version,
             PostCount(k, s, counted, v)
      PROVE  Justified(p)
  <2>1. counted \in Int /\ reserved[s] \in Int
    BY QuantityAssumption DEF TypeOK
  <2>2. UpdatePosition(s, counted, reserved[s]) /\ counted >= reserved[s]
    BY <1>2 DEF PostCount
  <2>3. CASE p # s
    BY <2>1, <2>2, <2>3, UpdateElsewhere
  <2>4. CASE p = s
    BY <2>1, <2>2, <2>4 DEF UpdatePosition, Justified, TypeOK
  <2> QED
    BY <2>3, <2>4
<1> QED
  BY <1>1, <1>2, AdjustJustified DEF StockStep

LEMMA ReservationJustified ==
    ASSUME TypeOK, NEW k \in Key, ReservationStep(k), NEW p \in Position
    PROVE  Justified(p)
<1>1. PICK r \in Key, rv \in {1, 2} :
         \/ ReleaseReservation(k, r, rv)
         \/ \E v \in Version : ConsumeReservation(k, r, rv, v)
  BY DEF ReservationStep
<1> DEFINE s == reservation[r].position
           q == reservation[r].quantity
<1>2. reservation[r].status = "active"
  BY <1>1 DEF ReleaseReservation, ConsumeReservation, ActiveReservation
<1>3. s \in Position /\ q \in Nat /\ onHand[s] \in Int /\ reserved[s] \in Int
  BY <1>2, ActiveTyped DEF TypeOK
<1>4. \/ UpdatePosition(s, onHand[s], reserved[s] - q)
      \/ UpdatePosition(s, onHand[s] - q, reserved[s] - q)
  BY <1>1 DEF ReleaseReservation, ConsumeReservation
<1> HIDE DEF s, q
<1>5. CASE p # s
  BY <1>3, <1>4, <1>5, UpdateElsewhere
<1>6. CASE p = s
  BY <1>3, <1>4, <1>6 DEF UpdatePosition, Justified, TypeOK
<1> QED
  BY <1>5, <1>6

LEMMA TransferJustified ==
    ASSUME TypeOK, NEW k \in Key, TransferStep(k), NEW p \in Position
    PROVE  Justified(p)
<1>1. ASSUME NEW r \in Route, NEW q \in Quantity, NEW v \in Version, NEW vd \in Version,
             TransferStock(k, r[1], r[2], q, v, vd)
      PROVE  Justified(p)
  <2>1. r[1] \in Position /\ r[2] \in Position /\ r[1] # r[2] /\ q \in Nat
    BY PositionAssumption, QuantityAssumption
  <2> QED
    BY <1>1, <2>1 DEF TransferStock, Available, Justified, TypeOK
<1>2. ASSUME NEW r \in Route, NEW q \in Quantity, NEW v \in Version,
             ShipTransfer(k, r[1], r[2], q, v)
      PROVE  Justified(p)
  <2>1. r[1] \in Position /\ q \in Nat
    BY PositionAssumption, QuantityAssumption
  <2> QED
    BY <1>2, <2>1 DEF ShipTransfer, UpdatePosition, Available, Justified, TypeOK
<1>3. ASSUME NEW i \in Key, NEW got \in Quantity \cup {0}, NEW v \in Version,
             ReceiveTransfer(k, i, got, v)
      PROVE  Justified(p)
  <2>1. got \in Nat /\ transfer[i].destination \in Position
    BY <1>3, QuantityAssumption, ShippedTyped DEF ReceiveTransfer, AwaitsReceipt
  <2> QED
    BY <1>3, <2>1 DEF ReceiveTransfer, UpdatePosition, positionVars, Justified, TypeOK
<1> QED
  BY <1>1, <1>2, <1>3 DEF TransferStep

\* Stock is never promised twice: whatever commands commit in whatever order, a
\* position that nobody adjusted with allow_negative holds what it has reserved.
THEOREM NeverOversold == Spec => []NoOversell
<1>1. Init => NoOversell
  BY DEF Init, NoOversell
<1>2. TypeOK /\ NoOversell /\ [Next]_vars => NoOversell'
  <2> SUFFICES ASSUME TypeOK, NoOversell, [Next]_vars PROVE NoOversell'
    OBVIOUS
  <2>1. CASE UNCHANGED vars
    BY <2>1 DEF NoOversell, Overridden, vars, positionVars
  <2>2. CASE Next
    <3> SUFFICES ASSUME NEW p \in Position, ~Overridden(p)' PROVE reserved'[p] <= onHand'[p]
      BY DEF NoOversell
    <3>1. ~Overridden(p)
      BY <2>2, OverrideStays
    <3>2. reserved[p] <= onHand[p]
      BY <3>1 DEF NoOversell
    <3>3. Justified(p)
      <4> PICK k \in Key : StockStep(k) \/ ReservationStep(k) \/ TransferStep(k) \/ Retry(k)
        BY <2>2 DEF Next
      <4>1. CASE Retry(k)
        BY <4>1, <3>2 DEF Retry, vars, positionVars, Justified
      <4> QED
        BY <4>1, StockJustified, ReservationJustified, TransferJustified
    <3>4. reserved[p] \in Int /\ onHand[p] \in Int
      BY DEF TypeOK
    <3>5. TypeOK'
      BY NextTypeOK
    <3> QED
      BY <3>2, <3>3, <3>4, <3>5 DEF Justified, TypeOK
  <2> QED
    BY <2>1, <2>2
<1> QED
  BY <1>1, <1>2, TypeCorrect, PTL DEF Spec

-----------------------------------------------------------------------------
(* Lost updates. *)

\* The strengthening of NoLostUpdate: every version on record has been replaced.
Superseded == \A k \in Key : record[k] # Unused =>
                 \A e \in record[k].expects : e[1] \in Position /\ e[2] < version[e[1]]

LEMMA SupersededStep ==
    ASSUME TypeOK, TypeOK', Superseded, NEW k \in Key, Commits(k)
    PROVE  Superseded'
<1> SUFFICES ASSUME NEW m \in Key, record'[m] # Unused, NEW e \in record'[m].expects
             PROVE  e[1] \in Position /\ e[2] < version'[e[1]]
  BY DEF Superseded
<1>1. CASE m = k
  BY <1>1 DEF Commits, Replaces, TypeOK
<1>2. CASE m # k
  <2>1. record'[m] = record[m]
    BY <1>2 DEF Commits, Claims
  <2>2. e[1] \in Position /\ e[2] < version[e[1]] /\ version'[e[1]] >= version[e[1]]
    BY <2>1 DEF Superseded, Commits, Replaces
  <2>3. version[e[1]] \in Nat /\ version'[e[1]] \in Nat
    BY <2>2 DEF TypeOK
  <2>4. e[2] \in Nat
    BY <2>1 DEF TypeOK, Command, Unused
  <2> QED
    BY <2>2, <2>3, <2>4
<1> QED
  BY <1>1, <1>2

\* Two commands that both name the position version they replaced never name the
\* same one: no write is computed from a row another command has since replaced.
THEOREM NoUpdateLost == Spec => []NoLostUpdate
<1> DEFINE IInv == Superseded /\ NoLostUpdate
<1>1. Init => IInv
  BY DEF Init, Superseded, NoLostUpdate
<1>2. TypeOK /\ TypeOK' /\ IInv /\ [Next]_vars => IInv'
  <2> SUFFICES ASSUME TypeOK, TypeOK', IInv, [Next]_vars PROVE IInv'
    OBVIOUS
  <2>1. CASE UNCHANGED vars
    BY <2>1 DEF Superseded, NoLostUpdate, vars, positionVars
  <2>2. CASE ~UNCHANGED vars
    <3> PICK k \in Key : Commits(k)
      BY <2>2, StepCommits
    <3>1. Superseded'
      BY SupersededStep
    <3>2. \A m \in Key \ {k} : record'[m] # Unused => record'[k].expects \cap record'[m].expects = {}
      <4> SUFFICES ASSUME NEW m \in Key \ {k}, record'[m] # Unused,
                          NEW e \in record'[k].expects, e \in record'[m].expects
                   PROVE  FALSE
        OBVIOUS
      <4>1. version[e[1]] = e[2] /\ e \in Position \X Nat
        BY DEF Commits, Replaces
      <4>2. e[2] < version[e[1]]
        BY DEF Commits, Claims, Superseded
      <4> QED
        BY <4>1, <4>2
    <3>3. NoLostUpdate'
      BY <3>2 DEF Commits, Claims, NoLostUpdate
    <3> QED
      BY <3>1, <3>3
  <2> QED
    BY <2>1, <2>2
<1>3. IInv => NoLostUpdate
  OBVIOUS
<1> QED
  BY <1>1, <1>2, <1>3, TypeCorrect, PTL DEF Spec

-----------------------------------------------------------------------------
(* Reconciliation.  A command books its lines under the key it has claimed,   *)
(* so they are new, and of the lines any of the views adds up there are at     *)
(* most two among them.                                                        *)

\* What is booked under a key waits for its claim.
Fresh ==
    \A k \in Key : record[k] = Unused =>
        ledger[k] = {} /\ reservation[k] = NoReservation /\ transfer[k] = NoTransfer

LEMMA FreshStep ==
    ASSUME TypeOK, Fresh, [Next]_vars
    PROVE  Fresh'
<1>1. CASE UNCHANGED vars
  BY <1>1 DEF Fresh, vars, positionVars
<1>2. CASE Next
  <2> PICK k \in Key : StockStep(k) \/ ReservationStep(k) \/ TransferStep(k) \/ Retry(k)
    BY <1>2 DEF Next
  <2>1. CASE StockStep(k)
    BY <2>1 DEF StockStep, Adjust, Reserve, PostCount, PostLines, CompleteIdempotency,
                Unused, Fresh, TypeOK
  <2>2. CASE ReservationStep(k)
    <3>1. ASSUME NEW r \in Key, NEW rv \in {1, 2}, ReleaseReservation(k, r, rv) PROVE Fresh'
      BY <3>1 DEF ReleaseReservation, EndReservation, ActiveReservation, PostLines, CompleteIdempotency,
                  Unused, NoReservation, Fresh, TypeOK
    <3>2. ASSUME NEW r \in Key, NEW rv \in {1, 2}, NEW v \in Version, ConsumeReservation(k, r, rv, v) PROVE Fresh'
      BY <3>2 DEF ConsumeReservation, EndReservation, ActiveReservation, PostLines, CompleteIdempotency,
                  Unused, NoReservation, Fresh, TypeOK
    <3> QED
      BY <2>2, <3>1, <3>2 DEF ReservationStep
  <2>3. CASE TransferStep(k)
    <3>1. ASSUME NEW r \in Route, NEW q \in Quantity, NEW v \in Version, NEW vd \in Version,
                 TransferStock(k, r[1], r[2], q, v, vd) \/ ShipTransfer(k, r[1], r[2], q, v)
          PROVE  Fresh'
      BY <3>1 DEF TransferStock, ShipTransfer, PostLines, CompleteIdempotency, Unused, Fresh, TypeOK
    <3>2. ASSUME NEW i \in Key, NEW got \in Quantity \cup {0}, NEW v \in Version,
                 ReceiveTransfer(k, i, got, v)
          PROVE  Fresh'
      <4>1. record[i] # Unused
        BY <3>2 DEF ReceiveTransfer, AwaitsReceipt, NoTransfer, Fresh
      <4>2. \A m \in Key : m # k => ledger'[m] = ledger[m] /\ record'[m] = record[m]
        BY <3>2 DEF ReceiveTransfer, PostLines, CompleteIdempotency, TypeOK
      <4>3. reservation' = reservation /\ \A m \in Key : m # i => transfer'[m] = transfer[m]
        BY <3>2 DEF ReceiveTransfer, TypeOK
      <4>4. record'[k] # Unused
        BY <3>2 DEF ReceiveTransfer, CompleteIdempotency, Unused, TypeOK
      <4> QED
        BY <4>1, <4>2, <4>3, <4>4 DEF Fresh
    <3> QED
      BY <2>3, <3>1, <3>2 DEF TransferStep
  <2>4. CASE Retry(k)
    BY <2>4 DEF Retry, Fresh, vars, positionVars
  <2> QED
    BY <2>1, <2>2, <2>3, <2>4
<1> QED
  BY <1>1, <1>2

\* The units of the lines in a set that move in the direction of s, which is 1 or -1.
Flow(lines, s) ==
    UNION {UNION {LineUnits(k, l, s * l.quantity) : l \in ledger[k] \cap lines} : k \in Key}

Finite(lines) == IsFiniteSet(Flow(lines, 1)) /\ IsFiniteSet(Flow(lines, -1))
Balance(lines) == Cardinality(Flow(lines, 1)) - Cardinality(Flow(lines, -1))

LEMMA UnitOfFlow ==
    ASSUME NEW lines, NEW s \in {1, -1}
    PROVE  \A u : u \in Flow(lines, s) <=>
              \E k \in Key : \E l \in ledger[k] \cap lines : u \in {<<k, l>>} \X (1..(s * l.quantity))
BY DEF Flow, LineUnits

LEMMA UnitOfFlowNext ==
    ASSUME NEW lines, NEW s \in {1, -1}
    PROVE  \A u : u \in Flow(lines, s)' <=>
              \E k \in Key : \E l \in ledger'[k] \cap lines : u \in {<<k, l>>} \X (1..(s * l.quantity))
BY DEF Flow, LineUnits

LEMMA NoLineInFlow ==
    ASSUME TypeOK, NEW k \in Key, NEW booked \in SUBSET Line, ledger[k] = {}, PostLines(k, booked),
           NEW lines, NEW s \in {1, -1}, \A l \in booked \cap lines : s * l.quantity <= 0
    PROVE  Flow(lines, s)' = Flow(lines, s)
<1>1. ledger' = [ledger EXCEPT ![k] = booked] /\ ledger \in [Key -> SUBSET Line]
  BY DEF PostLines, TypeOK
<1>2. \A l \in booked \cap lines : 1..(s * l.quantity) = {}
  BY DEF Line
<1>3. \A m \in Key : m # k => ledger'[m] = ledger[m]
  BY <1>1
<1>4. ledger'[k] = booked
  BY <1>1
<1>5. ASSUME NEW u PROVE u \in Flow(lines, s)' <=> u \in Flow(lines, s)
  <2>1. ASSUME u \in Flow(lines, s) PROVE u \in Flow(lines, s)'
    <3> PICK m \in Key : \E l \in ledger[m] \cap lines :
            u \in {<<m, l>>} \X (1..(s * l.quantity))
      BY <2>1, UnitOfFlow
    <3> QED
      BY <1>3, UnitOfFlowNext
  <2>2. ASSUME u \in Flow(lines, s)' PROVE u \in Flow(lines, s)
    <3> PICK m \in Key : \E l \in ledger'[m] \cap lines :
            u \in {<<m, l>>} \X (1..(s * l.quantity))
      BY <2>2, UnitOfFlowNext
    <3> QED
      BY <1>2, <1>3, <1>4, UnitOfFlow
  <2> QED
    BY <2>1, <2>2
<1> QED
  BY <1>5

LEMMA OneLineInFlow ==
    ASSUME TypeOK, NEW k \in Key, NEW booked \in SUBSET Line, ledger[k] = {}, PostLines(k, booked),
           NEW lines, NEW s \in {1, -1}, NEW e \in booked \cap lines,
           \A l \in booked \cap lines : l # e => s * l.quantity <= 0,
           s * e.quantity > 0, IsFiniteSet(Flow(lines, s))
    PROVE  /\ IsFiniteSet(Flow(lines, s)')
           /\ Cardinality(Flow(lines, s)') = Cardinality(Flow(lines, s)) + s * e.quantity
<1>1. ledger' = [ledger EXCEPT ![k] = booked] /\ ledger \in [Key -> SUBSET Line]
  BY DEF PostLines, TypeOK
<1>2. \A l \in booked \cap lines : l # e => 1..(s * l.quantity) = {}
  BY DEF Line
<1>3. \A m \in Key : m # k => ledger'[m] = ledger[m]
  BY <1>1
<1>4. ledger'[k] = booked
  BY <1>1
<1> DEFINE New == {<<k, e>>} \X (1..(s * e.quantity))
<1>5. ASSUME NEW u PROVE u \in Flow(lines, s)' <=> u \in Flow(lines, s) \cup New
  <2>1. ASSUME u \in Flow(lines, s) PROVE u \in Flow(lines, s)'
    <3> PICK m \in Key : \E l \in ledger[m] \cap lines :
            u \in {<<m, l>>} \X (1..(s * l.quantity))
      BY <2>1, UnitOfFlow
    <3> QED
      BY <1>3, UnitOfFlowNext
  <2>2. ASSUME u \in New PROVE u \in Flow(lines, s)'
    BY <2>2, <1>4, UnitOfFlowNext
  <2>3. ASSUME u \in Flow(lines, s)' PROVE u \in Flow(lines, s) \cup New
    <3> PICK m \in Key : \E l \in ledger'[m] \cap lines :
            u \in {<<m, l>>} \X (1..(s * l.quantity))
      BY <2>3, UnitOfFlowNext
    <3> QED
      BY <1>2, <1>3, <1>4, UnitOfFlow
  <2> QED
    BY <2>1, <2>2, <2>3
<1>6. Flow(lines, s)' = Flow(lines, s) \cup New
  BY <1>5
<1>7. \A u \in Flow(lines, s) : u[1] # <<k, e>>
  BY UnitOfFlow
<1>8. s * e.quantity \in Int
  BY DEF Line
<1>9. /\ IsFiniteSet(Flow(lines, s) \cup New)
      /\ Cardinality(Flow(lines, s) \cup New) =
           Cardinality(Flow(lines, s)) + (IF s * e.quantity > 0 THEN s * e.quantity ELSE 0)
  BY <1>7, <1>8, TermAdded
<1> HIDE DEF New
<1> QED
  BY <1>6, <1>9

\* One line of the set is booked, or none that counts, or two that cancel out.
LEMMA OneLineBooked ==
    ASSUME TypeOK, NEW k \in Key, NEW booked \in SUBSET Line, ledger[k] = {}, PostLines(k, booked),
           NEW lines, Finite(lines), NEW e \in Line, e.quantity # 0, booked \cap lines = {e}
    PROVE  Finite(lines)' /\ Balance(lines)' = Balance(lines) + e.quantity
<1>1. e.quantity \in Int /\ e \in booked \cap lines
  BY DEF Line
<1>2. Cardinality(Flow(lines, 1)) \in Nat /\ Cardinality(Flow(lines, -1)) \in Nat
  BY FS_CardinalityType DEF Finite
<1>3. CASE e.quantity > 0
  <2>1. /\ IsFiniteSet(Flow(lines, 1)')
        /\ Cardinality(Flow(lines, 1)') = Cardinality(Flow(lines, 1)) + 1 * e.quantity
    BY <1>1, <1>3, OneLineInFlow DEF Finite
  <2>2. Flow(lines, -1)' = Flow(lines, -1)
    <3> PICK s \in {1, -1} : s = -1
      OBVIOUS
    <3>1. \A l \in booked \cap lines : s * l.quantity <= 0
      BY <1>1, <1>3
    <3>2. Flow(lines, s)' = Flow(lines, s)
      BY <3>1, NoLineInFlow
    <3> QED
      BY <3>2
  <2> QED
    BY <1>1, <1>2, <2>1, <2>2 DEF Finite, Balance
<1>4. CASE e.quantity < 0
  <2>1. /\ IsFiniteSet(Flow(lines, -1)')
        /\ Cardinality(Flow(lines, -1)') = Cardinality(Flow(lines, -1)) + -1 * e.quantity
    <3>1. -1 * e.quantity > 0 /\ \A l \in booked \cap lines : l # e => -1 * l.quantity <= 0
      BY <1>1, <1>4
    <3> QED
      BY <1>1, <3>1, OneLineInFlow DEF Finite
  <2>2. Flow(lines, 1)' = Flow(lines, 1)
    <3>1. \A l \in booked \cap lines : 1 * l.quantity <= 0
      BY <1>1, <1>4
    <3> QED
      BY <3>1, NoLineInFlow
  <2> QED
    BY <1>1, <1>2, <2>1, <2>2 DEF Finite, Balance
<1> QED
  BY <1>1, <1>3, <1>4

LEMMA NoLineBooked ==
    ASSUME TypeOK, NEW k \in Key, NEW booked \in SUBSET Line, ledger[k] = {}, PostLines(k, booked),
           NEW lines, Finite(lines), booked \cap lines = {}
    PROVE  Finite(lines)' /\ Balance(lines)' = Balance(lines)
<1>1. Flow(lines, 1)' = Flow(lines, 1) /\ Flow(lines, -1)' = Flow(lines, -1)
  BY NoLineInFlow
<1> QED
  BY <1>1 DEF Finite, Balance

LEMMA TwoLinesBooked ==
    ASSUME TypeOK, NEW k \in Key, NEW booked \in SUBSET Line, ledger[k] = {}, PostLines(k, booked),
           NEW lines, Finite(lines), NEW e \in Line, NEW f \in Line, booked \cap lines = {e, f},
           e.quantity > 0, f.quantity = -e.quantity
    PROVE  Finite(lines)' /\ Balance(lines)' = Balance(lines)
<1>1. e.quantity \in Int /\ e # f /\ e \in booked \cap lines /\ f \in booked \cap lines
  BY DEF Line
<1>2. /\ IsFiniteSet(Flow(lines, 1)')
      /\ Cardinality(Flow(lines, 1)') = Cardinality(Flow(lines, 1)) + 1 * e.quantity
  <2>1. 1 * e.quantity > 0 /\ \A l \in booked \cap lines : l # e => 1 * l.quantity <= 0
    BY <1>1
  <2> QED
    BY <1>1, <2>1, OneLineInFlow DEF Finite
<1>3. /\ IsFiniteSet(Flow(lines, -1)')
      /\ Cardinality(Flow(lines, -1)') = Cardinality(Flow(lines, -1)) + -1 * f.quantity
  <2>1. -1 * f.quantity > 0 /\ \A l \in booked \cap lines : l # f => -1 * l.quantity <= 0
    BY <1>1
  <2> QED
    BY <1>1, <2>1, OneLineInFlow DEF Finite
<1>4. Cardinality(Flow(lines, 1)) \in Nat /\ Cardinality(Flow(lines, -1)) \in Nat
  BY FS_CardinalityType DEF Finite
<1> QED
  BY <1>1, <1>2, <1>3, <1>4 DEF Finite, Balance

-----------------------------------------------------------------------------
(* The reserved column.                                                      *)

ReservedMatches ==
    \A p \in Position : IsFiniteSet(ReservedUnits(p)) /\ reserved[p] = ReservationTotal(p)

LEMMA UnitReserved ==
    ASSUME NEW p
    PROVE  /\ \A u : u \in ReservedUnits(p) <=>
                \E m \in Key : /\ reservation[m].status = "active" /\ reservation[m].position = p
                               /\ u \in {m} \X (1..reservation[m].quantity)
           /\ \A u : u \in ReservedUnits(p)' <=>
                \E m \in Key : /\ reservation'[m].status = "active" /\ reservation'[m].position = p
                               /\ u \in {m} \X (1..reservation'[m].quantity)
BY DEF ReservedUnits

LEMMA SameReserved ==
    ASSUME NEW p,
           \A m \in Key :
              /\ (reservation[m].status = "active" /\ reservation[m].position = p)
                    <=> (reservation'[m].status = "active" /\ reservation'[m].position = p)
              /\ (reservation[m].status = "active" /\ reservation[m].position = p)
                    => reservation'[m] = reservation[m]
    PROVE  ReservedUnits(p)' = ReservedUnits(p)
<1>1. ASSUME NEW u, u \in ReservedUnits(p) PROVE u \in ReservedUnits(p)'
  <2> PICK m \in Key : /\ reservation[m].status = "active" /\ reservation[m].position = p
                       /\ u \in {m} \X (1..reservation[m].quantity)
    BY <1>1, UnitReserved
  <2> QED
    BY UnitReserved
<1>2. ASSUME NEW u, u \in ReservedUnits(p)' PROVE u \in ReservedUnits(p)
  <2> PICK m \in Key : /\ reservation'[m].status = "active" /\ reservation'[m].position = p
                       /\ u \in {m} \X (1..reservation'[m].quantity)
    BY <1>2, UnitReserved
  <2> QED
    BY UnitReserved
<1> QED
  BY <1>1, <1>2

\* A new active reservation adds its units to its position.
LEMMA ReservationAdded ==
    ASSUME TypeOK, ReservedMatches, NEW k \in Key, NEW q \in Nat \ {0}, NEW x \in Position,
           reservation[k] = NoReservation,
           reservation' = [reservation EXCEPT ![k] =
               [status |-> "active", position |-> x, quantity |-> q, version |-> 1]],
           reserved' = [reserved EXCEPT ![x] = @ + q]
    PROVE  ReservedMatches'
<1>1. /\ \A m \in Key : m # k => reservation'[m] = reservation[m]
      /\ reservation'[k].status = "active" /\ reservation'[k].position = x
      /\ reservation'[k].quantity = q
      /\ reservation[k].status # "active"
  BY DEF TypeOK, NoReservation
<1> SUFFICES ASSUME NEW p \in Position
             PROVE  IsFiniteSet(ReservedUnits(p)') /\ reserved'[p] = Cardinality(ReservedUnits(p)')
  BY DEF ReservedMatches, ReservationTotal
<1>2. IsFiniteSet(ReservedUnits(p)) /\ reserved[p] = Cardinality(ReservedUnits(p))
  BY DEF ReservedMatches, ReservationTotal
<1>3. CASE p # x
  <2>1. ReservedUnits(p)' = ReservedUnits(p)
    <3>1. ASSUME NEW m \in Key
          PROVE  /\ (reservation[m].status = "active" /\ reservation[m].position = p)
                       <=> (reservation'[m].status = "active" /\ reservation'[m].position = p)
                 /\ (reservation[m].status = "active" /\ reservation[m].position = p)
                       => reservation'[m] = reservation[m]
      BY <1>1, <1>3
    <3> QED
      BY <3>1, SameReserved
  <2>2. reserved'[p] = reserved[p]
    BY <1>3 DEF TypeOK
  <2> QED
    BY <1>2, <2>1, <2>2
<1>4. CASE p = x
  <2>1. ReservedUnits(p)' = ReservedUnits(p) \cup ({k} \X (1..q))
    BY <1>1, <1>4, UnitReserved
  <2>2. \A u \in ReservedUnits(p) : u[1] # k
    BY <1>1, UnitReserved
  <2>3. /\ IsFiniteSet(ReservedUnits(p) \cup ({k} \X (1..q)))
        /\ Cardinality(ReservedUnits(p) \cup ({k} \X (1..q)))
             = Cardinality(ReservedUnits(p)) + (IF q > 0 THEN q ELSE 0)
    <3>1. q \in Int
      OBVIOUS
    <3> QED
      BY <1>2, <2>2, <3>1, TermAdded
  <2>4. reserved'[p] = reserved[p] + q
    BY <1>4 DEF TypeOK
  <2> QED
    BY <1>2, <2>1, <2>3, <2>4
<1> QED
  BY <1>3, <1>4

\* One that ends takes them away.
LEMMA ReservationEnded ==
    ASSUME TypeOK, ReservedMatches, NEW r \in Key, NEW status, status # "active",
           reservation[r].status = "active", EndReservation(r, status),
           reserved' = [reserved EXCEPT ![reservation[r].position] = @ - reservation[r].quantity]
    PROVE  ReservedMatches'
<1> DEFINE x == reservation[r].position
           q == reservation[r].quantity
<1>1. x \in Position /\ q \in Nat \ {0}
  BY ActiveTyped
<1>2. /\ \A m \in Key : m # r => reservation'[m] = reservation[m]
      /\ reservation'[r].status # "active"
  BY DEF TypeOK, EndReservation
<1> SUFFICES ASSUME NEW p \in Position
             PROVE  IsFiniteSet(ReservedUnits(p)') /\ reserved'[p] = Cardinality(ReservedUnits(p)')
  BY DEF ReservedMatches, ReservationTotal
<1>3. IsFiniteSet(ReservedUnits(p)) /\ reserved[p] = Cardinality(ReservedUnits(p))
  BY DEF ReservedMatches, ReservationTotal
<1>4. CASE p # x
  <2>1. ReservedUnits(p)' = ReservedUnits(p)
    <3>1. ASSUME NEW m \in Key
          PROVE  /\ (reservation[m].status = "active" /\ reservation[m].position = p)
                       <=> (reservation'[m].status = "active" /\ reservation'[m].position = p)
                 /\ (reservation[m].status = "active" /\ reservation[m].position = p)
                       => reservation'[m] = reservation[m]
      BY <1>2, <1>4
    <3> QED
      BY <3>1, SameReserved
  <2>2. reserved'[p] = reserved[p]
    BY <1>4 DEF TypeOK
  <2> QED
    BY <1>3, <2>1, <2>2
<1>5. CASE p = x
  <2>1. ReservedUnits(p) = ReservedUnits(p)' \cup ({r} \X (1..q))
    BY <1>2, <1>5, UnitReserved
  <2>2. \A u \in ReservedUnits(p)' : u[1] # r
    BY <1>2, UnitReserved
  <2>3. IsFiniteSet(ReservedUnits(p)')
    BY <1>3, <2>1, FS_Subset
  <2>4. Cardinality(ReservedUnits(p)' \cup ({r} \X (1..q)))
          = Cardinality(ReservedUnits(p)') + (IF q > 0 THEN q ELSE 0)
    <3>1. q \in Int
      BY <1>1
    <3> HIDE DEF q
    <3> QED
      BY <2>2, <2>3, <3>1, TermAdded
  <2>5. Cardinality(ReservedUnits(p)') \in Nat
    BY <2>3, FS_CardinalityType
  <2>6. reserved'[p] = reserved[p] - q
    BY <1>5 DEF TypeOK
  <2> QED
    BY <1>1, <1>3, <2>1, <2>3, <2>4, <2>5, <2>6
<1> QED
  BY <1>4, <1>5

-----------------------------------------------------------------------------
(* The on_hand column and the in_transit account. *)

OnHandLines(p) == {l \in Line : l.account = "on_hand" /\ l.position = p}
InTransitLines == {l \in Line : l.account = "in_transit" /\ l.position \in Position}

LEMMA OnHandFlow ==
    ASSUME TypeOK, NEW p
    PROVE  /\ Inflow("on_hand", p) = Flow(OnHandLines(p), 1)
           /\ Outflow("on_hand", p) = Flow(OnHandLines(p), -1)
<1>1. \A k \in Key : {m \in ledger[k] : m.account = "on_hand" /\ m.position = p}
                       = ledger[k] \cap OnHandLines(p)
  BY DEF OnHandLines, TypeOK
<1>2. \A l \in Line : 1 * l.quantity = l.quantity /\ l.quantity \in Int
  BY DEF Line
<1>3. \A l \in OnHandLines(p) : 1 * l.quantity = l.quantity /\ l.quantity \in Int
  BY <1>2 DEF OnHandLines
<1>4. Inflow("on_hand", p) = Flow(OnHandLines(p), 1)
  BY <1>1, <1>3 DEF Inflow, Flow
<1>5. Outflow("on_hand", p) = Flow(OnHandLines(p), -1)
  <2>1. \A u : u \in Outflow("on_hand", p) <=>
          \E k \in Key : \E l \in ledger[k] \cap OnHandLines(p) : u \in LineUnits(k, l, -l.quantity)
    BY <1>1 DEF Outflow
  <2> PICK s \in {1, -1} : s = -1
    OBVIOUS
  <2>2. \A k \in Key : \A l \in ledger[k] \cap OnHandLines(p) :
          LineUnits(k, l, -l.quantity) = {<<k, l>>} \X (1..(s * l.quantity))
    <3>1. \A l \in OnHandLines(p) : s * l.quantity = -l.quantity
      <4>1. \A n \in Int : s * n = -n
        OBVIOUS
      <4> QED
        BY <1>3, <4>1
    <3> QED
      BY <3>1 DEF LineUnits
  <2>3. \A u : u \in Flow(OnHandLines(p), s) <=>
          \E k \in Key : \E l \in ledger[k] \cap OnHandLines(p) : u \in LineUnits(k, l, -l.quantity)
    BY <2>2, UnitOfFlow
  <2>4. Outflow("on_hand", p) = Flow(OnHandLines(p), s)
    BY <2>1, <2>3
  <2> QED
    BY <2>4
<1> QED
  BY <1>4, <1>5

LEMMA InTransitFlow ==
    ASSUME TypeOK
    PROVE  /\ UNION {Inflow("in_transit", p) : p \in Position} = Flow(InTransitLines, 1)
           /\ UNION {Outflow("in_transit", p) : p \in Position} = Flow(InTransitLines, -1)
<1>1. \A k \in Key, p \in Position :
        \A l : l \in {m \in ledger[k] : m.account = "in_transit" /\ m.position = p}
                 <=> l \in ledger[k] \cap InTransitLines /\ l.position = p
  BY DEF InTransitLines, TypeOK
<1>2. \A l \in Line : 1 * l.quantity = l.quantity /\ l.quantity \in Int
  BY DEF Line
<1>3. \A l \in InTransitLines : /\ 1 * l.quantity = l.quantity /\ l.quantity \in Int
                                /\ l.position \in Position
  BY <1>2 DEF InTransitLines
<1>4. \A u : u \in UNION {Inflow("in_transit", p) : p \in Position} <=>
         \E k \in Key : \E l \in ledger[k] \cap InTransitLines : u \in LineUnits(k, l, l.quantity)
  BY <1>1, <1>3 DEF Inflow
<1>5. \A u : u \in UNION {Outflow("in_transit", p) : p \in Position} <=>
         \E k \in Key : \E l \in ledger[k] \cap InTransitLines : u \in LineUnits(k, l, -l.quantity)
  BY <1>1, <1>3 DEF Outflow
<1>6. \A u : u \in Flow(InTransitLines, 1) <=>
         \E k \in Key : \E l \in ledger[k] \cap InTransitLines : u \in LineUnits(k, l, l.quantity)
  BY <1>3 DEF Flow
<1>7. \A u : u \in Flow(InTransitLines, -1) <=>
         \E k \in Key : \E l \in ledger[k] \cap InTransitLines : u \in LineUnits(k, l, -l.quantity)
  <2> PICK s \in {1, -1} : s = -1
    OBVIOUS
  <2>1. \A k \in Key : \A l \in ledger[k] \cap InTransitLines :
          LineUnits(k, l, -l.quantity) = {<<k, l>>} \X (1..(s * l.quantity))
    <3>1. \A l \in InTransitLines : s * l.quantity = -l.quantity
      <4>1. \A n \in Int : s * n = -n
        OBVIOUS
      <4> QED
        BY <1>3, <4>1
    <3> QED
      BY <3>1 DEF LineUnits
  <2>2. \A u : u \in Flow(InTransitLines, s) <=>
          \E k \in Key : \E l \in ledger[k] \cap InTransitLines : u \in LineUnits(k, l, -l.quantity)
    BY <2>1, UnitOfFlow
  <2> QED
    BY <2>2
<1>8. UNION {Inflow("in_transit", p) : p \in Position} = Flow(InTransitLines, 1)
  BY <1>4, <1>6
<1>9. UNION {Outflow("in_transit", p) : p \in Position} = Flow(InTransitLines, -1)
  BY <1>5, <1>7
<1> QED
  BY <1>8, <1>9

\* At most one of the lines booked under k is among lines, and it says by how
\* much a balance goes from before to after.
Booked(k, lines, before, after) ==
    \E booked \in SUBSET Line :
        /\ PostLines(k, booked)
        /\ \/ booked \cap lines = {} /\ after = before
           \/ \E e \in Line : /\ booked \cap lines = {e}
                              /\ e.quantity # 0
                              /\ after = before + e.quantity

LEMMA BookedBalance ==
    ASSUME TypeOK, Fresh, NEW k \in Key, record[k] = Unused, NEW lines, NEW before, NEW after,
           Finite(lines), before = Balance(lines), Booked(k, lines, before, after)
    PROVE  Finite(lines)' /\ after = Balance(lines)'
<1>1. ledger[k] = {}
  BY DEF Fresh
<1>2. PICK booked \in SUBSET Line :
        /\ PostLines(k, booked)
        /\ \/ booked \cap lines = {} /\ after = before
           \/ \E e \in Line : /\ booked \cap lines = {e}
                              /\ e.quantity # 0
                              /\ after = before + e.quantity
  BY DEF Booked
<1>3. CASE booked \cap lines = {} /\ after = before
  BY <1>1, <1>2, <1>3, NoLineBooked
<1>4. CASE \E e \in Line : /\ booked \cap lines = {e}
                           /\ e.quantity # 0
                           /\ after = before + e.quantity
  BY <1>1, <1>2, <1>4, OneLineBooked
<1> QED
  BY <1>2, <1>3, <1>4

LEMMA SameBalance ==
    ASSUME NEW lines, Finite(lines), ledger' = ledger
    PROVE  Finite(lines)' /\ Balance(lines)' = Balance(lines)
<1>1. Flow(lines, 1)' = Flow(lines, 1) /\ Flow(lines, -1)' = Flow(lines, -1)
  BY DEF Flow
<1> QED
  BY <1>1 DEF Finite, Balance

\* A position that shipments out of no other position are written to, and whose
\* own shipments are written to itself.
Attributed(p) == \A r \in Sellable : r # IssuedAs[r] => p # r /\ p # IssuedAs[r]

\* Only sellable stock is reserved, so only sellable stock is shipped.
SellableReserved ==
    \A r \in Key : reservation[r].status = "active" => reservation[r].position \in Sellable

LEMMA SellableReservedStep ==
    ASSUME TypeOK, SellableReserved, [Next]_vars
    PROVE  SellableReserved'
<1>1. CASE UNCHANGED vars
  BY <1>1 DEF SellableReserved, vars
<1>2. ASSUME NEW k \in Key, StockStep(k) PROVE SellableReserved'
  <2>1. ASSUME NEW p \in Position, NEW q \in Quantity, NEW v \in Version, Reserve(k, p, q, v)
        PROVE  SellableReserved'
    BY <2>1 DEF Reserve, SellableReserved, TypeOK
  <2>2. CASE reservation' = reservation
    BY <2>2 DEF SellableReserved
  <2> QED
    BY <1>2, <2>1, <2>2 DEF StockStep, Adjust, PostCount
<1>3. ASSUME NEW k \in Key, ReservationStep(k) PROVE SellableReserved'
  <2>1. PICK r \in Key : EndReservation(r, "released") \/ EndReservation(r, "consumed")
    BY <1>3 DEF ReservationStep, ReleaseReservation, ConsumeReservation
  <2>2. /\ \A m \in Key : m # r => reservation'[m] = reservation[m]
        /\ reservation'[r].status # "active"
    BY <2>1 DEF EndReservation, TypeOK
  <2> QED
    BY <2>2 DEF SellableReserved
<1>4. ASSUME NEW k \in Key, TransferStep(k) PROVE SellableReserved'
  <2>1. CASE reservation' = reservation
    BY <2>1 DEF SellableReserved
  <2>2. ASSUME NEW r \in Route, NEW q \in Quantity, NEW v \in Version, NEW vd \in Version,
               TransferStock(k, r[1], r[2], q, v, vd) \/ ShipTransfer(k, r[1], r[2], q, v)
        PROVE  reservation' = reservation
    BY <2>2 DEF TransferStock, ShipTransfer
  <2>3. ASSUME NEW i \in Key, NEW got \in Quantity \cup {0}, NEW v \in Version,
               ReceiveTransfer(k, i, got, v)
        PROVE  reservation' = reservation
    BY <2>3 DEF ReceiveTransfer
  <2> QED
    BY <1>4, <2>1, <2>2, <2>3 DEF TransferStep
<1>5. ASSUME NEW k \in Key, Retry(k) PROVE SellableReserved'
  BY <1>5 DEF Retry, SellableReserved, vars
<1> QED
  BY <1>1, <1>2, <1>3, <1>4, <1>5 DEF Next

LEMMA EntryTyped ==
    ASSUME NEW account \in Account, NEW s \in Position \cup {NoPosition}, NEW n \in Int
    PROVE  /\ Entry(account, s, n) \in Line
           /\ Entry(account, s, n).account = account
           /\ Entry(account, s, n).position = s
           /\ Entry(account, s, n).quantity = n
BY DEF Entry, Line

LEMMA OneEntryBooked ==
    ASSUME TypeOK, NEW k \in Key, NEW booked \in SUBSET Line, PostLines(k, booked),
           NEW s \in Position, NEW n \in Int, n # 0, Entry("on_hand", s, n) \in booked,
           \A l \in booked : l.account = "on_hand" => l = Entry("on_hand", s, n),
           onHand' = [onHand EXCEPT ![s] = onHand[s] + n], NEW p \in Position
    PROVE  Booked(k, OnHandLines(p), onHand[p], onHand'[p])
<1> DEFINE e == Entry("on_hand", s, n)
<1>1. e \in Line /\ e.account = "on_hand" /\ e.position = s /\ e.quantity = n
  BY EntryTyped DEF Account
<1>2. e \in booked /\ \A l \in booked : l.account = "on_hand" => l = e
  OBVIOUS
<1> HIDE DEF e
<1>3. CASE s = p
  <2>1. booked \cap OnHandLines(p) = {e}
    BY <1>1, <1>2, <1>3 DEF OnHandLines
  <2>2. onHand'[p] = onHand[p] + e.quantity
    BY <1>1, <1>3 DEF TypeOK
  <2> QED
    BY <1>1, <2>1, <2>2 DEF Booked
<1>4. CASE s # p
  <2>1. booked \cap OnHandLines(p) = {}
    BY <1>1, <1>2, <1>4 DEF OnHandLines
  <2>2. onHand'[p] = onHand[p]
    BY <1>4 DEF TypeOK
  <2> QED
    BY <2>1, <2>2 DEF Booked
<1> QED
  BY <1>3, <1>4

LEMMA StockBooked ==
    ASSUME TypeOK, NEW k \in Key, StockStep(k), NEW p \in Position
    PROVE  \/ Booked(k, OnHandLines(p), onHand[p], onHand'[p])
           \/ ledger' = ledger /\ onHand'[p] = onHand[p]
<1>1. ASSUME NEW s \in Position, NEW delta \in Delta, NEW allow \in BOOLEAN, NEW v \in Version,
             Adjust(k, s, delta, allow, v)
      PROVE  Booked(k, OnHandLines(p), onHand[p], onHand'[p])
  <2> DEFINE booked == {Entry("on_hand", s, delta), Entry("external", NoPosition, -delta)}
  <2>1. PICK q \in Quantity : delta = q \/ delta = -q
    BY DEF Delta
  <2>2. delta \in Int /\ -delta \in Int /\ delta # 0
    BY <2>1, QuantityAssumption
  <2>3. booked \in SUBSET Line /\ Entry("external", NoPosition, -delta).account # "on_hand"
    BY <2>2, EntryTyped DEF Account
  <2>4. PostLines(k, booked) /\ onHand' = [onHand EXCEPT ![s] = onHand[s] + delta]
    BY <1>1 DEF Adjust, UpdatePosition
  <2> QED
    BY <2>2, <2>3, <2>4, OneEntryBooked
<1>2. ASSUME NEW s \in Position, NEW q \in Quantity, NEW v \in Version, Reserve(k, s, q, v)
      PROVE  ledger' = ledger /\ onHand'[p] = onHand[p]
  BY <1>2 DEF Reserve, UpdatePosition, TypeOK
<1>3. ASSUME NEW s \in Position, NEW counted \in Quantity \cup {0}, NEW v \in Version,
             PostCount(k, s, counted, v)
      PROVE  Booked(k, OnHandLines(p), onHand[p], onHand'[p])
  <2> DEFINE variance == counted - onHand[s]
             booked == {Entry("on_hand", s, variance), Entry("discrepancy", NoPosition, -variance)}
  <2>1. variance \in Int /\ -variance \in Int /\ counted = onHand[s] + variance
    BY QuantityAssumption DEF TypeOK
  <2>2. booked \in SUBSET Line /\ Entry("discrepancy", NoPosition, -variance).account # "on_hand"
    <3> HIDE DEF variance
    <3> QED
      BY <2>1, EntryTyped DEF Account
  <2>3. PostLines(k, IF variance = 0 THEN {} ELSE booked) /\ onHand' = [onHand EXCEPT ![s] = counted]
    BY <1>3 DEF PostCount, UpdatePosition, CountLines
  <2>4. variance = 0 => onHand'[p] = onHand[p]
    BY <2>1, <2>3 DEF TypeOK
  <2> HIDE DEF variance
  <2>5. CASE variance = 0
    <3>1. PostLines(k, {}) /\ onHand'[p] = onHand[p]
      BY <2>3, <2>4, <2>5
    <3> QED
      BY <3>1 DEF Booked
  <2>6. CASE variance # 0
    <3>1. PostLines(k, booked) /\ onHand' = [onHand EXCEPT ![s] = onHand[s] + variance]
      BY <2>1, <2>3, <2>6
    <3> QED
      BY <2>1, <2>2, <2>6, <3>1, OneEntryBooked
  <2> QED
    BY <2>5, <2>6
<1> QED
  BY <1>1, <1>2, <1>3 DEF StockStep

LEMMA ReservationBooked ==
    ASSUME TypeOK, SellableReserved, NEW k \in Key, ReservationStep(k),
           NEW p \in Position, Attributed(p)
    PROVE  \/ Booked(k, OnHandLines(p), onHand[p], onHand'[p])
           \/ ledger' = ledger /\ onHand'[p] = onHand[p]
<1>1. ASSUME NEW r \in Key, NEW rv \in {1, 2}, ReleaseReservation(k, r, rv)
      PROVE  ledger' = ledger /\ onHand'[p] = onHand[p]
  BY <1>1 DEF ReleaseReservation, UpdatePosition, TypeOK
<1>2. ASSUME NEW r \in Key, NEW rv \in {1, 2}, NEW v \in Version, ConsumeReservation(k, r, rv, v)
      PROVE  Booked(k, OnHandLines(p), onHand[p], onHand'[p])
  <2> DEFINE s == reservation[r].position
             q == reservation[r].quantity
             n == -q
             booked == {Entry("on_hand", IssuedAs[s], n), Entry("external", NoPosition, q)}
  <2>1. reservation[r].status = "active"
    BY <1>2 DEF ConsumeReservation, ActiveReservation
  <2>2. s \in Sellable /\ s \in Position /\ q \in Nat \ {0}
    BY <2>1, ActiveTyped DEF SellableReserved
  <2>3. PostLines(k, booked) /\ onHand' = [onHand EXCEPT ![s] = onHand[s] - q]
    BY <1>2 DEF ConsumeReservation, UpdatePosition
  <2> HIDE DEF s, q
  <2>4. IssuedAs[s] \in Position /\ n \in Int /\ n # 0 /\ q \in Int
             /\ onHand[s] - q = onHand[s] + n
    BY <2>2, PositionAssumption DEF TypeOK
  <2> HIDE DEF n
  <2>5. onHand' = [onHand EXCEPT ![s] = onHand[s] + n]
    BY <2>3, <2>4
  <2>6. booked \in SUBSET Line /\ Entry("external", NoPosition, q).account # "on_hand"
    BY <2>4, EntryTyped DEF Account
  <2>7. CASE IssuedAs[s] = s
    <3>1. /\ Entry("on_hand", s, n) \in booked
          /\ \A l \in booked : l.account = "on_hand" => l = Entry("on_hand", s, n)
      BY <2>6, <2>7
    <3> HIDE DEF booked
    <3>2. /\ s \in Position /\ n \in Int /\ n # 0 /\ booked \in SUBSET Line
          /\ PostLines(k, booked)
      BY <2>2, <2>3, <2>4, <2>6
    <3> QED
      BY <2>5, <3>1, <3>2, OneEntryBooked
  <2>8. CASE IssuedAs[s] # s
    <3>1. p # s /\ p # IssuedAs[s]
      BY <2>2, <2>8 DEF Attributed
    <3>2. Entry("on_hand", IssuedAs[s], n).position = IssuedAs[s]
      BY <2>4, EntryTyped DEF Account
    <3>3. booked \cap OnHandLines(p) = {}
      BY <2>6, <3>1, <3>2 DEF OnHandLines
    <3>4. onHand'[p] = onHand[p]
      BY <2>2, <2>3, <3>1 DEF TypeOK
    <3> QED
      BY <2>3, <2>6, <3>3, <3>4 DEF Booked
  <2> QED
    BY <2>7, <2>8
<1> QED
  BY <1>1, <1>2 DEF ReservationStep

LEMMA TransferStockBooked ==
    ASSUME TypeOK, NEW k \in Key, NEW s \in Position, NEW d \in Position, s # d,
           NEW q \in Quantity, NEW vs \in Version, NEW vd \in Version,
           TransferStock(k, s, d, q, vs, vd), NEW p \in Position
    PROVE  Booked(k, OnHandLines(p), onHand[p], onHand'[p])
<1> DEFINE e == Entry("on_hand", s, -q)
           f == Entry("in_transit", s, q)
           g == Entry("in_transit", d, -q)
           h == Entry("on_hand", d, q)
           booked == {e, f, g, h}
<1>1. q \in Int /\ -q \in Int /\ q # 0 /\ -q # 0
  BY QuantityAssumption
<1>2. /\ e \in Line /\ e.account = "on_hand" /\ e.position = s /\ e.quantity = -q
      /\ h \in Line /\ h.account = "on_hand" /\ h.position = d /\ h.quantity = q
  BY <1>1, EntryTyped DEF Account
<1>3. /\ f \in Line /\ f.account # "on_hand"
      /\ g \in Line /\ g.account # "on_hand"
  BY <1>1, EntryTyped DEF Account
<1>4. PostLines(k, booked) /\ onHand' = [onHand EXCEPT ![s] = @ - q, ![d] = @ + q]
  BY DEF TransferStock
<1> HIDE DEF e, f, g, h
<1>5. CASE p = s
  <2>1. booked \cap OnHandLines(p) = {e}
    BY <1>2, <1>3, <1>5 DEF OnHandLines
  <2>2. onHand'[p] = onHand[p] + e.quantity
    BY <1>1, <1>2, <1>4, <1>5 DEF TypeOK
  <2> QED
    BY <1>1, <1>2, <1>3, <1>4, <2>1, <2>2 DEF Booked
<1>6. CASE p = d
  <2>1. booked \cap OnHandLines(p) = {h}
    BY <1>2, <1>3, <1>6 DEF OnHandLines
  <2>2. onHand'[p] = onHand[p] + h.quantity
    BY <1>1, <1>2, <1>4, <1>6 DEF TypeOK
  <2> QED
    BY <1>1, <1>2, <1>3, <1>4, <2>1, <2>2 DEF Booked
<1>7. CASE p # s /\ p # d
  <2>1. booked \cap OnHandLines(p) = {}
    BY <1>2, <1>3, <1>7 DEF OnHandLines
  <2>2. onHand'[p] = onHand[p]
    BY <1>4, <1>7 DEF TypeOK
  <2> QED
    BY <1>2, <1>3, <1>4, <2>1, <2>2 DEF Booked
<1> QED
  BY <1>5, <1>6, <1>7

LEMMA ShipBooked ==
    ASSUME TypeOK, NEW k \in Key, NEW s \in Position, NEW d \in Position,
           NEW q \in Quantity, NEW v \in Version, ShipTransfer(k, s, d, q, v), NEW p \in Position
    PROVE  Booked(k, OnHandLines(p), onHand[p], onHand'[p])
<1> DEFINE n == -q
           booked == {Entry("on_hand", s, n), Entry("in_transit", s, q)}
<1>1. q \in Int /\ n \in Int /\ n # 0 /\ onHand[s] - q = onHand[s] + n
  BY QuantityAssumption DEF TypeOK
<1>2. booked \in SUBSET Line /\ Entry("in_transit", s, q).account # "on_hand"
  BY <1>1, EntryTyped DEF Account
<1>3. PostLines(k, booked) /\ onHand' = [onHand EXCEPT ![s] = onHand[s] - q]
  BY DEF ShipTransfer, UpdatePosition
<1> HIDE DEF n
<1>4. onHand' = [onHand EXCEPT ![s] = onHand[s] + n]
  BY <1>1, <1>3
<1>5. Entry("on_hand", s, n) \in booked /\ \A l \in booked : l.account = "on_hand" => l = Entry("on_hand", s, n)
  BY <1>2
<1> HIDE DEF booked
<1> QED
  BY <1>1, <1>2, <1>3, <1>4, <1>5, OneEntryBooked

\* The lines of a receipt: all that was shipped leaves in_transit, and what
\* arrived enters on_hand.
LEMMA ReceiptTyped ==
    ASSUME TypeOK, NEW i \in Key, transfer[i].state = "shipped", NEW got \in Nat
    PROVE  LET t == transfer[i]
               out == Entry("in_transit", t.source, -t.shipped)
               booked == ReceiptLines(t, got)
           IN  /\ booked \in SUBSET Line
               /\ out \in booked /\ out.quantity = -t.shipped /\ out.account = "in_transit"
               /\ out.position = t.source
               /\ \A l \in booked : l.account = "in_transit" => l = out
               /\ got > 0 => Entry("on_hand", t.destination, got) \in booked
               /\ \A l \in booked : l.account = "on_hand" =>
                     got > 0 /\ l = Entry("on_hand", t.destination, got)
<1> DEFINE t == transfer[i]
           out == Entry("in_transit", t.source, -t.shipped)
           in == Entry("on_hand", t.destination, got)
           short == Entry("discrepancy", NoPosition, t.shipped - got)
           booked == ReceiptLines(t, got)
<1>1. /\ t.source \in Position /\ t.destination \in Position
      /\ -t.shipped \in Int /\ t.shipped - got \in Int /\ got \in Int
  BY ShippedTyped
<1>2. /\ out \in Line /\ out.account = "in_transit" /\ out.position = t.source
      /\ out.quantity = -t.shipped
  <2> HIDE DEF t
  <2> QED
    BY <1>1, EntryTyped DEF Account
<1>3. in \in Line /\ in.account = "on_hand"
  <2> HIDE DEF t
  <2> QED
    BY <1>1, EntryTyped DEF Account
<1>4. short \in Line /\ short.account = "discrepancy"
  <2> DEFINE rest == t.shipped - got
  <2>1. rest \in Int /\ NoPosition \in Position \cup {NoPosition} /\ "discrepancy" \in Account
    BY <1>1 DEF Account
  <2> HIDE DEF rest
  <2>2. Entry("discrepancy", NoPosition, rest) \in Line
    BY <2>1, EntryTyped
  <2>3. Entry("discrepancy", NoPosition, rest).account = "discrepancy"
    BY DEF Entry
  <2> QED
    BY <2>2, <2>3 DEF rest
<1>5. booked = {out} \cup (IF got > 0 THEN {in} ELSE {}) \cup (IF got < t.shipped THEN {short} ELSE {})
  BY DEF ReceiptLines
<1> HIDE DEF booked, t, out, in, short
<1>6. /\ booked \in SUBSET Line
      /\ out \in booked
      /\ \A l \in booked : l.account = "in_transit" => l = out
      /\ got > 0 => in \in booked
      /\ \A l \in booked : l.account = "on_hand" => got > 0 /\ l = in
  BY <1>2, <1>3, <1>4, <1>5
<1> QED
  BY <1>2, <1>6 DEF booked, t, out, in

LEMMA ReceiveBooked ==
    ASSUME TypeOK, NEW k \in Key, NEW i \in Key, NEW got \in Quantity \cup {0}, NEW v \in Version,
           ReceiveTransfer(k, i, got, v), NEW p \in Position
    PROVE  Booked(k, OnHandLines(p), onHand[p], onHand'[p])
<1> DEFINE d == transfer[i].destination
           booked == ReceiptLines(transfer[i], got)
<1>1. transfer[i].state = "shipped" /\ PostLines(k, booked)
  BY DEF ReceiveTransfer, AwaitsReceipt
<1>2. got \in Nat /\ got \in Int
  BY QuantityAssumption
<1>3. d \in Position
  BY <1>1, ShippedTyped
<1>4. /\ booked \in SUBSET Line
      /\ got > 0 => Entry("on_hand", d, got) \in booked
      /\ \A l \in booked : l.account = "on_hand" => got > 0 /\ l = Entry("on_hand", d, got)
  BY <1>1, <1>2, ReceiptTyped
<1>5. /\ got > 0 => onHand' = [onHand EXCEPT ![d] = onHand[d] + got]
      /\ ~(got > 0) => onHand' = onHand
  BY DEF ReceiveTransfer, UpdatePosition, positionVars
<1> HIDE DEF d, booked
<1>6. CASE got > 0
  BY <1>1, <1>2, <1>3, <1>4, <1>5, <1>6, OneEntryBooked
<1>7. CASE ~(got > 0)
  <2>1. booked \cap OnHandLines(p) = {}
    BY <1>4, <1>7 DEF OnHandLines
  <2> QED
    BY <1>1, <1>4, <1>5, <1>7, <2>1 DEF Booked
<1> QED
  BY <1>6, <1>7

LEMMA TransferBooked ==
    ASSUME TypeOK, NEW k \in Key, TransferStep(k), NEW p \in Position
    PROVE  Booked(k, OnHandLines(p), onHand[p], onHand'[p])
<1>1. \A r \in Route : r[1] \in Position /\ r[2] \in Position /\ r[1] # r[2]
  BY PositionAssumption
<1> QED
  BY <1>1, TransferStockBooked, ShipBooked, ReceiveBooked DEF TransferStep

\* Every command but a retry claims its key.
LEMMA StepClaims ==
    ASSUME TypeOK, NEW k \in Key, StockStep(k) \/ ReservationStep(k) \/ TransferStep(k)
    PROVE  record[k] = Unused
BY StockCommits, ReservationCommits, TransferCommits DEF Commits, Claims

OnHandMatches ==
    \A p \in Position : Attributed(p) =>
        Finite(OnHandLines(p)) /\ onHand[p] = Balance(OnHandLines(p))

LEMMA OnHandStep ==
    ASSUME TypeOK, Fresh, SellableReserved, OnHandMatches, [Next]_vars
    PROVE  OnHandMatches'
<1> SUFFICES ASSUME NEW p \in Position, Attributed(p)
             PROVE  Finite(OnHandLines(p))' /\ onHand'[p] = Balance(OnHandLines(p))'
  BY DEF OnHandMatches, Attributed
<1>1. Finite(OnHandLines(p)) /\ onHand[p] = Balance(OnHandLines(p))
  BY DEF OnHandMatches
<1>2. CASE ledger' = ledger /\ onHand'[p] = onHand[p]
  BY <1>1, <1>2, SameBalance
<1>3. ASSUME NEW k \in Key, record[k] = Unused, Booked(k, OnHandLines(p), onHand[p], onHand'[p])
      PROVE  Finite(OnHandLines(p))' /\ onHand'[p] = Balance(OnHandLines(p))'
  BY <1>1, <1>3, BookedBalance
<1>4. CASE UNCHANGED vars
  BY <1>2, <1>4 DEF vars, positionVars
<1>5. CASE Next
  <2> PICK k \in Key : StockStep(k) \/ ReservationStep(k) \/ TransferStep(k) \/ Retry(k)
    BY <1>5 DEF Next
  <2>1. CASE StockStep(k) \/ ReservationStep(k) \/ TransferStep(k)
    <3>1. record[k] = Unused
      BY <2>1, StepClaims
    <3>2. \/ Booked(k, OnHandLines(p), onHand[p], onHand'[p])
          \/ ledger' = ledger /\ onHand'[p] = onHand[p]
      BY <2>1, StockBooked, ReservationBooked, TransferBooked
    <3> QED
      BY <1>2, <1>3, <3>1, <3>2
  <2>2. CASE Retry(k)
    BY <1>4, <2>2 DEF Retry
  <2> QED
    BY <2>1, <2>2
<1> QED
  BY <1>4, <1>5

-----------------------------------------------------------------------------
(* The in_transit account. *)

InTransitMatches ==
    /\ Finite(InTransitLines)
    /\ IsFiniteSet(InTransitUnits)
    /\ Balance(InTransitLines) = Cardinality(InTransitUnits)

LEMMA UnitInTransit ==
    /\ \A u : u \in InTransitUnits <=>
         \E m \in Key : transfer[m].state = "shipped" /\ u \in {m} \X (1..transfer[m].shipped)
    /\ \A u : u \in InTransitUnits' <=>
         \E m \in Key : transfer'[m].state = "shipped" /\ u \in {m} \X (1..transfer'[m].shipped)
BY DEF InTransitUnits

LEMMA SameInTransit ==
    ASSUME \A m \in Key : /\ transfer[m].state = "shipped" <=> transfer'[m].state = "shipped"
                          /\ transfer[m].state = "shipped" => transfer'[m] = transfer[m]
    PROVE  InTransitUnits' = InTransitUnits
<1>1. ASSUME NEW u, u \in InTransitUnits PROVE u \in InTransitUnits'
  <2> PICK m \in Key : transfer[m].state = "shipped" /\ u \in {m} \X (1..transfer[m].shipped)
    BY <1>1, UnitInTransit
  <2> QED
    BY UnitInTransit
<1>2. ASSUME NEW u, u \in InTransitUnits' PROVE u \in InTransitUnits
  <2> PICK m \in Key : transfer'[m].state = "shipped" /\ u \in {m} \X (1..transfer'[m].shipped)
    BY <1>2, UnitInTransit
  <2> QED
    BY UnitInTransit
<1> QED
  BY <1>1, <1>2

\* A command that neither books an in_transit line nor touches a transfer.
LEMMA NothingInTransit ==
    ASSUME TypeOK, Fresh, InTransitMatches, NEW k \in Key, record[k] = Unused,
           transfer' = transfer, NEW booked \in SUBSET Line, PostLines(k, booked),
           \A l \in booked : l.account # "in_transit"
    PROVE  InTransitMatches'
<1>1. ledger[k] = {} /\ booked \cap InTransitLines = {}
  BY DEF Fresh, InTransitLines
<1>2. Finite(InTransitLines)' /\ Balance(InTransitLines)' = Balance(InTransitLines)
  BY <1>1, NoLineBooked DEF InTransitMatches, InTransitLines
<1>3. InTransitUnits' = InTransitUnits
  BY SameInTransit
<1> QED
  BY <1>2, <1>3 DEF InTransitMatches

LEMMA StockInTransit ==
    ASSUME TypeOK, Fresh, InTransitMatches, NEW k \in Key, StockStep(k)
    PROVE  InTransitMatches'
<1>1. record[k] = Unused
  BY StepClaims
<1>2. ASSUME NEW s \in Position, NEW delta \in Delta, NEW allow \in BOOLEAN, NEW v \in Version,
             Adjust(k, s, delta, allow, v)
      PROVE  InTransitMatches'
  <2> DEFINE booked == {Entry("on_hand", s, delta), Entry("external", NoPosition, -delta)}
  <2>1. delta \in Int /\ -delta \in Int
    <3>1. PICK q \in Quantity : delta = q \/ delta = -q
      BY DEF Delta
    <3> QED
      BY <3>1, QuantityAssumption
  <2>2. booked \in SUBSET Line
    BY <2>1, EntryTyped DEF Account
  <2>3. \A l \in booked : l.account # "in_transit"
    BY DEF Entry
  <2>4. PostLines(k, booked) /\ transfer' = transfer
    BY <1>2 DEF Adjust
  <2> HIDE DEF booked
  <2> QED
    BY <1>1, <2>2, <2>3, <2>4, NothingInTransit
<1>3. ASSUME NEW s \in Position, NEW q \in Quantity, NEW v \in Version, Reserve(k, s, q, v)
      PROVE  InTransitMatches'
  <2>1. ledger' = ledger /\ transfer' = transfer
    BY <1>3 DEF Reserve
  <2> QED
    BY <2>1, SameBalance, SameInTransit DEF InTransitMatches, InTransitLines
<1>4. ASSUME NEW s \in Position, NEW counted \in Quantity \cup {0}, NEW v \in Version,
             PostCount(k, s, counted, v)
      PROVE  InTransitMatches'
  <2> DEFINE variance == counted - onHand[s]
             booked == CountLines(s, variance)
  <2>1. variance \in Int /\ -variance \in Int
    BY QuantityAssumption DEF TypeOK
  <2>2. PostLines(k, booked) /\ transfer' = transfer
    BY <1>4 DEF PostCount
  <2> HIDE DEF variance
  <2>3. booked \in SUBSET Line
    <3>1. Entry("on_hand", s, variance) \in Line /\ Entry("discrepancy", NoPosition, -variance) \in Line
      BY <2>1, EntryTyped DEF Account
    <3> QED
      BY <3>1 DEF CountLines
  <2>4. \A l \in booked : l.account # "in_transit"
    BY DEF CountLines, Entry
  <2> HIDE DEF booked
  <2> QED
    BY <1>1, <2>2, <2>3, <2>4, NothingInTransit
<1> QED
  BY <1>2, <1>3, <1>4 DEF StockStep

LEMMA ReservationInTransit ==
    ASSUME TypeOK, Fresh, InTransitMatches, NEW k \in Key, ReservationStep(k)
    PROVE  InTransitMatches'
<1>1. record[k] = Unused
  BY StepClaims
<1>2. ASSUME NEW r \in Key, NEW rv \in {1, 2}, ReleaseReservation(k, r, rv)
      PROVE  InTransitMatches'
  <2>1. ledger' = ledger /\ transfer' = transfer
    BY <1>2 DEF ReleaseReservation
  <2> QED
    BY <2>1, SameBalance, SameInTransit DEF InTransitMatches, InTransitLines
<1>3. ASSUME NEW r \in Key, NEW rv \in {1, 2}, NEW v \in Version, ConsumeReservation(k, r, rv, v)
      PROVE  InTransitMatches'
  <2> DEFINE s == reservation[r].position
             q == reservation[r].quantity
             booked == {Entry("on_hand", IssuedAs[s], -q), Entry("external", NoPosition, q)}
  <2>1. reservation[r].status = "active"
    BY <1>3 DEF ConsumeReservation, ActiveReservation
  <2>2. s \in Position /\ q \in Nat
    BY <2>1, ActiveTyped
  <2>3. PostLines(k, booked) /\ transfer' = transfer
    BY <1>3 DEF ConsumeReservation
  <2> HIDE DEF s, q
  <2>4. booked \in SUBSET Line
    <3>1. IssuedAs[s] \in Position /\ q \in Int /\ -q \in Int
      BY <2>2, PositionAssumption
    <3> QED
      BY <3>1, EntryTyped DEF Account
  <2>5. \A l \in booked : l.account # "in_transit"
    BY DEF Entry
  <2> HIDE DEF booked
  <2> QED
    BY <1>1, <2>3, <2>4, <2>5, NothingInTransit
<1> QED
  BY <1>2, <1>3 DEF ReservationStep

LEMMA TransferStockInTransit ==
    ASSUME TypeOK, Fresh, InTransitMatches, NEW k \in Key,
           NEW s \in Position, NEW d \in Position, s # d, NEW q \in Quantity,
           NEW vs \in Version, NEW vd \in Version, TransferStock(k, s, d, q, vs, vd)
    PROVE  InTransitMatches'
<1> DEFINE n == -q
           e == Entry("on_hand", s, n)
           f == Entry("in_transit", s, q)
           g == Entry("in_transit", d, n)
           h == Entry("on_hand", d, q)
           booked == {e, f, g, h}
<1>1. q \in Int /\ n \in Int /\ q > 0 /\ n = -q
  BY QuantityAssumption
<1>2. PostLines(k, booked) /\ record[k] = Unused
  BY DEF TransferStock, ClaimIdempotency
<1>3. /\ transfer[k].state # "shipped" /\ ledger[k] = {}
      /\ transfer'[k].state # "shipped" /\ \A m \in Key : m # k => transfer'[m] = transfer[m]
  BY <1>2 DEF TransferStock, TypeOK, Fresh, NoTransfer
<1> HIDE DEF n
<1>4. /\ f \in Line /\ f.account = "in_transit" /\ f.position = s /\ f.quantity = q
      /\ g \in Line /\ g.account = "in_transit" /\ g.position = d /\ g.quantity = n
  BY <1>1, EntryTyped DEF Account
<1>5. /\ e \in Line /\ e.account # "in_transit"
      /\ h \in Line /\ h.account # "in_transit"
  BY <1>1, EntryTyped DEF Account
<1> HIDE DEF e, f, g, h
<1>6. booked \cap InTransitLines = {f, g} /\ booked \in SUBSET Line
  BY <1>4, <1>5 DEF InTransitLines
<1> HIDE DEF booked
<1>7. f.quantity > 0 /\ g.quantity = -f.quantity
  BY <1>1, <1>4
<1>8. Finite(InTransitLines)' /\ Balance(InTransitLines)' = Balance(InTransitLines)
  BY <1>2, <1>3, <1>4, <1>6, <1>7, TwoLinesBooked DEF InTransitMatches, InTransitLines
<1>9. InTransitUnits' = InTransitUnits
  BY <1>3, SameInTransit
<1> QED
  BY <1>8, <1>9 DEF InTransitMatches

LEMMA ShipInTransit ==
    ASSUME TypeOK, Fresh, InTransitMatches, NEW k \in Key,
           NEW s \in Position, NEW d \in Position, NEW q \in Quantity,
           NEW v \in Version, ShipTransfer(k, s, d, q, v)
    PROVE  InTransitMatches'
<1> DEFINE n == -q
           e == Entry("on_hand", s, n)
           f == Entry("in_transit", s, q)
           booked == {e, f}
<1>1. q \in Int /\ n \in Int /\ q > 0
  BY QuantityAssumption
<1>2. PostLines(k, booked) /\ record[k] = Unused
  BY DEF ShipTransfer, ClaimIdempotency
<1>3. /\ transfer[k].state # "shipped" /\ ledger[k] = {}
      /\ transfer'[k].state = "shipped" /\ transfer'[k].shipped = q
      /\ \A m \in Key : m # k => transfer'[m] = transfer[m]
  BY <1>2 DEF ShipTransfer, TypeOK, Fresh, NoTransfer
<1> HIDE DEF n
<1>4. f \in Line /\ f.account = "in_transit" /\ f.position = s /\ f.quantity = q
  BY <1>1, EntryTyped DEF Account
<1>5. e \in Line /\ e.account # "in_transit"
  BY <1>1, EntryTyped DEF Account
<1> HIDE DEF e, f
<1>6. booked \cap InTransitLines = {f} /\ booked \in SUBSET Line
  BY <1>4, <1>5 DEF InTransitLines
<1> HIDE DEF booked
<1>7. Finite(InTransitLines)' /\ Balance(InTransitLines)' = Balance(InTransitLines) + q
  BY <1>1, <1>2, <1>3, <1>4, <1>6, OneLineBooked DEF InTransitMatches, InTransitLines
<1>8. InTransitUnits' = InTransitUnits \cup ({k} \X (1..q))
  <2>1. ASSUME NEW u, u \in InTransitUnits' PROVE u \in InTransitUnits \cup ({k} \X (1..q))
    <3> PICK m \in Key : transfer'[m].state = "shipped" /\ u \in {m} \X (1..transfer'[m].shipped)
      BY <2>1, UnitInTransit
    <3> QED
      BY <1>3, UnitInTransit
  <2>2. ASSUME NEW u, u \in InTransitUnits PROVE u \in InTransitUnits'
    <3> PICK m \in Key : transfer[m].state = "shipped" /\ u \in {m} \X (1..transfer[m].shipped)
      BY <2>2, UnitInTransit
    <3> QED
      BY <1>3, UnitInTransit
  <2>3. ASSUME NEW u, u \in {k} \X (1..q) PROVE u \in InTransitUnits'
    BY <1>3, <2>3, UnitInTransit
  <2> QED
    BY <2>1, <2>2, <2>3
<1>9. /\ IsFiniteSet(InTransitUnits \cup ({k} \X (1..q)))
      /\ Cardinality(InTransitUnits \cup ({k} \X (1..q)))
           = Cardinality(InTransitUnits) + (IF q > 0 THEN q ELSE 0)
  <2>1. \A u \in InTransitUnits : u[1] # k
    BY <1>3, UnitInTransit
  <2> QED
    BY <1>1, <2>1, TermAdded DEF InTransitMatches
<1> QED
  BY <1>1, <1>7, <1>8, <1>9 DEF InTransitMatches

LEMMA ReceiveInTransit ==
    ASSUME TypeOK, Fresh, InTransitMatches, NEW k \in Key, NEW i \in Key,
           NEW got \in Quantity \cup {0}, NEW v \in Version, ReceiveTransfer(k, i, got, v)
    PROVE  InTransitMatches'
<1> DEFINE t == transfer[i]
           q == t.shipped
           n == -q
           out == Entry("in_transit", t.source, n)
           booked == ReceiptLines(t, got)
<1>1. t.state = "shipped" /\ PostLines(k, booked) /\ record[k] = Unused
  BY DEF ReceiveTransfer, AwaitsReceipt, ClaimIdempotency
<1>2. got \in Nat
  BY QuantityAssumption
<1>3. t.source \in Position /\ q \in Int /\ q > 0 /\ n \in Int /\ n = -q
  BY <1>1, ShippedTyped
<1>4. /\ booked \in SUBSET Line
      /\ out \in booked /\ out.quantity = n /\ out.account = "in_transit" /\ out.position = t.source
      /\ \A l \in booked : l.account = "in_transit" => l = out
  BY <1>1, <1>2, ReceiptTyped
<1>5. \A m \in Key : m # i => transfer'[m] = transfer[m]
  BY DEF ReceiveTransfer, TypeOK
<1>6. transfer'[i].state # "shipped"
  <2> DEFINE after == [t EXCEPT !.received = got,
                          !.state = IF got = t.shipped THEN "received" ELSE "discrepancy_review"]
  <2>1. transfer' = [transfer EXCEPT ![i] = after]
    BY DEF ReceiveTransfer
  <2>2. after.state # "shipped"
    BY <1>1, ShippedTyped DEF Transfer
  <2> HIDE DEF after
  <2> QED
    BY <2>1, <2>2 DEF TypeOK
<1>7. ledger[k] = {}
  BY <1>1 DEF Fresh
<1> HIDE DEF t, q, n, out, booked
<1>8. booked \cap InTransitLines = {out} /\ out \in Line
  BY <1>3, <1>4 DEF InTransitLines
<1>9. Finite(InTransitLines)' /\ Balance(InTransitLines)' = Balance(InTransitLines) - q
  <2>1. out.quantity # 0 /\ out.quantity = n
    BY <1>3, <1>4
  <2>2. Finite(InTransitLines)' /\ Balance(InTransitLines)' = Balance(InTransitLines) + out.quantity
    BY <1>1, <1>4, <1>7, <1>8, <2>1, OneLineBooked DEF InTransitMatches, InTransitLines
  <2>3. Cardinality(InTransitUnits) \in Nat
    BY FS_CardinalityType DEF InTransitMatches
  <2> QED
    BY <1>3, <2>1, <2>2, <2>3 DEF InTransitMatches
<1>10. InTransitUnits = InTransitUnits' \cup ({i} \X (1..q))
  <2>1. ASSUME NEW u, u \in InTransitUnits PROVE u \in InTransitUnits' \cup ({i} \X (1..q))
    <3> PICK m \in Key : transfer[m].state = "shipped" /\ u \in {m} \X (1..transfer[m].shipped)
      BY <2>1, UnitInTransit
    <3> QED
      BY <1>5, UnitInTransit DEF t, q
  <2>2. ASSUME NEW u, u \in InTransitUnits' PROVE u \in InTransitUnits
    <3> PICK m \in Key : transfer'[m].state = "shipped" /\ u \in {m} \X (1..transfer'[m].shipped)
      BY <2>2, UnitInTransit
    <3> QED
      BY <1>5, <1>6, UnitInTransit
  <2>3. ASSUME NEW u, u \in {i} \X (1..q) PROVE u \in InTransitUnits
    BY <1>1, <2>3, UnitInTransit DEF t, q
  <2> QED
    BY <2>1, <2>2, <2>3
<1>11. IsFiniteSet(InTransitUnits')
  BY <1>10, FS_Subset DEF InTransitMatches
<1>12. Cardinality(InTransitUnits' \cup ({i} \X (1..q)))
         = Cardinality(InTransitUnits') + (IF q > 0 THEN q ELSE 0)
  <2>1. \A u \in InTransitUnits' : u[1] # i
    BY <1>6, UnitInTransit
  <2> QED
    BY <1>3, <1>11, <2>1, TermAdded
<1>13. Cardinality(InTransitUnits') \in Nat
  BY <1>11, FS_CardinalityType
<1>14. Balance(InTransitLines)' = Cardinality(InTransitUnits')
  BY <1>3, <1>9, <1>10, <1>12, <1>13 DEF InTransitMatches
<1> QED
  BY <1>9, <1>11, <1>14 DEF InTransitMatches

LEMMA InTransitStep ==
    ASSUME TypeOK, Fresh, InTransitMatches, [Next]_vars
    PROVE  InTransitMatches'
<1>1. CASE UNCHANGED vars
  <2>1. ledger' = ledger /\ transfer' = transfer
    BY <1>1 DEF vars
  <2> QED
    BY <2>1, SameBalance, SameInTransit DEF InTransitMatches, InTransitLines
<1>2. ASSUME NEW k \in Key, TransferStep(k) PROVE InTransitMatches'
  <2>1. \A r \in Route : r[1] \in Position /\ r[2] \in Position /\ r[1] # r[2]
    BY PositionAssumption
  <2> QED
    BY <1>2, <2>1, TransferStockInTransit, ShipInTransit, ReceiveInTransit DEF TransferStep
<1>3. ASSUME NEW k \in Key, Retry(k) PROVE InTransitMatches'
  BY <1>1, <1>3 DEF Retry
<1> QED
  BY <1>1, <1>2, <1>3, StockInTransit, ReservationInTransit DEF Next

-----------------------------------------------------------------------------
(* The reconciliation theorems. *)

\* What a step does to the reserved column and the reservations: nothing, or one
\* of the two changes above.
LEMMA ReservedStep ==
    ASSUME TypeOK, Fresh, ReservedMatches, [Next]_vars
    PROVE  ReservedMatches'
<1>1. CASE reserved' = reserved /\ reservation' = reservation
  <2>1. \A p : ReservedUnits(p)' = ReservedUnits(p)
    BY <1>1 DEF ReservedUnits
  <2> QED
    BY <1>1, <2>1 DEF ReservedMatches, ReservationTotal
<1>2. ASSUME NEW s \in Position, NEW x \in Int, UpdatePosition(s, x, reserved[s])
      PROVE  reserved' = reserved
  BY <1>2 DEF UpdatePosition, TypeOK
<1>3. ASSUME NEW k \in Key, StockStep(k) PROVE ReservedMatches'
  <2>1. ASSUME NEW s \in Position, NEW q \in Quantity, NEW v \in Version, Reserve(k, s, q, v)
        PROVE  ReservedMatches'
    <3>1. reservation[k] = NoReservation
      BY <2>1 DEF Reserve, ClaimIdempotency, Fresh
    <3>2. q \in Nat \ {0}
      BY QuantityAssumption
    <3>3. /\ reservation' = [reservation EXCEPT ![k] =
                [status |-> "active", position |-> s, quantity |-> q, version |-> 1]]
          /\ reserved' = [reserved EXCEPT ![s] = @ + q]
      BY <2>1 DEF Reserve, UpdatePosition
    <3> QED
      BY <3>1, <3>2, <3>3, ReservationAdded
  <2>2. ASSUME NEW s \in Position, NEW delta \in Delta, NEW allow \in BOOLEAN, NEW v \in Version,
               Adjust(k, s, delta, allow, v)
        PROVE  ReservedMatches'
    BY <1>1, <2>2 DEF Adjust, UpdatePosition, TypeOK
  <2>3. ASSUME NEW s \in Position, NEW counted \in Quantity \cup {0}, NEW v \in Version,
               PostCount(k, s, counted, v)
        PROVE  ReservedMatches'
    BY <1>1, <2>3 DEF PostCount, UpdatePosition, TypeOK
  <2> QED
    BY <1>3, <2>1, <2>2, <2>3 DEF StockStep
<1>4. ASSUME NEW k \in Key, ReservationStep(k) PROVE ReservedMatches'
  <2> PICK r \in Key : /\ reservation[r].status = "active"
                       /\ \/ EndReservation(r, "released") \/ EndReservation(r, "consumed")
                       /\ reserved' = [reserved EXCEPT ![reservation[r].position] =
                                           @ - reservation[r].quantity]
    BY <1>4 DEF ReservationStep, ReleaseReservation, ConsumeReservation, ActiveReservation,
                UpdatePosition
  <2> QED
    BY ReservationEnded
<1>5. ASSUME NEW k \in Key, TransferStep(k) PROVE ReservedMatches'
  <2>1. ASSUME NEW s \in Position, NEW d \in Position, NEW q \in Quantity, NEW v \in Version,
               NEW vd \in Version,
               TransferStock(k, s, d, q, v, vd) \/ ShipTransfer(k, s, d, q, v)
        PROVE  ReservedMatches'
    BY <1>1, <2>1 DEF TransferStock, ShipTransfer, UpdatePosition, TypeOK
  <2>2. ASSUME NEW i \in Key, NEW got \in Quantity \cup {0}, NEW v \in Version,
               ReceiveTransfer(k, i, got, v)
        PROVE  ReservedMatches'
    <3>1. reserved' = reserved /\ reservation' = reservation
      BY <2>2 DEF ReceiveTransfer, UpdatePosition, positionVars, TypeOK
    <3> QED
      BY <1>1, <3>1
  <2>3. \A r \in Route : r[1] \in Position /\ r[2] \in Position
    BY PositionAssumption
  <2> QED
    BY <1>5, <2>1, <2>2, <2>3 DEF TransferStep
<1>6. ASSUME NEW k \in Key, Retry(k) PROVE ReservedMatches'
  BY <1>1, <1>6 DEF Retry, vars, positionVars
<1>7. CASE UNCHANGED vars
  BY <1>1, <1>7 DEF vars, positionVars
<1> QED
  BY <1>3, <1>4, <1>5, <1>6, <1>7 DEF Next

\* The inductive invariant of the reconciliation.
LedgerInv ==
    /\ TypeOK
    /\ Fresh
    /\ SellableReserved
    /\ ReservedMatches
    /\ OnHandMatches
    /\ InTransitMatches

LEMMA InitLedgerInv == Init => LedgerInv
<1> SUFFICES ASSUME Init PROVE LedgerInv
  OBVIOUS
<1>1. TypeOK /\ Fresh /\ SellableReserved
  BY InitTypeOK DEF Init, Fresh, SellableReserved, NoReservation
<1>2. IsFiniteSet({}) /\ Cardinality({}) = 0
  BY FS_EmptySet
<1>3. ReservedMatches
  <2>1. \A p : ReservedUnits(p) = {}
    BY DEF Init, ReservedUnits, NoReservation
  <2> QED
    BY <1>2, <2>1 DEF Init, ReservedMatches, ReservationTotal
<1>4. \A lines : Flow(lines, 1) = {} /\ Flow(lines, -1) = {}
  BY DEF Init, Flow
<1>5. \A lines : Finite(lines) /\ Balance(lines) = 0
  BY <1>2, <1>4 DEF Finite, Balance
<1>6. OnHandMatches
  BY <1>5 DEF Init, OnHandMatches
<1>7. InTransitMatches
  <2>1. InTransitUnits = {}
    BY DEF Init, InTransitUnits, NoTransfer
  <2> QED
    BY <1>2, <1>5, <2>1 DEF InTransitMatches
<1> QED
  BY <1>1, <1>3, <1>6, <1>7 DEF LedgerInv

\* No command forgets a line, a claim or a unit on the way.
THEOREM Reconciliation == Spec => []LedgerInv
<1>1. LedgerInv /\ [Next]_vars => LedgerInv'
  BY NextTypeOK, FreshStep, SellableReservedStep, ReservedStep, OnHandStep, InTransitStep
     DEF LedgerInv
<1> QED
  BY <1>1, InitLedgerInv, PTL DEF Spec

\* The reserved column equals the sum of the active reservations.
THEOREM ReservedIsReconciled == Spec => []ReservedReconciled
<1>1. LedgerInv => ReservedReconciled
  BY DEF LedgerInv, ReservedMatches, ReservedReconciled
<1> QED
  BY <1>1, Reconciliation, PTL

\* The on_hand column of a position that no mis-attributed shipment reaches equals
\* the sum of its ledger lines, whatever happens elsewhere.
AttributedReconciled ==
    \A p \in Position : Attributed(p) => onHand[p] = LedgerTotal("on_hand", p)

\* For every route, also those by which a shipment writes its line for another
\* position (a serial unit, a lot): the positions out of their reach reconcile.
THEOREM AttributedIsReconciled == Spec => []AttributedReconciled
<1>1. LedgerInv => AttributedReconciled
  BY OnHandFlow DEF LedgerInv, OnHandMatches, AttributedReconciled, LedgerTotal, Balance
<1> QED
  BY <1>1, Reconciliation, PTL

\* In a warehouse that ships from positions with neither lot nor serial, so that a
\* shipment's line names the reserved position, that is every position.
THEOREM OnHandIsReconciled ==
    ASSUME \A p \in Sellable : IssuedAs[p] = p
    PROVE  Spec => []OnHandReconciled
<1>1. AttributedReconciled => OnHandReconciled
  BY DEF AttributedReconciled, OnHandReconciled, Attributed
<1> QED
  BY <1>1, AttributedIsReconciled, PTL

\* What the in_transit account holds is what staged transfers have yet to deliver.
THEOREM InTransitIsCleared == Spec => []InTransitCleared
<1>1. LedgerInv => InTransitCleared
  BY InTransitFlow DEF LedgerInv, InTransitMatches, InTransitCleared, Balance
<1> QED
  BY <1>1, Reconciliation, PTL

-----------------------------------------------------------------------------
(* Reservations. *)

\* What may become of the reservations in a step.
ClaimsKept ==
    \A k \in Key :
        /\ reservation[k].status \in {"released", "consumed"} => UNCHANGED reservation[k]
        /\ reservation[k].status = "active" =>
             LET p == reservation[k].position IN
               /\ reservation'[k].position = p
               /\ reservation'[k].quantity = reservation[k].quantity
               /\ reservation'[k].status # "active"
                    => reserved'[p] = reserved[p] - reservation[k].quantity

LEMMA ClaimsKeptStep ==
    ASSUME TypeOK, Fresh, Next
    PROVE  ClaimsKept
<1>1. CASE reservation' = reservation
  BY <1>1 DEF ClaimsKept
<1>2. ASSUME NEW k \in Key, NEW s \in Position, NEW q \in Quantity, NEW v \in Version,
             Reserve(k, s, q, v)
      PROVE  ClaimsKept
  <2>1. reservation[k].status = "none"
    BY <1>2 DEF Reserve, ClaimIdempotency, Fresh, NoReservation
  <2>2. \A m \in Key : m # k => reservation'[m] = reservation[m]
    BY <1>2 DEF Reserve, TypeOK
  <2> QED
    BY <2>1, <2>2 DEF ClaimsKept
<1>3. ASSUME NEW k \in Key, ReservationStep(k) PROVE ClaimsKept
  <2> PICK r \in Key, status \in {"released", "consumed"} :
          /\ reservation[r].status = "active"
          /\ EndReservation(r, status)
          /\ reserved' = [reserved EXCEPT ![reservation[r].position] = @ - reservation[r].quantity]
    BY <1>3 DEF ReservationStep, ReleaseReservation, ConsumeReservation, ActiveReservation,
                UpdatePosition
  <2>1. reservation[r].position \in Position
    BY ActiveTyped
  <2>2. /\ \A m \in Key : m # r => reservation'[m] = reservation[m]
        /\ reservation'[r].position = reservation[r].position
        /\ reservation'[r].quantity = reservation[r].quantity
    BY DEF EndReservation, TypeOK
  <2>3. reserved'[reservation[r].position]
          = reserved[reservation[r].position] - reservation[r].quantity
    BY <2>1 DEF TypeOK
  <2> QED
    BY <2>2, <2>3 DEF ClaimsKept
<1>4. ASSUME NEW k \in Key, TransferStep(k) PROVE reservation' = reservation
  <2>1. ASSUME NEW s, NEW d, NEW q, NEW v, NEW vd,
               TransferStock(k, s, d, q, v, vd) \/ ShipTransfer(k, s, d, q, v)
        PROVE  reservation' = reservation
    BY <2>1 DEF TransferStock, ShipTransfer
  <2>2. ASSUME NEW i, NEW got, NEW v, ReceiveTransfer(k, i, got, v)
        PROVE  reservation' = reservation
    BY <2>2 DEF ReceiveTransfer
  <2> QED
    BY <1>4, <2>1, <2>2 DEF TransferStep
<1>5. ASSUME NEW k \in Key, StockStep(k) PROVE ClaimsKept
  BY <1>1, <1>2, <1>5 DEF StockStep, Adjust, PostCount
<1>6. ASSUME NEW k \in Key, Retry(k) PROVE reservation' = reservation
  BY <1>6 DEF Retry, vars
<1> QED
  BY <1>1, <1>3, <1>4, <1>5, <1>6 DEF Next

\* A reservation is released or consumed at most once, with the units it claimed.
THEOREM ReservationEndedOnce == Spec => ReservationEndsOnce
<1>1. LedgerInv /\ [Next]_vars => [ClaimsKept]_vars
  BY ClaimsKeptStep DEF LedgerInv
<1>2. ReservationEndsOnce <=> [][ClaimsKept]_vars
  BY PTL DEF ReservationEndsOnce, ClaimsKept
<1> QED
  BY <1>1, <1>2, Reconciliation, PTL DEF Spec

-----------------------------------------------------------------------------
(* InventoryLedger implements ReferenceLedger, up to the two kinds of         *)
(* transfer that ReferenceRules names: each command maps to the command of    *)
(* the same name, a retry to a stutter.                                       *)

-----------------------------------------------------------------------------
(* The invariant the mapping rests on: a key without a record made no        *)
(* transfer, and only the two-step command leaves one shipped.               *)

TransferRecorded ==
    \A k \in Key : /\ record[k] = Unused => transfer[k] = NoTransfer
                   /\ transfer[k].state = "shipped" => record[k].op = "ship"

LEMMA TransferRecordedStep ==
    ASSUME TypeOK, TransferRecorded, Next
    PROVE  TransferRecorded'
<1>1. CASE UNCHANGED vars
  BY <1>1 DEF TransferRecorded, vars
<1>2. PICK k \in Key : StockStep(k) \/ ReservationStep(k) \/ TransferStep(k) \/ Retry(k)
  BY DEF Next
<1>3. CASE StockStep(k) \/ ReservationStep(k)
  <2>1. transfer' = transfer
    BY <1>3 DEF StockStep, Adjust, Reserve, PostCount,
                ReservationStep, ReleaseReservation, ConsumeReservation
  <2>2. record[k] = Unused /\ \A m \in Key \ {k} : record'[m] = record[m]
    BY <1>3, StockCommits, ReservationCommits DEF Commits, Claims
  <2>3. transfer[k] = NoTransfer /\ transfer[k].state # "shipped"
    BY <2>2 DEF TransferRecorded, NoTransfer
  <2> QED
    BY <2>1, <2>2, <2>3 DEF TransferRecorded
<1>4. CASE TransferStep(k)
  <2>1. PICK v \in Version :
           \/ \E r \in Route, q \in Quantity :
                 \/ \E vd \in Version : TransferStock(k, r[1], r[2], q, v, vd)
                 \/ ShipTransfer(k, r[1], r[2], q, v)
           \/ \E i \in Key, got \in Quantity \cup {0} : ReceiveTransfer(k, i, got, v)
    BY <1>4 DEF TransferStep
  <2>2. record[k] = Unused /\ \A m \in Key \ {k} : record'[m] = record[m]
    BY <1>4, TransferCommits DEF Commits, Claims
  <2>3. ASSUME NEW s, NEW d, NEW q, NEW vd, TransferStock(k, s, d, q, v, vd)
        PROVE  TransferRecorded'
    <3>1. /\ transfer'[k].state = "received"
          /\ record'[k].op = "transfer"
          /\ \A m \in Key \ {k} : transfer'[m] = transfer[m]
      BY <2>3 DEF TransferStock, CompleteIdempotency, TypeOK
    <3> QED
      BY <2>2, <3>1 DEF TransferRecorded, Unused
  <2>4. ASSUME NEW s, NEW d, NEW q, ShipTransfer(k, s, d, q, v)
        PROVE  TransferRecorded'
    <3>1. /\ record'[k].op = "ship"
          /\ \A m \in Key \ {k} : transfer'[m] = transfer[m]
      BY <2>4 DEF ShipTransfer, CompleteIdempotency, TypeOK
    <3> QED
      BY <2>2, <3>1 DEF TransferRecorded, Unused
  <2>5. ASSUME NEW i \in Key, NEW got \in Quantity \cup {0}, ReceiveTransfer(k, i, got, v)
        PROVE  TransferRecorded'
    <3>1. i # k /\ record[i] # Unused
      <4>1. transfer[i].state = "shipped"
        BY <2>5 DEF ReceiveTransfer, AwaitsReceipt
      <4> QED
        BY <2>2, <4>1 DEF TransferRecorded, Unused
    <3>2. record'[k].op = "receive"
      BY <2>5 DEF ReceiveTransfer, CompleteIdempotency, TypeOK
    <3>3. transfer'[i].state # "shipped"
      <4>1. transfer[i] \in Transfer
        BY <2>5, ShippedTyped DEF ReceiveTransfer, AwaitsReceipt
      <4> DEFINE t == transfer[i]
                 state == IF got = t.shipped THEN "received" ELSE "discrepancy_review"
                 after == [t EXCEPT !.received = got, !.state = state]
      <4>2. transfer'[i] = after
        BY <2>5 DEF ReceiveTransfer, TypeOK
      <4>3. after.state = state
        BY <4>1 DEF Transfer
      <4>4. state # "shipped"
        OBVIOUS
      <4> HIDE DEF after, state
      <4> QED
        BY <4>2, <4>3, <4>4
    <3>4. \A m \in Key \ {i} : transfer'[m] = transfer[m]
      BY <2>5 DEF ReceiveTransfer, TypeOK
    <3>5. transfer[k] = NoTransfer
      BY <2>2 DEF TransferRecorded
    <3> QED
      BY <2>2, <3>1, <3>2, <3>3, <3>4, <3>5 DEF TransferRecorded, Unused, NoTransfer
  <2> QED
    BY <2>1, <2>3, <2>4, <2>5
<1>5. CASE Retry(k)
  BY <1>1, <1>5 DEF Retry
<1> QED
  BY <1>2, <1>3, <1>4, <1>5

-----------------------------------------------------------------------------
(* What the steps do to the three mapped variables.                          *)

LEMMA CompleteSeen ==
    ASSUME TypeOK, NEW k \in Key, NEW op \in Operation, NEW e, NEW allow,
           record[k] = Unused, CompleteIdempotency(k, op, e, allow)
    PROVE  /\ CommandsSeen[k] = {}
           /\ CommandsSeen' = [CommandsSeen EXCEPT ![k] = @ \cup {[op |-> op, expects |-> e]}]
<1>1. record' = [record EXCEPT ![k] = [op |-> op, expects |-> e, allowNegative |-> allow]]
  BY DEF CompleteIdempotency
<1>2. record'[k] # Unused /\ record'[k].op = op /\ record'[k].expects = e
  BY <1>1 DEF TypeOK, Operation, Unused
<1>3. \A m \in Key \ {k} : record'[m] = record[m]
  BY <1>1 DEF TypeOK
<1>4. CommandsSeen[k] = {}
  BY DEF CommandsSeen
<1>5. CommandsSeen' = [m \in Key |-> IF record'[m] = Unused THEN {}
                                     ELSE {[op |-> record'[m].op, expects |-> record'[m].expects]}]
  BY DEF CommandsSeen
<1>6. \A m \in Key \ {k} : CommandsSeen'[m] = CommandsSeen[m]
  BY <1>3, <1>5 DEF CommandsSeen
<1>7. CommandsSeen'[k] = {} \cup {[op |-> op, expects |-> e]}
  BY <1>2, <1>5
<1> QED
  BY <1>4, <1>5, <1>6, <1>7 DEF CommandsSeen

LEMMA TransfersKept ==
    ASSUME TypeOK, NEW k \in Key, NEW op \in Operation \ {"ship"}, NEW e, NEW allow,
           record[k] = Unused, CompleteIdempotency(k, op, e, allow),
           \A m \in Key \ {k} : transfer'[m] = transfer[m]
    PROVE  TransfersSeen' = TransfersSeen
<1>1. record'[k].op = op /\ record[k].op # "ship"
  BY DEF CompleteIdempotency, TypeOK, Unused
<1>2. \A m \in Key \ {k} : record'[m] = record[m]
  BY DEF CompleteIdempotency, TypeOK
<1> QED
  BY <1>1, <1>2 DEF TransfersSeen

LEMMA ReservationsKept == UNCHANGED reservation => UNCHANGED ReservationsSeen
BY DEF ReservationsSeen

LEMMA EndSeen ==
    ASSUME TypeOK, NEW r \in Key, NEW status, status # "none",
           reservation[r].status = "active", EndReservation(r, status)
    PROVE  /\ ReservationsSeen[r].status = "active"
           /\ ReservationsSeen[r].position = reservation[r].position
           /\ ReservationsSeen[r].quantity = reservation[r].quantity
           /\ Reference!End(r, status)
<1>1. reservation[r] # NoReservation
  BY DEF NoReservation
<1>2. ReservationsSeen[r] = [status |-> "active", position |-> reservation[r].position,
                             quantity |-> reservation[r].quantity]
  BY <1>1 DEF ReservationsSeen
<1>3. /\ reservation'[r].status = status
      /\ reservation'[r].position = reservation[r].position
      /\ reservation'[r].quantity = reservation[r].quantity
      /\ \A m \in Key \ {r} : reservation'[m] = reservation[m]
  BY DEF EndReservation, TypeOK
<1>4. reservation'[r] # NoReservation
  BY <1>3 DEF NoReservation
<1>5. ReservationsSeen' = [m \in Key |->
          IF reservation'[m] = NoReservation THEN NoReservation
          ELSE [status |-> reservation'[m].status, position |-> reservation'[m].position,
                quantity |-> reservation'[m].quantity]]
  BY DEF ReservationsSeen
<1>6. ReservationsSeen'[r] = [status |-> status, position |-> ReservationsSeen[r].position,
                              quantity |-> ReservationsSeen[r].quantity]
  BY <1>2, <1>3, <1>4, <1>5
<1>7. \A m \in Key \ {r} : ReservationsSeen'[m] = ReservationsSeen[m]
  BY <1>3, <1>5 DEF ReservationsSeen
<1>8. ReservationsSeen' = [ReservationsSeen EXCEPT ![r] =
          [status |-> status, position |-> @.position, quantity |-> @.quantity]]
  BY <1>5, <1>6, <1>7 DEF ReservationsSeen
<1> QED
  BY <1>2, <1>8 DEF Reference!End

\* UpdatePosition writes what a snapshot changed by two differences holds.
LEMMA UpdateMoves ==
    ASSUME TypeOK, NEW p \in Position, NEW dq \in Int, NEW dr \in Int,
           UpdatePosition(p, onHand[p] + dq, reserved[p] + dr)
    PROVE  Reference!Move(p, dq, dr)
BY DEF UpdatePosition, TypeOK, Reference!Move

-----------------------------------------------------------------------------
(* Each command is the reference's command.                                  *)

LEMMA AdjustRefines ==
    ASSUME TypeOK, NEW k \in Key, NEW p \in Position, NEW delta \in Delta,
           NEW allow \in BOOLEAN, NEW v \in Version, Adjust(k, p, delta, allow, v)
    PROVE  Reference!Adjust(k, p, delta, allow)
<1>1. delta \in Int /\ delta # 0
  BY QuantityAssumption DEF Delta
<1>2. /\ record[k] = Unused
      /\ CompleteIdempotency(k, "adjust", {<<p, version[p]>>}, allow)
      /\ UpdatePosition(p, onHand[p] + delta, reserved[p])
  BY DEF Adjust, ClaimIdempotency
<1>3. Reference!Move(p, delta, 0)
  <2>1. reserved[p] + 0 = reserved[p]
    BY DEF TypeOK
  <2> QED
    BY <1>1, <1>2, <2>1, UpdateMoves
<1>4. Reference!Unused(k) /\ Reference!Remember(k, "adjust", {<<p, version[p]>>})
  BY <1>2, CompleteSeen DEF Operation, Reference!Unused, Reference!Remember, Reference!Did
<1>5. UNCHANGED <<ReservationsSeen, TransfersSeen>>
  BY <1>2, ReservationsKept, TransfersKept DEF Adjust, Operation
<1>6. Reference!Adjustable(p, delta, allow)
  BY <1>1 DEF Adjust, UpdatePosition, Reference!Adjustable
<1> QED
  BY <1>3, <1>4, <1>5, <1>6 DEF Reference!Adjust

LEMMA ReserveRefines ==
    ASSUME TypeOK, NEW k \in Key, NEW p \in Position, NEW q \in Quantity,
           NEW v \in Version, Reserve(k, p, q, v)
    PROVE  Reference!Reserve(k, p, q)
<1>1. q \in Int
  BY QuantityAssumption
<1>2. /\ record[k] = Unused
      /\ CompleteIdempotency(k, "reserve", {<<p, version[p]>>}, FALSE)
      /\ UpdatePosition(p, onHand[p], reserved[p] + q)
  BY DEF Reserve, ClaimIdempotency
<1>3. Reference!Move(p, 0, q)
  <2>1. onHand[p] + 0 = onHand[p]
    BY DEF TypeOK
  <2> QED
    BY <1>1, <1>2, <2>1, UpdateMoves
<1>4. Reference!Unused(k) /\ Reference!Remember(k, "reserve", {<<p, version[p]>>})
  BY <1>2, CompleteSeen DEF Operation, Reference!Unused, Reference!Remember, Reference!Did
<1>5. UNCHANGED TransfersSeen
  BY <1>2, TransfersKept DEF Reserve, Operation
<1>6. p \in Sellable /\ Reference!Available(p) >= q
  BY DEF Reserve, Available, Reference!Available
<1>7. ReservationsSeen' =
        [ReservationsSeen EXCEPT ![k] = [status |-> "active", position |-> p, quantity |-> q]]
  <2>1. /\ reservation'[k] = [status |-> "active", position |-> p, quantity |-> q, version |-> 1]
        /\ \A m \in Key \ {k} : reservation'[m] = reservation[m]
    BY DEF Reserve, TypeOK
  <2>2. reservation'[k] # NoReservation
    BY <2>1 DEF NoReservation
  <2>3. ReservationsSeen' = [m \in Key |->
            IF reservation'[m] = NoReservation THEN NoReservation
            ELSE [status |-> reservation'[m].status, position |-> reservation'[m].position,
                  quantity |-> reservation'[m].quantity]]
    BY DEF ReservationsSeen
  <2>4. ReservationsSeen'[k] = [status |-> "active", position |-> p, quantity |-> q]
    BY <2>1, <2>2, <2>3
  <2>5. \A m \in Key \ {k} : ReservationsSeen'[m] = ReservationsSeen[m]
    BY <2>1, <2>3 DEF ReservationsSeen
  <2> QED
    BY <2>3, <2>4, <2>5 DEF ReservationsSeen
<1> QED
  BY <1>3, <1>4, <1>5, <1>6, <1>7 DEF Reference!Reserve

LEMMA CountRefines ==
    ASSUME TypeOK, NEW k \in Key, NEW p \in Position, NEW counted \in Quantity \cup {0},
           NEW v \in Version, PostCount(k, p, counted, v)
    PROVE  Reference!PostCount(k, p, counted)
<1>1. counted \in Int /\ onHand[p] \in Int
  BY QuantityAssumption DEF TypeOK
<1>2. /\ record[k] = Unused
      /\ CompleteIdempotency(k, "count", {<<p, version[p]>>}, FALSE)
      /\ UpdatePosition(p, counted, reserved[p])
  BY DEF PostCount, ClaimIdempotency
<1>3. Reference!Move(p, counted - onHand[p], 0)
  <2>1. /\ counted - onHand[p] \in Int
        /\ onHand[p] + (counted - onHand[p]) = counted
        /\ reserved[p] + 0 = reserved[p]
    BY <1>1 DEF TypeOK
  <2> QED
    BY <1>2, <2>1, UpdateMoves
<1>4. Reference!Unused(k) /\ Reference!Remember(k, "count", {<<p, version[p]>>})
  BY <1>2, CompleteSeen DEF Operation, Reference!Unused, Reference!Remember, Reference!Did
<1>5. UNCHANGED <<ReservationsSeen, TransfersSeen>>
  BY <1>2, ReservationsKept, TransfersKept DEF PostCount, Operation
<1> QED
  BY <1>3, <1>4, <1>5 DEF PostCount, Reference!PostCount

LEMMA ReleaseRefines ==
    ASSUME TypeOK, NEW k \in Key, NEW r \in Key, NEW rv \in {1, 2}, ReleaseReservation(k, r, rv)
    PROVE  Reference!ReleaseReservation(k, r)
<1> DEFINE p == reservation[r].position
           q == reservation[r].quantity
<1>1. reservation[r].status = "active"
  BY DEF ReleaseReservation, ActiveReservation
<1>2. p \in Position /\ q \in Int /\ -q \in Int
  BY <1>1, ActiveTyped
<1>3. /\ record[k] = Unused
      /\ CompleteIdempotency(k, "release", {}, FALSE)
      /\ UpdatePosition(p, onHand[p], reserved[p] - q)
  BY DEF ReleaseReservation, ClaimIdempotency
<1>4. Reference!Move(p, 0, -q)
  <2>1. onHand[p] + 0 = onHand[p] /\ reserved[p] + (-q) = reserved[p] - q
    BY <1>2 DEF TypeOK
  <2> HIDE DEF p, q
  <2> QED
    BY <1>2, <1>3, <2>1, UpdateMoves
<1>5. Reference!Unused(k) /\ Reference!Remember(k, "release", {})
  BY <1>3, CompleteSeen DEF Operation, Reference!Unused, Reference!Remember, Reference!Did
<1>6. UNCHANGED TransfersSeen
  BY <1>3, TransfersKept DEF ReleaseReservation, Operation
<1>7. /\ ReservationsSeen[r].status = "active"
      /\ ReservationsSeen[r].position = p
      /\ ReservationsSeen[r].quantity = q
      /\ Reference!End(r, "released")
  BY <1>1, EndSeen DEF ReleaseReservation
<1> QED
  BY <1>4, <1>5, <1>6, <1>7 DEF Reference!ReleaseReservation

LEMMA ConsumeRefines ==
    ASSUME TypeOK, NEW k \in Key, NEW r \in Key, NEW rv \in {1, 2}, NEW v \in Version,
           ConsumeReservation(k, r, rv, v)
    PROVE  Reference!ConsumeReservation(k, r)
<1> DEFINE p == reservation[r].position
           q == reservation[r].quantity
<1>1. reservation[r].status = "active"
  BY DEF ConsumeReservation, ActiveReservation
<1>2. p \in Position /\ q \in Int /\ -q \in Int
  BY <1>1, ActiveTyped
<1>3. /\ record[k] = Unused
      /\ CompleteIdempotency(k, "consume", {<<p, version[p]>>}, FALSE)
      /\ UpdatePosition(p, onHand[p] - q, reserved[p] - q)
  BY DEF ConsumeReservation, ClaimIdempotency
<1>4. Reference!Move(p, -q, -q)
  <2>1. onHand[p] + (-q) = onHand[p] - q /\ reserved[p] + (-q) = reserved[p] - q
    BY <1>2 DEF TypeOK
  <2> HIDE DEF p, q
  <2> QED
    BY <1>2, <1>3, <2>1, UpdateMoves
<1>5. /\ Reference!UnusedToConsume(k)
      /\ Reference!Remember(k, "consume", {<<p, version[p]>>})
  BY <1>3, CompleteSeen DEF Operation, Reference!UnusedToConsume, Reference!Remember, Reference!Did
<1>6. UNCHANGED TransfersSeen
  BY <1>3, TransfersKept DEF ConsumeReservation, Operation
<1>7. /\ ReservationsSeen[r].status = "active"
      /\ ReservationsSeen[r].position = p
      /\ ReservationsSeen[r].quantity = q
      /\ Reference!End(r, "consumed")
  BY <1>1, EndSeen DEF ConsumeReservation
<1> QED
  BY <1>4, <1>5, <1>6, <1>7 DEF Reference!ConsumeReservation

LEMMA TransferStockRefines ==
    ASSUME TypeOK, TransferRecorded, NEW k \in Key, NEW r \in Route, NEW q \in Quantity,
           NEW v \in Version, NEW vd \in Version, TransferStock(k, r[1], r[2], q, v, vd)
    PROVE  Reference!TransferStock(k, r[1], r[2], q) \/ TransfersHeldStock
<1> DEFINE s == r[1]
           d == r[2]
<1>1. s \in Position /\ d \in Position /\ s # d
  BY PositionAssumption
<1> HIDE DEF s, d
<1>2. TransferStock(k, s, d, q, v, vd)
  BY DEF s, d
<1>3. /\ record[k] = Unused
      /\ CompleteIdempotency(k, "transfer", {<<s, version[s]>>, <<d, version[d]>>}, FALSE)
  BY <1>2 DEF TransferStock, ClaimIdempotency
<1>4. CASE s \notin Sellable
  <2>1. transfer[k] = NoTransfer
    BY <1>3 DEF TransferRecorded
  <2>2. transfer'[k].state = "received" /\ transfer'[k].source = s
    BY <1>2 DEF TransferStock, TypeOK
  <2> QED
    BY <1>4, <2>1, <2>2 DEF TransfersHeldStock, NoTransfer
<1>5. CASE s \in Sellable
  <2>1. /\ Reference!Unused(k)
        /\ Reference!Remember(k, "transfer", {<<s, version[s]>>, <<d, version[d]>>})
    BY <1>3, CompleteSeen DEF Operation, Reference!Unused, Reference!Remember, Reference!Did
  <2>2. UNCHANGED TransfersSeen
    <3>1. \A m \in Key \ {k} : transfer'[m] = transfer[m]
      BY <1>2 DEF TransferStock, TypeOK
    <3> QED
      BY <1>3, <3>1, TransfersKept DEF Operation
  <2>3. UNCHANGED ReservationsSeen
    BY <1>2, ReservationsKept DEF TransferStock
  <2>4. Reference!TransferStock(k, s, d, q)
    BY <1>2, <1>5, <2>1, <2>2, <2>3
       DEF TransferStock, Available, Reference!TransferStock, Reference!Available
  <2> QED
    BY <2>4 DEF s, d
<1> QED
  BY <1>4, <1>5

LEMMA ShipRefines ==
    ASSUME TypeOK, TransferRecorded, NEW k \in Key, NEW r \in Route, NEW q \in Quantity,
           NEW v \in Version, ShipTransfer(k, r[1], r[2], q, v)
    PROVE  Reference!ShipTransfer(k, r[1], r[2], q) \/ TransfersHeldStock
<1> DEFINE s == r[1]
           d == r[2]
<1>1. s \in Position /\ d \in Position /\ q \in Int /\ -q \in Int
  BY PositionAssumption, QuantityAssumption
<1> HIDE DEF s, d
<1>2. ShipTransfer(k, s, d, q, v)
  BY DEF s, d
<1>3. /\ record[k] = Unused
      /\ CompleteIdempotency(k, "ship", {<<s, version[s]>>}, FALSE)
      /\ UpdatePosition(s, onHand[s] - q, reserved[s])
  BY <1>2 DEF ShipTransfer, ClaimIdempotency
<1>4. /\ transfer' = [transfer EXCEPT ![k] =
            [state |-> "shipped", source |-> s, destination |-> d, shipped |-> q, received |-> 0]]
      /\ reservation' = reservation
  BY <1>2 DEF ShipTransfer
<1>5. CASE s \notin Sellable
  <2>1. transfer[k] = NoTransfer
    BY <1>3 DEF TransferRecorded
  <2>2. transfer'[k].state = "shipped" /\ transfer'[k].source = s
    BY <1>4 DEF TypeOK
  <2> QED
    BY <1>5, <2>1, <2>2 DEF TransfersHeldStock, NoTransfer
<1>6. CASE s \in Sellable
  <2>1. Reference!Move(s, -q, 0)
    <3>1. onHand[s] + (-q) = onHand[s] - q /\ reserved[s] + 0 = reserved[s]
      BY <1>1 DEF TypeOK
    <3> QED
      BY <1>1, <1>3, <3>1, UpdateMoves
  <2>2. Reference!Unused(k) /\ Reference!Remember(k, "ship", {<<s, version[s]>>})
    BY <1>3, CompleteSeen DEF Operation, Reference!Unused, Reference!Remember, Reference!Did
  <2>3. TransfersSeen[k] = NoTransfer
    BY <1>3 DEF TransfersSeen, Unused
  <2>4. TransfersSeen' =
          [TransfersSeen EXCEPT ![k] = [state |-> "shipped", destination |-> d, shipped |-> q]]
    <3>1. /\ transfer'[k].state = "shipped"
          /\ transfer'[k].destination = d
          /\ transfer'[k].shipped = q
          /\ record'[k].op = "ship"
      BY <1>3, <1>4 DEF CompleteIdempotency, TypeOK
    <3>2. \A m \in Key \ {k} : transfer'[m] = transfer[m] /\ record'[m] = record[m]
      BY <1>3, <1>4 DEF CompleteIdempotency, TypeOK
    <3>3. TransfersSeen' = [m \in Key |->
              IF record'[m].op # "ship" THEN NoTransfer
              ELSE [state |-> IF transfer'[m].state = "shipped" THEN "shipped" ELSE "received",
                    destination |-> transfer'[m].destination, shipped |-> transfer'[m].shipped]]
      BY DEF TransfersSeen
    <3>4. TransfersSeen'[k] = [state |-> "shipped", destination |-> d, shipped |-> q]
      BY <3>1, <3>3
    <3>5. \A m \in Key \ {k} : TransfersSeen'[m] = TransfersSeen[m]
      BY <3>2, <3>3 DEF TransfersSeen
    <3> QED
      BY <3>3, <3>4, <3>5 DEF TransfersSeen
  <2>5. UNCHANGED ReservationsSeen
    BY <1>4, ReservationsKept
  <2>6. (s \in Serial => q = 1) /\ Reference!Available(s) >= q
    BY <1>2, <1>6 DEF ShipTransfer, Available, Reference!Available
  <2>7. Reference!ShipTransfer(k, s, d, q)
    BY <2>1, <2>2, <2>3, <2>4, <2>5, <2>6
       DEF Reference!ShipTransfer, Reference!NoTransfer, NoTransfer
  <2> QED
    BY <2>7 DEF s, d
<1> QED
  BY <1>5, <1>6

LEMMA ReceiveRefines ==
    ASSUME TypeOK, TransferRecorded, NEW k \in Key, NEW i \in Key,
           NEW got \in Quantity \cup {0}, NEW v \in Version, ReceiveTransfer(k, i, got, v)
    PROVE  Reference!ReceiveTransfer(k, i, got) \/ ReceivesIntoDebt
<1> DEFINE t == transfer[i]
           d == t.destination
           state == IF got = t.shipped THEN "received" ELSE "discrepancy_review"
           e == IF got > 0 THEN {<<d, version[d]>>} ELSE {}
<1>1. t.state = "shipped" /\ got <= t.shipped
  BY DEF ReceiveTransfer, AwaitsReceipt
<1>2. t \in Transfer /\ d \in Position /\ t.shipped \in Nat /\ got \in Nat
  BY <1>1, ShippedTyped, QuantityAssumption
<1>3. record[k] = Unused /\ record[i].op = "ship" /\ i # k
  BY <1>1 DEF ReceiveTransfer, ClaimIdempotency, TransferRecorded, Unused
<1>4. CompleteIdempotency(k, "receive", e, FALSE)
  BY DEF ReceiveTransfer
<1>5. /\ transfer'[i].state = state
      /\ transfer'[i].received = got
      /\ transfer'[i].destination = d
      /\ transfer'[i].shipped = t.shipped
      /\ \A m \in Key \ {i} : transfer'[m] = transfer[m]
  <2> DEFINE after == [t EXCEPT !.received = got, !.state = state]
  <2>1. transfer' = [transfer EXCEPT ![i] = after]
    BY DEF ReceiveTransfer
  <2>2. /\ after.state = state
        /\ after.received = got
        /\ after.destination = d
        /\ after.shipped = t.shipped
    BY <1>2 DEF Transfer
  <2> HIDE DEF after, state, t, d
  <2> QED
    BY <2>1, <2>2 DEF TypeOK
<1>6. state # "shipped"
  OBVIOUS
<1>7. got > 0 => /\ UpdatePosition(d, onHand[d] + got, reserved[d])
                 /\ onHand'[d] = onHand[d] + got
  BY <1>2 DEF ReceiveTransfer, UpdatePosition, TypeOK
<1>8. ~(got > 0) => UNCHANGED positionVars
  BY DEF ReceiveTransfer
<1>9. UNCHANGED reservation
  BY DEF ReceiveTransfer
<1>10. CASE got > 0 /\ onHand[d] + got = 0
  BY <1>1, <1>5, <1>6, <1>7, <1>10 DEF ReceivesIntoDebt
<1>11. CASE got > 0 => onHand[d] + got # 0
  <2>1. /\ TransfersSeen[i] = [state |-> "shipped", destination |-> d, shipped |-> t.shipped]
        /\ TransfersSeen' = [TransfersSeen EXCEPT ![i] =
              [state |-> "received", destination |-> @.destination, shipped |-> @.shipped]]
    <3>1. record'[k].op = "receive" /\ \A m \in Key \ {k} : record'[m] = record[m]
      BY <1>4 DEF CompleteIdempotency, TypeOK
    <3>2. TransfersSeen' = [m \in Key |->
              IF record'[m].op # "ship" THEN NoTransfer
              ELSE [state |-> IF transfer'[m].state = "shipped" THEN "shipped" ELSE "received",
                    destination |-> transfer'[m].destination, shipped |-> transfer'[m].shipped]]
      BY DEF TransfersSeen
    <3>3. TransfersSeen[i] = [state |-> "shipped", destination |-> d, shipped |-> t.shipped]
      BY <1>1, <1>3 DEF TransfersSeen
    <3>4. TransfersSeen'[i] = [state |-> "received", destination |-> d, shipped |-> t.shipped]
      <4> HIDE DEF state, t, d
      <4> QED
        BY <1>3, <1>5, <1>6, <3>1, <3>2
    <3>5. TransfersSeen[k] = NoTransfer /\ TransfersSeen'[k] = NoTransfer
      BY <1>3, <3>1, <3>2 DEF TransfersSeen, Unused
    <3>6. \A m \in Key \ {i} : TransfersSeen'[m] = TransfersSeen[m]
      BY <1>5, <3>1, <3>2, <3>5 DEF TransfersSeen
    <3>7. TransfersSeen' = [TransfersSeen EXCEPT ![i] =
              [state |-> "received", destination |-> d, shipped |-> t.shipped]]
      <4> HIDE DEF t, d
      <4> QED
        BY <3>2, <3>4, <3>6 DEF TransfersSeen
    <3>8. TransfersSeen[i].destination = d /\ TransfersSeen[i].shipped = t.shipped
      <4> HIDE DEF t, d
      <4> QED
        BY <3>3
    <3> QED
      BY <3>3, <3>7, <3>8
  <2>2. Reference!Unused(k) /\ Reference!Remember(k, "receive", e)
    BY <1>3, <1>4, CompleteSeen DEF Operation, Reference!Unused, Reference!Remember, Reference!Did
  <2>3. UNCHANGED ReservationsSeen
    BY <1>9, ReservationsKept
  <2>4. got > 0 => Reference!Move(d, got, 0)
    <3>1. reserved[d] + 0 = reserved[d] /\ got \in Int
      BY <1>2 DEF TypeOK
    <3> QED
      BY <1>2, <1>7, <3>1, UpdateMoves
  <2>5. IF got > 0
          THEN Reference!Move(d, got, 0) /\ Reference!Remember(k, "receive", {<<d, version[d]>>})
          ELSE UNCHANGED positionVars /\ Reference!Remember(k, "receive", {})
    BY <1>8, <2>2, <2>4
  <2>6. got \in 0..t.shipped
    BY <1>1, <1>2
  <2> HIDE DEF t, d, e
  <2> QED
    BY <1>11, <2>1, <2>2, <2>3, <2>5, <2>6
       DEF Reference!ReceiveTransfer, Reference!positionVars, positionVars
<1> QED
  BY <1>10, <1>11

-----------------------------------------------------------------------------

\* Every command the PostgreSQL store commits, in whatever order clients send
\* them, is one the in-process reference ledger would have carried out, except a
\* transfer of stock that is not sellable and a receipt that brings a position
\* back to zero.
THEOREM ImplementsReference == Spec => ReferenceRules
<1>1. Init => TransferRecorded /\ Reference!LedgerInit
  BY DEF Init, TransferRecorded, NoTransfer, Reference!LedgerInit, Reference!NoReservation,
         Reference!NoTransfer, ReservationsSeen, TransfersSeen, CommandsSeen, Unused, NoReservation
<1>2. TypeOK /\ TransferRecorded /\ [Next]_vars => TransferRecorded'
  BY TransferRecordedStep DEF TransferRecorded, vars
<1>3. TypeOK /\ TransferRecorded /\ [Next]_vars
        => [Reference!LedgerNext \/ TransfersHeldStock \/ ReceivesIntoDebt]_vars
  <2> SUFFICES ASSUME TypeOK, TransferRecorded, Next
               PROVE  \/ Reference!LedgerNext \/ TransfersHeldStock \/ ReceivesIntoDebt
                      \/ UNCHANGED vars
    OBVIOUS
  <2>1. PICK k \in Key : StockStep(k) \/ ReservationStep(k) \/ TransferStep(k) \/ Retry(k)
    BY DEF Next
  <2>2. CASE StockStep(k)
    <3>1. ASSUME NEW p \in Position, NEW delta \in Delta, NEW allow \in BOOLEAN,
                 Reference!Adjust(k, p, delta, allow)
          PROVE  Reference!LedgerNext
      <4>1. PICK q \in Quantity : delta \in {q, -q}
        BY DEF Delta
      <4> QED
        BY <3>1, <4>1 DEF Reference!LedgerNext
    <3>2. ASSUME NEW p \in Position, NEW q \in Quantity, Reference!Reserve(k, p, q)
          PROVE  Reference!LedgerNext
      BY <3>2 DEF Reference!LedgerNext
    <3>3. ASSUME NEW p \in Position, NEW counted \in Quantity \cup {0},
                 Reference!PostCount(k, p, counted)
          PROVE  Reference!LedgerNext
      <4>1. CASE counted = 0
        BY <3>3, <4>1 DEF Reference!LedgerNext
      <4>2. CASE counted \in Quantity
        BY <3>3, <4>2 DEF Reference!LedgerNext
      <4> QED
        BY <4>1, <4>2
    <3> QED
      BY <2>2, <3>1, <3>2, <3>3, AdjustRefines, ReserveRefines, CountRefines DEF StockStep
  <2>3. CASE ReservationStep(k)
    <3>1. \E r \in Key : Reference!ConsumeReservation(k, r) \/ Reference!ReleaseReservation(k, r)
      BY <2>3, ReleaseRefines, ConsumeRefines DEF ReservationStep
    <3> QED
      BY <3>1 DEF Reference!LedgerNext
  <2>4. CASE TransferStep(k)
    <3>1. ASSUME NEW r \in Route, NEW q \in Quantity,
                 \/ Reference!TransferStock(k, r[1], r[2], q)
                 \/ Reference!ShipTransfer(k, r[1], r[2], q)
          PROVE  Reference!LedgerNext
      BY <3>1 DEF Reference!LedgerNext
    <3>2. ASSUME NEW i \in Key, NEW got \in Quantity \cup {0}, Reference!ReceiveTransfer(k, i, got)
          PROVE  Reference!LedgerNext
      BY <3>2 DEF Reference!LedgerNext
    <3> QED
      BY <2>4, <3>1, <3>2, TransferStockRefines, ShipRefines, ReceiveRefines DEF TransferStep
  <2>5. CASE Retry(k)
    BY <2>5 DEF Retry
  <2> QED
    BY <2>1, <2>2, <2>3, <2>4, <2>5
<1> QED
  BY <1>1, <1>2, <1>3, TypeCorrect, PTL DEF Spec, ReferenceRules

=============================================================================
