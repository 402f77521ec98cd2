--------------------------- MODULE FulfilmentProofs ---------------------------
(***************************************************************************)
(* Machine-checked proofs about Fulfilment, for every set of orders,       *)
(* products, bins, returns and tasks, and for any quantities.              *)
(***************************************************************************)
EXTENDS Fulfilment, UnitTheorems

-----------------------------------------------------------------------------
(* Rows. *)

TaskStates == {"open", "assigned", "in_progress", "exception", "completed", "cancelled"}
Pinned == {"count", "transfer", "transfer_receipt"}

PlainRow == [type : {"receive", "putaway", "pick"}, state : TaskStates, ref : Order \cup Return]
PinnedRow == [type : Pinned, state : TaskStates, ref : ManualTask, position : Position,
              pin : Nat, seen : Int \X Int]

ReservationRow == [status : {"none", "active", "released", "consumed"}, quantity : Nat]

ReceiptRow == [number : Nat, accepted : [Product -> Nat], rejected : [Product -> Nat]]

Quantified == UNION {[S -> Nat \ {0}] : S \in SUBSET Product}
ReturnRow == [state : DOMAIN ReturnWorkflow, order : Sales, lines : Quantified, received : BOOLEAN]

TransferRow == [state : {"shipped", "received", "discrepancy_review"}, shipped : Nat, received : Nat]

StockTyped ==
    /\ onHand \in [Position -> Int]
    /\ reserved \in [Position -> Nat]
    /\ version \in [Position -> Nat]
    /\ corrected \in [Product \X Condition -> Int]

StateOf(o) == DOMAIN OrderWorkflow(o) \cup {"none"}

OrdersTyped ==
    /\ orderState = [o \in Order |-> orderState[o]]
    /\ \A o \in Order : orderState[o] \in StateOf(o)
    /\ processed \in [Order -> [Product -> Nat]]
    /\ receipts \in [Purchase -> ReceiptRow]

ReservationsTyped == reservation \in [ReservationId -> ReservationRow]

ReturnsTyped == rma \in [Return -> ReturnRow \cup {NoReturn}]

TransfersTyped == transfer \in [Transfer -> TransferRow \cup {NoTransfer}]

\* A task that moves stock names the transfer it is for.
TasksTyped ==
    /\ task \in [TaskId -> PlainRow \cup PinnedRow \cup {NoTask}]
    /\ \A t \in TaskId : task[t].type \in {"transfer", "transfer_receipt"} => task[t].ref \in Transfer

RowsTyped ==
    StockTyped /\ OrdersTyped /\ ReservationsTyped /\ ReturnsTyped /\ TransfersTyped /\ TasksTyped

LEMMA TypesOfRows == RowsTyped => TypeOK
<1> SUFFICES ASSUME RowsTyped PROVE TypeOK
  OBVIOUS
<1>1. DOMAIN TaskTransitions = TaskStates
  BY DEF TaskTransitions, TaskStates
<1>2. \A t \in TaskId : task[t] = NoTask \/ PlainTaskOK(task[t]) \/ PinnedTaskOK(task[t])
  <2> SUFFICES ASSUME NEW t \in TaskId, task[t] # NoTask
               PROVE  PlainTaskOK(task[t]) \/ PinnedTaskOK(task[t])
    OBVIOUS
  <2>1. task[t] \in PlainRow \cup PinnedRow
    BY DEF RowsTyped, TasksTyped
  <2>2. CASE task[t] \in PlainRow
    BY <1>1, <2>2 DEF PlainRow, PlainTaskOK
  <2>3. CASE task[t] \in PinnedRow
    BY <1>1, <2>3 DEF PinnedRow, PinnedTaskOK, Pinned
  <2> QED
    BY <2>1, <2>2, <2>3
<1>3. \A r \in ReservationId :
        /\ reservation[r].status \in {"none", "active", "released", "consumed"}
        /\ reservation[r].quantity \in Nat
  BY DEF RowsTyped, ReservationsTyped, ReservationRow
<1>4. \A r \in Return : rma[r] = NoReturn \/ rma[r].state \in DOMAIN ReturnWorkflow
  BY DEF RowsTyped, ReturnsTyped, ReturnRow
<1>5. \A m \in Transfer :
        transfer[m] = NoTransfer \/ transfer[m].state \in {"shipped", "received", "discrepancy_review"}
  BY DEF RowsTyped, TransfersTyped, TransferRow
<1>6. \A o \in Order : orderState[o] \in DOMAIN OrderWorkflow(o) \cup {"none"}
  BY DEF RowsTyped, OrdersTyped, StateOf
<1> QED
  BY <1>2, <1>3, <1>4, <1>5, <1>6 DEF TypeOK, RowsTyped, StockTyped, OrdersTyped, ReceiptRow

LEMMA InitRows == Init => RowsTyped
<1> SUFFICES ASSUME OrderInit PROVE RowsTyped
  BY DEF Init
<1>1. StockTyped
  BY DEF OrderInit, StockTyped, Nothing
<1>2. OrdersTyped
  BY DEF OrderInit, OrdersTyped, StateOf, NoReceipts, ReceiptRow
<1>3. ReservationsTyped
  BY DEF OrderInit, ReservationsTyped, NoReservation, ReservationRow
<1>4. ReturnsTyped /\ TransfersTyped
  BY DEF OrderInit, ReturnsTyped, TransfersTyped
<1>5. TasksTyped
  BY DEF OrderInit, TasksTyped, NoTask
<1> QED
  BY <1>1, <1>2, <1>3, <1>4, <1>5 DEF RowsTyped

-----------------------------------------------------------------------------
(* Sets of rows. *)

LEMMA Elements ==
    /\ \A x \in Position : x[1] \in Product /\ x[2] \in Bin /\ x[3] \in Condition
                           /\ x = <<x[1], x[2], x[3]>>
    /\ \A r \in ReservationId : /\ r[1] \in Sales /\ r[2] \in 1..MaxAllocations
                                /\ r[3] \in Product /\ r[4] \in Bin
                                /\ r = <<r[1], r[2], r[3], r[4]>>
                                /\ PositionOf(r) \in Position
    /\ \A o : BinsOf(o) \subseteq Bin /\ Lines(o) \subseteq Product
BY DEF Position, ReservationId, PositionOf, Condition, BinsOf, Lines

LEMMA ReservationIdFinite == IsFiniteSet(ReservationId)
<1> DEFINE T == (Sales \X (1..MaxAllocations)) \X (Product \X Bin)
           f == [r \in ReservationId |-> <<<<r[1], r[2]>>, <<r[3], r[4]>>>>]
<1>1. f \in Injection(ReservationId, T)
  <2>1. f \in [ReservationId -> T]
    BY Elements
  <2>2. \A a, b \in ReservationId : f[a] = f[b] => a = b
    BY Elements
  <2> HIDE DEF T, f
  <2> QED
    BY <2>1, <2>2 DEF Injection, IsInjective
<1>2. IsFiniteSet(T)
  <2>1. IsFiniteSet(1..MaxAllocations) /\ IsFiniteSet(Sales) /\ IsFiniteSet(Product) /\ IsFiniteSet(Bin)
    BY OrderAssumption, FS_Interval
  <2>2. IsFiniteSet(Sales \X (1..MaxAllocations)) /\ IsFiniteSet(Product \X Bin)
    BY <2>1, FS_Product
  <2> QED
    BY <2>2, FS_Product
<1> HIDE DEF T, f
<1> QED
  BY <1>1, <1>2, FS_Injection

\* The lines that requests carry.
LEMMA ReceiptLineTyped ==
    ASSUME NEW o \in Purchase, NEW lines \in ReceiptLines(o, Quantities)
    PROVE  /\ DOMAIN lines \subseteq Lines(o) /\ DOMAIN lines \subseteq Product
           /\ \A p \in DOMAIN lines : /\ lines[p].bin \in Bin
                                      /\ lines[p].accepted \in Nat
                                      /\ lines[p].rejected \in Nat
                                      /\ Delivered(lines[p]) \in Nat
<1>1. PICK S \in SUBSET Lines(o) :
        lines \in [S -> {[bin |-> b, accepted |-> a, rejected |-> r] :
                           b \in BinsOf(o), a \in Quantities, r \in Quantities}]
  BY DEF ReceiptLines
<1>2. DOMAIN lines = S /\ S \subseteq Product
  BY <1>1, Elements
<1>3. ASSUME NEW p \in DOMAIN lines
      PROVE  lines[p].bin \in Bin /\ lines[p].accepted \in Nat /\ lines[p].rejected \in Nat
  BY <1>1, <1>2, FulfilmentAssumption, Elements
<1> QED
  BY <1>1, <1>2, <1>3 DEF Delivered

LEMMA AllocationLineTyped ==
    ASSUME NEW o \in Sales, NEW lines \in AllocationLines(o, Quantities)
    PROVE  /\ DOMAIN lines \subseteq Lines(o) \X Bin /\ DOMAIN lines # {}
           /\ Lines(o) \subseteq Product
           /\ \A l \in DOMAIN lines : lines[l] \in Nat \ {0}
<1>1. PICK S \in (SUBSET (Lines(o) \X BinsOf(o))) \ {{}} : lines \in [S -> Quantities \ {0}]
  BY DEF AllocationLines
<1> QED
  BY <1>1, FulfilmentAssumption, Elements

LEMMA ReturnLineTyped ==
    ASSUME NEW o \in Sales, NEW lines \in ReturnLines(o, Quantities)
    PROVE  lines \in Quantified
<1>1. PICK S \in SUBSET Lines(o) : lines \in [S -> Quantities \ {0}]
  BY DEF ReturnLines
<1>2. S \in SUBSET Product /\ lines \in [S -> Nat \ {0}]
  BY <1>1, FulfilmentAssumption, Elements
<1> QED
  BY <1>2 DEF Quantified

LEMMA QuantifiedTyped ==
    ASSUME NEW lines \in Quantified
    PROVE  DOMAIN lines \subseteq Product /\ \A p \in DOMAIN lines : lines[p] \in Nat \ {0}
BY DEF Quantified

-----------------------------------------------------------------------------
(* Positions. *)

PositionsTyped ==
    /\ onHand \in [Position -> Int]
    /\ reserved \in [Position -> Nat]
    /\ version \in [Position -> Nat]

\* A position that has changed has a new version.
Moves ==
    \A x \in Position :
        /\ version'[x] >= version[x]
        /\ version'[x] = version[x] => onHand'[x] = onHand[x] /\ reserved'[x] = reserved[x]

LEMMA WriteMoves ==
    ASSUME PositionsTyped, NEW change \in [Position -> Int], NEW claim \in [Position -> Int],
           NEW writes \in [Position -> Nat], WritePositions(change, claim, writes),
           \A x \in Position : change[x] # 0 \/ claim[x] # 0 => writes[x] # 0
    PROVE  PositionsTyped' /\ Moves
<1>1. /\ onHand' = [x \in Position |-> onHand[x] + change[x]]
      /\ reserved' = [x \in Position |-> reserved[x] + claim[x]]
      /\ version' = [x \in Position |-> version[x] + writes[x]]
      /\ \A x \in Position : reserved[x] + claim[x] >= 0
  BY DEF WritePositions
<1>2. PositionsTyped'
  BY <1>1 DEF PositionsTyped
<1>3. ASSUME NEW x \in Position
      PROVE  /\ version'[x] >= version[x]
             /\ version'[x] = version[x] => onHand'[x] = onHand[x] /\ reserved'[x] = reserved[x]
  <2>1. /\ onHand[x] \in Int /\ reserved[x] \in Int /\ version[x] \in Int
        /\ change[x] \in Int /\ claim[x] \in Int /\ writes[x] \in Nat
    BY DEF PositionsTyped
  <2> QED
    BY <1>1, <2>1
<1> QED
  BY <1>2, <1>3 DEF Moves

LEMMA WriteOneMoves ==
    ASSUME PositionsTyped, NEW x \in Position, NEW change \in Int, NEW claim \in Int,
           WritePosition(x, change, claim)
    PROVE  PositionsTyped' /\ Moves
<1> DEFINE C == [Nothing EXCEPT ![x] = change]
           L == [Nothing EXCEPT ![x] = claim]
           W == [Nothing EXCEPT ![x] = 1]
<1>1. /\ C \in [Position -> Int] /\ L \in [Position -> Int] /\ W \in [Position -> Nat]
      /\ \A y \in Position : C[y] # 0 \/ L[y] # 0 => W[y] # 0
  BY DEF Nothing
<1>2. WritePositions(C, L, W)
  BY DEF WritePosition
<1> HIDE DEF C, L, W
<1> QED
  BY <1>1, <1>2, WriteMoves

LEMMA ReceiptMoves ==
    ASSUME PositionsTyped, NEW o \in Purchase, NEW lines \in ReceiptLines(o, Quantities),
           BookArrivals(Arrivals(lines))
    PROVE  PositionsTyped' /\ Moves
<1> DEFINE A == Arrivals(lines)
           W == [x \in Position |-> IF A[x] > 0 THEN 1 ELSE 0]
<1>1. A \in [Position -> Nat]
  BY ReceiptLineTyped DEF Arrivals
<1>2. WritePositions(A, Nothing, W)
  BY DEF BookArrivals
<1> HIDE DEF A
<1>3. /\ A \in [Position -> Int] /\ Nothing \in [Position -> Int] /\ W \in [Position -> Nat]
      /\ \A x \in Position : A[x] # 0 \/ Nothing[x] # 0 => W[x] # 0
  BY <1>1 DEF Nothing
<1> HIDE DEF W
<1> QED
  BY <1>2, <1>3, WriteMoves

LEMMA ClaimTyped ==
    ASSUME NEW o \in Sales, NEW lines \in AllocationLines(o, Quantities)
    PROVE  Claims(lines) \in [Position -> Nat]
BY AllocationLineTyped DEF Claims

LEMMA AllocateMoves ==
    ASSUME PositionsTyped, NEW o \in Sales, NEW lines \in AllocationLines(o, Quantities),
           Allocate(o, lines)
    PROVE  PositionsTyped' /\ Moves
<1> DEFINE A == Claims(lines)
           W == [x \in Position |-> IF A[x] > 0 THEN 1 ELSE 0]
<1>1. A \in [Position -> Nat]
  BY ClaimTyped
<1>2. WritePositions(Nothing, A, W)
  BY DEF Allocate
<1> HIDE DEF A
<1>3. /\ A \in [Position -> Int] /\ Nothing \in [Position -> Int] /\ W \in [Position -> Nat]
      /\ \A x \in Position : Nothing[x] # 0 \/ A[x] # 0 => W[x] # 0
  BY <1>1 DEF Nothing
<1> HIDE DEF W
<1> QED
  BY <1>2, <1>3, WriteMoves

\* A subset of the reservations and the sums over it.
LEMMA ReservationsCounted ==
    ASSUME ReservationsTyped, NEW S \in SUBSET ReservationId
    PROVE  /\ IsFiniteSet(UNION {{r} \X (1..reservation[r].quantity) : r \in S})
           /\ Cardinality(UNION {{r} \X (1..reservation[r].quantity) : r \in S}) \in Nat
           /\ Total([r \in S |-> reservation[r].quantity])
                = Cardinality(UNION {{r} \X (1..reservation[r].quantity) : r \in S})
<1> DEFINE f == [r \in S |-> reservation[r].quantity]
<1>1. IsFiniteSet(S)
  BY ReservationIdFinite, FS_Subset
<1>2. DOMAIN f = S /\ \A r \in S : f[r] \in Nat /\ f[r] = reservation[r].quantity
  BY DEF ReservationsTyped, ReservationRow
<1>3. UNION {{r} \X (1..f[r]) : r \in S} = UNION {{r} \X (1..reservation[r].quantity) : r \in S}
  BY <1>2
<1>4. Total(f) = Cardinality(UNION {{r} \X (1..f[r]) : r \in S})
  BY <1>2 DEF Total
<1> HIDE DEF f
<1>5. /\ IsFiniteSet(UNION {{r} \X (1..f[r]) : r \in S})
      /\ Cardinality(UNION {{r} \X (1..f[r]) : r \in S}) \in Nat
  BY <1>1, <1>2, TermsFinite
<1> QED
  BY <1>3, <1>4, <1>5 DEF f

LEMMA ShipmentMoves ==
    ASSUME PositionsTyped, ReservationsTyped, NEW S \in SUBSET ReservationId, TakeFromPositions(S)
    PROVE  PositionsTyped' /\ Moves
<1> DEFINE A == [x \in Position |-> -TakenFrom(S, x)]
           W == [x \in Position |-> Cardinality({r \in S : PositionOf(r) = x})]
<1>1. ASSUME NEW x \in Position
      PROVE  /\ TakenFrom(S, x) \in Nat
             /\ Cardinality({r \in S : PositionOf(r) = x}) \in Nat
             /\ TakenFrom(S, x) # 0 => Cardinality({r \in S : PositionOf(r) = x}) # 0
  <2> DEFINE D == {r \in S : PositionOf(r) = x}
  <2>1. D \in SUBSET ReservationId
    OBVIOUS
  <2>2. IsFiniteSet(D)
    BY <2>1, ReservationIdFinite, FS_Subset
  <2>3. Cardinality(D) \in Nat /\ (Cardinality(D) = 0 <=> D = {})
    BY <2>2, FS_EmptySet, FS_CardinalityType
  <2>4. TakenFrom(S, x) = Total([r \in D |-> reservation[r].quantity])
    BY DEF TakenFrom
  <2> HIDE DEF D
  <2>5. TakenFrom(S, x) = Cardinality(UNION {{r} \X (1..reservation[r].quantity) : r \in D})
    BY <2>1, <2>4, ReservationsCounted
  <2>6. TakenFrom(S, x) \in Nat
    BY <2>1, <2>5, ReservationsCounted
  <2>7. D = {} => TakenFrom(S, x) = 0
    <3>1. D = {} => UNION {{r} \X (1..reservation[r].quantity) : r \in D} = {}
      OBVIOUS
    <3> QED
      BY <2>5, <3>1, FS_EmptySet
  <2> QED
    BY <2>3, <2>6, <2>7 DEF D
<1>2. WritePositions(A, A, W)
  BY DEF TakeFromPositions
<1>3. /\ A \in [Position -> Int] /\ W \in [Position -> Nat]
      /\ \A x \in Position : A[x] # 0 \/ A[x] # 0 => W[x] # 0
  <2>1. ASSUME NEW x \in Position
        PROVE  -TakenFrom(S, x) \in Int /\ (-TakenFrom(S, x) # 0 => TakenFrom(S, x) # 0)
    <3> DEFINE n == TakenFrom(S, x)
    <3>1. n \in Nat
      BY <1>1
    <3> HIDE DEF n
    <3>2. -n \in Int /\ (-n # 0 => n # 0)
      BY <3>1
    <3> QED
      BY <3>2 DEF n
  <2> QED
    BY <1>1, <2>1
<1> HIDE DEF A, W
<1> QED
  BY <1>2, <1>3, WriteMoves

LEMMA ReturnMoves ==
    ASSUME PositionsTyped, ReturnsTyped, NEW r \in Return, rma[r] # NoReturn,
           NEW bins \in [DOMAIN rma[r].lines -> BinsOf(rma[r].order)], ReceiveReturn(r, bins)
    PROVE  PositionsTyped' /\ Moves
<1> DEFINE A == ReturnArrivals(r, bins)
           W == [x \in Position |-> IF A[x] > 0 THEN 1 ELSE 0]
<1>1. A \in [Position -> Nat]
  <2>1. rma[r].lines \in Quantified
    BY DEF ReturnsTyped, ReturnRow
  <2>2. \A p \in DOMAIN rma[r].lines : rma[r].lines[p] \in Nat
    BY <2>1, QuantifiedTyped
  <2> QED
    BY <2>2 DEF ReturnArrivals
<1>2. WritePositions(A, Nothing, W)
  BY DEF ReceiveReturn
<1> HIDE DEF A
<1>3. /\ A \in [Position -> Int] /\ Nothing \in [Position -> Int] /\ W \in [Position -> Nat]
      /\ \A x \in Position : A[x] # 0 \/ Nothing[x] # 0 => W[x] # 0
  BY <1>1 DEF Nothing
<1> HIDE DEF W
<1> QED
  BY <1>2, <1>3, WriteMoves

\* What a task that moves stock names.
LEMMA TaskTyped ==
    ASSUME TasksTyped, NEW t \in TaskId
    PROVE  /\ task[t].type \in Pinned =>
                /\ task[t] \in PinnedRow /\ task[t].position \in Position
                /\ task[t].ref \in ManualTask /\ Manual[task[t].ref].source \in Position
           /\ task[t].type \in {"transfer", "transfer_receipt"} =>
                /\ task[t].ref \in Transfer
                /\ Manual[task[t].ref].destination \in Position
                /\ Manual[task[t].ref].quantity \in Nat \ {0}
<1>1. task[t] \in PlainRow \cup PinnedRow \cup {NoTask}
  BY DEF TasksTyped
<1>2. task[t].type \in Pinned => task[t] \in PinnedRow
  BY <1>1 DEF PlainRow, NoTask, Pinned
<1>3. \A m \in ManualTask : Manual[m].source \in Position
  BY ManualAssumption
<1>4. \A m \in Transfer : Manual[m].destination \in Position /\ Manual[m].quantity \in Nat \ {0}
  BY ManualAssumption
<1> QED
  BY <1>2, <1>3, <1>4 DEF TasksTyped, PinnedRow

LEMMA TaskStockMoves ==
    ASSUME PositionsTyped, TasksTyped, TransfersTyped, NEW t \in TaskId
    PROVE  /\ \A counted \in Counts : CompleteCount(t, counted) => PositionsTyped' /\ Moves
           /\ ShipTransferTask(t) => PositionsTyped' /\ Moves
           /\ \A got \in Quantities : ReceiveTransferTask(t, got) => PositionsTyped' /\ Moves
<1>1. ASSUME NEW counted \in Counts, CompleteCount(t, counted) PROVE PositionsTyped' /\ Moves
  <2> DEFINE x == task[t].position
             n == counted - onHand[x]
  <2>1. x \in Position
    BY <1>1, TaskTyped DEF CompleteCount, Pinned
  <2>2. n \in Int
    BY <2>1, FulfilmentAssumption DEF PositionsTyped
  <2>3. WritePosition(x, n, 0)
    BY <1>1 DEF CompleteCount
  <2> HIDE DEF x, n
  <2> QED
    BY <2>1, <2>2, <2>3, WriteOneMoves
<1>2. ASSUME ShipTransferTask(t) PROVE PositionsTyped' /\ Moves
  <2> DEFINE m == task[t].ref
             x == Manual[m].source
             n == -Manual[m].quantity
  <2>1. x \in Position /\ n \in Int
    <3>1. task[t].type = "transfer"
      BY <1>2 DEF ShipTransferTask
    <3>2. task[t].type \in Pinned /\ task[t].type \in {"transfer", "transfer_receipt"}
      BY <3>1 DEF Pinned
    <3>3. x \in Position /\ Manual[m].quantity \in Nat \ {0}
      BY <3>2, TaskTyped, Zenon
    <3> QED
      BY <3>3
  <2>2. WritePosition(x, n, 0)
    BY <1>2 DEF ShipTransferTask
  <2> HIDE DEF x, n
  <2> QED
    BY <2>1, <2>2, WriteOneMoves
<1>3. ASSUME NEW got \in Quantities, ReceiveTransferTask(t, got) PROVE PositionsTyped' /\ Moves
  <2> DEFINE x == Manual[task[t].ref].destination
  <2>1. x \in Position /\ got \in Int
    BY <1>3, TaskTyped, FulfilmentAssumption DEF ReceiveTransferTask
  <2>2. WritePosition(x, got, 0) \/ UNCHANGED positionVars
    BY <1>3 DEF ReceiveTransferTask, BookTransferReceipt
  <2> HIDE DEF x
  <2>3. CASE WritePosition(x, got, 0)
    BY <2>1, <2>3, WriteOneMoves
  <2>4. CASE UNCHANGED positionVars
    BY <2>4 DEF positionVars, PositionsTyped, Moves
  <2> QED
    BY <2>2, <2>3, <2>4
<1> QED
  BY <1>1, <1>2, <1>3

\* The commands that write positions, and all the others.
LEMMA StockFrame ==
    ASSUME Next
    PROVE  \/ UNCHANGED positionVars
           \/ Receive \/ ReceiveForTask \/ Reserve \/ ReleaseAny \/ Ship \/ TakeBack
           \/ Count \/ ShipFromTask \/ ReceiveFromTask \/ AdjustStock
BY DEF Next, PlaceOrder, CreateOrder, CommandOrder, TransitionOrder, OpenReturn, CreateReturn,
       CommandReturn, TransitionReturn, AddTask, CreateTask, CommandTask, TransitionTask

LEMMA StockMoves ==
    ASSUME RowsTyped, [Next]_vars
    PROVE  PositionsTyped' /\ Moves
<1>1. PositionsTyped
  BY DEF RowsTyped, StockTyped, PositionsTyped
<1>2. CASE UNCHANGED positionVars
  BY <1>1, <1>2 DEF positionVars, PositionsTyped, Moves
<1>3. CASE Receive \/ ReceiveForTask
  BY <1>1, <1>3, ReceiptMoves DEF Receive, ReceiveForTask, PostReceipt
<1>4. CASE Reserve
  BY <1>1, <1>4, AllocateMoves DEF Reserve
<1>5. CASE ReleaseAny
  <2> PICK r \in ReservationId : WritePosition(PositionOf(r), 0, -reservation[r].quantity)
    BY <1>5 DEF ReleaseAny, Release
  <2>1. PositionOf(r) \in Position /\ -reservation[r].quantity \in Int
    BY Elements DEF RowsTyped, ReservationsTyped, ReservationRow
  <2> QED
    BY <1>1, <2>1, WriteOneMoves
<1>6. CASE Ship
  BY <1>1, <1>6, ShipmentMoves DEF Ship, PostShipment, RowsTyped
<1>7. CASE TakeBack
  BY <1>1, <1>7, ReturnMoves DEF TakeBack, RowsTyped
<1>8. CASE Count \/ ShipFromTask \/ ReceiveFromTask
  BY <1>1, <1>8, TaskStockMoves DEF Count, ShipFromTask, ReceiveFromTask, RowsTyped
<1>9. CASE AdjustStock
  <2> PICK x \in Adjusted, delta \in Deltas : WritePosition(x, delta, 0)
    BY <1>9 DEF AdjustStock, Adjust
  <2>1. x \in Position /\ delta \in Int
    BY FulfilmentAssumption
  <2> QED
    BY <1>1, <2>1, WriteOneMoves
<1>10. CASE UNCHANGED vars
  BY <1>2, <1>10 DEF vars
<1> QED
  BY <1>2, <1>3, <1>4, <1>5, <1>6, <1>7, <1>8, <1>9, <1>10, StockFrame

LEMMA CorrectedTyped ==
    ASSUME RowsTyped, [Next]_vars
    PROVE  corrected' \in [Product \X Condition -> Int]
<1>1. corrected \in [Product \X Condition -> Int]
  BY DEF RowsTyped, StockTyped
<1>2. CASE UNCHANGED corrected
  BY <1>1, <1>2
<1>3. ASSUME NEW x \in Position, NEW n \in Int, Correct(x, n)
      PROVE  corrected' \in [Product \X Condition -> Int]
  <2>1. <<x[1], x[3]>> \in Product \X Condition
    BY Elements
  <2> QED
    BY <1>1, <1>3, <2>1 DEF Correct
<1>4. CASE Count
  <2> PICK t \in TaskId, counted \in Counts : CompleteCount(t, counted)
    BY <1>4 DEF Count
  <2> DEFINE x == task[t].position
             n == counted - onHand[x]
  <2>1. x \in Position
    BY TaskTyped DEF CompleteCount, Pinned, RowsTyped
  <2>2. n \in Int
    BY <2>1, FulfilmentAssumption DEF RowsTyped, StockTyped
  <2>3. Correct(x, n)
    BY DEF CompleteCount
  <2> HIDE DEF x, n
  <2> QED
    BY <1>3, <2>1, <2>2, <2>3
<1>5. CASE ReceiveFromTask
  <2> PICK t \in TaskId, got \in Quantities : ReceiveTransferTask(t, got)
    BY <1>5 DEF ReceiveFromTask
  <2> DEFINE m == task[t].ref
             x == Manual[m].destination
             n == got - transfer[m].shipped
  <2>1. m \in Transfer /\ x \in Position
    BY TaskTyped DEF ReceiveTransferTask, RowsTyped
  <2>2. transfer[m].state = "shipped" /\ Correct(x, n)
    BY DEF ReceiveTransferTask, BookTransferReceipt, AwaitsReceipt
  <2>3. transfer[m] \in TransferRow
    BY <2>1, <2>2 DEF RowsTyped, TransfersTyped, NoTransfer
  <2>4. n \in Int
    BY <2>3, FulfilmentAssumption DEF TransferRow
  <2> HIDE DEF x, n
  <2> QED
    BY <1>3, <2>1, <2>2, <2>4
<1>6. CASE AdjustStock
  <2> PICK x \in Adjusted, delta \in Deltas : Correct(x, delta)
    BY <1>6 DEF AdjustStock, Adjust
  <2>1. x \in Position /\ delta \in Int
    BY FulfilmentAssumption
  <2> QED
    BY <1>3, <2>1
<1>7. Next => UNCHANGED corrected \/ Count \/ ReceiveFromTask \/ AdjustStock
  <2>1. PlaceOrder \/ CommandOrder \/ Receive \/ ReceiveForTask => UNCHANGED corrected
    BY Zenon DEF PlaceOrder, CreateOrder, CommandOrder, TransitionOrder, Receive, ReceiveForTask,
                 PostReceipt
  <2>2. Reserve \/ ReleaseAny \/ Ship => UNCHANGED corrected
    BY Zenon DEF Reserve, Allocate, ReleaseAny, Release, Ship, PostShipment
  <2>3. OpenReturn \/ CommandReturn \/ TakeBack => UNCHANGED corrected
    BY Zenon DEF OpenReturn, CreateReturn, CommandReturn, TransitionReturn, TakeBack, ReceiveReturn
  <2>4. AddTask \/ CommandTask \/ ShipFromTask => UNCHANGED corrected
    BY Zenon DEF AddTask, CreateTask, CommandTask, TransitionTask, ShipFromTask, ShipTransferTask
  <2> QED
    BY <2>1, <2>2, <2>3, <2>4 DEF Next
<1>8. UNCHANGED vars => UNCHANGED corrected
  BY DEF vars
<1> QED
  BY <1>2, <1>4, <1>5, <1>6, <1>7, <1>8

-----------------------------------------------------------------------------
(* Orders. *)

\* The commands that write orders, order lines or receipts, and all the others.
LEMMA OrderFrame ==
    ASSUME Next
    PROVE  \/ UNCHANGED orderVars
           \/ PlaceOrder \/ CommandOrder \/ Receive \/ ReceiveForTask \/ Reserve \/ Ship
BY Zenon DEF Next, ReleaseAny, Release, OpenReturn, CreateReturn, CommandReturn, TransitionReturn,
       TakeBack, ReceiveReturn, AddTask, CreateTask, CommandTask, TransitionTask, Count,
       CompleteCount, ShipFromTask, ShipTransferTask, ReceiveFromTask, ReceiveTransferTask,
       AdjustStock, Adjust

LEMMA Workflows ==
    /\ \A s \in DOMAIN PurchaseWorkflow : PurchaseWorkflow[s] \subseteq DOMAIN PurchaseWorkflow
    /\ \A s \in DOMAIN SalesWorkflow : SalesWorkflow[s] \subseteq DOMAIN SalesWorkflow
    /\ \A s \in DOMAIN ReturnWorkflow : ReturnWorkflow[s] \subseteq DOMAIN ReturnWorkflow \ {"none"}
    /\ \A s \in TaskStates : TaskTransitions[s] \subseteq TaskStates
    /\ \A o : OrderWorkflow(o) = IF o \in Purchase THEN PurchaseWorkflow ELSE SalesWorkflow
BY DEF PurchaseWorkflow, SalesWorkflow, SalesTransitions, ReturnWorkflow, TaskTransitions, TaskStates,
       OrderWorkflow

LEMMA TargetTyped ==
    ASSUME OrdersTyped, NEW o \in Order, NEW target, OrderMayBecome(o, target)
    PROVE  target \in StateOf(o)
BY Workflows DEF OrdersTyped, StateOf, OrderMayBecome

LEMMA OrderMoved ==
    ASSUME OrdersTyped, NEW o \in Order, NEW target \in StateOf(o),
           orderState' = [orderState EXCEPT ![o] = target]
    PROVE  /\ orderState' = [x \in Order |-> orderState'[x]]
           /\ \A x \in Order : orderState'[x] \in StateOf(x)
           /\ orderState'[o] = target
           /\ \A x \in Order : x # o => orderState'[x] = orderState[x]
BY DEF OrdersTyped

LEMMA ReceiptOrder ==
    ASSUME RowsTyped, NEW o \in Purchase, NEW lines \in ReceiptLines(o, Quantities),
           NEW tolerance, NEW t, PostReceipt(o, lines, tolerance, t)
    PROVE  OrdersTyped'
<1> DEFINE target == ReceivedTarget(o, lines)
<1>1. o \in Order /\ OrderMayBecome(o, target) /\ orderState' = [orderState EXCEPT ![o] = target]
  BY DEF PostReceipt, FinishReceipt, Order
<1>2. OrdersTyped
  BY DEF RowsTyped
<1> HIDE DEF target
<1>3. target \in StateOf(o)
  BY <1>1, <1>2, TargetTyped
<1>4. processed' \in [Order -> [Product -> Nat]]
  <2> DEFINE row == [p \in Product |-> IF p \in DOMAIN lines THEN processed[o][p] + Delivered(lines[p])
                                       ELSE processed[o][p]]
  <2>1. processed' = [processed EXCEPT ![o] = row]
    BY DEF PostReceipt, BookReceiptLines
  <2>2. row \in [Product -> Nat]
    BY <1>1, <1>2, ReceiptLineTyped DEF OrdersTyped
  <2> HIDE DEF row
  <2> QED
    BY <1>2, <2>1, <2>2 DEF OrdersTyped
<1>5. receipts' \in [Purchase -> ReceiptRow]
  <2>1. receipts[o] \in ReceiptRow
    BY <1>2 DEF OrdersTyped
  <2>2. WithReceipt(o, lines) \in ReceiptRow
    BY <2>1, ReceiptLineTyped DEF WithReceipt, ReceiptRow
  <2>3. receipts' = [receipts EXCEPT ![o] = WithReceipt(o, lines)]
    BY DEF PostReceipt, FinishReceipt
  <2> QED
    BY <1>2, <2>2, <2>3 DEF OrdersTyped
<1> QED
  BY <1>1, <1>2, <1>3, <1>4, <1>5, OrderMoved DEF OrdersTyped

LEMMA ShipmentOrder ==
    ASSUME RowsTyped, NEW o \in Sales, NEW S \in SUBSET ReservationId, PostShipment(o, S)
    PROVE  OrdersTyped'
<1> DEFINE target == ShippedTarget(o, S)
<1>1. o \in Order /\ OrderMayBecome(o, target) /\ orderState' = [orderState EXCEPT ![o] = target]
  BY DEF PostShipment, Order
<1>2. OrdersTyped
  BY DEF RowsTyped
<1> HIDE DEF target
<1>3. target \in StateOf(o)
  BY <1>1, <1>2, TargetTyped
<1>4. processed' \in [Order -> [Product -> Nat]]
  <2> DEFINE row == [p \in Product |-> processed[o][p] + ShippedOf(S, p)]
  <2>1. processed' = [processed EXCEPT ![o] = row]
    BY DEF PostShipment
  <2>2. ASSUME NEW p \in Product PROVE processed[o][p] + ShippedOf(S, p) \in Nat
    <3>1. {s \in S : s[3] = p} \in SUBSET ReservationId
      OBVIOUS
    <3>2. ShippedOf(S, p) \in Nat
      BY <3>1, ReservationsCounted DEF ShippedOf, RowsTyped
    <3> QED
      BY <1>1, <1>2, <3>2 DEF OrdersTyped
  <2>3. row \in [Product -> Nat]
    BY <2>2
  <2> HIDE DEF row
  <2> QED
    BY <1>2, <2>1, <2>3 DEF OrdersTyped
<1>5. receipts' = receipts
  BY DEF PostShipment
<1> QED
  BY <1>1, <1>2, <1>3, <1>4, <1>5, OrderMoved DEF OrdersTyped

LEMMA OrdersStep ==
    ASSUME RowsTyped, [Next]_vars
    PROVE  OrdersTyped'
<1>1. OrdersTyped
  BY DEF RowsTyped
<1>2. CASE UNCHANGED orderVars
  BY <1>1, <1>2 DEF orderVars, OrdersTyped
<1>3. ASSUME NEW o \in Order, NEW target \in StateOf(o),
             orderState' = [orderState EXCEPT ![o] = target],
             processed' = processed, receipts' = receipts
      PROVE  OrdersTyped'
  BY <1>1, <1>3, OrderMoved DEF OrdersTyped
<1>4. CASE PlaceOrder
  <2> PICK o \in Order : CreateOrder(o)
    BY <1>4 DEF PlaceOrder
  <2>1. (IF o \in Purchase THEN "draft" ELSE "quote") \in StateOf(o)
    BY DEF StateOf, OrderWorkflow, PurchaseWorkflow, SalesWorkflow, SalesTransitions
  <2> QED
    BY <1>3, <2>1 DEF CreateOrder
<1>5. CASE CommandOrder
  <2> PICK o \in Order : \E target : TransitionOrder(o, target)
    BY <1>5 DEF CommandOrder
  <2> QED
    BY <1>1, <1>3, TargetTyped DEF TransitionOrder
<1>6. CASE Receive \/ ReceiveForTask
  BY <1>6, ReceiptOrder DEF Receive, ReceiveForTask
<1>7. CASE Reserve
  <2> PICK o \in Sales : \E lines : Allocate(o, lines)
    BY <1>7 DEF Reserve
  <2>1. o \in Order
    BY DEF Order
  <2> QED
    BY <1>1, <1>3, <2>1, TargetTyped, Zenon DEF Allocate
<1>8. CASE Ship
  BY <1>8, ShipmentOrder DEF Ship
<1>9. CASE UNCHANGED vars
  BY <1>2, <1>9 DEF vars
<1> QED
  BY <1>2, <1>4, <1>5, <1>6, <1>7, <1>8, <1>9, OrderFrame

-----------------------------------------------------------------------------
(* Reservations. *)

\* The commands that write reservations, and all the others.
LEMMA ReservationFrame ==
    ASSUME Next
    PROVE  UNCHANGED reservation \/ Reserve \/ ReleaseAny \/ Ship
BY Zenon DEF Next, PlaceOrder, CreateOrder, CommandOrder, TransitionOrder, Receive, ReceiveForTask,
       PostReceipt, OpenReturn, CreateReturn, CommandReturn, TransitionReturn, TakeBack,
       ReceiveReturn, AddTask, CreateTask, CommandTask, TransitionTask, Count, CompleteCount,
       ShipFromTask, ShipTransferTask, ReceiveFromTask, ReceiveTransferTask, AdjustStock, Adjust

LEMMA EndedTyped ==
    ASSUME ReservationsTyped, NEW S, NEW status \in {"released", "consumed"}
    PROVE  Ended(S, status) \in [ReservationId -> ReservationRow]
BY DEF Ended, ReservationsTyped, ReservationRow

LEMMA AllocationsCounted ==
    ASSUME NEW o
    PROVE  IsFiniteSet(AllocationsOf(o)) /\ Cardinality(AllocationsOf(o)) \in Nat
<1>1. AllocationsOf(o) \subseteq 1..MaxAllocations
  BY Elements DEF AllocationsOf
<1>2. 1 \in Int /\ MaxAllocations \in Int
  BY OrderAssumption
<1>3. IsFiniteSet(1..MaxAllocations)
  BY <1>2, FS_Interval
<1> QED
  BY <1>1, <1>3, FS_Subset, FS_CardinalityType

LEMMA ReservationsStep ==
    ASSUME RowsTyped, [Next]_vars
    PROVE  ReservationsTyped'
<1>1. ReservationsTyped
  BY DEF RowsTyped
<1>2. CASE UNCHANGED reservation
  BY <1>1, <1>2 DEF ReservationsTyped
<1>3. CASE Reserve
  <2> PICK o \in Sales, n \in Int : \E lines \in AllocationLines(o, Quantities) :
                                      reservation' = WithReservations(o, n, lines)
    <3> PICK o \in Sales : \E lines \in AllocationLines(o, Quantities) : Allocate(o, lines)
      BY <1>3 DEF Reserve
    <3> DEFINE n == Cardinality(AllocationsOf(o)) + 1
    <3>1. n \in Int
      BY AllocationsCounted
    <3>2. \E lines \in AllocationLines(o, Quantities) : reservation' = WithReservations(o, n, lines)
      BY DEF Allocate
    <3> HIDE DEF n
    <3> QED
      BY <3>1, <3>2
  <2> PICK lines \in AllocationLines(o, Quantities) : reservation' = WithReservations(o, n, lines)
    OBVIOUS
  <2> QED
    BY <1>1, AllocationLineTyped DEF WithReservations, ReservationsTyped, ReservationRow
<1>4. CASE ReleaseAny
  BY <1>1, <1>4, EndedTyped DEF ReleaseAny, Release, ReservationsTyped
<1>5. CASE Ship
  BY <1>1, <1>5, EndedTyped DEF Ship, PostShipment, ReservationsTyped
<1>6. CASE UNCHANGED vars
  BY <1>2, <1>6 DEF vars
<1> QED
  BY <1>2, <1>3, <1>4, <1>5, <1>6, ReservationFrame

-----------------------------------------------------------------------------
(* Returns and transfers. *)

\* The commands that write returns, and all the others.
LEMMA ReturnFrame ==
    ASSUME Next
    PROVE  UNCHANGED rma \/ OpenReturn \/ CommandReturn \/ TakeBack
BY DEF Next, PlaceOrder, CreateOrder, CommandOrder, TransitionOrder, Receive, ReceiveForTask,
       PostReceipt, Reserve, Allocate, ReleaseAny, Release, Ship, PostShipment, AddTask, CreateTask,
       CommandTask, TransitionTask, Count, CompleteCount, ShipFromTask, ShipTransferTask,
       ReceiveFromTask, ReceiveTransferTask, AdjustStock, Adjust

LEMMA ReturnsStep ==
    ASSUME RowsTyped, [Next]_vars
    PROVE  ReturnsTyped'
<1>1. ReturnsTyped
  BY DEF RowsTyped
<1>2. CASE UNCHANGED rma
  BY <1>1, <1>2 DEF ReturnsTyped
<1>3. CASE OpenReturn
  <2> PICK r \in Return, o \in Sales : \E lines \in ReturnLines(o, Quantities) : CreateReturn(r, o, lines)
    BY <1>3 DEF OpenReturn
  <2> PICK lines \in ReturnLines(o, Quantities) : CreateReturn(r, o, lines)
    OBVIOUS
  <2> DEFINE row == [state |-> "requested", order |-> o, lines |-> lines, received |-> FALSE]
  <2>1. row \in ReturnRow
    BY ReturnLineTyped DEF ReturnRow, ReturnWorkflow
  <2>2. rma' = [rma EXCEPT ![r] = row]
    BY DEF CreateReturn
  <2> HIDE DEF row
  <2> QED
    BY <1>1, <2>1, <2>2 DEF ReturnsTyped
<1>4. ASSUME NEW r \in Return, rma[r] # NoReturn, NEW target \in DOMAIN ReturnWorkflow,
             NEW received \in BOOLEAN,
             rma' = [rma EXCEPT ![r] = [state |-> target, order |-> rma[r].order,
                                        lines |-> rma[r].lines, received |-> received]]
      PROVE  ReturnsTyped'
  <2> DEFINE row == [state |-> target, order |-> rma[r].order, lines |-> rma[r].lines,
                     received |-> received]
  <2>1. row \in ReturnRow
    BY <1>1, <1>4 DEF ReturnsTyped, ReturnRow
  <2>2. rma' = [rma EXCEPT ![r] = row]
    BY <1>4
  <2> HIDE DEF row
  <2> QED
    BY <1>1, <2>1, <2>2 DEF ReturnsTyped
<1>5. CASE CommandReturn
  <2> PICK r \in Return, target \in ReturnCommands : TransitionReturn(r, target)
    BY <1>5 DEF CommandReturn
  <2>1. rma[r] # NoReturn
    BY DEF TransitionReturn, NoReturn, ReturnWorkflow
  <2>2. rma[r] \in ReturnRow
    BY <1>1, <2>1 DEF ReturnsTyped
  <2>3. target \in DOMAIN ReturnWorkflow
    BY <2>2, Workflows DEF TransitionReturn, ReturnRow
  <2>4. /\ rma[r].received \in BOOLEAN
        /\ rma' = [rma EXCEPT ![r] = [state |-> target, order |-> rma[r].order,
                                      lines |-> rma[r].lines, received |-> rma[r].received]]
    <3>1. rma[r].received \in BOOLEAN
      BY <2>2 DEF ReturnRow
    <3>2. [rma[r] EXCEPT !.state = target] = [state |-> target, order |-> rma[r].order,
                                             lines |-> rma[r].lines, received |-> rma[r].received]
      BY <2>2 DEF ReturnRow
    <3>3. rma' = [rma EXCEPT ![r] = [@ EXCEPT !.state = target]]
      BY DEF TransitionReturn
    <3> QED
      BY <3>1, <3>2, <3>3, Zenon
  <2> QED
    BY <1>4, <2>1, <2>3, <2>4
<1>6. CASE TakeBack
  <2> PICK r \in Return : rma[r] # NoReturn /\ \E bins : ReceiveReturn(r, bins)
    BY <1>6 DEF TakeBack
  <2>1. rma[r] \in ReturnRow /\ "received" \in DOMAIN ReturnWorkflow
    BY <1>1 DEF ReturnsTyped, ReturnWorkflow
  <2>2. rma' = [rma EXCEPT ![r] = [state |-> "received", order |-> rma[r].order,
                                   lines |-> rma[r].lines, received |-> TRUE]]
    BY <1>1, <2>1 DEF ReceiveReturn, ReturnRow, ReturnsTyped
  <2> QED
    BY <1>4, <2>1, <2>2
<1>7. CASE UNCHANGED vars
  BY <1>2, <1>7 DEF vars
<1> QED
  BY <1>2, <1>3, <1>5, <1>6, <1>7, ReturnFrame

\* The commands that write transfers, and all the others.
LEMMA TransferFrame ==
    ASSUME Next
    PROVE  UNCHANGED transfer \/ ShipFromTask \/ ReceiveFromTask
BY DEF Next, PlaceOrder, CreateOrder, CommandOrder, TransitionOrder, Receive, ReceiveForTask,
       PostReceipt, Reserve, Allocate, ReleaseAny, Release, Ship, PostShipment, OpenReturn,
       CreateReturn, CommandReturn, TransitionReturn, TakeBack, ReceiveReturn, AddTask, CreateTask,
       CommandTask, TransitionTask, Count, CompleteCount, AdjustStock, Adjust

LEMMA TransfersStep ==
    ASSUME RowsTyped, [Next]_vars
    PROVE  TransfersTyped'
<1>1. TransfersTyped /\ TasksTyped
  BY DEF RowsTyped
<1>2. CASE UNCHANGED transfer
  BY <1>1, <1>2 DEF TransfersTyped
<1>3. CASE ShipFromTask
  <2> PICK t \in TaskId : ShipTransferTask(t)
    BY <1>3 DEF ShipFromTask
  <2> DEFINE m == task[t].ref
             row == [state |-> "shipped", shipped |-> Manual[m].quantity, received |-> 0]
  <2>1. m \in Transfer /\ row \in TransferRow
    BY <1>1, TaskTyped DEF ShipTransferTask, TransferRow
  <2>2. transfer' = [transfer EXCEPT ![m] = row]
    BY DEF ShipTransferTask
  <2> HIDE DEF m, row
  <2> QED
    BY <1>1, <2>1, <2>2 DEF TransfersTyped
<1>4. CASE ReceiveFromTask
  <2> PICK t \in TaskId, got \in Quantities : ReceiveTransferTask(t, got)
    BY <1>4 DEF ReceiveFromTask
  <2> DEFINE m == task[t].ref
             row == [state |-> IF got = transfer[m].shipped THEN "received" ELSE "discrepancy_review",
                     shipped |-> transfer[m].shipped, received |-> got]
  <2>1. m \in Transfer /\ transfer[m].state = "shipped"
    BY <1>1, TaskTyped DEF ReceiveTransferTask, BookTransferReceipt, AwaitsReceipt
  <2>2. transfer[m] \in TransferRow
    BY <1>1, <2>1 DEF TransfersTyped, NoTransfer
  <2>3. row \in TransferRow
    BY <2>2, FulfilmentAssumption DEF TransferRow
  <2>4. transfer' = [transfer EXCEPT ![m] = row]
    BY DEF ReceiveTransferTask, BookTransferReceipt
  <2> HIDE DEF m, row
  <2> QED
    BY <1>1, <2>1, <2>3, <2>4 DEF TransfersTyped
<1>5. CASE UNCHANGED vars
  BY <1>2, <1>5 DEF vars
<1> QED
  BY <1>2, <1>3, <1>4, <1>5, TransferFrame

-----------------------------------------------------------------------------
(* Tasks: what a step does to one of them. *)

Opened(t) ==
    /\ task[t] = NoTask
    /\ task'[t] \in PlainRow
    /\ task'[t].state = "open"

\* The new task pins what its position holds after the step, and a task that ships
\* a transfer is the manual task of that transfer.
PinnedNow(t) ==
    LET x == task'[t].position IN
      /\ task[t] = NoTask
      /\ task'[t] \in PinnedRow
      /\ task'[t].state = "open"
      /\ task'[t].pin = version'[x]
      /\ task'[t].seen = <<onHand'[x], reserved'[x]>>
      /\ task'[t].type \in {"transfer", "transfer_receipt"} => task'[t].ref \in Transfer
      /\ task'[t].type = "transfer" => t = ManualTaskId(task'[t].ref)

\* A receive task is completed by a receipt, a pinned one while its pin holds.
Earned(t) ==
    /\ task[t].type \in Pinned => PinHolds(t)
    /\ task[t].type = "receive" =>
         \E o \in Purchase, tolerance \in Tolerance :
            \E lines \in ReceiptLines(o, Quantities) : PostReceipt(o, lines, tolerance, t)

\* A completed task stays so.
Advanced(t) ==
    /\ task[t] # NoTask /\ task[t].state # "completed"
    /\ \E s \in TaskStates :
         /\ task'[t] = [task[t] EXCEPT !.state = s]
         /\ s = "completed" => Earned(t)

TaskRule(t) == task'[t] = task[t] \/ Opened(t) \/ PinnedNow(t) \/ Advanced(t)

TaskRules ==
    /\ task' = [t \in TaskId |-> task'[t]]
    /\ \A t \in TaskId : TaskRule(t)

OpenRows(rows) == \A t \in DOMAIN rows : rows[t] \in PlainRow /\ rows[t].state = "open"

LEMMA RowsInserted ==
    ASSUME NEW rows, OpenRows(rows), task' = WithTasks(rows, task)
    PROVE  TaskRules
<1>1. task' = [t \in TaskId |-> IF t \in DOMAIN rows /\ task[t] = NoTask THEN rows[t] ELSE task[t]]
  BY DEF WithTasks
<1>2. ASSUME NEW t \in TaskId PROVE task'[t] = task[t] \/ Opened(t)
  BY <1>1 DEF Opened, OpenRows
<1> QED
  BY <1>1, <1>2 DEF TaskRules, TaskRule

LEMMA MayMove == \A t, target : TaskMayBecome(t, target) => task[t] # NoTask /\ task[t].state # "completed"
BY DEF TaskMayBecome, TaskTransitions

LEMMA StateMoved ==
    ASSUME TasksTyped, NEW t \in TaskId, task[t] # NoTask, task[t].state # "completed", NEW s \in TaskStates,
           s = "completed" => Earned(t),
           task' = [task EXCEPT ![t] = [@ EXCEPT !.state = s]]
    PROVE  TaskRules
<1>1. /\ task' = [u \in TaskId |-> task'[u]]
      /\ task'[t] = [task[t] EXCEPT !.state = s]
      /\ \A u \in TaskId : u # t => task'[u] = task[u]
  BY DEF TasksTyped
<1>2. Advanced(t)
  BY <1>1 DEF Advanced
<1> QED
  BY <1>1, <1>2 DEF TaskRules, TaskRule

LEMMA PlainTyped ==
    ASSUME NEW type \in {"receive", "putaway", "pick"}, NEW ref \in Order \cup Return
    PROVE  PlainTask(type, ref) \in PlainRow /\ PlainTask(type, ref).state = "open"
BY DEF PlainTask, PlainRow, TaskStates

LEMMA PinnedTyped ==
    ASSUME NEW type \in Pinned, NEW ref \in ManualTask, NEW x \in Position, NEW pin \in Nat,
           NEW seen \in Int \X Int
    PROVE  /\ PinnedTask(type, ref, x, pin, seen) \in PinnedRow
           /\ PinnedTask(type, ref, x, pin, seen) =
                [type |-> type, state |-> "open", ref |-> ref, position |-> x, pin |-> pin, seen |-> seen]
BY DEF PinnedTask, PinnedRow, TaskStates

\* What a task is of does not change with its state.
LEMMA StateOnly ==
    ASSUME TasksTyped, NEW t \in TaskId, task[t] # NoTask, NEW s \in TaskStates
    PROVE  LET row == [task[t] EXCEPT !.state = s] IN
             /\ row.type = task[t].type /\ row.ref = task[t].ref /\ row.state = s
             /\ row \in PlainRow \cup PinnedRow /\ row # NoTask
             /\ task[t].type \in Pinned =>
                  /\ row \in PinnedRow /\ row.position = task[t].position
                  /\ row.pin = task[t].pin /\ row.seen = task[t].seen
<1>1. task[t] \in PlainRow \cup PinnedRow
  BY DEF TasksTyped
<1>2. CASE task[t] \in PlainRow
  BY <1>2 DEF PlainRow, Pinned, NoTask
<1>3. CASE task[t] \in PinnedRow
  BY <1>3 DEF PinnedRow, Pinned, NoTask
<1> QED
  BY <1>1, <1>2, <1>3

LEMMA TaskIds == \A t \in TaskId : t # NoTaskId
<1> SUFFICES ASSUME NEW t \in TaskId, t = <<>> PROVE FALSE
  BY DEF NoTaskId
<1> QED
  BY SMT DEF TaskId, ReceiveOrderTask, FollowUpTask, PutawayTask, PickOrderTask, PickTask, ReturnTask,
         ManualTaskId, TransferReceiptTask

LEMMA ReceiptTasks ==
    ASSUME TasksTyped, NEW o \in Purchase, NEW tolerance \in Tolerance,
           NEW lines \in ReceiptLines(o, Quantities), NEW t \in TaskId \cup {NoTaskId},
           PostReceipt(o, lines, tolerance, t)
    PROVE  TaskRules
<1> DEFINE n == receipts[o].number + 1
           target == ReceivedTarget(o, lines)
           puts == PutawayTasks(o, n, lines)
           follow == FollowUp(o, n, t, target)
           put == WithTasks(puts, task)
           done == IF t = NoTaskId THEN put ELSE Completed(t, put)
<1>1. task' = WithTasks(follow, done)
  BY DEF PostReceipt, FinishReceipt
<1>2. OpenRows(puts) /\ OpenRows(follow)
  BY PlainTyped DEF OpenRows, PutawayTasks, FollowUp, Order
<1>3. t # NoTaskId => /\ IsReceiveTaskOf(t, o) /\ t \in TaskId
                       /\ task[t] # NoTask /\ task[t].state # "completed"
  BY MayMove DEF PostReceipt
<1>4. t # NoTaskId => Earned(t)
  BY <1>3 DEF Earned, Pinned, IsReceiveTaskOf
<1> HIDE DEF n, target, puts, follow
<1>5. put = [u \in TaskId |-> IF u \in DOMAIN puts /\ task[u] = NoTask THEN puts[u] ELSE task[u]]
  BY DEF WithTasks
<1>6. /\ done = [u \in TaskId |-> done[u]]
      /\ \A u \in TaskId : u # t => done[u] = put[u]
      /\ t # NoTaskId => done[t] = [task[t] EXCEPT !.state = "completed"]
  <2> HIDE DEF put
  <2>1. put = [u \in TaskId |-> put[u]] /\ (t # NoTaskId => put[t] = task[t])
    BY <1>3, <1>5
  <2>2. CASE t = NoTaskId
    BY <2>1, <2>2
  <2>3. CASE t # NoTaskId
    <3>1. done = [put EXCEPT ![t] = [@ EXCEPT !.state = "completed"]]
      BY <2>3 DEF Completed
    <3> HIDE DEF done
    <3> QED
      BY <1>3, <2>1, <2>3, <3>1
  <2> QED
    BY <2>2, <2>3
<1> HIDE DEF put, done
<1>7. task' = [u \in TaskId |-> IF u \in DOMAIN follow /\ done[u] = NoTask THEN follow[u] ELSE done[u]]
  BY <1>1 DEF WithTasks
<1>8. ASSUME NEW u \in TaskId, u # t PROVE task'[u] = task[u] \/ Opened(u)
  BY <1>2, <1>5, <1>6, <1>7, <1>8 DEF Opened, OpenRows
<1>9. ASSUME t # NoTaskId PROVE Advanced(t)
  <2>1. "completed" \in TaskStates
    BY DEF TaskStates
  <2>2. done[t] # NoTask /\ done[t] = [task[t] EXCEPT !.state = "completed"]
    BY <1>3, <1>6, <1>9, <2>1, StateOnly
  <2>3. task'[t] = [task[t] EXCEPT !.state = "completed"]
    BY <1>3, <1>7, <1>9, <2>2
  <2> QED
    BY <1>3, <1>4, <1>9, <2>1, <2>3 DEF Advanced
<1>10. \A u \in TaskId : u # NoTaskId
  BY TaskIds
<1>11. \A u \in TaskId : TaskRule(u)
  BY <1>8, <1>9, <1>10 DEF TaskRule
<1> QED
  BY <1>7, <1>11 DEF TaskRules

\* The commands that write tasks, and all the others.
LEMMA TaskFrame ==
    ASSUME Next
    PROVE  \/ UNCHANGED task
           \/ CommandOrder \/ Receive \/ ReceiveForTask \/ Reserve \/ CommandReturn
           \/ AddTask \/ CommandTask \/ Count \/ ShipFromTask \/ ReceiveFromTask
BY DEF Next, PlaceOrder, CreateOrder, ReleaseAny, Release, Ship, PostShipment, OpenReturn,
       CreateReturn, TakeBack, ReceiveReturn, AdjustStock, Adjust

LEMMA AddedTask ==
    ASSUME RowsTyped, NEW m \in ManualTask, CreateTask(m)
    PROVE  TaskRules
<1> DEFINE t == ManualTaskId(m)
           x == Manual[m].source
           seen == <<onHand[x], reserved[x]>>
           row == PinnedTask(Manual[m].type, m, x, version[x], seen)
<1>1. /\ task[t] = NoTask /\ task' = [task EXCEPT ![t] = row]
      /\ onHand' = onHand /\ reserved' = reserved /\ version' = version
  BY DEF CreateTask, positionVars
<1>2. t \in TaskId
  BY DEF TaskId
<1>3. /\ Manual[m].type \in Pinned /\ x \in Position
      /\ Manual[m].type = "transfer" => m \in Transfer
      /\ Manual[m].type # "transfer_receipt"
  BY ManualAssumption DEF Pinned, Transfer
<1>4. seen \in Int \X Int /\ version[x] \in Nat
  BY <1>3 DEF RowsTyped, StockTyped
<1>5. /\ row \in PinnedRow
      /\ row = [type |-> Manual[m].type, state |-> "open", ref |-> m, position |-> x,
                pin |-> version[x], seen |-> seen]
  BY <1>3, <1>4, PinnedTyped
<1>6. task \in [TaskId -> PlainRow \cup PinnedRow \cup {NoTask}]
  BY DEF RowsTyped, TasksTyped
<1> HIDE DEF t, row, x
<1>7. /\ task' = [u \in TaskId |-> task'[u]]
      /\ task'[t] = row
      /\ \A u \in TaskId : u # t => task'[u] = task[u]
  BY <1>1, <1>2, <1>6
<1>8. PinnedNow(t)
  <2>1. task'[t].ref = m
    BY <1>5, <1>7
  <2> QED
    BY <1>1, <1>3, <1>5, <1>7, <2>1 DEF PinnedNow, t
<1> QED
  BY <1>7, <1>8 DEF TaskRules, TaskRule

LEMMA CommandedTask ==
    ASSUME RowsTyped, NEW t \in TaskId, NEW target, TransitionTask(t, target)
    PROVE  TaskRules
<1>1. target \in TaskStates
  BY DEF TransitionTask, TaskCommands, TaskStates
<1>2. target = "completed" => Earned(t)
  BY DEF TransitionTask, Physical, Earned, Pinned
<1>3. task[t] # NoTask /\ task[t].state # "completed"
  BY MayMove DEF TransitionTask
<1> QED
  BY <1>1, <1>2, <1>3, StateMoved DEF TransitionTask, RowsTyped

LEMMA ShippedTask ==
    ASSUME RowsTyped, NEW t \in TaskId, ShipTransferTask(t)
    PROVE  TaskRules
<1> DEFINE m == task[t].ref
           s == Manual[m].source
           x == Manual[m].destination
           u == TransferReceiptTask(m)
           seen == <<onHand[x], reserved[x]>>
           row == PinnedTask("transfer_receipt", m, x, version[x], seen)
           done == Completed(t, task)
<1>1. m \in Transfer /\ m \in ManualTask /\ s \in Position /\ x \in Position /\ s # x
  <2>1. m \in Transfer
    BY TaskTyped DEF ShipTransferTask, RowsTyped
  <2>2. Site[Manual[m].source[2]] # Site[Manual[m].destination[2]]
    BY <2>1, ManualAssumption
  <2> QED
    BY <2>1, <2>2, ManualAssumption DEF Transfer
<1>2. u \in TaskId
  BY <1>1 DEF TaskId
<1>3. /\ task' = [v \in TaskId |-> IF v = u /\ done[v] = NoTask THEN row ELSE done[v]]
      /\ task[t] # NoTask /\ task[t].state # "completed"
      /\ PinHolds(t) /\ task[t].type = "transfer"
  BY MayMove DEF ShipTransferTask, WithTasks, ReceiptTaskOf
<1>4. onHand'[x] = onHand[x] /\ reserved'[x] = reserved[x] /\ version'[x] = version[x]
  <2> DEFINE q == -Manual[m].quantity
  <2>1. WritePosition(s, q, 0)
    BY DEF ShipTransferTask
  <2>2. onHand[x] \in Int /\ reserved[x] \in Int /\ version[x] \in Int
    BY <1>1 DEF RowsTyped, StockTyped
  <2> HIDE DEF q, s, x
  <2>3. [Nothing EXCEPT ![s] = q][x] = 0 /\ [Nothing EXCEPT ![s] = 0][x] = 0 /\ [Nothing EXCEPT ![s] = 1][x] = 0
    BY <1>1 DEF Nothing
  <2> QED
    BY <1>1, <2>1, <2>2, <2>3 DEF WritePosition, WritePositions
<1>5. seen \in Int \X Int /\ version[x] \in Nat
  BY <1>1 DEF RowsTyped, StockTyped
<1>6. /\ row \in PinnedRow
      /\ row = [type |-> "transfer_receipt", state |-> "open", ref |-> m, position |-> x,
                pin |-> version[x], seen |-> seen]
  BY <1>1, <1>5, PinnedTyped DEF Pinned
<1>7. /\ \A v \in TaskId : v # t => done[v] = task[v]
      /\ done[t] = [task[t] EXCEPT !.state = "completed"] /\ done[t] # NoTask
  <2>1. task \in [TaskId -> PlainRow \cup PinnedRow \cup {NoTask}]
    BY DEF RowsTyped, TasksTyped
  <2>2. /\ \A v \in TaskId : v # t => done[v] = task[v]
        /\ done[t] = [task[t] EXCEPT !.state = "completed"]
    BY <2>1 DEF Completed
  <2> HIDE DEF done
  <2>3. "completed" \in TaskStates /\ TasksTyped /\ task[t] # NoTask
    BY <1>3 DEF RowsTyped, TaskStates
  <2>4. [task[t] EXCEPT !.state = "completed"] # NoTask
    BY <2>3, StateOnly
  <2> QED
    BY <2>2, <2>4
<1> HIDE DEF u, row, done
<1>8. Advanced(t)
  BY <1>3, <1>7 DEF Advanced, Earned, TaskStates
<1>9. u # t /\ task[u] = NoTask => PinnedNow(u)
  <2> SUFFICES ASSUME u # t, task[u] = NoTask PROVE PinnedNow(u)
    OBVIOUS
  <2>1. task'[u] = row
    BY <1>2, <1>3, <1>7
  <2> HIDE DEF m, x
  <2> QED
    BY <1>1, <1>4, <1>6, <2>1 DEF PinnedNow
<1>10. ASSUME NEW v \in TaskId PROVE TaskRule(v)
  BY <1>3, <1>7, <1>8, <1>9 DEF TaskRule
<1> QED
  BY <1>3, <1>10 DEF TaskRules

LEMMA TasksStep ==
    ASSUME RowsTyped, [Next]_vars
    PROVE  TaskRules
<1>1. TasksTyped
  BY DEF RowsTyped
<1>2. CASE UNCHANGED task
  BY <1>1, <1>2 DEF TasksTyped, TaskRules, TaskRule
<1>3. CASE CommandOrder
  <2> PICK o \in Order : \E target : TransitionOrder(o, target)
    BY <1>3 DEF CommandOrder
  <2> PICK target : TransitionOrder(o, target)
    OBVIOUS
  <2>1. OpenRows(TasksForOrder(o, target))
    BY PlainTyped DEF OpenRows, TasksForOrder
  <2> QED
    BY <2>1, RowsInserted DEF TransitionOrder
<1>4. CASE Receive \/ ReceiveForTask
  BY <1>1, <1>4, ReceiptTasks DEF Receive, ReceiveForTask
<1>5. CASE Reserve
  <2> PICK o \in Sales : \E lines : Allocate(o, lines)
    BY <1>5 DEF Reserve
  <2> PICK lines : Allocate(o, lines)
    OBVIOUS
  <2> DEFINE rows == PickTasks(o, Cardinality(AllocationsOf(o)) + 1, lines)
  <2>1. OpenRows(rows)
    BY PlainTyped DEF OpenRows, PickTasks, Order
  <2>2. task' = WithTasks(rows, task)
    BY DEF Allocate
  <2> HIDE DEF rows
  <2> QED
    BY <2>1, <2>2, RowsInserted
<1>6. CASE CommandReturn
  <2> PICK r \in Return, target \in ReturnCommands : TransitionReturn(r, target)
    BY <1>6 DEF CommandReturn
  <2> DEFINE rows == [t \in IF target = "authorized" THEN {ReturnTask(r)} ELSE {} |->
                        PlainTask("receive", r)]
  <2>1. OpenRows(rows)
    BY PlainTyped DEF OpenRows
  <2>2. task' = WithTasks(rows, task)
    BY DEF TransitionReturn
  <2> HIDE DEF rows
  <2> QED
    BY <2>1, <2>2, RowsInserted
<1>7. CASE AddTask
  BY <1>7, AddedTask DEF AddTask
<1>8. CASE CommandTask
  BY <1>8, CommandedTask DEF CommandTask
<1>9. ASSUME NEW t \in TaskId, task[t].type \in Pinned, TaskMayBecome(t, "completed"), PinHolds(t),
             task' = Completed(t, task)
      PROVE  TaskRules
  <2>1. Earned(t) /\ task[t] # NoTask /\ task[t].state # "completed" /\ "completed" \in TaskStates
    BY <1>9, MayMove DEF Earned, Pinned, TaskStates
  <2> QED
    BY <1>1, <1>9, <2>1, StateMoved DEF Completed
<1>10. CASE Count
  BY <1>9, <1>10 DEF Count, CompleteCount, Pinned
<1>11. CASE ShipFromTask
  BY <1>11, ShippedTask DEF ShipFromTask
<1>12. CASE ReceiveFromTask
  BY <1>9, <1>12 DEF ReceiveFromTask, ReceiveTransferTask, Pinned
<1>13. CASE UNCHANGED vars
  BY <1>2, <1>13 DEF vars
<1> QED
  BY <1>2, <1>3, <1>4, <1>5, <1>6, <1>7, <1>8, <1>10, <1>11, <1>12, <1>13, TaskFrame

LEMMA RulesKeepTypes ==
    ASSUME TasksTyped, TaskRules
    PROVE  TasksTyped'
<1>1. ASSUME NEW t \in TaskId
      PROVE  /\ task'[t] \in PlainRow \cup PinnedRow \cup {NoTask}
             /\ task'[t].type \in {"transfer", "transfer_receipt"} => task'[t].ref \in Transfer
  <2>1. CASE task'[t] = task[t]
    BY <2>1 DEF TasksTyped
  <2>2. CASE Opened(t)
    BY <2>2 DEF Opened, PlainRow
  <2>3. CASE PinnedNow(t)
    BY <2>3 DEF PinnedNow
  <2>4. CASE Advanced(t)
    <3> PICK s \in TaskStates : task'[t] = [task[t] EXCEPT !.state = s]
      BY <2>4 DEF Advanced
    <3>1. task[t] # NoTask
      BY <2>4 DEF Advanced
    <3> QED
      BY <3>1, StateOnly DEF TasksTyped
  <2> QED
    BY <2>1, <2>2, <2>3, <2>4 DEF TaskRules, TaskRule
<1> QED
  BY <1>1 DEF TasksTyped, TaskRules

-----------------------------------------------------------------------------
(* Types. *)

LEMMA RowsStep == RowsTyped /\ [Next]_vars => RowsTyped'
<1> SUFFICES ASSUME RowsTyped, [Next]_vars PROVE RowsTyped'
  OBVIOUS
<1>1. StockTyped'
  BY StockMoves, CorrectedTyped DEF StockTyped, PositionsTyped
<1>2. TasksTyped'
  BY TasksStep, RulesKeepTypes DEF RowsTyped
<1> QED
  BY <1>1, <1>2, OrdersStep, ReservationsStep, ReturnsStep, TransfersStep DEF RowsTyped

LEMMA RowsInvariant == Spec => []RowsTyped
BY InitRows, RowsStep, PTL DEF Spec

\* Whatever the clients command, every row of the order, reservation, return,
\* transfer and task tables keeps a value that its columns and checks allow: no
\* reserved quantity, processed quantity or version falls below zero, and every
\* state is one of its lifecycle.
THEOREM TypeCorrect == Spec => []TypeOK
BY RowsInvariant, TypesOfRows, PTL

-----------------------------------------------------------------------------
(* Pins. *)

\* Until a position is written again it is what the creator of the task saw there.
PinsHold ==
    \A t \in TaskId : task[t].type \in Pinned =>
        LET x == task[t].position IN
          /\ task[t].pin <= version[x]
          /\ task[t].pin = version[x] => task[t].seen = <<onHand[x], reserved[x]>>

LEMMA InitPins == Init => PinsHold
BY DEF Init, OrderInit, PinsHold, NoTask, Pinned

LEMMA PinsStep ==
    ASSUME RowsTyped, PinsHold, [Next]_vars
    PROVE  PinsHold'
<1> SUFFICES ASSUME NEW t \in TaskId, task'[t].type \in Pinned
             PROVE  LET x == task'[t].position IN
                      /\ task'[t].pin <= version'[x]
                      /\ task'[t].pin = version'[x] => task'[t].seen = <<onHand'[x], reserved'[x]>>
  BY DEF PinsHold
<1>1. PositionsTyped /\ PositionsTyped' /\ Moves /\ TaskRule(t) /\ TasksTyped
  BY StockMoves, TasksStep DEF RowsTyped, StockTyped, PositionsTyped, TaskRules
<1>2. ASSUME task[t].type \in Pinned, task'[t].position = task[t].position,
             task'[t].pin = task[t].pin, task'[t].seen = task[t].seen
      PROVE  LET x == task'[t].position IN
               /\ task'[t].pin <= version'[x]
               /\ task'[t].pin = version'[x] => task'[t].seen = <<onHand'[x], reserved'[x]>>
  <2> DEFINE x == task[t].position
  <2>1. x \in Position /\ task[t].pin \in Nat
    BY <1>1, <1>2, TaskTyped DEF PinnedRow
  <2>2. version[x] \in Nat /\ version'[x] \in Nat
    BY <1>1, <2>1 DEF PositionsTyped
  <2>3. /\ task[t].pin <= version[x]
        /\ task[t].pin = version[x] => task[t].seen = <<onHand[x], reserved[x]>>
    BY <1>2 DEF PinsHold
  <2>4. /\ version'[x] >= version[x]
        /\ version'[x] = version[x] => onHand'[x] = onHand[x] /\ reserved'[x] = reserved[x]
    BY <1>1, <2>1 DEF Moves
  <2> QED
    BY <1>2, <2>1, <2>2, <2>3, <2>4
<1>3. CASE task'[t] = task[t]
  BY <1>2, <1>3
<1>4. CASE Opened(t)
  BY <1>4 DEF Opened, PlainRow, Pinned
<1>5. CASE PinnedNow(t)
  <2>1. task'[t].position \in Position
    BY <1>5 DEF PinnedNow, PinnedRow
  <2> QED
    BY <1>1, <1>5, <2>1 DEF PinnedNow, PositionsTyped
<1>6. CASE Advanced(t)
  <2> PICK s \in TaskStates : task'[t] = [task[t] EXCEPT !.state = s]
    BY <1>6 DEF Advanced
  <2> QED
    BY <1>1, <1>2, <1>6, StateOnly DEF Advanced
<1> QED
  BY <1>1, <1>3, <1>4, <1>5, <1>6 DEF TaskRule

LEMMA PinsInvariant == Spec => []PinsHold
<1>1. RowsTyped /\ PinsHold /\ [Next]_vars => PinsHold'
  BY PinsStep
<1> QED
  BY <1>1, InitPins, RowsInvariant, PTL DEF Spec

LEMMA PostsStep ==
    ASSUME RowsTyped, PinsHold, [Next]_vars, NEW t \in TaskId
    PROVE  PostsUnmoved(t)
<1> SUFFICES ASSUME task[t].type \in Pinned, task[t].state # "completed", task'[t].state = "completed"
             PROVE  task[t].seen = <<onHand[task[t].position], reserved[task[t].position]>>
  BY DEF PostsUnmoved, Pinned
<1>1. TaskRule(t) /\ TasksTyped
  BY TasksStep DEF RowsTyped, TaskRules
<1>2. task[t] # NoTask
  BY DEF NoTask, Pinned
<1>3. Advanced(t)
  BY <1>1, <1>2 DEF TaskRule, Opened, PinnedNow
<1>4. PICK s \in TaskStates : task'[t] = [task[t] EXCEPT !.state = s] /\ (s = "completed" => Earned(t))
  BY <1>3 DEF Advanced
<1>5. s = "completed"
  BY <1>1, <1>2, <1>4, StateOnly
<1> QED
  BY <1>4, <1>5 DEF Earned, PinHolds, PinsHold

\* Stock is posted for a count, a transfer or the receipt of a transfer only while
\* its position still holds what the creator of the task saw there, whatever was
\* received, reserved, shipped, returned or adjusted in between: the version that
\* the task has pinned is compared, and every one of those commands changes it.
THEOREM PinnedWorkPosted == Spec => PinnedWorkIsCurrent
<1>1. RowsTyped /\ PinsHold /\ [Next]_vars => [\A t \in TaskId : PostsUnmoved(t)]_vars
  BY PostsStep
<1> QED
  BY <1>1, RowsInvariant, PinsInvariant, PTL DEF Spec, PinnedWorkIsCurrent

-----------------------------------------------------------------------------
(* Orders: what a step does to one of them. *)

SameOrder(o) ==
    /\ orderState'[o] = orderState[o]
    /\ processed'[o] = processed[o]
    /\ o \in Purchase => receipts'[o] = receipts[o]

\* A new state that is not that of a receipt or of a shipment.
Commanded(o) ==
    /\ processed'[o] = processed[o]
    /\ o \in Purchase => receipts'[o] = receipts[o]
    /\ \/ orderState[o] = "none" /\ orderState'[o] = IF o \in Purchase THEN "draft" ELSE "quote"
       \/ /\ TransitionOrder(o, orderState'[o])
          /\ orderState'[o] \in OrderCommands(o)
          /\ orderState[o] # "none" /\ orderState'[o] \in OrderWorkflow(o)[orderState[o]]

\* An allocation moves the order only among the states of allocation.
Reserved(o) ==
    /\ o \in Sales
    /\ processed'[o] = processed[o]
    /\ orderState[o] \in {"confirmed", "partially_allocated", "backordered"}
    /\ orderState'[o] \in {"partially_allocated", "allocated"}

Received(o) ==
    /\ o \in Purchase
    /\ \E tolerance \in Tolerance, t \in TaskId \cup {NoTaskId} :
         \E lines \in ReceiptLines(o, Quantities) : PostReceipt(o, lines, tolerance, t)

Shipped(o) ==
    /\ o \in Sales
    /\ \E S \in SUBSET ReservationId : PostShipment(o, S)

OrderRule(o) == SameOrder(o) \/ Commanded(o) \/ Reserved(o) \/ Received(o) \/ Shipped(o)

LEMMA ReceiptEffect ==
    ASSUME OrdersTyped, NEW o \in Purchase, NEW lines \in ReceiptLines(o, Quantities), NEW tolerance,
           NEW t, PostReceipt(o, lines, tolerance, t)
    PROVE  /\ orderState[o] \in {"acknowledged", "partially_received"}
           /\ orderState'[o] = ReceivedTarget(o, lines)
           /\ processed'[o] = [p \in Product |-> IF p \in DOMAIN lines
                                 THEN processed[o][p] + Delivered(lines[p]) ELSE processed[o][p]]
           /\ receipts'[o] = WithReceipt(o, lines)
           /\ \A x \in Order : x # o => SameOrder(x)
<1> DEFINE row == [p \in Product |-> IF p \in DOMAIN lines
                     THEN processed[o][p] + Delivered(lines[p]) ELSE processed[o][p]]
           target == ReceivedTarget(o, lines)
           receipt == WithReceipt(o, lines)
<1>1. /\ orderState[o] \in {"acknowledged", "partially_received"}
      /\ processed' = [processed EXCEPT ![o] = row]
      /\ orderState' = [orderState EXCEPT ![o] = target]
      /\ receipts' = [receipts EXCEPT ![o] = receipt]
      /\ o \in Order
  BY DEF PostReceipt, BookReceiptLines, FinishReceipt, Order
<1> HIDE DEF row, target, receipt
<1>2. /\ processed'[o] = row /\ orderState'[o] = target /\ receipts'[o] = receipt
      /\ \A x \in Order : x # o => SameOrder(x)
  BY <1>1 DEF OrdersTyped, SameOrder
<1> QED
  BY <1>1, <1>2 DEF row, target, receipt

LEMMA ShipmentEffect ==
    ASSUME OrdersTyped, NEW o \in Sales, NEW S \in SUBSET ReservationId, PostShipment(o, S)
    PROVE  /\ orderState[o] \in {"picking", "partially_shipped"}
           /\ orderState'[o] = ShippedTarget(o, S)
           /\ processed'[o] = [p \in Product |-> processed[o][p] + ShippedOf(S, p)]
           /\ \A x \in Order : x # o => SameOrder(x)
<1> DEFINE row == [p \in Product |-> processed[o][p] + ShippedOf(S, p)]
           target == ShippedTarget(o, S)
<1>1. /\ orderState[o] \in {"picking", "partially_shipped"}
      /\ processed' = [processed EXCEPT ![o] = row]
      /\ orderState' = [orderState EXCEPT ![o] = target]
      /\ receipts' = receipts
      /\ o \in Order
  BY DEF PostShipment, Order
<1> HIDE DEF row, target
<1>2. /\ processed'[o] = row /\ orderState'[o] = target
      /\ \A x \in Order : x # o => SameOrder(x)
  BY <1>1 DEF OrdersTyped, SameOrder
<1> QED
  BY <1>1, <1>2 DEF row, target

LEMMA OrderRules ==
    ASSUME RowsTyped, [Next]_vars, NEW o \in Order
    PROVE  OrderRule(o)
<1>1. OrdersTyped
  BY DEF RowsTyped
<1>2. CASE UNCHANGED orderVars
  BY <1>2 DEF orderVars, OrderRule, SameOrder
<1>3. CASE PlaceOrder
  <2> PICK x \in Order : CreateOrder(x)
    BY <1>3 DEF PlaceOrder
  <2>1. CASE x = o
    BY <1>1, <2>1 DEF CreateOrder, OrdersTyped, OrderRule, Commanded
  <2>2. CASE x # o
    BY <1>1, <2>2 DEF CreateOrder, OrdersTyped, OrderRule, SameOrder
  <2> QED
    BY <2>1, <2>2
<1>4. CASE CommandOrder
  <2> PICK x \in Order : \E target : TransitionOrder(x, target)
    BY <1>4 DEF CommandOrder
  <2> PICK target : TransitionOrder(x, target)
    OBVIOUS
  <2>1. CASE x = o
    <3>1. orderState'[o] = target
      BY <1>1, <2>1 DEF TransitionOrder, OrdersTyped
    <3>2. TransitionOrder(o, orderState'[o])
      BY <2>1, <3>1
    <3>3. Commanded(o)
      BY <2>1, <3>1, <3>2 DEF TransitionOrder, OrderMayBecome, Commanded
    <3> QED
      BY <3>3 DEF OrderRule
  <2>2. CASE x # o
    BY <1>1, <2>2 DEF TransitionOrder, OrdersTyped, OrderRule, SameOrder
  <2> QED
    BY <2>1, <2>2
<1>5. CASE Receive \/ ReceiveForTask
  <2> PICK x \in Purchase, tolerance \in Tolerance, t \in TaskId \cup {NoTaskId} :
             \E lines \in ReceiptLines(x, Quantities) : PostReceipt(x, lines, tolerance, t)
    BY <1>5 DEF Receive, ReceiveForTask
  <2>1. CASE x = o
    BY <2>1 DEF OrderRule, Received
  <2>2. CASE x # o
    BY <1>1, <2>2, ReceiptEffect DEF OrderRule
  <2> QED
    BY <2>1, <2>2
<1>6. CASE Reserve
  <2> PICK x \in Sales : \E lines : Allocate(x, lines)
    BY <1>6 DEF Reserve
  <2>1. CASE x = o
    BY <1>1, <2>1 DEF Allocate, AllocatedTarget, OrdersTyped, OrderRule, Reserved
  <2>2. CASE x # o
    BY <1>1, <2>2 DEF Allocate, OrdersTyped, OrderRule, SameOrder
  <2> QED
    BY <2>1, <2>2
<1>7. CASE Ship
  <2> PICK x \in Sales, S \in SUBSET ReservationId : PostShipment(x, S)
    BY <1>7 DEF Ship
  <2>1. CASE x = o
    BY <2>1 DEF OrderRule, Shipped
  <2>2. CASE x # o
    BY <1>1, <2>2, ShipmentEffect DEF OrderRule
  <2> QED
    BY <2>1, <2>2
<1>8. CASE UNCHANGED vars
  BY <1>2, <1>8 DEF vars
<1> QED
  BY <1>2, <1>3, <1>4, <1>5, <1>6, <1>7, <1>8, OrderFrame

-----------------------------------------------------------------------------
(* Tolerances. *)

LEMMA InitTolerance == Init => ReceivedWithinTolerance
<1> SUFFICES ASSUME Init, NEW o \in Purchase, NEW p \in Product
             PROVE  \E tolerance \in Tolerance : 100 * processed[o][p] <= Ordered[o][p] * (100 + tolerance)
  BY DEF ReceivedWithinTolerance
<1>1. processed[o][p] = 0 /\ Ordered[o][p] \in Nat
  BY OrderAssumption DEF Init, OrderInit, Order
<1>2. \A n \in Nat : 100 * 0 <= n * (100 + 0)
  OBVIOUS
<1>3. 0 \in Tolerance
  BY ToleranceAssumption
<1> QED
  BY <1>1, <1>2, <1>3

LEMMA ToleranceStep ==
    ASSUME RowsTyped, ReceivedWithinTolerance, [Next]_vars
    PROVE  ReceivedWithinTolerance'
<1> SUFFICES ASSUME NEW o \in Purchase, NEW p \in Product
             PROVE  \E tolerance \in Tolerance : 100 * processed'[o][p] <= Ordered[o][p] * (100 + tolerance)
  BY DEF ReceivedWithinTolerance
<1>1. o \in Order /\ o \notin Sales /\ OrdersTyped
  BY OrderAssumption DEF Order, RowsTyped
<1>2. CASE processed'[o][p] = processed[o][p]
  BY <1>2 DEF ReceivedWithinTolerance
<1>3. CASE Received(o)
  <2> PICK tolerance \in Tolerance, lines \in ReceiptLines(o, Quantities) :
             \E t : PostReceipt(o, lines, tolerance, t)
    BY <1>3 DEF Received
  <2> PICK t : PostReceipt(o, lines, tolerance, t)
    OBVIOUS
  <2>1. processed'[o] = [q \in Product |-> IF q \in DOMAIN lines
                           THEN processed[o][q] + Delivered(lines[q]) ELSE processed[o][q]]
    BY <1>1, ReceiptEffect
  <2>2. CASE p \in DOMAIN lines
    <3>1. 100 * (processed[o][p] + Delivered(lines[p])) <= Ordered[o][p] * (100 + tolerance)
      BY <2>2 DEF PostReceipt, WithinTolerance
    <3>2. processed'[o][p] = processed[o][p] + Delivered(lines[p])
      BY <2>1, <2>2
    <3> QED
      BY <3>1, <3>2
  <2>3. CASE p \notin DOMAIN lines
    BY <1>2, <2>1, <2>3
  <2> QED
    BY <2>2, <2>3
<1> QED
  BY <1>1, <1>2, <1>3, OrderRules DEF OrderRule, SameOrder, Commanded, Reserved, Shipped

\* However many receipts a purchase order gets, and whatever tolerance each of them
\* carries, what has been received of a line is within a tolerance that some
\* request may carry: each receipt is compared with what the others have left.
THEOREM ReceiptsWithinTolerance == Spec => []ReceivedWithinTolerance
<1>1. RowsTyped /\ ReceivedWithinTolerance /\ [Next]_vars => ReceivedWithinTolerance'
  BY ToleranceStep
<1> QED
  BY <1>1, InitTolerance, RowsInvariant, PTL DEF Spec

-----------------------------------------------------------------------------
(* Progress of orders. *)

BeforeReceipt ==
    {"none", "draft", "pending_approval", "approved", "sent", "acknowledged", "cancelled"}
BeforeShipment ==
    {"none", "quote", "draft", "confirmed", "partially_allocated", "allocated", "backordered",
     "dropship", "cancelled"}
AfterShipment == {"shipped", "delivered", "closed"}
NotReceivable == {"none", "draft", "pending_approval", "approved", "sent"}

\* Only lines of the order are reserved for it.
LinesReserved ==
    \A r \in ReservationId : reservation[r].status # "none" => r[3] \in Lines(r[1])

Untouched(o) == \A p \in Product : processed[o][p] = 0
InFull(o) == \A p \in Product : processed[o][p] = Ordered[o][p]
InPart(o) == \E p \in Product : processed[o][p] < Ordered[o][p]

\* What the state of an order says of its lines.
PurchaseProgress(o) ==
    /\ orderState[o] \in BeforeReceipt => Untouched(o)
    /\ orderState[o] = "partially_received" => InPart(o)

SalesProgress(o) ==
    /\ \A p \in Product : processed[o][p] <= Ordered[o][p]
    /\ orderState[o] \in BeforeShipment => Untouched(o)
    /\ orderState[o] \in AfterShipment => InFull(o)
    /\ orderState[o] = "partially_shipped" => InPart(o)

Progress ==
    /\ \A o \in Purchase : PurchaseProgress(o)
    /\ \A o \in Sales : SalesProgress(o)

LEMMA OrderTyped ==
    ASSUME OrdersTyped, NEW o \in Order
    PROVE  /\ \A p \in Product : processed[o][p] \in Nat /\ Ordered[o][p] \in Nat
           /\ processed[o] = [p \in Product |-> processed[o][p]]
           /\ Ordered[o] = [p \in Product |-> Ordered[o][p]]
           /\ (o \in Purchase) # (o \in Sales)
           /\ \E p \in Product : Ordered[o][p] > 0
BY OrderAssumption DEF OrdersTyped, Order

LEMMA ProgressSays ==
    ASSUME RowsTyped, Progress
    PROVE  CompleteWhenSaid
<1>1. ASSUME NEW o \in Order
      PROVE  /\ InFull(o) => processed[o] = Ordered[o]
             /\ InPart(o) => processed[o] # Ordered[o]
  <2>1. OrdersTyped
    BY DEF RowsTyped
  <2>2. /\ \A p \in Product : processed[o][p] \in Nat /\ Ordered[o][p] \in Nat
        /\ processed[o] = [p \in Product |-> processed[o][p]]
        /\ Ordered[o] = [p \in Product |-> Ordered[o][p]]
    BY <2>1, OrderTyped
  <2>3. InFull(o) => processed[o] = Ordered[o]
    BY <2>2 DEF InFull
  <2>4. InPart(o) => processed[o] # Ordered[o]
    BY <2>2 DEF InPart
  <2> QED
    BY <2>3, <2>4
<1>2. \A o \in Sales : o \in Order
  BY DEF Order
<1> QED
  BY <1>1, <1>2 DEF CompleteWhenSaid, Progress, PurchaseProgress, SalesProgress, AfterShipment, InPart

LEMMA InitProgress == Init => Progress /\ LinesReserved
<1> SUFFICES ASSUME OrderInit PROVE Progress /\ LinesReserved
  BY DEF Init
<1>1. \A o \in Order : orderState[o] = "none" /\ Untouched(o)
  BY DEF OrderInit, Untouched
<1>2. \A o \in Sales, p \in Product : processed[o][p] = 0 /\ Ordered[o][p] \in Nat
  BY OrderAssumption DEF OrderInit, Order
<1>3. Progress
  BY <1>1, <1>2 DEF Progress, PurchaseProgress, SalesProgress, BeforeReceipt, BeforeShipment, AfterShipment,
                    Order
<1>4. LinesReserved
  BY DEF OrderInit, LinesReserved, NoReservation
<1> QED
  BY <1>3, <1>4

LEMMA LinesReservedStep ==
    ASSUME RowsTyped, LinesReserved, [Next]_vars
    PROVE  LinesReserved'
<1>1. CASE UNCHANGED reservation
  BY <1>1 DEF LinesReserved
<1>2. CASE Reserve
  <2> PICK o \in Sales : \E lines \in AllocationLines(o, Quantities) : Allocate(o, lines)
    BY <1>2 DEF Reserve
  <2> PICK lines \in AllocationLines(o, Quantities) : Allocate(o, lines)
    OBVIOUS
  <2>1. PICK n : reservation' = WithReservations(o, n, lines)
    BY DEF Allocate
  <2>2. ASSUME NEW r \in ReservationId, <<r[3], r[4]>> \in DOMAIN lines
        PROVE  r[3] \in Lines(o)
    BY <2>2, AllocationLineTyped
  <2> QED
    BY <2>1, <2>2 DEF WithReservations, LinesReserved
<1>3. ASSUME NEW S, NEW status, \A r \in S : reservation[r].status = "active",
             reservation' = Ended(S, status)
      PROVE  LinesReserved'
  BY <1>3 DEF Ended, LinesReserved
<1>4. CASE ReleaseAny
  BY <1>3, <1>4 DEF ReleaseAny, Release
<1>5. CASE Ship
  BY <1>3, <1>5 DEF Ship, PostShipment, Shippable
<1>6. CASE UNCHANGED vars
  BY <1>1, <1>6 DEF vars
<1> QED
  BY <1>1, <1>2, <1>4, <1>5, <1>6, ReservationFrame

\* The states of an order that precede each state.
LEMMA Origins ==
    /\ \A s \in DOMAIN PurchaseWorkflow : \A target \in PurchaseWorkflow[s] :
         /\ target \in BeforeReceipt => s \in BeforeReceipt
         /\ target = "partially_received" => s \in {"acknowledged", "partially_received"}
         /\ target = "acknowledged" => s = "sent"
         /\ target \in NotReceivable => s \in NotReceivable
    /\ \A s \in DOMAIN SalesWorkflow : \A target \in SalesWorkflow[s] \cap SalesCommands :
         /\ target \in BeforeShipment => s \in BeforeShipment
         /\ target \in AfterShipment => s \in AfterShipment
         /\ target # "partially_shipped"
BY DEF PurchaseWorkflow, SalesWorkflow, SalesTransitions, SalesCommands, BeforeReceipt,
       BeforeShipment, AfterShipment, NotReceivable

LEMMA CommandedStates ==
    ASSUME OrdersTyped, NEW o \in Order, Commanded(o)
    PROVE  /\ o \in Purchase =>
                /\ orderState'[o] \in BeforeReceipt => orderState[o] \in BeforeReceipt
                /\ orderState'[o] = "partially_received" =>
                     orderState[o] \in {"acknowledged", "partially_received"}
                /\ orderState'[o] = "acknowledged" =>
                     orderState[o] = "sent" /\ TransitionOrder(o, "acknowledged")
                /\ orderState'[o] \in NotReceivable => orderState[o] \in NotReceivable
           /\ o \notin Purchase =>
                /\ orderState'[o] \in BeforeShipment => orderState[o] \in BeforeShipment
                /\ orderState'[o] \in AfterShipment => orderState[o] \in AfterShipment
                /\ orderState'[o] # "partially_shipped"
<1>1. CASE orderState[o] = "none"
  BY <1>1 DEF Commanded, BeforeReceipt, BeforeShipment, AfterShipment, NotReceivable
<1>2. CASE orderState[o] # "none"
  <2>1. /\ orderState[o] \in DOMAIN OrderWorkflow(o)
        /\ orderState'[o] \in OrderWorkflow(o)[orderState[o]] /\ orderState'[o] \in OrderCommands(o)
        /\ TransitionOrder(o, orderState'[o])
    BY <1>2 DEF Commanded, OrdersTyped, StateOf
  <2>2. CASE o \in Purchase
    BY <2>1, <2>2, Origins DEF OrderWorkflow
  <2>3. CASE o \notin Purchase
    BY <2>1, <2>3, Origins DEF OrderWorkflow, OrderCommands
  <2> QED
    BY <2>2, <2>3
<1> QED
  BY <1>1, <1>2

LEMMA PurchaseStep ==
    ASSUME RowsTyped, [Next]_vars, NEW o \in Purchase, PurchaseProgress(o)
    PROVE  PurchaseProgress(o)'
<1>1. OrdersTyped /\ o \in Order /\ o \notin Sales
  BY OrderAssumption DEF RowsTyped, Order
<1>2. OrderRule(o)
  BY <1>1, OrderRules
<1>3. CASE SameOrder(o)
  BY <1>3 DEF SameOrder, PurchaseProgress, Untouched, InPart
<1>4. CASE Commanded(o)
  <2>1. processed'[o] = processed[o]
    BY <1>4 DEF Commanded
  <2>2. Untouched(o) => InPart(o)
    BY <1>1, OrderTyped DEF Untouched, InPart
  <2>3. /\ Untouched(o) => Untouched(o)'
        /\ InPart(o) => InPart(o)'
    BY <2>1 DEF Untouched, InPart
  <2>4. "acknowledged" \in BeforeReceipt
    BY DEF BeforeReceipt
  <2> QED
    BY <1>1, <1>4, <2>2, <2>3, <2>4, CommandedStates DEF PurchaseProgress
<1>5. CASE Received(o)
  <2> PICK tolerance \in Tolerance, lines \in ReceiptLines(o, Quantities) :
             \E t : PostReceipt(o, lines, tolerance, t)
    BY <1>5 DEF Received
  <2> PICK t : PostReceipt(o, lines, tolerance, t)
    OBVIOUS
  <2>1. /\ orderState'[o] = ReceivedTarget(o, lines)
        /\ processed'[o] = [p \in Product |-> IF p \in DOMAIN lines
                              THEN processed[o][p] + Delivered(lines[p]) ELSE processed[o][p]]
    BY <1>1, ReceiptEffect
  <2>2. orderState'[o] \notin BeforeReceipt
    BY <2>1 DEF ReceivedTarget, BeforeReceipt
  <2>3. ASSUME orderState'[o] = "partially_received" PROVE InPart(o)'
    <3>1. PICK p \in Lines(o) :
            ~ (processed[o][p] + (IF p \in DOMAIN lines THEN Delivered(lines[p]) ELSE 0) >= Ordered[o][p])
      BY <2>1, <2>3 DEF ReceivedTarget
    <3>2. p \in Product /\ processed[o][p] \in Nat /\ Ordered[o][p] \in Nat
      BY <1>1, OrderTyped DEF Lines
    <3>3. p \in DOMAIN lines => Delivered(lines[p]) \in Nat
      BY ReceiptLineTyped
    <3>4. processed'[o][p] = processed[o][p] + (IF p \in DOMAIN lines THEN Delivered(lines[p]) ELSE 0)
      BY <2>1, <3>2
    <3>5. processed'[o][p] < Ordered[o][p]
      BY <3>1, <3>2, <3>3, <3>4
    <3> QED
      BY <3>2, <3>5 DEF InPart
  <2> QED
    BY <2>2, <2>3 DEF PurchaseProgress
<1> QED
  BY <1>1, <1>2, <1>3, <1>4, <1>5 DEF OrderRule, Reserved, Shipped

\* A shipment takes of a line what it says, and nothing of what is no line.
LEMMA ShippedLines ==
    ASSUME RowsTyped, LinesReserved, NEW o \in Sales, NEW S \in SUBSET ReservationId,
           PostShipment(o, S), NEW p \in Product
    PROVE  /\ ShippedOf(S, p) \in Nat
           /\ p \notin Lines(o) => ShippedOf(S, p) = 0
           /\ p \in Lines(o) => processed[o][p] + ShippedOf(S, p) <= Ordered[o][p]
<1> DEFINE D == {s \in S : s[3] = p}
<1>1. D \in SUBSET ReservationId
  OBVIOUS
<1>2. ShippedOf(S, p) = Total([r \in D |-> reservation[r].quantity])
  BY DEF ShippedOf
<1>3. p \notin Lines(o) => D = {}
  BY DEF PostShipment, Shippable, LinesReserved
<1>4. p \in Lines(o) => processed[o][p] + ShippedOf(S, p) <= Ordered[o][p]
  BY DEF PostShipment, Shippable
<1> HIDE DEF D
<1>5. /\ ShippedOf(S, p) \in Nat
      /\ ShippedOf(S, p) = Cardinality(UNION {{r} \X (1..reservation[r].quantity) : r \in D})
  BY <1>1, <1>2, ReservationsCounted DEF RowsTyped
<1>6. D = {} => UNION {{r} \X (1..reservation[r].quantity) : r \in D} = {}
  OBVIOUS
<1> QED
  BY <1>3, <1>4, <1>5, <1>6, FS_EmptySet

LEMMA SalesStep ==
    ASSUME RowsTyped, LinesReserved, [Next]_vars, NEW o \in Sales, SalesProgress(o)
    PROVE  SalesProgress(o)'
<1>1. OrdersTyped /\ o \in Order /\ o \notin Purchase
  BY OrderAssumption DEF RowsTyped, Order
<1>2. OrderRule(o)
  BY <1>1, OrderRules
<1>3. CASE SameOrder(o)
  BY <1>3 DEF SameOrder, SalesProgress, Untouched, InPart, InFull
<1>4. CASE Commanded(o)
  <2>1. processed'[o] = processed[o]
    BY <1>4 DEF Commanded
  <2>2. /\ Untouched(o) => Untouched(o)'
        /\ InFull(o) => InFull(o)'
        /\ (\A p \in Product : processed[o][p] <= Ordered[o][p])
             => (\A p \in Product : processed'[o][p] <= Ordered[o][p])
    BY <2>1 DEF Untouched, InFull
  <2> QED
    BY <1>1, <1>4, <2>2, CommandedStates DEF SalesProgress
<1>5. CASE Reserved(o)
  <2>1. /\ processed'[o] = processed[o] /\ orderState[o] \in BeforeShipment
        /\ orderState'[o] \notin AfterShipment /\ orderState'[o] # "partially_shipped"
    BY <1>5 DEF Reserved, BeforeShipment, AfterShipment
  <2> QED
    BY <2>1 DEF SalesProgress, Untouched
<1>6. CASE Shipped(o)
  <2> PICK S \in SUBSET ReservationId : PostShipment(o, S)
    BY <1>6 DEF Shipped
  <2>1. /\ orderState'[o] = ShippedTarget(o, S)
        /\ processed'[o] = [p \in Product |-> processed[o][p] + ShippedOf(S, p)]
    BY <1>1, ShipmentEffect
  <2>2. ASSUME NEW p \in Product
        PROVE  /\ processed'[o][p] = processed[o][p] + ShippedOf(S, p)
               /\ processed'[o][p] \in Nat /\ Ordered[o][p] \in Nat
               /\ processed'[o][p] <= Ordered[o][p]
               /\ p \notin Lines(o) => processed'[o][p] = Ordered[o][p]
    <3>1. processed'[o][p] = processed[o][p] + ShippedOf(S, p)
      BY <2>1
    <3>2. processed[o][p] \in Nat /\ Ordered[o][p] \in Nat /\ processed[o][p] <= Ordered[o][p]
      BY <1>1, OrderTyped DEF SalesProgress
    <3>3. /\ ShippedOf(S, p) \in Nat
          /\ p \notin Lines(o) => ShippedOf(S, p) = 0
          /\ p \in Lines(o) => processed[o][p] + ShippedOf(S, p) <= Ordered[o][p]
      BY ShippedLines
    <3>4. p \notin Lines(o) => Ordered[o][p] = 0
      BY <3>2 DEF Lines
    <3> QED
      BY <3>1, <3>2, <3>3, <3>4
  <2>3. orderState'[o] \notin BeforeShipment
    BY <2>1 DEF ShippedTarget, BeforeShipment
  <2>4. ASSUME orderState'[o] \in AfterShipment PROVE InFull(o)'
    <3>1. \A p \in Lines(o) : processed[o][p] + ShippedOf(S, p) >= Ordered[o][p]
      BY <2>1, <2>4 DEF ShippedTarget, AfterShipment
    <3>2. \A p \in Product : processed'[o][p] = Ordered[o][p]
      BY <2>2, <3>1
    <3> QED
      BY <3>2 DEF InFull
  <2>5. ASSUME orderState'[o] = "partially_shipped" PROVE InPart(o)'
    <3>1. PICK p \in Lines(o) : ~ (processed[o][p] + ShippedOf(S, p) >= Ordered[o][p])
      BY <2>1, <2>5 DEF ShippedTarget
    <3>2. p \in Product
      BY DEF Lines
    <3>3. processed'[o][p] < Ordered[o][p]
      BY <2>2, <3>1, <3>2
    <3> QED
      BY <3>2, <3>3 DEF InPart
  <2> QED
    BY <2>2, <2>3, <2>4, <2>5 DEF SalesProgress
<1> QED
  BY <1>1, <1>2, <1>3, <1>4, <1>5, <1>6 DEF OrderRule, Received

LEMMA ProgressInvariant == Spec => [](Progress /\ LinesReserved)
<1>1. RowsTyped /\ (Progress /\ LinesReserved) /\ [Next]_vars => (Progress /\ LinesReserved)'
  BY LinesReservedStep, PurchaseStep, SalesStep DEF Progress
<1> QED
  BY <1>1, InitProgress, RowsInvariant, PTL DEF Spec

\* A sales order that is shipped, delivered or closed has every line shipped in
\* full, one that is partly shipped has not, and a purchase order that is partly
\* received has a line that is: no mix of receipts, partial shipments, releases
\* and state commands makes the state of an order say otherwise than its lines.
THEOREM StatesAgreeWithLines == Spec => []CompleteWhenSaid
BY RowsInvariant, ProgressInvariant, ProgressSays, PTL

-----------------------------------------------------------------------------
(* Receive tasks. *)

Receivable == {"acknowledged", "partially_received"}

\* A task to receive the order that nobody has completed.
Awaiting(t, o) == IsReceiveTaskOf(t, o) /\ task[t].state # "completed"

\* The tasks that do not exist yet: the first one of an order that cannot be
\* received, and the ones that follow the receipts to come.
TasksToCome ==
    \A o \in Purchase :
        /\ orderState[o] \in NotReceivable => task[ReceiveOrderTask(o)] = NoTask
        /\ \A n \in 1..MaxReceipts : task[FollowUpTask(o, n)] # NoTask => n <= receipts[o].number

LEMMA TagsOfTasks ==
    /\ \A o : ReceiveOrderTask(o)[1] = "receive" /\ PickOrderTask(o)[1] = "pick_order"
    /\ \A o, n : FollowUpTask(o, n)[1] = "follow_up"
    /\ \A o, n, p : PutawayTask(o, n, p)[1] = "putaway"
    /\ \A r : PickTask(r)[1] = "pick" /\ ReturnTask(r)[1] = "return"
    /\ \A m : ManualTaskId(m)[1] = "manual" /\ TransferReceiptTask(m)[1] = "transfer_receipt"
    /\ \A o, x : ReceiveOrderTask(o) = ReceiveOrderTask(x) => o = x
    /\ \A o, x, n, k : FollowUpTask(o, n) = FollowUpTask(x, k) => o = x /\ n = k
BY DEF ReceiveOrderTask, FollowUpTask, PutawayTask, PickOrderTask, PickTask, ReturnTask,
       ManualTaskId, TransferReceiptTask

\* The steps that open the first receive task of an order or one that follows a receipt.
LEMMA OpenedBy ==
    ASSUME RowsTyped, [Next]_vars, NEW t \in TaskId, task[t] = NoTask, task'[t] # NoTask,
           t[1] \in {"receive", "follow_up"}
    PROVE  \/ \E o \in Purchase : t = ReceiveOrderTask(o) /\ TransitionOrder(o, "acknowledged")
           \/ \E o \in Purchase : /\ t = FollowUpTask(o, receipts[o].number + 1)
                                  /\ receipts'[o].number = receipts[o].number + 1
<1>1. task \in [TaskId -> PlainRow \cup PinnedRow \cup {NoTask}] /\ OrdersTyped
  BY DEF RowsTyped, TasksTyped
<1>2. ASSUME NEW rows, task' = WithTasks(rows, task) PROVE t \in DOMAIN rows
  BY <1>2 DEF WithTasks
<1>3. ASSUME NEW u \in TaskId, NEW row, task' = [task EXCEPT ![u] = row] PROVE t = u
  BY <1>1, <1>3
<1>4. CASE UNCHANGED task
  BY <1>4
<1>5. CASE CommandOrder
  <2> PICK o \in Order : \E target : TransitionOrder(o, target)
    BY <1>5 DEF CommandOrder
  <2> PICK target : TransitionOrder(o, target)
    OBVIOUS
  <2>1. t \in DOMAIN TasksForOrder(o, target)
    BY <1>2 DEF TransitionOrder
  <2>2. o \in Purchase /\ target = "acknowledged" /\ t = ReceiveOrderTask(o)
    BY <2>1, TagsOfTasks DEF TasksForOrder
  <2> QED
    BY <2>2
<1>6. CASE Receive \/ ReceiveForTask
  <2> PICK o \in Purchase, tolerance \in Tolerance, u \in TaskId \cup {NoTaskId} :
             \E lines \in ReceiptLines(o, Quantities) : PostReceipt(o, lines, tolerance, u)
    BY <1>6 DEF Receive, ReceiveForTask
  <2> PICK lines \in ReceiptLines(o, Quantities) : PostReceipt(o, lines, tolerance, u)
    OBVIOUS
  <2> DEFINE n == receipts[o].number + 1
             target == ReceivedTarget(o, lines)
             puts == PutawayTasks(o, n, lines)
             follow == FollowUp(o, n, u, target)
             put == WithTasks(puts, task)
             done == IF u = NoTaskId THEN put ELSE Completed(u, put)
  <2>1. task' = WithTasks(follow, done) /\ (u # NoTaskId => task[u] # NoTask)
    BY DEF PostReceipt, FinishReceipt, TaskMayBecome
  <2>2. t \notin DOMAIN puts
    BY TagsOfTasks DEF PutawayTasks
  <2>3. DOMAIN follow \subseteq {FollowUpTask(o, n)}
    BY DEF FollowUp
  <2>4. receipts'[o].number = n
    <3>1. receipts'[o] = WithReceipt(o, lines)
      BY <1>1, ReceiptEffect
    <3> QED
      BY <3>1 DEF WithReceipt
  <2> HIDE DEF n, puts, follow, target
  <2>5. put = [x \in TaskId |-> IF x \in DOMAIN puts /\ task[x] = NoTask THEN puts[x] ELSE task[x]]
    BY DEF WithTasks
  <2>6. put[t] = NoTask
    BY <2>2, <2>5
  <2>7. done[t] = NoTask
    <3> HIDE DEF put
    <3>1. u # t
      BY <2>1, TaskIds
    <3>2. [put EXCEPT ![u] = [@ EXCEPT !.state = "completed"]][t] = NoTask
      BY <2>5, <2>6, <3>1
    <3> QED
      BY <2>6, <3>2 DEF Completed
  <2> HIDE DEF put, done
  <2>8. t \in DOMAIN follow
    BY <2>1, <2>7 DEF WithTasks
  <2>9. t = FollowUpTask(o, n)
    BY <2>3, <2>8
  <2> QED
    BY <2>4, <2>9 DEF n
<1>7. CASE Reserve
  <2> PICK o \in Sales : \E lines : Allocate(o, lines)
    BY <1>7 DEF Reserve
  <2> PICK lines : Allocate(o, lines)
    OBVIOUS
  <2>1. t \in DOMAIN PickTasks(o, Cardinality(AllocationsOf(o)) + 1, lines)
    BY <1>2 DEF Allocate
  <2>2. \E r : t = PickTask(r)
    BY <2>1, Zenon DEF PickTasks
  <2> QED
    BY <2>2, TagsOfTasks
<1>8. CASE CommandReturn
  <2> PICK r, target : TransitionReturn(r, target)
    BY <1>8 DEF CommandReturn
  <2>1. t \in {ReturnTask(r)}
    BY <1>2 DEF TransitionReturn
  <2> QED
    BY <2>1, TagsOfTasks
<1>9. CASE AddTask
  <2> PICK m \in ManualTask : CreateTask(m)
    BY <1>9 DEF AddTask
  <2>1. ManualTaskId(m) \in TaskId
    BY DEF TaskId
  <2> QED
    BY <1>3, <2>1, TagsOfTasks DEF CreateTask
<1>10. CASE CommandTask
  <2> PICK u \in TaskId : \E target : TransitionTask(u, target)
    BY <1>10 DEF CommandTask
  <2> PICK target : TransitionTask(u, target)
    OBVIOUS
  <2> QED
    BY <1>3 DEF TransitionTask, TaskMayBecome
<1>11. CASE Count \/ ReceiveFromTask
  <2> PICK u \in TaskId : TaskMayBecome(u, "completed") /\ task' = Completed(u, task)
    BY <1>11 DEF Count, CompleteCount, ReceiveFromTask, ReceiveTransferTask
  <2> QED
    BY <1>3 DEF Completed, TaskMayBecome
<1>12. CASE ShipFromTask
  <2> PICK u \in TaskId : ShipTransferTask(u)
    BY <1>12 DEF ShipFromTask
  <2> DEFINE rows == ReceiptTaskOf(task[u].ref)
             done == Completed(u, task)
  <2>1. task' = WithTasks(rows, done) /\ task[u] # NoTask
    BY DEF ShipTransferTask, TaskMayBecome
  <2>2. t \notin DOMAIN rows
    BY TagsOfTasks DEF ReceiptTaskOf
  <2>3. done[t] = NoTask
    BY <1>1, <2>1 DEF Completed
  <2> HIDE DEF rows, done
  <2> QED
    BY <2>1, <2>2, <2>3 DEF WithTasks
<1>13. CASE UNCHANGED vars
  BY <1>4, <1>13 DEF vars
<1> QED
  BY <1>4, <1>5, <1>6, <1>7, <1>8, <1>9, <1>10, <1>11, <1>12, <1>13, TaskFrame

LEMMA ReceiptNumbersRise ==
    ASSUME RowsTyped, [Next]_vars, NEW o \in Purchase
    PROVE  receipts[o].number \in Nat /\ receipts'[o].number \in Nat /\ receipts'[o].number >= receipts[o].number
<1>1. o \in Order /\ o \notin Sales /\ OrdersTyped
  BY OrderAssumption DEF Order, RowsTyped
<1>2. receipts[o].number \in Nat
  BY <1>1 DEF OrdersTyped, ReceiptRow
<1>3. CASE receipts'[o] = receipts[o]
  BY <1>2, <1>3
<1>4. CASE Received(o)
  <2> PICK tolerance \in Tolerance, lines \in ReceiptLines(o, Quantities) :
             \E t : PostReceipt(o, lines, tolerance, t)
    BY <1>4 DEF Received
  <2>1. receipts'[o] = WithReceipt(o, lines)
    BY <1>1, ReceiptEffect
  <2> QED
    BY <1>2, <2>1 DEF WithReceipt
<1> QED
  BY <1>1, <1>3, <1>4, OrderRules DEF OrderRule, SameOrder, Commanded, Reserved, Shipped

LEMMA TasksToComeStep ==
    ASSUME RowsTyped, TasksToCome, [Next]_vars
    PROVE  TasksToCome'
<1>1. OrdersTyped /\ TaskRules
  BY TasksStep DEF RowsTyped
<1>2. ASSUME NEW t \in TaskId, task[t] # NoTask PROVE task'[t] # NoTask
  BY <1>1, <1>2, StateOnly DEF RowsTyped, TaskRules, TaskRule, Opened, PinnedNow, Advanced
<1>3. ASSUME NEW o \in Purchase, orderState'[o] \in NotReceivable
      PROVE  task'[ReceiveOrderTask(o)] = NoTask
  <2>1. o \in Order /\ o \notin Sales
    BY OrderAssumption DEF Order
  <2>2. OrderRule(o)
    BY <2>1, OrderRules
  <2>3. ~ Received(o)
    <3> SUFFICES ASSUME Received(o) PROVE FALSE
      OBVIOUS
    <3> PICK tolerance \in Tolerance, lines \in ReceiptLines(o, Quantities) :
               \E t : PostReceipt(o, lines, tolerance, t)
      BY DEF Received
    <3>1. orderState'[o] = ReceivedTarget(o, lines)
      BY <1>1, ReceiptEffect
    <3> QED
      BY <1>3, <3>1 DEF ReceivedTarget, NotReceivable
  <2>4. orderState[o] \in NotReceivable
    BY <1>1, <1>3, <2>1, <2>2, <2>3, CommandedStates DEF OrderRule, SameOrder, Reserved, Shipped
  <2>5. task[ReceiveOrderTask(o)] = NoTask /\ ReceiveOrderTask(o) \in TaskId
    BY <2>4 DEF TasksToCome, TaskId
  <2>6. ~ \E x \in Purchase : ReceiveOrderTask(o) = ReceiveOrderTask(x) /\ TransitionOrder(x, "acknowledged")
    <3> SUFFICES ASSUME TransitionOrder(o, "acknowledged") PROVE FALSE
      BY TagsOfTasks
    <3>1. orderState'[o] = "acknowledged"
      BY <1>1, <2>1 DEF TransitionOrder, OrdersTyped
    <3> QED
      BY <1>3, <3>1 DEF NotReceivable
  <2>7. ReceiveOrderTask(o)[1] = "receive" /\ \A x, n : ReceiveOrderTask(o) # FollowUpTask(x, n)
    BY TagsOfTasks
  <2> QED
    BY <2>5, <2>6, <2>7, OpenedBy
<1>4. ASSUME NEW o \in Purchase, NEW n \in 1..MaxReceipts, task'[FollowUpTask(o, n)] # NoTask
      PROVE  n <= receipts'[o].number
  <2>1. /\ receipts[o].number \in Nat /\ receipts'[o].number \in Nat
        /\ receipts'[o].number >= receipts[o].number
    BY ReceiptNumbersRise
  <2>2. FollowUpTask(o, n) \in TaskId /\ FollowUpTask(o, n)[1] = "follow_up"
    BY TagsOfTasks DEF TaskId
  <2>3. CASE task[FollowUpTask(o, n)] # NoTask
    BY <2>1, <2>3 DEF TasksToCome
  <2>4. CASE task[FollowUpTask(o, n)] = NoTask
    <3>1. \A x : FollowUpTask(o, n) # ReceiveOrderTask(x)
      BY TagsOfTasks
    <3>2. PICK x \in Purchase : /\ FollowUpTask(o, n) = FollowUpTask(x, receipts[x].number + 1)
                                /\ receipts'[x].number = receipts[x].number + 1
      BY <1>4, <2>2, <2>4, <3>1, OpenedBy
    <3>3. x = o /\ n = receipts[x].number + 1
      BY <3>2, TagsOfTasks
    <3> QED
      BY <3>2, <3>3
  <2> QED
    BY <2>3, <2>4
<1> QED
  BY <1>3, <1>4 DEF TasksToCome

\* An open receive task stays one, unless a receipt of its order completes it.
LEMMA AwaitingStays ==
    ASSUME RowsTyped, [Next]_vars, NEW o \in Purchase, NEW t \in TaskId, Awaiting(t, o)
    PROVE  \/ Awaiting(t, o)'
           \/ \E tolerance \in Tolerance : \E lines \in ReceiptLines(o, Quantities) :
                PostReceipt(o, lines, tolerance, t)
<1>1. TaskRule(t) /\ TasksTyped
  BY TasksStep DEF RowsTyped, TaskRules
<1>2. task[t].type = "receive" /\ task[t].ref = o /\ task[t].state # "completed"
  BY DEF Awaiting, IsReceiveTaskOf
<1>3. task[t] # NoTask
  BY <1>2 DEF NoTask
<1>4. CASE task'[t] = task[t]
  BY <1>2, <1>4 DEF Awaiting, IsReceiveTaskOf
<1>5. CASE Advanced(t)
  <2> PICK s \in TaskStates : task'[t] = [task[t] EXCEPT !.state = s] /\ (s = "completed" => Earned(t))
    BY <1>5 DEF Advanced
  <2>1. task'[t].type = "receive" /\ task'[t].ref = o /\ task'[t].state = s
    BY <1>1, <1>2, <1>3, StateOnly
  <2>2. CASE s # "completed"
    BY <2>1, <2>2 DEF Awaiting, IsReceiveTaskOf
  <2>3. CASE s = "completed"
    <3>1. Earned(t)
      BY <2>3
    <3>2. PICK x \in Purchase, tolerance \in Tolerance :
            \E lines \in ReceiptLines(x, Quantities) : PostReceipt(x, lines, tolerance, t)
      BY <1>2, <3>1 DEF Earned
    <3>3. x = o
      BY <1>1, <1>2, <3>2, TaskIds DEF PostReceipt, IsReceiveTaskOf
    <3> QED
      BY <3>2, <3>3
  <2> QED
    BY <2>2, <2>3
<1> QED
  BY <1>1, <1>3, <1>4, <1>5 DEF TaskRule, Opened, PinnedNow

\* A receipt that completes a task and leaves the order open opens the next one.
LEMMA ReceiptFollowed ==
    ASSUME RowsTyped, TasksToCome, NEW o \in Purchase, NEW tolerance,
           NEW lines \in ReceiptLines(o, Quantities), NEW t \in TaskId,
           PostReceipt(o, lines, tolerance, t), ReceivedTarget(o, lines) = "partially_received"
    PROVE  \E u \in TaskId : Awaiting(u, o)'
<1> DEFINE n == receipts[o].number + 1
           target == ReceivedTarget(o, lines)
           puts == PutawayTasks(o, n, lines)
           follow == FollowUp(o, n, t, target)
           put == WithTasks(puts, task)
           done == Completed(t, put)
           u == FollowUpTask(o, n)
<1>1. t # NoTaskId /\ task[t] # NoTask
  BY TaskIds DEF PostReceipt, TaskMayBecome
<1>2. task' = WithTasks(follow, done)
  BY <1>1 DEF PostReceipt, FinishReceipt
<1>3. n \in 1..MaxReceipts /\ n > receipts[o].number
  <2>1. receipts[o].number \in Nat
    BY DEF RowsTyped, OrdersTyped, ReceiptRow
  <2>2. receipts[o].number < MaxReceipts
    BY DEF PostReceipt
  <2> QED
    BY <2>1, <2>2, OrderAssumption
<1>4. u \in TaskId
  BY <1>3 DEF TaskId
<1>5. task[u] = NoTask
  <2>1. receipts[o].number \in Nat
    BY DEF RowsTyped, OrdersTyped, ReceiptRow
  <2> HIDE DEF n
  <2> QED
    BY <1>3, <2>1 DEF TasksToCome
<1>6. u \notin DOMAIN puts
  BY TagsOfTasks DEF PutawayTasks
<1>7. DOMAIN follow = {u} /\ follow[u] = PlainTask("receive", o)
  BY <1>1 DEF FollowUp
<1>8. put = [x \in TaskId |-> IF x \in DOMAIN puts /\ task[x] = NoTask THEN puts[x] ELSE task[x]]
  BY DEF WithTasks
<1> HIDE DEF n, puts, follow, target, u
<1>9. put[u] = NoTask /\ put = [x \in TaskId |-> put[x]]
  BY <1>4, <1>5, <1>6, <1>8
<1> HIDE DEF put
<1>10. done[u] = NoTask
  BY <1>1, <1>4, <1>5, <1>9 DEF Completed
<1> HIDE DEF done
<1>11. task'[u] = PlainTask("receive", o)
  BY <1>2, <1>4, <1>7, <1>10 DEF WithTasks
<1>12. PICK v \in TaskId : task'[v] = PlainTask("receive", o)
  BY <1>4, <1>11
<1>13. Awaiting(v, o)'
  BY <1>12 DEF Awaiting, IsReceiveTaskOf, PlainTask
<1> QED
  BY <1>13

LEMMA AcknowledgedTask ==
    ASSUME TasksTyped, NEW o \in Purchase, task[ReceiveOrderTask(o)] = NoTask,
           TransitionOrder(o, "acknowledged")
    PROVE  \E u \in TaskId : Awaiting(u, o)'
<1> DEFINE u == ReceiveOrderTask(o)
           rows == TasksForOrder(o, "acknowledged")
<1>1. u \in TaskId
  BY DEF TaskId
<1>2. rows = [t \in {u} |-> PlainTask("receive", o)]
  BY DEF TasksForOrder
<1>3. task' = WithTasks(rows, task)
  BY DEF TransitionOrder
<1> HIDE DEF rows, u
<1>4. task'[u] = PlainTask("receive", o)
  BY <1>1, <1>2, <1>3 DEF WithTasks, u
<1>5. Awaiting(u, o)'
  BY <1>4 DEF Awaiting, IsReceiveTaskOf, PlainTask
<1> QED
  BY <1>1, <1>5

LEMMA ReceiveTaskStep ==
    ASSUME RowsTyped, TasksToCome, ReceivableOrderHasTask, [Next]_vars
    PROVE  ReceivableOrderHasTask'
<1> SUFFICES ASSUME NEW o \in Purchase, orderState'[o] \in Receivable
             PROVE  \E t \in TaskId : Awaiting(t, o)'
  BY DEF ReceivableOrderHasTask, Receivable, Awaiting
<1>1. OrdersTyped /\ TasksTyped /\ o \in Order /\ o \notin Sales
  BY OrderAssumption DEF RowsTyped, Order
<1>2. CASE orderState[o] \in Receivable
  <2> PICK t \in TaskId : Awaiting(t, o)
    BY <1>2 DEF ReceivableOrderHasTask, Receivable, Awaiting
  <2>1. ASSUME NEW tolerance \in Tolerance, NEW lines \in ReceiptLines(o, Quantities),
               PostReceipt(o, lines, tolerance, t)
        PROVE  \E u \in TaskId : Awaiting(u, o)'
    <3>1. orderState'[o] = ReceivedTarget(o, lines)
      BY <1>1, <2>1, ReceiptEffect
    <3>2. ReceivedTarget(o, lines) = "partially_received"
      BY <3>1 DEF ReceivedTarget, Receivable
    <3> QED
      BY <2>1, <3>2, ReceiptFollowed
  <2> QED
    BY <2>1, AwaitingStays
<1>3. CASE orderState[o] \notin Receivable
  <2>1. OrderRule(o)
    BY <1>1, OrderRules
  <2>2. ~ Received(o)
    BY <1>3 DEF Received, PostReceipt, Receivable
  <2>3. Commanded(o)
    BY <1>1, <1>3, <2>1, <2>2 DEF OrderRule, SameOrder, Reserved, Shipped
  <2>4. orderState[o] = "sent" /\ TransitionOrder(o, "acknowledged")
    BY <1>1, <1>3, <2>3, CommandedStates DEF Receivable
  <2>5. task[ReceiveOrderTask(o)] = NoTask
    BY <2>4 DEF TasksToCome, NotReceivable
  <2> QED
    BY <1>1, <2>4, <2>5, AcknowledgedTask
<1> QED
  BY <1>2, <1>3

LEMMA InitReceiveTasks == Init => TasksToCome /\ ReceivableOrderHasTask
<1> SUFFICES ASSUME OrderInit PROVE TasksToCome /\ ReceivableOrderHasTask
  BY DEF Init
<1>1. \A t \in TaskId : task[t] = NoTask
  BY DEF OrderInit
<1>2. \A o \in Purchase : ReceiveOrderTask(o) \in TaskId /\ \A n \in 1..MaxReceipts : FollowUpTask(o, n) \in TaskId
  BY DEF TaskId
<1>3. \A o \in Purchase : orderState[o] = "none"
  BY DEF OrderInit, Order
<1> QED
  BY <1>1, <1>2, <1>3 DEF TasksToCome, ReceivableOrderHasTask

\* As long as goods may be received for a purchase order, the warehouse has a task
\* for it that nobody has completed: the first task appears with the supplier's
\* acknowledgement, and each receipt that completes one and leaves the order open
\* adds the next, under an id that no earlier receipt has used.
THEOREM ReceiveTaskKept == Spec => []ReceivableOrderHasTask
<1>1. RowsTyped /\ (TasksToCome /\ ReceivableOrderHasTask) /\ [Next]_vars
        => (TasksToCome /\ ReceivableOrderHasTask)'
  BY TasksToComeStep, ReceiveTaskStep
<1> QED
  BY <1>1, InitReceiveTasks, RowsInvariant, PTL DEF Spec

-----------------------------------------------------------------------------
(* Reserved quantities. *)

\* The reservations of a line of an order, and those at a position.
OfLine(o, p) == {r \in ReservationId : r[1] = o /\ r[3] = p}
AtPlace(x) == {r \in ReservationId : PositionOf(r) = x}

QuantityOf == [r \in ReservationId |-> reservation[r].quantity]

\* What the active ones of a set of reservations hold.
Held(B) == SumOf({r \in B : reservation[r].status = "active"}, QuantityOf)

LEMMA TotalIsSum ==
    ASSUME NEW R, IsFiniteSet(R), NEW q, \A x \in R : q[x] \in Nat, NEW S \in SUBSET R,
           NEW f, f = [x \in S |-> q[x]]
    PROVE  Total(f) = SumOf(S, q) /\ Total(f) \in Nat /\ IsFiniteSet(S)
<1>1. IsFiniteSet(S)
  BY FS_Subset
<1>2. DOMAIN f = S /\ \A x \in S : f[x] = q[x]
  OBVIOUS
<1>3. SumOf(S, f) = SumOf(S, q)
  BY <1>2, SumAgrees
<1>4. Total(f) = SumOf(S, f)
  BY <1>2 DEF Total, SumOf, Units
<1>5. SumOf(S, q) \in Nat
  BY <1>1, SumTyped
<1> QED
  BY <1>1, <1>3, <1>4, <1>5

LEMMA QuantitiesTyped == ReservationsTyped => QuantityOf \in [ReservationId -> Nat]
BY DEF ReservationsTyped, ReservationRow, QuantityOf

HeldSums ==
    /\ \A o \in Sales, p \in Product : ReservedFor(o, p, "active") = Held(OfLine(o, p))
    /\ \A x \in Position :
         Total([r \in {s \in ReservationId : PositionOf(s) = x /\ reservation[s].status = "active"} |->
                  reservation[r].quantity]) = Held(AtPlace(x))
    /\ \A B \in SUBSET ReservationId : Held(B) \in Nat

LEMMA HeldAre == ReservationsTyped => HeldSums
<1> SUFFICES ASSUME ReservationsTyped PROVE HeldSums
  OBVIOUS
<1>1. IsFiniteSet(ReservationId) /\ \A x \in ReservationId : QuantityOf[x] \in Nat
  BY ReservationIdFinite, QuantitiesTyped
<1>2. ASSUME NEW S \in SUBSET ReservationId
      PROVE  /\ Total([r \in S |-> reservation[r].quantity]) = SumOf(S, QuantityOf)
             /\ SumOf(S, QuantityOf) \in Nat
  <2> DEFINE f == [r \in S |-> QuantityOf[r]]
  <2>1. [r \in S |-> reservation[r].quantity] = f
    BY DEF QuantityOf
  <2> HIDE DEF f
  <2>2. Total(f) = SumOf(S, QuantityOf) /\ Total(f) \in Nat
    BY <1>1, TotalIsSum DEF f
  <2> QED
    BY <2>1, <2>2
<1>3. ASSUME NEW o \in Sales, NEW p \in Product PROVE ReservedFor(o, p, "active") = Held(OfLine(o, p))
  <2> DEFINE S == {x \in ReservationId : x[1] = o /\ x[3] = p /\ reservation[x].status = "active"}
  <2>1. S = {r \in OfLine(o, p) : reservation[r].status = "active"}
    BY DEF OfLine
  <2>2. ReservedFor(o, p, "active") = Total([r \in S |-> reservation[r].quantity])
    BY DEF ReservedFor
  <2> HIDE DEF S
  <2>3. S \in SUBSET ReservationId
    BY DEF S
  <2> QED
    BY <1>2, <2>1, <2>2, <2>3 DEF Held
<1>4. ASSUME NEW x \in Position
      PROVE  Total([r \in {s \in ReservationId : PositionOf(s) = x /\ reservation[s].status = "active"} |->
                      reservation[r].quantity]) = Held(AtPlace(x))
  <2> DEFINE S == {s \in ReservationId : PositionOf(s) = x /\ reservation[s].status = "active"}
  <2>1. S = {r \in AtPlace(x) : reservation[r].status = "active"}
    BY DEF AtPlace
  <2> HIDE DEF S
  <2>2. S \in SUBSET ReservationId
    BY DEF S
  <2>3. Total([r \in S |-> reservation[r].quantity]) = Held(AtPlace(x))
    BY <1>2, <2>1, <2>2 DEF Held
  <2> QED
    BY <2>3 DEF S
<1>5. \A B \in SUBSET ReservationId : Held(B) \in Nat
  BY <1>2 DEF Held
<1> QED
  BY <1>3, <1>4, <1>5 DEF HeldSums

LEMMA HeldAreNext == ReservationsTyped' => HeldSums'
BY HeldAre, PTL

\* The allocations of an order are numbered without a gap, so that the number of
\* the next one, which is derived from how many there are, is new.
AllocationsNumbered ==
    \A o \in Sales : \E n \in 0..MaxAllocations : AllocationsOf(o) = 1..n

LEMMA FreshNumber ==
    ASSUME AllocationsNumbered, NEW o \in Sales, Cardinality(AllocationsOf(o)) < MaxAllocations
    PROVE  /\ Cardinality(AllocationsOf(o)) + 1 \in 1..MaxAllocations
           /\ AllocationsOf(o) = 1..Cardinality(AllocationsOf(o))
           /\ \A r \in ReservationId :
                r[1] = o /\ r[2] = Cardinality(AllocationsOf(o)) + 1 => reservation[r] = NoReservation
<1> PICK n \in 0..MaxAllocations : AllocationsOf(o) = 1..n
  BY DEF AllocationsNumbered
<1>1. MaxAllocations \in Nat /\ n \in Nat /\ n \in Int /\ 1 \in Int
  BY OrderAssumption
<1>2. Cardinality(1..n) = n
  BY <1>1, FS_Interval
<1>3. Cardinality(AllocationsOf(o)) = n
  BY <1>2
<1>4. n + 1 \in 1..MaxAllocations /\ n + 1 \notin 1..n
  BY <1>1, <1>3
<1>5. ASSUME NEW r \in ReservationId, r[1] = o, r[2] = n + 1 PROVE reservation[r] = NoReservation
  <2>1. r[2] \notin AllocationsOf(o)
    BY <1>4, <1>5
  <2> QED
    BY <1>5, <2>1 DEF AllocationsOf
<1> QED
  BY <1>3, <1>4, <1>5

\* What an allocation writes: reservations that were not there.
Allocated(o, n, lines) == {r \in ReservationId : r[1] = o /\ r[2] = n /\ <<r[3], r[4]>> \in DOMAIN lines}

AddsReservations(o, n, lines) ==
    /\ \A r \in Allocated(o, n, lines) :
         /\ reservation[r] = NoReservation /\ reservation[r].status = "none"
         /\ reservation'[r].status = "active" /\ reservation'[r].quantity = lines[<<r[3], r[4]>>]
    /\ \A r \in ReservationId \ Allocated(o, n, lines) : reservation'[r] = reservation[r]

LEMMA AllocationEffect ==
    ASSUME RowsTyped, AllocationsNumbered, NEW o \in Sales, NEW lines \in AllocationLines(o, Quantities),
           Allocate(o, lines)
    PROVE  \E n \in 1..MaxAllocations :
             AllocationsOf(o) = 1..(n - 1) /\ AddsReservations(o, n, lines)
<1> DEFINE n == Cardinality(AllocationsOf(o)) + 1
<1>1. /\ Cardinality(AllocationsOf(o)) < MaxAllocations /\ reservation' = WithReservations(o, n, lines)
  BY DEF Allocate
<1>2. /\ n \in 1..MaxAllocations /\ AllocationsOf(o) = 1..Cardinality(AllocationsOf(o))
      /\ \A r \in ReservationId : r[1] = o /\ r[2] = n => reservation[r] = NoReservation
  BY <1>1, FreshNumber
<1>3. Cardinality(AllocationsOf(o)) = n - 1
  BY AllocationsCounted
<1>4. AllocationsOf(o) = 1..(n - 1)
  BY <1>2, <1>3
<1> HIDE DEF n
<1>5. /\ \A r \in Allocated(o, n, lines) :
           /\ reservation[r] = NoReservation
           /\ reservation'[r] = [status |-> "active", quantity |-> lines[<<r[3], r[4]>>]]
      /\ \A r \in ReservationId \ Allocated(o, n, lines) : reservation'[r] = reservation[r]
  BY <1>1, <1>2 DEF WithReservations, Allocated
<1>6. NoReservation.status = "none"
  BY DEF NoReservation
<1>7. ASSUME NEW r \in Allocated(o, n, lines)
      PROVE  /\ reservation[r] = NoReservation /\ reservation[r].status = "none"
             /\ reservation'[r].status = "active" /\ reservation'[r].quantity = lines[<<r[3], r[4]>>]
  <2>1. reservation'[r] = [status |-> "active", quantity |-> lines[<<r[3], r[4]>>]]
    BY <1>5
  <2> QED
    BY <1>5, <1>6, <2>1
<1>8. AddsReservations(o, n, lines)
  BY <1>5, <1>7 DEF AddsReservations
<1> QED
  BY <1>2, <1>4, <1>8

LEMMA AllocatedSums ==
    ASSUME RowsTyped, ReservationsTyped', NEW S \in SUBSET ReservationId,
           \A r \in S : reservation[r].status # "active" /\ reservation'[r].status = "active",
           \A r \in ReservationId \ S : reservation'[r] = reservation[r],
           NEW B \in SUBSET ReservationId
    PROVE  Held(B)' = Held(B) + SumOf(S \cap B, QuantityOf')
<1> DEFINE A == {r \in B : reservation[r].status = "active"}
           N == (S \cap B)
           q == QuantityOf
           k == QuantityOf'
<1>1. {r \in B : reservation'[r].status = "active"} = A \cup N
  OBVIOUS
<1>2. A \cap N = {}
  OBVIOUS
<1>3. q \in [ReservationId -> Nat] /\ k \in [ReservationId -> Nat] /\ \A r \in A : q[r] = k[r]
  <2>1. ReservationsTyped
    BY DEF RowsTyped
  <2>2. q \in [ReservationId -> Nat] /\ k \in [ReservationId -> Nat]
    BY <2>1 DEF QuantityOf, ReservationsTyped, ReservationRow
  <2>3. \A r \in A : q[r] = k[r]
    BY DEF QuantityOf
  <2> QED
    BY <2>2, <2>3
<1>4. IsFiniteSet(A) /\ IsFiniteSet(N) /\ A \subseteq ReservationId /\ N \subseteq ReservationId
  BY ReservationIdFinite, FS_Subset
<1>5. Held(B) = SumOf(A, q)
  BY DEF Held
<1>6. Held(B)' = SumOf(A \cup N, k)
  BY <1>1 DEF Held
<1> HIDE DEF A, N, q, k
<1>7. SumOf(A, q) = SumOf(A, k)
  BY <1>3, SumAgrees
<1>8. SumOf(A \cup N, k) = SumOf(A, k) + SumOf(N, k)
  <2>1. \A r \in A \cup N : k[r] \in Nat
    BY <1>3, <1>4
  <2> QED
    BY <1>2, <1>4, <2>1, SumSplit
<1>9. Held(B)' = Held(B) + SumOf(N, k)
  BY <1>5, <1>6, <1>7, <1>8
<1> QED
  BY <1>9 DEF N, k

LEMMA EndedSums ==
    ASSUME RowsTyped, NEW S \in SUBSET ReservationId, NEW status \in {"released", "consumed"},
           \A r \in S : reservation[r].status = "active", reservation' = Ended(S, status),
           NEW B \in SUBSET ReservationId
    PROVE  /\ Held(B) = Held(B)' + SumOf(S \cap B, QuantityOf)
           /\ SumOf(S \cap B, QuantityOf) \in Nat
           /\ Held(B)' \in Nat /\ Held(B) \in Nat
<1> DEFINE A == {r \in B : reservation[r].status = "active"}
           N == (S \cap B)
           q == QuantityOf
           k == QuantityOf'
<1>1. {r \in B : reservation'[r].status = "active"} = A \ N
  BY DEF Ended
<1>2. N \in SUBSET A /\ A \subseteq ReservationId
  OBVIOUS
<1>3. q \in [ReservationId -> Nat] /\ q = k
  <2>1. ReservationsTyped
    BY DEF RowsTyped
  <2> QED
    BY <2>1 DEF QuantityOf, ReservationsTyped, ReservationRow, Ended
<1>4. Held(B) = SumOf(A, q)
  BY DEF Held
<1>5. Held(B)' = SumOf(A \ N, k)
  BY <1>1 DEF Held
<1> HIDE DEF A, N, q, k
<1>6. IsFiniteSet(A)
  BY <1>2, ReservationIdFinite, FS_Subset
<1>7. \A r \in A : q[r] \in Nat
  BY <1>2, <1>3
<1>8. /\ SumOf(A, q) = SumOf(N, q) + SumOf(A \ N, q)
      /\ SumOf(N, q) \in Nat /\ SumOf(A \ N, q) \in Nat
  BY <1>2, <1>6, <1>7, SumOfSome
<1>9. /\ Held(B) = Held(B)' + SumOf(N, q) /\ SumOf(N, q) \in Nat
      /\ Held(B)' \in Nat /\ Held(B) \in Nat
  BY <1>3, <1>4, <1>5, <1>8
<1> QED
  BY <1>9 DEF N, q

LEMMA NumberedStep ==
    ASSUME RowsTyped, AllocationsNumbered, [Next]_vars
    PROVE  AllocationsNumbered'
<1>1. CASE UNCHANGED reservation
  BY <1>1 DEF AllocationsNumbered, AllocationsOf
<1>2. ASSUME NEW S \in SUBSET ReservationId, NEW status \in {"released", "consumed"},
             \A r \in S : reservation[r].status = "active", reservation' = Ended(S, status)
      PROVE  AllocationsNumbered'
  <2>1. \A r \in ReservationId : reservation'[r] # NoReservation <=> reservation[r] # NoReservation
    BY <1>2 DEF Ended, NoReservation
  <2>2. \A o : AllocationsOf(o)' = AllocationsOf(o)
    BY <2>1 DEF AllocationsOf
  <2> QED
    BY <2>2 DEF AllocationsNumbered
<1>3. CASE ReleaseAny
  BY <1>2, <1>3 DEF ReleaseAny, Release
<1>4. CASE Ship
  BY <1>2, <1>4 DEF Ship, PostShipment, Shippable
<1>5. CASE Reserve
  <2> PICK o \in Sales : \E lines \in AllocationLines(o, Quantities) : Allocate(o, lines)
    BY <1>5 DEF Reserve
  <2> PICK lines \in AllocationLines(o, Quantities) : Allocate(o, lines)
    OBVIOUS
  <2> PICK n \in 1..MaxAllocations : AllocationsOf(o) = 1..(n - 1) /\ AddsReservations(o, n, lines)
    BY AllocationEffect
  <2>1. PICK l \in DOMAIN lines : <<o, n, l[1], l[2]>> \in Allocated(o, n, lines)
    <3>1. PICK l \in DOMAIN lines : TRUE
      BY AllocationLineTyped
    <3>2. l \in Lines(o) \X Bin /\ l = <<l[1], l[2]>> /\ l[1] \in Product /\ l[2] \in Bin
      BY AllocationLineTyped
    <3>3. <<o, n, l[1], l[2]>> \in ReservationId
      BY <3>2 DEF ReservationId
    <3> QED
      BY <3>2, <3>3 DEF Allocated
  <2>2. \A r \in Allocated(o, n, lines) : reservation'[r] # NoReservation /\ r[1] = o /\ r[2] = n
    <3>1. NoReservation.status = "none"
      BY DEF NoReservation
    <3> QED
      BY <3>1 DEF AddsReservations, Allocated
  <2>3. ASSUME NEW x \in Sales, x # o PROVE AllocationsOf(x)' = AllocationsOf(x)
    <3>1. \A r \in ReservationId : r[1] = x => reservation'[r] = reservation[r]
      BY <2>3 DEF Allocated, AddsReservations
    <3> QED
      BY <3>1 DEF AllocationsOf
  <2>4. AllocationsOf(o)' = 1..n
    <3>1. AllocationsOf(o)' = AllocationsOf(o) \cup {n}
      <4>1. ASSUME NEW i \in AllocationsOf(o)' PROVE i \in AllocationsOf(o) \cup {n}
        <5> PICK r \in ReservationId : r[1] = o /\ reservation'[r] # NoReservation /\ i = r[2]
          BY DEF AllocationsOf
        <5>1. CASE r \in Allocated(o, n, lines)
          BY <5>1, <2>2
        <5>2. CASE r \notin Allocated(o, n, lines)
          BY <5>2 DEF AllocationsOf, AddsReservations
        <5> QED
          BY <5>1, <5>2
      <4>2. ASSUME NEW i \in AllocationsOf(o) PROVE i \in AllocationsOf(o)'
        <5> PICK r \in ReservationId : r[1] = o /\ reservation[r] # NoReservation /\ i = r[2]
          BY DEF AllocationsOf
        <5>1. reservation'[r] # NoReservation
          BY DEF AddsReservations
        <5> QED
          BY <5>1 DEF AllocationsOf
      <4>3. n \in AllocationsOf(o)'
        <5> DEFINE r == <<o, n, l[1], l[2]>>
        <5>1. r \in ReservationId /\ r[1] = o /\ r[2] = n
          BY <2>1 DEF Allocated
        <5>2. reservation'[r] # NoReservation
          BY <2>1, <2>2
        <5> HIDE DEF r
        <5> QED
          BY <5>1, <5>2 DEF AllocationsOf
      <4> QED
        BY <4>1, <4>2, <4>3
    <3>2. (1..(n - 1)) \cup {n} = 1..n
      OBVIOUS
    <3> QED
      BY <3>1, <3>2
  <2>5. n \in 0..MaxAllocations
    OBVIOUS
  <2>6. ASSUME NEW x \in Sales PROVE \E i \in 0..MaxAllocations : AllocationsOf(x)' = 1..i
    <3>1. CASE x = o
      BY <2>4, <2>5, <3>1
    <3>2. CASE x # o
      BY <2>3, <3>2 DEF AllocationsNumbered
    <3> QED
      BY <3>1, <3>2
  <2> QED
    BY <2>6 DEF AllocationsNumbered
<1>6. CASE UNCHANGED vars
  BY <1>1, <1>6 DEF vars
<1> QED
  BY <1>1, <1>3, <1>4, <1>5, <1>6, ReservationFrame

\* What an allocation adds to a line of its order, and to a position.
RequestedIs(o, n, lines, q, p) ==
    /\ SumOf(Allocated(o, n, lines) \cap OfLine(o, p), q) = RequestedOf(p, lines)
    /\ RequestedOf(p, lines) \in Nat
    /\ p \notin Lines(o) => RequestedOf(p, lines) = 0

ClaimedIs(o, n, lines, q, x) ==
    SumOf(Allocated(o, n, lines) \cap AtPlace(x), q) = Claims(lines)[x]

LEMMA AllocationSums ==
    ASSUME NEW o \in Sales, NEW lines \in AllocationLines(o, Quantities), NEW n \in 1..MaxAllocations,
           NEW q, \A r \in Allocated(o, n, lines) : q[r] = lines[<<r[3], r[4]>>]
    PROVE  /\ \A p \in Product : RequestedIs(o, n, lines, q, p)
           /\ \A x \in Position : ClaimedIs(o, n, lines, q, x)
<1>1. /\ DOMAIN lines \subseteq Lines(o) \X Bin /\ Lines(o) \subseteq Product
      /\ \A l \in DOMAIN lines : lines[l] \in Nat \ {0}
  BY AllocationLineTyped
<1>2. IsFiniteSet(DOMAIN lines) /\ IsFiniteSet(Allocated(o, n, lines))
  <2>1. IsFiniteSet(Product \X Bin)
    BY OrderAssumption, FS_Product
  <2>2. DOMAIN lines \subseteq Product \X Bin
    BY <1>1
  <2>3. Allocated(o, n, lines) \subseteq ReservationId
    BY DEF Allocated
  <2> QED
    BY <2>1, <2>2, <2>3, ReservationIdFinite, FS_Subset
<1>3. ASSUME NEW l \in DOMAIN lines
      PROVE  /\ <<o, n, l[1], l[2]>> \in Allocated(o, n, lines)
             /\ l = <<l[1], l[2]>> /\ l[1] \in Lines(o)
  <2>1. l = <<l[1], l[2]>> /\ l[1] \in Lines(o) /\ l[1] \in Product /\ l[2] \in Bin
    BY <1>1
  <2>2. <<o, n, l[1], l[2]>> \in ReservationId
    BY <2>1 DEF ReservationId
  <2> QED
    BY <2>1, <2>2 DEF Allocated
<1>4. ASSUME NEW r \in Allocated(o, n, lines)
      PROVE  /\ <<r[3], r[4]>> \in DOMAIN lines /\ r \in ReservationId
             /\ r = <<o, n, r[3], r[4]>> /\ q[r] = lines[<<r[3], r[4]>>] /\ q[r] \in Nat
  BY <1>1, Elements DEF Allocated
<1>5. ASSUME NEW p \in Product
      PROVE  /\ SumOf(Allocated(o, n, lines) \cap OfLine(o, p), q) = RequestedOf(p, lines)
             /\ RequestedOf(p, lines) \in Nat
             /\ p \notin Lines(o) => RequestedOf(p, lines) = 0
  <2> DEFINE N == Allocated(o, n, lines) \cap OfLine(o, p)
             L == {x \in DOMAIN lines : x[1] = p}
             k == [r \in N |-> <<r[3], r[4]>>]
             f == [l \in L |-> lines[l]]
  <2>1. ASSUME NEW r \in N PROVE k[r] \in L /\ r = <<o, n, k[r][1], k[r][2]>> /\ q[r] = lines[k[r]] /\ q[r] \in Nat
    <3>1. k[r] = <<r[3], r[4]>> /\ r[3] = p
      BY DEF OfLine
    <3> QED
      BY <1>4, <3>1
  <2>2. ASSUME NEW l \in L PROVE \E r \in N : k[r] = l
    <3> DEFINE r == <<o, n, l[1], l[2]>>
    <3>1. r \in Allocated(o, n, lines) /\ r[1] = o /\ r[3] = p /\ <<r[3], r[4]>> = l
      BY <1>3
    <3>2. r \in N
      BY <1>4, <3>1 DEF OfLine
    <3> QED
      BY <3>1, <3>2
  <2>3. k \in [N -> L]
    BY <2>1
  <2>4. IsFiniteSet(N) /\ L \in SUBSET DOMAIN lines
    BY <1>2, FS_Subset
  <2>5. RequestedOf(p, lines) = Total(f)
    BY DEF RequestedOf
  <2>6. p \notin Lines(o) => L = {}
    BY <1>3
  <2> HIDE DEF k, N, L, f
  <2>7. k \in Bijection(N, L)
    BY <2>1, <2>2, <2>3 DEF Bijection, Injection, Surjection, IsInjective
  <2>8. \A r \in N : q[r] = lines[k[r]] /\ q[r] \in Nat
    BY <2>1
  <2>9. SumOf(N, q) = SumOf(L, lines)
    BY <2>4, <2>7, <2>8, SumMapped
  <2>10. \A l \in DOMAIN lines : lines[l] \in Nat
    BY <1>1
  <2>11. Total(f) = SumOf(L, lines) /\ Total(f) \in Nat
    BY <1>2, <2>4, <2>10, TotalIsSum DEF f
  <2>12. L = {} => SumOf(L, lines) = 0
    BY SumOfNothing
  <2> QED
    BY <2>5, <2>6, <2>9, <2>11, <2>12 DEF N
<1>6. ASSUME NEW x \in Position
      PROVE  SumOf(Allocated(o, n, lines) \cap AtPlace(x), q) = Claims(lines)[x]
  <2> DEFINE N == Allocated(o, n, lines) \cap AtPlace(x)
             l == <<x[1], x[2]>>
             u == <<o, n, x[1], x[2]>>
  <2>1. ASSUME NEW r \in N PROVE x[3] = "sellable" /\ l \in DOMAIN lines /\ r = u
    <3>1. x = <<r[3], r[4], "sellable">>
      BY DEF AtPlace, PositionOf
    <3> QED
      BY <1>4, <3>1
  <2>2. ASSUME x[3] = "sellable", l \in DOMAIN lines PROVE u \in N
    <3>1. u \in Allocated(o, n, lines) /\ u[3] = x[1] /\ u[4] = x[2]
      BY <1>3, <2>2
    <3>2. PositionOf(u) = x
      BY <2>2, <3>1, Elements DEF PositionOf
    <3> QED
      BY <1>4, <3>1, <3>2 DEF AtPlace
  <2>3. Claims(lines)[x] = IF x[3] = "sellable" /\ l \in DOMAIN lines THEN lines[l] ELSE 0
    BY DEF Claims
  <2>4. u \in N => q[u] = lines[l] /\ q[u] \in Nat
    BY <1>4
  <2> HIDE DEF N, l, u
  <2>5. CASE x[3] = "sellable" /\ l \in DOMAIN lines
    <3>1. N = {u} /\ u \in N
      BY <2>1, <2>2, <2>5
    <3>2. SumOf({u}, q) = q[u]
      BY <2>4, <3>1, SumOfOne
    <3>3. SumOf(N, q) = Claims(lines)[x]
      BY <2>3, <2>4, <2>5, <3>1, <3>2
    <3> QED
      BY <3>3 DEF N
  <2>6. CASE ~ (x[3] = "sellable" /\ l \in DOMAIN lines)
    <3>1. N = {}
      BY <2>1, <2>6
    <3>2. SumOf(N, q) = 0
      BY <3>1, SumOfNothing
    <3> QED
      BY <2>3, <2>6, <3>2 DEF N
  <2> QED
    BY <2>5, <2>6
<1> QED
  BY <1>5, <1>6 DEF RequestedIs, ClaimedIs

LEMMA EndedReservations ==
    ASSUME RowsTyped
    PROVE  /\ \A r \in ReservationId : Release(r) =>
                /\ {r} \in SUBSET ReservationId
                /\ \A s \in {r} : reservation[s].status = "active"
                /\ reservation' = Ended({r}, "released")
           /\ \A o \in Sales, S \in SUBSET ReservationId : PostShipment(o, S) =>
                /\ \A s \in S : reservation[s].status = "active" /\ s[1] = o
                /\ reservation' = Ended(S, "consumed")
BY DEF Release, PostShipment, Shippable

LEMMA CommitmentStep ==
    ASSUME RowsTyped, RowsTyped', Progress, AllocationsNumbered, NoOverCommitment, [Next]_vars
    PROVE  NoOverCommitment'
<1> SUFFICES ASSUME NEW o \in Sales, NEW p \in Product
             PROVE  ReservedFor(o, p, "active")' + processed'[o][p] <= Ordered[o][p]
  BY DEF NoOverCommitment
<1> DEFINE B == OfLine(o, p)
<1>1. OrdersTyped /\ ReservationsTyped /\ ReservationsTyped' /\ o \in Order /\ o \notin Purchase
  BY OrderAssumption DEF RowsTyped, Order
<1>2. /\ B \in SUBSET ReservationId
      /\ ReservedFor(o, p, "active") = Held(B) /\ ReservedFor(o, p, "active")' = Held(B)'
      /\ Held(B) \in Nat /\ Held(B)' \in Nat
  <2>1. B \in SUBSET ReservationId
    BY DEF OfLine
  <2> QED
    BY <1>1, <2>1, HeldAre, HeldAreNext DEF HeldSums
<1>3. /\ Held(B) + processed[o][p] <= Ordered[o][p]
      /\ processed[o][p] \in Nat /\ Ordered[o][p] \in Nat
  BY <1>1, <1>2, OrderTyped DEF NoOverCommitment
<1> HIDE DEF B
<1>4. ASSUME processed'[o][p] = processed[o][p], Held(B)' <= Held(B)
      PROVE  Held(B)' + processed'[o][p] <= Ordered[o][p]
  BY <1>2, <1>3, <1>4
<1>5. CASE UNCHANGED reservation
  <2>1. Held(B)' = Held(B)
    BY <1>5 DEF Held, QuantityOf, B, OfLine
  <2>2. ASSUME NEW S \in SUBSET ReservationId, PostShipment(o, S)
        PROVE  processed'[o][p] = processed[o][p]
    <3>1. S = {}
      <4> SUFFICES ASSUME NEW r \in S PROVE FALSE
        OBVIOUS
      <4>1. reservation[r].status = "active" /\ reservation'[r].status = "consumed"
        BY <2>2 DEF PostShipment, Shippable, Ended
      <4> QED
        BY <1>5, <4>1
    <3>2. ShippedOf(S, p) = 0
      <4> DEFINE f == [r \in {s \in S : s[3] = p} |-> reservation[r].quantity]
      <4>1. DOMAIN f = {}
        BY <3>1
      <4> HIDE DEF f
      <4>2. Total(f) = 0
        BY <4>1, FS_EmptySet DEF Total
      <4> QED
        BY <4>2 DEF ShippedOf, f
    <3>3. processed'[o] = [x \in Product |-> processed[o][x] + ShippedOf(S, x)]
      BY <1>1, <2>2, ShipmentEffect
    <3> QED
      BY <1>3, <3>2, <3>3
  <2>3. processed'[o][p] = processed[o][p]
    BY <1>1, <2>2, OrderRules DEF OrderRule, SameOrder, Commanded, Reserved, Received, Shipped
  <2> QED
    BY <1>2, <1>4, <2>1, <2>3
<1>6. CASE Reserve
  <2> PICK x \in Sales : \E lines \in AllocationLines(x, Quantities) : Allocate(x, lines)
    BY <1>6 DEF Reserve
  <2> PICK lines \in AllocationLines(x, Quantities) : Allocate(x, lines)
    OBVIOUS
  <2> PICK n \in 1..MaxAllocations : AddsReservations(x, n, lines)
    BY AllocationEffect
  <2> DEFINE S == Allocated(x, n, lines)
             q == QuantityOf'
  <2>1. /\ S \in SUBSET ReservationId
        /\ \A r \in S : /\ reservation[r].status # "active" /\ reservation'[r].status = "active"
                        /\ q[r] = lines[<<r[3], r[4]>>]
        /\ \A r \in ReservationId \ S : reservation'[r] = reservation[r]
    BY DEF Allocated, AddsReservations, QuantityOf
  <2>2. processed'[o][p] = processed[o][p]
    BY DEF Allocate
  <2> HIDE DEF S, q
  <2>3. Held(B)' = Held(B) + SumOf(S \cap B, q)
    BY <1>1, <1>2, <2>1, AllocatedSums DEF q
  <2>4. CASE x = o
    <3>1. /\ SumOf(S \cap B, q) = RequestedOf(p, lines)
          /\ RequestedOf(p, lines) \in Nat
          /\ p \notin Lines(o) => RequestedOf(p, lines) = 0
      <4>1. (S \cap B) = Allocated(x, n, lines) \cap OfLine(x, p)
        BY <2>4 DEF S, B
      <4>2. \A r \in Allocated(x, n, lines) : q[r] = lines[<<r[3], r[4]>>]
        BY <2>1 DEF S
      <4>3. RequestedIs(x, n, lines, q, p)
        BY <4>2, AllocationSums
      <4> QED
        BY <2>4, <4>1, <4>3 DEF RequestedIs
    <3>2. processed[o][p] = 0
      BY <2>4 DEF Allocate, Progress, SalesProgress, BeforeShipment, Untouched
    <3>3. p \in Lines(o) /\ RequestedOf(p, lines) > 0 => Requested(o, p, lines) <= Ordered[o][p]
      BY <2>4 DEF Allocate
    <3>4. Requested(o, p, lines) = Held(B) + RequestedOf(p, lines)
      BY <1>2 DEF Requested
    <3> QED
      BY <1>2, <1>3, <2>2, <2>3, <3>1, <3>2, <3>3, <3>4
  <2>5. CASE x # o
    <3>1. (S \cap B) = {}
      BY <2>5 DEF S, B, Allocated, OfLine
    <3>2. SumOf(S \cap B, q) = 0
      BY <3>1, SumOfNothing
    <3> QED
      BY <1>2, <1>3, <2>2, <2>3, <3>2
  <2> QED
    BY <2>4, <2>5
<1>7. CASE ReleaseAny
  <2> PICK r \in ReservationId : Release(r)
    BY <1>7 DEF ReleaseAny
  <2>1. /\ Held(B) = Held(B)' + SumOf({r} \cap B, QuantityOf)
        /\ SumOf({r} \cap B, QuantityOf) \in Nat
    BY <1>2, EndedReservations, EndedSums
  <2>2. processed'[o][p] = processed[o][p]
    BY DEF Release, orderVars
  <2> QED
    BY <1>2, <1>4, <2>1, <2>2
<1>8. CASE Ship
  <2> PICK x \in Sales, S \in SUBSET ReservationId : PostShipment(x, S)
    BY <1>8 DEF Ship
  <2> DEFINE m == SumOf(S \cap B, QuantityOf)
  <2>1. Held(B) = Held(B)' + m /\ m \in Nat
    BY <1>2, EndedReservations, EndedSums
  <2>2. CASE x # o
    <3>1. processed'[o] = processed[o]
      BY <1>1, <2>2, ShipmentEffect DEF SameOrder
    <3> HIDE DEF m
    <3> QED
      BY <1>2, <1>4, <2>1, <3>1
  <2>3. CASE x = o
    <3>1. processed'[o] = [y \in Product |-> processed[o][y] + ShippedOf(S, y)]
      BY <1>1, <2>3, ShipmentEffect
    <3>2. ShippedOf(S, p) = m
      <4> DEFINE N == {s \in S : s[3] = p}
                 f == [r \in N |-> QuantityOf[r]]
      <4>1. N = (S \cap B) /\ N \in SUBSET ReservationId
        BY <2>3, EndedReservations DEF B, OfLine
      <4>2. ShippedOf(S, p) = Total(f)
        BY DEF ShippedOf, QuantityOf
      <4>3. \A r \in ReservationId : QuantityOf[r] \in Nat
        BY <1>1, QuantitiesTyped
      <4> HIDE DEF N, f
      <4>4. Total(f) = SumOf(N, QuantityOf)
        BY <4>1, <4>3, ReservationIdFinite, TotalIsSum DEF f
      <4> QED
        BY <4>1, <4>2, <4>4
    <3>3. processed'[o][p] = processed[o][p] + m
      BY <3>1, <3>2
    <3> HIDE DEF m
    <3> QED
      BY <1>2, <1>3, <2>1, <3>3
  <2> QED
    BY <2>2, <2>3
<1>9. CASE UNCHANGED vars
  BY <1>5, <1>9 DEF vars
<1> QED
  BY <1>2, <1>5, <1>6, <1>7, <1>8, <1>9, ReservationFrame

LEMMA InitReserved == Init => AllocationsNumbered /\ NoOverCommitment
<1> SUFFICES ASSUME OrderInit PROVE AllocationsNumbered /\ NoOverCommitment
  BY DEF Init
<1>1. \A r \in ReservationId : reservation[r] = NoReservation /\ reservation[r].status # "active"
  BY DEF OrderInit, NoReservation
<1>2. AllocationsNumbered
  <2>1. \A o : AllocationsOf(o) = {}
    BY <1>1 DEF AllocationsOf
  <2>2. 1..0 = {} /\ 0 \in 0..MaxAllocations
    BY OrderAssumption
  <2> QED
    BY <2>1, <2>2 DEF AllocationsNumbered
<1>3. ASSUME NEW o \in Sales, NEW p \in Product
      PROVE  ReservedFor(o, p, "active") + processed[o][p] <= Ordered[o][p]
  <2> DEFINE f == [r \in {x \in ReservationId : /\ x[1] = o /\ x[3] = p
                                               /\ reservation[x].status = "active"}
                     |-> reservation[r].quantity]
  <2>1. DOMAIN f = {}
    BY <1>1
  <2>2. ReservedFor(o, p, "active") = Total(f)
    BY DEF ReservedFor
  <2> HIDE DEF f
  <2>3. Total(f) = 0
    BY <2>1, FS_EmptySet DEF Total
  <2>4. processed[o][p] = 0 /\ Ordered[o][p] \in Nat
    BY OrderAssumption DEF OrderInit, Order
  <2> QED
    BY <2>2, <2>3, <2>4
<1> QED
  BY <1>2, <1>3 DEF NoOverCommitment

\* What the clients have reserved for a line and what they have shipped of it
\* never exceed what was ordered, however often the line is allocated, released
\* and shipped in part: allocate_sales_order compares the ordered quantity with
\* the active reservations alone, and that is enough because an order from which
\* something was shipped takes no allocation any more.
THEOREM OrderNotOverCommitted == Spec => []NoOverCommitment
<1>1. Init => AllocationsNumbered /\ NoOverCommitment
  BY InitReserved
<1>2. /\ RowsTyped /\ RowsTyped' /\ Progress
      /\ AllocationsNumbered /\ NoOverCommitment /\ [Next]_vars
      => (AllocationsNumbered /\ NoOverCommitment)'
  BY NumberedStep, CommitmentStep
<1> QED
  BY <1>1, <1>2, RowsInvariant, ProgressInvariant, PTL DEF Spec

-----------------------------------------------------------------------------
(* Returns: what a step does to one of them. *)

Refused == {"rejected", "cancelled"}

\* An authorization moves along its lifecycle; its order and lines stay, and it
\* takes the goods back once.
ReturnAdvanced(r) ==
    /\ rma[r] # NoReturn /\ rma[r].state \notin Refused
    /\ rma'[r] # NoReturn
    /\ rma'[r].order = rma[r].order /\ rma'[r].lines = rma[r].lines
    /\ \A x \in Return : x # r => rma'[x] = rma[x]

ReturnOpened(r, o, lines) ==
    /\ rma[r] = NoReturn
    /\ rma'[r] = [state |-> "requested", order |-> o, lines |-> lines, received |-> FALSE]
    /\ rma'[r] # NoReturn
    /\ \A x \in Return : x # r => rma'[x] = rma[x]

LEMMA ReturnRules ==
    ASSUME RowsTyped, NEW r \in Return
    PROVE  /\ \A o \in Sales : \A lines \in ReturnLines(o, Quantities) :
                CreateReturn(r, o, lines) => ReturnOpened(r, o, lines)
           /\ \A target \in ReturnCommands : TransitionReturn(r, target) =>
                ReturnAdvanced(r) /\ rma'[r].received = rma[r].received /\ rma'[r].state = target
           /\ \A bins : ReceiveReturn(r, bins) =>
                ReturnAdvanced(r) /\ rma'[r].received = TRUE /\ rma'[r].state = "received"
<1>1. /\ ReturnsTyped /\ NoReturn.state = "none" /\ DOMAIN NoReturn = {"state"}
      /\ rma = [x \in Return |-> rma[x]]
  BY DEF RowsTyped, ReturnsTyped, NoReturn
<1>2. ASSUME NEW target, NEW received, rma[r] # NoReturn,
             rma' = [rma EXCEPT ![r] = [state |-> target, order |-> rma[r].order,
                                        lines |-> rma[r].lines, received |-> received]]
      PROVE  /\ rma'[r] # NoReturn
             /\ rma'[r].order = rma[r].order /\ rma'[r].lines = rma[r].lines
             /\ rma'[r].state = target /\ rma'[r].received = received
             /\ \A x \in Return : x # r => rma'[x] = rma[x]
  <2> DEFINE row == [state |-> target, order |-> rma[r].order, lines |-> rma[r].lines,
                     received |-> received]
  <2>1. /\ rma'[r] = row
        /\ \A x \in Return : x # r => rma'[x] = rma[x]
    BY <1>1, <1>2
  <2>2. /\ row.state = target /\ row.received = received
        /\ row.order = rma[r].order /\ row.lines = rma[r].lines
        /\ "order" \in DOMAIN row
    OBVIOUS
  <2> HIDE DEF row
  <2> QED
    BY <1>1, <2>1, <2>2
<1>3. ASSUME NEW o \in Sales, NEW lines \in ReturnLines(o, Quantities), CreateReturn(r, o, lines)
      PROVE  ReturnOpened(r, o, lines)
  <2> DEFINE row == [state |-> "requested", order |-> o, lines |-> lines, received |-> FALSE]
  <2>1. /\ rma[r] = NoReturn /\ rma'[r] = row
        /\ \A x \in Return : x # r => rma'[x] = rma[x]
    BY <1>1, <1>3 DEF CreateReturn
  <2>2. row.state = "requested"
    OBVIOUS
  <2> HIDE DEF row
  <2>3. rma'[r] # NoReturn
    BY <1>1, <2>1, <2>2
  <2> QED
    BY <2>1, <2>3 DEF ReturnOpened, row
<1>4. ASSUME NEW target \in ReturnCommands, TransitionReturn(r, target)
      PROVE  ReturnAdvanced(r) /\ rma'[r].received = rma[r].received /\ rma'[r].state = target
  <2>1. rma[r] # NoReturn /\ rma[r].state \notin Refused
    BY <1>4 DEF TransitionReturn, NoReturn, ReturnWorkflow, Refused
  <2>2. [rma[r] EXCEPT !.state = target] = [state |-> target, order |-> rma[r].order,
                                           lines |-> rma[r].lines, received |-> rma[r].received]
    BY <1>1, <2>1 DEF ReturnsTyped, ReturnRow
  <2>3. rma' = [rma EXCEPT ![r] = [@ EXCEPT !.state = target]]
    BY <1>4 DEF TransitionReturn
  <2>4. rma' = [rma EXCEPT ![r] = [state |-> target, order |-> rma[r].order,
                                   lines |-> rma[r].lines, received |-> rma[r].received]]
    BY <2>2, <2>3, Zenon
  <2> QED
    BY <1>2, <2>1, <2>4 DEF ReturnAdvanced
<1>5. ASSUME NEW bins, ReceiveReturn(r, bins)
      PROVE  ReturnAdvanced(r) /\ rma'[r].received = TRUE /\ rma'[r].state = "received"
  <2>1. rma[r] # NoReturn /\ rma[r].state \notin Refused
    BY <1>5 DEF ReceiveReturn, NoReturn, Refused
  <2>2. ReturnsTyped /\ rma[r] \in ReturnRow /\ "received" \in DOMAIN ReturnWorkflow
    BY <1>1, <2>1 DEF ReturnsTyped, ReturnWorkflow
  <2>3. /\ rma'[r] = [rma[r] EXCEPT !.state = "received", !.received = TRUE]
        /\ \A x \in Return : x # r => rma'[x] = rma[x]
    BY <1>1, <1>5 DEF ReceiveReturn
  <2> DEFINE row == [rma[r] EXCEPT !.state = "received", !.received = TRUE]
  <2>4. /\ row.state = "received" /\ row.received = TRUE
        /\ row.order = rma[r].order /\ row.lines = rma[r].lines
        /\ "order" \in DOMAIN row
    BY <2>2 DEF ReturnRow
  <2> HIDE DEF row
  <2> QED
    BY <1>1, <2>1, <2>3, <2>4 DEF ReturnAdvanced, row
<1> QED
  BY <1>3, <1>4, <1>5

\* What the authorizations that are not refused ask back of a line.
Granted(o) == {x \in ReturnsOf(o) : rma[x].state \notin Refused}
Asked(p) == [r \in Return |-> IF rma[r] = NoReturn THEN 0 ELSE ReturnQuantity(r, p)]

LEMMA AskedTyped ==
    ASSUME ReturnsTyped, NEW p \in Product
    PROVE  Asked(p) \in [Return -> Nat]
<1>1. ASSUME NEW r \in Return, rma[r] # NoReturn PROVE ReturnQuantity(r, p) \in Nat
  <2>1. rma[r].lines \in Quantified
    BY <1>1 DEF ReturnsTyped, ReturnRow
  <2> QED
    BY <2>1, QuantifiedTyped DEF ReturnQuantity
<1> QED
  BY <1>1 DEF Asked

AskedSums ==
    \A o \in Sales, p \in Product :
        /\ Returning(o, p) = SumOf(Granted(o), Asked(p))
        /\ SumOf(Granted(o), Asked(p)) \in Nat
        /\ Asked(p) \in [Return -> Nat]

LEMMA AskedAre == ReturnsTyped => AskedSums
<1> SUFFICES ASSUME ReturnsTyped, NEW o \in Sales, NEW p \in Product
             PROVE  /\ Returning(o, p) = SumOf(Granted(o), Asked(p))
                    /\ SumOf(Granted(o), Asked(p)) \in Nat
                    /\ Asked(p) \in [Return -> Nat]
  BY DEF AskedSums
<1> DEFINE S == Granted(o)
           q == Asked(p)
           f == [r \in S |-> q[r]]
<1>1. IsFiniteSet(Return) /\ \A x \in Return : q[x] \in Nat
  BY OrderAssumption, AskedTyped
<1>2. S \in SUBSET Return /\ S = {x \in ReturnsOf(o) : rma[x].state \notin {"rejected", "cancelled"}}
  BY DEF Granted, ReturnsOf, Refused
<1>3. \A r \in S : q[r] = ReturnQuantity(r, p)
  BY DEF Granted, ReturnsOf, Asked
<1> HIDE DEF S, q
<1>4. [r \in S |-> ReturnQuantity(r, p)] = f
  BY <1>3
<1>5. Returning(o, p) = Total(f)
  BY <1>2, <1>4 DEF Returning
<1> HIDE DEF f
<1>6. Total(f) = SumOf(S, q) /\ Total(f) \in Nat
  BY <1>1, <1>2, TotalIsSum DEF f
<1> QED
  BY <1>5, <1>6, AskedTyped DEF S, q

LEMMA AskedAreNext == ReturnsTyped' => AskedSums'
BY AskedAre, PTL

\* An order never takes back what it has processed.
LEMMA ProcessedKept ==
    ASSUME RowsTyped, LinesReserved, [Next]_vars, NEW o \in Sales, NEW p \in Product
    PROVE  /\ processed[o][p] \in Nat /\ processed'[o][p] \in Nat
           /\ processed[o][p] <= processed'[o][p]
<1>1. /\ OrdersTyped /\ o \in Order /\ o \notin Purchase
      /\ processed[o][p] \in Nat
  BY OrderTyped, OrderAssumption DEF RowsTyped, Order
<1>2. CASE processed'[o] = processed[o]
  BY <1>1, <1>2
<1>3. CASE Shipped(o)
  <2> PICK S \in SUBSET ReservationId : PostShipment(o, S)
    BY <1>3 DEF Shipped
  <2> DEFINE n == ShippedOf(S, p)
  <2>1. processed'[o][p] = processed[o][p] + n
    BY <1>1, ShipmentEffect
  <2>2. n \in Nat
    BY ShippedLines
  <2> HIDE DEF n
  <2> QED
    BY <1>1, <2>1, <2>2
<1> QED
  BY <1>1, <1>2, <1>3, OrderRules DEF OrderRule, SameOrder, Commanded, Reserved, Received

LEMMA ReturningStep ==
    ASSUME RowsTyped, RowsTyped', LinesReserved, ReturnsWithinShipped, [Next]_vars
    PROVE  ReturnsWithinShipped'
<1>1. AskedSums /\ AskedSums'
  BY AskedAre, AskedAreNext DEF RowsTyped
<1> SUFFICES ASSUME NEW o \in Sales, NEW p \in Product
             PROVE  Returning(o, p)' <= processed'[o][p]
  BY DEF ReturnsWithinShipped, Returning
<1> DEFINE G == Granted(o)
           H == Granted(o)'
           q == Asked(p)
           k == Asked(p)'
<1>2. /\ Returning(o, p) = SumOf(G, q) /\ SumOf(G, q) \in Nat
      /\ Returning(o, p)' = SumOf(H, k) /\ SumOf(H, k) \in Nat
      /\ q \in [Return -> Nat] /\ k \in [Return -> Nat]
  BY <1>1 DEF AskedSums
<1>3. Returning(o, p) <= processed[o][p]
  BY DEF ReturnsWithinShipped, Returning
<1>4. /\ processed[o][p] \in Nat /\ processed'[o][p] \in Nat
      /\ processed[o][p] <= processed'[o][p]
  BY ProcessedKept
<1>5. /\ IsFiniteSet(G) /\ IsFiniteSet(H) /\ G \subseteq Return /\ H \subseteq Return
  <2>1. G \subseteq Return /\ H \subseteq Return
    BY DEF Granted, ReturnsOf
  <2> HIDE DEF G, H
  <2> QED
    BY <2>1, OrderAssumption, FS_Subset
<1>6. ASSUME H \subseteq G, \A x \in G : k[x] = q[x]
      PROVE  Returning(o, p)' <= processed'[o][p]
  <2> HIDE DEF G, H, q, k
  <2>1. SumOf(G, k) = SumOf(G, q)
    BY <1>6, SumAgrees
  <2>2. \A x \in G : k[x] \in Nat
    BY <1>2, <1>5
  <2>3. SumOf(H, k) <= SumOf(G, k)
    BY <1>5, <1>6, <2>2, SumOfSome
  <2> QED
    BY <1>2, <1>3, <1>4, <2>1, <2>3
<1>7. CASE UNCHANGED rma
  BY <1>6, <1>7 DEF Granted, ReturnsOf, Asked, ReturnQuantity
<1>8. ASSUME NEW r \in Return, ReturnAdvanced(r)
      PROVE  Returning(o, p)' <= processed'[o][p]
  <2>1. \A x \in Return : k[x] = q[x]
    BY <1>8 DEF ReturnAdvanced, Asked, ReturnQuantity
  <2>2. H \subseteq G
    BY <1>8 DEF ReturnAdvanced, Granted, ReturnsOf
  <2> QED
    BY <1>5, <1>6, <2>1, <2>2
<1>9. CASE OpenReturn
  <2> PICK r \in Return, x \in Sales : \E lines \in ReturnLines(x, Quantities) : CreateReturn(r, x, lines)
    BY <1>9 DEF OpenReturn
  <2> PICK lines \in ReturnLines(x, Quantities) : CreateReturn(r, x, lines)
    OBVIOUS
  <2>1. ReturnOpened(r, x, lines) /\ rma'[r].order = x /\ rma'[r].lines = lines /\ rma'[r].state = "requested"
    <3>1. ReturnOpened(r, x, lines)
      BY ReturnRules
    <3> QED
      BY <3>1 DEF ReturnOpened
  <2>2. \A y \in G : y # r /\ k[y] = q[y]
    BY <2>1 DEF ReturnOpened, Granted, ReturnsOf, Asked, ReturnQuantity
  <2>3. k[r] = IF p \in DOMAIN lines THEN lines[p] ELSE 0
    BY <2>1 DEF ReturnOpened, Asked, ReturnQuantity
  <2>4. CASE x # o
    <3>1. H \subseteq G
      BY <2>1, <2>4 DEF ReturnOpened, Granted, ReturnsOf
    <3> QED
      BY <1>6, <2>2, <3>1
  <2>5. CASE x = o
    <3>1. H = G \cup {r}
      BY <2>1, <2>5 DEF ReturnOpened, Granted, ReturnsOf, Refused
    <3> HIDE DEF G, H, q, k
    <3>2. SumOf(G \cup {r}, k) = SumOf(G, k) + SumOf({r}, k)
      <4>1. IsFiniteSet({r}) /\ G \cap {r} = {} /\ \A y \in G \cup {r} : k[y] \in Nat
        BY <1>2, <1>5, <2>2, FS_Singleton
      <4> QED
        BY <1>5, <4>1, SumSplit
    <3>3. SumOf({r}, k) = k[r] /\ k[r] \in Nat
      BY <1>2, SumOfOne
    <3>4. SumOf(G, k) = SumOf(G, q)
      BY <2>2, SumAgrees
    <3>5. Returning(o, p)' = Returning(o, p) + k[r]
      BY <1>2, <3>1, <3>2, <3>3, <3>4
    <3>6. p \in DOMAIN lines => Returning(o, p) + lines[p] <= processed[o][p]
      BY <2>5 DEF CreateReturn
    <3> QED
      BY <1>2, <1>3, <1>4, <2>3, <3>3, <3>5, <3>6
  <2> QED
    BY <2>4, <2>5
<1>10. CASE CommandReturn
  BY <1>8, <1>10, ReturnRules DEF CommandReturn
<1>11. CASE TakeBack
  BY <1>8, <1>11, ReturnRules DEF TakeBack
<1>12. CASE UNCHANGED vars
  BY <1>7, <1>12 DEF vars
<1> QED
  BY <1>7, <1>9, <1>10, <1>11, <1>12, ReturnFrame

LEMMA InitReturning == Init => ReturnsWithinShipped
<1> SUFFICES ASSUME OrderInit, NEW o \in Sales, NEW p \in Product
             PROVE  Returning(o, p) <= processed[o][p]
  BY DEF Init, ReturnsWithinShipped, Returning
<1> DEFINE f == [r \in {x \in ReturnsOf(o) : rma[x].state \notin {"rejected", "cancelled"}}
                   |-> ReturnQuantity(r, p)]
<1>1. DOMAIN f = {}
  BY DEF OrderInit, ReturnsOf
<1>2. Returning(o, p) = Total(f)
  BY DEF Returning
<1> HIDE DEF f
<1>3. Total(f) = 0
  BY <1>1, FS_EmptySet DEF Total
<1>4. processed[o][p] = 0
  BY DEF OrderInit, Order
<1> QED
  BY <1>2, <1>3, <1>4

\* However many authorizations are requested for an order, refused, received and
\* requested anew, those that stand never ask back more of a line than was
\* shipped: create_return counts all that are neither rejected nor cancelled, and
\* an authorization that was refused cannot be taken up again.
THEOREM ReturnsBounded == Spec => []ReturnsWithinShipped
<1>1. /\ RowsTyped /\ RowsTyped' /\ LinesReserved /\ ReturnsWithinShipped /\ [Next]_vars
      => ReturnsWithinShipped'
  BY ReturningStep
<1> QED
  BY <1>1, InitReturning, RowsInvariant, ProgressInvariant, PTL DEF Spec

-----------------------------------------------------------------------------
(* Positions and documents. *)

\* What the reservations S hold at a position, and of a product.
LEMMA TakenIs ==
    ASSUME ReservationsTyped, NEW S \in SUBSET ReservationId
    PROVE  /\ \A x \in Position : /\ TakenFrom(S, x) = SumOf(S \cap AtPlace(x), QuantityOf)
                                  /\ TakenFrom(S, x) \in Nat
           /\ \A p \in Product : /\ ShippedOf(S, p) = SumOf({s \in S : s[3] = p}, QuantityOf)
                                 /\ ShippedOf(S, p) \in Nat
<1>1. IsFiniteSet(ReservationId) /\ \A x \in ReservationId : QuantityOf[x] \in Nat
  BY ReservationIdFinite, QuantitiesTyped
<1>2. ASSUME NEW T \in SUBSET ReservationId
      PROVE  /\ Total([r \in T |-> reservation[r].quantity]) = SumOf(T, QuantityOf)
             /\ SumOf(T, QuantityOf) \in Nat
  <2> DEFINE f == [r \in T |-> QuantityOf[r]]
  <2>1. [r \in T |-> reservation[r].quantity] = f
    BY DEF QuantityOf
  <2> HIDE DEF f
  <2>2. Total(f) = SumOf(T, QuantityOf) /\ Total(f) \in Nat
    BY <1>1, TotalIsSum DEF f
  <2> QED
    BY <2>1, <2>2
<1>3. ASSUME NEW x \in Position
      PROVE  /\ TakenFrom(S, x) = SumOf(S \cap AtPlace(x), QuantityOf)
             /\ TakenFrom(S, x) \in Nat
  <2> DEFINE T == {s \in S : PositionOf(s) = x}
  <2>1. TakenFrom(S, x) = Total([r \in T |-> reservation[r].quantity])
    BY DEF TakenFrom
  <2>2. T \in SUBSET ReservationId /\ T = S \cap AtPlace(x)
    BY DEF AtPlace
  <2> HIDE DEF T
  <2> QED
    BY <1>2, <2>1, <2>2
<1>4. ASSUME NEW p \in Product
      PROVE  /\ ShippedOf(S, p) = SumOf({s \in S : s[3] = p}, QuantityOf)
             /\ ShippedOf(S, p) \in Nat
  <2> DEFINE T == {s \in S : s[3] = p}
  <2>1. ShippedOf(S, p) = Total([r \in T |-> reservation[r].quantity])
    BY DEF ShippedOf
  <2>2. T \in SUBSET ReservationId
    OBVIOUS
  <2> HIDE DEF T
  <2>3. ShippedOf(S, p) = SumOf(T, QuantityOf) /\ ShippedOf(S, p) \in Nat
    BY <1>2, <2>1, <2>2
  <2> QED
    BY <2>3 DEF T
<1> QED
  BY <1>3, <1>4

LEMMA ReservedSums ==
    ReservationsTyped => (ReservedMatches <=> \A x \in Position : reserved[x] = Held(AtPlace(x)))
BY HeldAre DEF HeldSums, ReservedMatches

LEMMA ReservedSumsNext ==
    ReservationsTyped' => (ReservedMatches' <=> \A x \in Position : reserved'[x] = Held(AtPlace(x))')
BY HeldAreNext DEF HeldSums, ReservedMatches

\* The commands that reserve, and all the others.
LEMMA ClaimFrame ==
    ASSUME RowsTyped, [Next]_vars
    PROVE  (UNCHANGED <<reserved, reservation>>) \/ Reserve \/ ReleaseAny \/ Ship
<1>1. reserved \in [Position -> Nat] /\ \A x \in Position : Nothing[x] = 0
  BY DEF RowsTyped, StockTyped, Nothing
<1>2. ASSUME NEW change, NEW writes, WritePositions(change, Nothing, writes)
      PROVE  UNCHANGED reserved
  BY <1>1, <1>2 DEF WritePositions
<1>3. ASSUME NEW x, NEW n, WritePosition(x, n, 0)
      PROVE  UNCHANGED reserved
  <2>1. [Nothing EXCEPT ![x] = 0] = Nothing
    BY DEF Nothing
  <2> QED
    BY <1>2, <1>3, <2>1 DEF WritePosition
<1>4. UNCHANGED positionVars => UNCHANGED reserved
  BY DEF positionVars
<1>5. CASE Receive \/ ReceiveForTask
  BY <1>2, <1>5 DEF Receive, ReceiveForTask, PostReceipt, BookArrivals
<1>6. CASE TakeBack
  BY <1>2, <1>6 DEF TakeBack, ReceiveReturn
<1>7. CASE Count \/ ShipFromTask \/ AdjustStock
  BY <1>3, <1>7 DEF Count, CompleteCount, ShipFromTask, ShipTransferTask, AdjustStock, Adjust
<1>8. CASE ReceiveFromTask
  BY <1>3, <1>4, <1>8 DEF ReceiveFromTask, ReceiveTransferTask, BookTransferReceipt
<1>9. UNCHANGED vars => UNCHANGED <<reserved, reservation>>
  BY DEF vars, positionVars
<1>10. Next => UNCHANGED reservation \/ Reserve \/ ReleaseAny \/ Ship
  BY ReservationFrame
<1>11. Next => \/ UNCHANGED reserved \/ Reserve \/ ReleaseAny \/ Ship
  BY <1>4, <1>5, <1>6, <1>7, <1>8, StockFrame
<1> QED
  BY <1>9, <1>10, <1>11

LEMMA ReservedStep ==
    ASSUME RowsTyped, RowsTyped', AllocationsNumbered, ReservedMatches, [Next]_vars
    PROVE  ReservedMatches'
<1>1. ReservationsTyped /\ ReservationsTyped' /\ reserved \in [Position -> Nat]
  BY DEF RowsTyped, StockTyped
<1> SUFFICES ASSUME NEW x \in Position PROVE reserved'[x] = Held(AtPlace(x))'
  BY <1>1, ReservedSumsNext
<1> DEFINE B == AtPlace(x)
<1>2. B \in SUBSET ReservationId /\ Held(B) \in Nat /\ Held(B)' \in Nat /\ reserved[x] = Held(B)
  <2>1. B \in SUBSET ReservationId
    BY DEF AtPlace
  <2> QED
    BY <1>1, <2>1, HeldAre, HeldAreNext, ReservedSums DEF HeldSums
<1> HIDE DEF B
<1>3. CASE UNCHANGED <<reserved, reservation>>
  <2>1. Held(B)' = Held(B)
    BY <1>3 DEF Held, QuantityOf, B, AtPlace, PositionOf
  <2> QED
    BY <1>2, <1>3, <2>1 DEF B
<1>4. CASE Reserve
  <2> PICK o \in Sales : \E lines \in AllocationLines(o, Quantities) : Allocate(o, lines)
    BY <1>4 DEF Reserve
  <2> PICK lines \in AllocationLines(o, Quantities) : Allocate(o, lines)
    OBVIOUS
  <2> PICK n \in 1..MaxAllocations : AddsReservations(o, n, lines)
    BY AllocationEffect
  <2> DEFINE S == Allocated(o, n, lines)
             q == QuantityOf'
  <2>1. /\ S \in SUBSET ReservationId
        /\ \A r \in S : /\ reservation[r].status # "active" /\ reservation'[r].status = "active"
                        /\ q[r] = lines[<<r[3], r[4]>>]
        /\ \A r \in ReservationId \ S : reservation'[r] = reservation[r]
    BY DEF Allocated, AddsReservations, QuantityOf
  <2>2. reserved'[x] = reserved[x] + Claims(lines)[x]
    BY <1>1 DEF Allocate, WritePositions
  <2> HIDE DEF S, q
  <2>3. Held(B)' = Held(B) + SumOf(S \cap B, q)
    BY <1>1, <1>2, <2>1, AllocatedSums DEF q
  <2>4. ClaimedIs(o, n, lines, q, x)
    <3>1. \A r \in Allocated(o, n, lines) : q[r] = lines[<<r[3], r[4]>>]
      BY <2>1 DEF S
    <3> QED
      BY <3>1, AllocationSums
  <2>5. SumOf(S \cap B, q) = Claims(lines)[x]
    BY <2>4 DEF ClaimedIs, S, B
  <2> QED
    BY <1>2, <2>2, <2>3, <2>5 DEF B
<1>5. CASE ReleaseAny
  <2> PICK r \in ReservationId : Release(r)
    BY <1>5 DEF ReleaseAny
  <2> DEFINE m == SumOf({r} \cap B, QuantityOf)
             n == -reservation[r].quantity
  <2>1. Held(B) = Held(B)' + m /\ m \in Nat
    BY <1>2, EndedReservations, EndedSums
  <2>2. reservation[r].quantity \in Nat /\ QuantityOf[r] = reservation[r].quantity /\ n \in Int
    BY <1>1 DEF ReservationsTyped, ReservationRow, QuantityOf
  <2>3. reserved'[x] = reserved[x] + [Nothing EXCEPT ![PositionOf(r)] = n][x]
    BY <1>1 DEF Release, WritePosition, WritePositions
  <2>4. CASE PositionOf(r) = x
    <3>1. ({r} \cap B) = {r}
      BY <2>4 DEF B, AtPlace
    <3>2. m = reservation[r].quantity
      BY <2>2, <3>1, SumOfOne
    <3>3. [Nothing EXCEPT ![PositionOf(r)] = n][x] = n
      BY <2>4 DEF Nothing
    <3> HIDE DEF m
    <3>4. reserved'[x] = reserved[x] - m
      BY <1>1, <2>1, <2>2, <2>3, <3>2, <3>3
    <3> QED
      BY <1>2, <2>1, <3>4 DEF B
  <2>5. CASE PositionOf(r) # x
    <3>1. ({r} \cap B) = {}
      BY <2>5 DEF B, AtPlace
    <3>2. m = 0
      BY <3>1, SumOfNothing
    <3> HIDE DEF n
    <3>3. [Nothing EXCEPT ![PositionOf(r)] = n][x] = 0
      BY <2>5 DEF Nothing
    <3> HIDE DEF m
    <3> QED
      BY <1>1, <1>2, <2>1, <2>3, <3>2, <3>3 DEF B
  <2> QED
    BY <2>4, <2>5
<1>6. CASE Ship
  <2> PICK o \in Sales, S \in SUBSET ReservationId : PostShipment(o, S)
    BY <1>6 DEF Ship
  <2> DEFINE m == SumOf(S \cap B, QuantityOf)
  <2>1. Held(B) = Held(B)' + m /\ m \in Nat
    BY <1>2, EndedReservations, EndedSums
  <2>2. TakenFrom(S, x) = m
    BY <1>1, TakenIs DEF B
  <2>3. reserved'[x] = reserved[x] + (-TakenFrom(S, x))
    BY <1>1 DEF PostShipment, TakeFromPositions, WritePositions
  <2> HIDE DEF m
  <2>4. reserved'[x] = reserved[x] - m
    BY <1>1, <2>1, <2>2, <2>3
  <2> QED
    BY <1>2, <2>1, <2>4 DEF B
<1> QED
  BY <1>3, <1>4, <1>5, <1>6, ClaimFrame

LEMMA LinesStep ==
    ASSUME RowsTyped, LinesMatchReceipts, [Next]_vars
    PROVE  LinesMatchReceipts'
<1> SUFFICES ASSUME NEW o \in Purchase, NEW p \in Product
             PROVE  processed'[o][p] = receipts'[o].accepted[p] + receipts'[o].rejected[p]
  BY DEF LinesMatchReceipts
<1>1. /\ OrdersTyped /\ o \in Order /\ o \notin Sales
      /\ processed[o][p] = receipts[o].accepted[p] + receipts[o].rejected[p]
      /\ receipts[o].accepted[p] \in Nat /\ receipts[o].rejected[p] \in Nat
  BY OrderAssumption DEF RowsTyped, OrdersTyped, Order, LinesMatchReceipts, ReceiptRow
<1>2. CASE processed'[o] = processed[o] /\ receipts'[o] = receipts[o]
  BY <1>1, <1>2
<1>3. CASE Received(o)
  <2> PICK tolerance \in Tolerance, t \in TaskId \cup {NoTaskId} :
             \E lines \in ReceiptLines(o, Quantities) : PostReceipt(o, lines, tolerance, t)
    BY <1>3 DEF Received
  <2> PICK lines \in ReceiptLines(o, Quantities) : PostReceipt(o, lines, tolerance, t)
    OBVIOUS
  <2>1. /\ processed'[o] = [x \in Product |-> IF x \in DOMAIN lines
                             THEN processed[o][x] + Delivered(lines[x]) ELSE processed[o][x]]
        /\ receipts'[o] = WithReceipt(o, lines)
    BY <1>1, ReceiptEffect
  <2>2. /\ receipts'[o].accepted[p] = receipts[o].accepted[p]
                                        + (IF p \in DOMAIN lines THEN lines[p].accepted ELSE 0)
        /\ receipts'[o].rejected[p] = receipts[o].rejected[p]
                                        + (IF p \in DOMAIN lines THEN lines[p].rejected ELSE 0)
    BY <2>1 DEF WithReceipt
  <2>3. CASE p \in DOMAIN lines
    <3>1. lines[p].accepted \in Nat /\ lines[p].rejected \in Nat
      BY <2>3, ReceiptLineTyped
    <3> QED
      BY <1>1, <2>1, <2>2, <2>3, <3>1 DEF Delivered
  <2>4. CASE p \notin DOMAIN lines
    BY <1>1, <2>1, <2>2, <2>4
  <2> QED
    BY <2>3, <2>4
<1> QED
  BY <1>1, <1>2, <1>3, OrderRules DEF OrderRule, SameOrder, Commanded, Reserved, Shipped

-----------------------------------------------------------------------------
(* Sums over rows. *)

LEMMA SumIsSigned ==
    ASSUME NEW D, NEW f \in [D -> Int]
    PROVE  Sum(f) = Signed(D, f)
<1> DEFINE g == [x \in DOMAIN f |-> -f[x]]
<1>1. DOMAIN f = D
  OBVIOUS
<1>2. g = Opposite(D, f) /\ DOMAIN g = D
  BY <1>1 DEF Opposite
<1> HIDE DEF g
<1>3. Total(f) = SumOf(D, f) /\ Total(g) = SumOf(D, g)
  BY <1>1, <1>2 DEF Total, SumOf, Units
<1>4. Sum(f) = Total(f) - Total(g)
  BY DEF Sum, g
<1> QED
  BY <1>2, <1>3, <1>4 DEF Signed

LEMMA SumIsInt ==
    ASSUME NEW D, IsFiniteSet(D), NEW f \in [D -> Int]
    PROVE  Sum(f) \in Int
<1>1. \A x \in D : f[x] \in Int
  OBVIOUS
<1>2. Signed(D, f) \in Int
  BY <1>1, SignedTyped
<1> QED
  BY <1>2, SumIsSigned

LEMMA SumsAdd ==
    ASSUME NEW D, IsFiniteSet(D), NEW f \in [D -> Int], NEW g \in [D -> Int], NEW h \in [D -> Int],
           \A x \in D : h[x] = f[x] + g[x]
    PROVE  Sum(h) = Sum(f) + Sum(g)
<1>1. \A x \in D : f[x] \in Int /\ g[x] \in Int /\ h[x] = f[x] + g[x]
  OBVIOUS
<1>2. Signed(D, h) = Signed(D, f) + Signed(D, g)
  BY <1>1, SignedAdded
<1> QED
  BY <1>2, SumIsSigned

LEMMA SumOfNone ==
    ASSUME NEW D, NEW f \in [D -> Int], \A x \in D : f[x] = 0
    PROVE  Sum(f) = 0
<1> DEFINE g == Opposite(D, f)
<1>1. \A x \in D : g[x] = 0
  <2>1. \A x \in D : g[x] = -f[x] /\ f[x] \in Int
    BY DEF Opposite
  <2> HIDE DEF g
  <2> QED
    BY <2>1, MinusZero
<1> HIDE DEF g
<1>2. SumOf(D, f) = 0 /\ SumOf(D, g) = 0
  BY <1>1, SumOfNothing
<1>3. Signed(D, f) = SumOf(D, f) - SumOf(D, g)
  BY DEF Signed, g
<1> QED
  BY <1>2, <1>3, SumIsSigned

\* One term changes.
LEMMA SumMoved ==
    ASSUME NEW D, IsFiniteSet(D), NEW f \in [D -> Int], NEW g \in [D -> Int], NEW x \in D, NEW n \in Int,
           g[x] = f[x] + n, \A y \in D : y # x => g[y] = f[y]
    PROVE  Sum(g) = Sum(f) + n
<1> DEFINE h == [y \in D |-> IF y = x THEN n ELSE 0]
<1>1. h \in [D -> Int] /\ h[x] = n /\ \A y \in D : y # x => h[y] = 0
  OBVIOUS
<1>2. \A y \in D : g[y] = f[y] + h[y]
  <2> SUFFICES ASSUME NEW y \in D PROVE g[y] = f[y] + h[y]
    OBVIOUS
  <2>1. f[y] \in Int
    OBVIOUS
  <2> HIDE DEF h
  <2> QED
    BY <1>1, <2>1
<1> HIDE DEF h
<1>3. Sum(g) = Sum(f) + Sum(h)
  BY <1>1, <1>2, SumsAdd
<1>4. Signed(D, h) = n
  BY <1>1, SignedSpike
<1> QED
  BY <1>1, <1>3, <1>4, SumIsSigned

\* No other term than those of E.
LEMMA SumOver ==
    ASSUME NEW D, NEW E \in SUBSET D, NEW f \in [E -> Int], NEW g \in [D -> Int],
           \A x \in E : f[x] = g[x], \A x \in D \ E : g[x] = 0
    PROVE  Sum(f) = Sum(g)
<1>1. Signed(E, f) = Signed(D, g)
  BY SignedOfSome
<1> QED
  BY <1>1, SumIsSigned

\* The terms of the stock equation.
StockRow(p, c) == [b \in Bin |-> onHand[<<p, b, c>>]]
AcceptedRow(p) == [o \in Purchase |-> receipts[o].accepted[p]]
RejectedRow(p) == [o \in Purchase |-> receipts[o].rejected[p]]
ProcessedRow(p) == [o \in Sales |-> processed[o][p]]
TransitRow(p, c) ==
    [m \in Transfer |->
        IF /\ Manual[m].source[1] = p /\ Manual[m].source[3] = c
           /\ transfer[m] # NoTransfer /\ transfer[m].state = "shipped"
          THEN transfer[m].shipped ELSE 0]
TakenRow(p) == [r \in Return |-> IF rma[r] # NoReturn /\ rma[r].received THEN ReturnQuantity(r, p) ELSE 0]

Booked(p, c) ==
    IF c = "sellable" THEN Sum(AcceptedRow(p)) - Sum(ProcessedRow(p))
                      ELSE Sum(RejectedRow(p)) + Sum(TakenRow(p))

Balanced(p, c) ==
    Sum(StockRow(p, c)) + Sum(TransitRow(p, c)) = Booked(p, c) + corrected[<<p, c>>]

StockRowsTyped ==
    \A p \in Product :
        /\ \A c \in Condition : StockRow(p, c) \in [Bin -> Int] /\ TransitRow(p, c) \in [Transfer -> Int]
        /\ AcceptedRow(p) \in [Purchase -> Int] /\ RejectedRow(p) \in [Purchase -> Int]
        /\ ProcessedRow(p) \in [Sales -> Int] /\ TakenRow(p) \in [Return -> Int]

LEMMA RowsOfStock == RowsTyped => StockRowsTyped
<1> SUFFICES ASSUME RowsTyped, NEW p \in Product
             PROVE  /\ \A c \in Condition : StockRow(p, c) \in [Bin -> Int] /\ TransitRow(p, c) \in [Transfer -> Int]
                    /\ AcceptedRow(p) \in [Purchase -> Int] /\ RejectedRow(p) \in [Purchase -> Int]
                    /\ ProcessedRow(p) \in [Sales -> Int] /\ TakenRow(p) \in [Return -> Int]
  BY DEF StockRowsTyped
<1>1. ASSUME NEW c \in Condition PROVE StockRow(p, c) \in [Bin -> Int]
  BY DEF StockRow, Position, RowsTyped, StockTyped
<1>2. ASSUME NEW c \in Condition PROVE TransitRow(p, c) \in [Transfer -> Int]
  BY DEF TransitRow, RowsTyped, TransfersTyped, TransferRow
<1>3. AcceptedRow(p) \in [Purchase -> Int] /\ RejectedRow(p) \in [Purchase -> Int]
  BY DEF AcceptedRow, RejectedRow, RowsTyped, OrdersTyped, ReceiptRow
<1>4. ProcessedRow(p) \in [Sales -> Int]
  BY DEF ProcessedRow, RowsTyped, OrdersTyped, Order
<1>5. TakenRow(p) \in [Return -> Int]
  <2>1. ReturnsTyped
    BY DEF RowsTyped
  <2>2. ASSUME NEW r \in Return, rma[r] # NoReturn PROVE ReturnQuantity(r, p) \in Int
    <3>1. Asked(p)[r] \in Nat /\ Asked(p)[r] = ReturnQuantity(r, p)
      BY <2>1, <2>2, AskedTyped DEF Asked
    <3> QED
      BY <3>1
  <2> QED
    BY <2>2 DEF TakenRow
<1> QED
  BY <1>1, <1>2, <1>3, <1>4, <1>5

LEMMA RowsOfStockNext == RowsTyped' => StockRowsTyped'
BY RowsOfStock, PTL

StockSaid == StockMatches <=> \A p \in Product, c \in Condition : Balanced(p, c)

LEMMA StockSays == RowsTyped => StockSaid
<1> SUFFICES ASSUME RowsTyped PROVE StockSaid
  OBVIOUS
<1>1. StockRowsTyped
  BY RowsOfStock
<1>2. ASSUME NEW p \in Product, NEW c \in Condition
      PROVE  InTransit(p, c) = Sum(TransitRow(p, c))
  <2> DEFINE E == {n \in Transfer : /\ transfer[n] # NoTransfer
                                    /\ Manual[n].source[1] = p /\ Manual[n].source[3] = c}
             f == [m \in E |-> IF transfer[m].state = "shipped" THEN transfer[m].shipped ELSE 0]
             g == TransitRow(p, c)
  <2>1. E \in SUBSET Transfer /\ g \in [Transfer -> Int]
    BY <1>1 DEF StockRowsTyped
  <2>2. /\ \A m \in E : f[m] = g[m]
        /\ \A m \in Transfer \ E : g[m] = 0
    BY DEF TransitRow
  <2>3. InTransit(p, c) = Sum(f)
    BY DEF InTransit
  <2>4. DOMAIN f = E /\ f = [m \in E |-> f[m]]
    OBVIOUS
  <2> HIDE DEF E, f, g
  <2>5. f \in [E -> Int]
    BY <2>1, <2>2, <2>4
  <2>6. Sum(f) = Sum(g)
    BY <2>1, <2>2, <2>5, SumOver
  <2> QED
    BY <2>3, <2>6 DEF g
<1>3. ASSUME NEW p \in Product
      PROVE  TakenBack(p) = Sum(TakenRow(p))
  <2> DEFINE E == {x \in Return : rma[x] # NoReturn}
             f == [r \in E |-> IF rma[r].received THEN ReturnQuantity(r, p) ELSE 0]
             g == TakenRow(p)
  <2>1. E \in SUBSET Return /\ g \in [Return -> Int]
    BY <1>1 DEF StockRowsTyped
  <2>2. /\ \A m \in E : f[m] = g[m]
        /\ \A m \in Return \ E : g[m] = 0
    BY DEF TakenRow
  <2>3. TakenBack(p) = Sum(f)
    BY DEF TakenBack
  <2>4. DOMAIN f = E /\ f = [m \in E |-> f[m]]
    OBVIOUS
  <2> HIDE DEF E, f, g
  <2>5. f \in [E -> Int]
    BY <2>1, <2>2, <2>4
  <2>6. Sum(f) = Sum(g)
    BY <2>1, <2>2, <2>5, SumOver
  <2> QED
    BY <2>3, <2>6 DEF g
<1>4. ASSUME NEW p \in Product
      PROVE  /\ StockOf(p, "sellable") + InTransit(p, "sellable") =
                  Sum([o \in Purchase |-> receipts[o].accepted[p]])
                    - Sum([o \in Sales |-> processed[o][p]]) + corrected[<<p, "sellable">>]
                <=> Balanced(p, "sellable")
             /\ StockOf(p, "quarantined") + InTransit(p, "quarantined") =
                  Sum([o \in Purchase |-> receipts[o].rejected[p]])
                    + TakenBack(p) + corrected[<<p, "quarantined">>]
                <=> Balanced(p, "quarantined")
  <2>1. \A c \in Condition : StockOf(p, c) = Sum(StockRow(p, c))
    BY DEF StockOf, StockRow
  <2>2. "sellable" \in Condition /\ "quarantined" \in Condition
    BY DEF Condition
  <2> QED
    BY <1>2, <1>3, <2>1, <2>2 DEF Balanced, Booked, AcceptedRow, RejectedRow, ProcessedRow
<1>5. Condition = {"sellable", "quarantined"}
  BY DEF Condition
<1>6. StockMatches <=> \A p \in Product : Balanced(p, "sellable") /\ Balanced(p, "quarantined")
  BY <1>4, Zenon DEF StockMatches
<1> QED
  BY <1>5, <1>6 DEF StockSaid

LEMMA StockSaysNext == RowsTyped' => StockSaid'
BY StockSays, PTL

-----------------------------------------------------------------------------
(* What a step does to the terms of the stock equation. *)

StockBy(p, c, n) == Sum(StockRow(p, c))' = Sum(StockRow(p, c)) + n
TransitBy(p, c, n) == Sum(TransitRow(p, c))' = Sum(TransitRow(p, c)) + n
AcceptedBy(p, n) == Sum(AcceptedRow(p))' = Sum(AcceptedRow(p)) + n
RejectedBy(p, n) == Sum(RejectedRow(p))' = Sum(RejectedRow(p)) + n
ProcessedBy(p, n) == Sum(ProcessedRow(p))' = Sum(ProcessedRow(p)) + n
TakenBy(p, n) == Sum(TakenRow(p))' = Sum(TakenRow(p)) + n
CorrectedBy(p, c, n) == corrected'[<<p, c>>] = corrected[<<p, c>>] + n

SumsTyped(p, c) ==
    /\ Sum(StockRow(p, c)) \in Int /\ Sum(TransitRow(p, c)) \in Int
    /\ Sum(AcceptedRow(p)) \in Int /\ Sum(RejectedRow(p)) \in Int
    /\ Sum(ProcessedRow(p)) \in Int /\ Sum(TakenRow(p)) \in Int
    /\ corrected[<<p, c>>] \in Int

LEMMA TransferFinite == IsFiniteSet(Transfer) /\ IsFiniteSet(Bin) /\ IsFiniteSet(Purchase)
                        /\ IsFiniteSet(Sales) /\ IsFiniteSet(Return)
BY OrderAssumption, ManualAssumption, FS_Subset DEF Transfer

LEMMA SumsAre ==
    ASSUME RowsTyped, NEW p \in Product, NEW c \in Condition
    PROVE  SumsTyped(p, c)
<1>1. StockRowsTyped
  BY RowsOfStock
<1>2. corrected[<<p, c>>] \in Int
  BY DEF RowsTyped, StockTyped
<1>3. Sum(StockRow(p, c)) \in Int
  BY <1>1, TransferFinite, SumIsInt DEF StockRowsTyped
<1>4. Sum(TransitRow(p, c)) \in Int
  BY <1>1, TransferFinite, SumIsInt DEF StockRowsTyped
<1>5. Sum(AcceptedRow(p)) \in Int /\ Sum(RejectedRow(p)) \in Int
  BY <1>1, TransferFinite, SumIsInt DEF StockRowsTyped
<1>6. Sum(ProcessedRow(p)) \in Int
  BY <1>1, TransferFinite, SumIsInt DEF StockRowsTyped
<1>7. Sum(TakenRow(p)) \in Int
  BY <1>1, TransferFinite, SumIsInt DEF StockRowsTyped
<1> QED
  BY <1>2, <1>3, <1>4, <1>5, <1>6, <1>7 DEF SumsTyped

\* What stays as it is adds nothing.
LEMMA Unmoved ==
    ASSUME RowsTyped, NEW p \in Product, NEW c \in Condition
    PROVE  /\ UNCHANGED onHand => StockBy(p, c, 0)
           /\ UNCHANGED transfer => TransitBy(p, c, 0)
           /\ UNCHANGED receipts => AcceptedBy(p, 0) /\ RejectedBy(p, 0)
           /\ (\A o \in Sales : processed'[o] = processed[o]) => ProcessedBy(p, 0)
           /\ (\A r \in Return : TakenRow(p)'[r] = TakenRow(p)[r]) => TakenBy(p, 0)
           /\ UNCHANGED corrected => CorrectedBy(p, c, 0)
<1>1. SumsTyped(p, c)
  BY SumsAre
<1>2. UNCHANGED onHand => Sum(StockRow(p, c))' = Sum(StockRow(p, c))
  BY DEF StockRow
<1>3. UNCHANGED transfer => Sum(TransitRow(p, c))' = Sum(TransitRow(p, c))
  BY DEF TransitRow
<1>4. UNCHANGED receipts => /\ Sum(AcceptedRow(p))' = Sum(AcceptedRow(p))
                            /\ Sum(RejectedRow(p))' = Sum(RejectedRow(p))
  BY DEF AcceptedRow, RejectedRow
<1>5. ASSUME \A o \in Sales : processed'[o] = processed[o]
      PROVE  Sum(ProcessedRow(p))' = Sum(ProcessedRow(p))
  <2>1. ProcessedRow(p)' = ProcessedRow(p)
    BY <1>5 DEF ProcessedRow
  <2> QED
    BY <2>1
<1>6. ASSUME \A r \in Return : TakenRow(p)'[r] = TakenRow(p)[r]
      PROVE  Sum(TakenRow(p))' = Sum(TakenRow(p))
  <2>1. TakenRow(p)' = TakenRow(p)
    BY <1>6 DEF TakenRow
  <2> QED
    BY <2>1
<1>7. \A i, j \in Int : j = i => j = i + 0
  OBVIOUS
<1> QED
  BY <1>1, <1>2, <1>3, <1>4, <1>5, <1>6, <1>7
     DEF SumsTyped, StockBy, TransitBy, AcceptedBy, RejectedBy, ProcessedBy, TakenBy, CorrectedBy

\* The equation holds as long as its two sides change alike.
LEMMA Rebalanced ==
    ASSUME RowsTyped, NEW p \in Product, NEW c \in Condition, Balanced(p, c),
           NEW s \in Int, NEW t \in Int, NEW a \in Int, NEW d \in Int, NEW u \in Int, NEW k \in Int, NEW w \in Int,
           StockBy(p, c, s), TransitBy(p, c, t), AcceptedBy(p, a), RejectedBy(p, d), ProcessedBy(p, u),
           TakenBy(p, k), CorrectedBy(p, c, w),
           s + t = (IF c = "sellable" THEN a - u ELSE d + k) + w
    PROVE  Balanced(p, c)'
<1>1. SumsTyped(p, c)
  BY SumsAre
<1> QED
  BY <1>1 DEF SumsTyped, StockBy, TransitBy, AcceptedBy, RejectedBy, ProcessedBy, TakenBy, CorrectedBy,
              Balanced, Booked

\* A command that writes positions adds what it brings to each bin.
LEMMA StockWritten ==
    ASSUME RowsTyped, RowsTyped', NEW p \in Product, NEW c \in Condition,
           NEW change \in [Position -> Int], onHand' = [x \in Position |-> onHand[x] + change[x]]
    PROVE  /\ [b \in Bin |-> change[<<p, b, c>>]] \in [Bin -> Int]
           /\ StockBy(p, c, Sum([b \in Bin |-> change[<<p, b, c>>]]))
<1> DEFINE f == StockRow(p, c)
           g == StockRow(p, c)'
           h == [b \in Bin |-> change[<<p, b, c>>]]
<1>1. f \in [Bin -> Int] /\ g \in [Bin -> Int]
  BY RowsOfStock, RowsOfStockNext DEF StockRowsTyped
<1>2. \A b \in Bin : <<p, b, c>> \in Position
  BY DEF Position
<1>3. h \in [Bin -> Int]
  BY <1>2
<1>4. \A b \in Bin : g[b] = f[b] + h[b]
  BY <1>2 DEF StockRow
<1> HIDE DEF f, g, h
<1>5. Sum(g) = Sum(f) + Sum(h)
  BY <1>1, <1>3, <1>4, TransferFinite, SumsAdd
<1>6. StockBy(p, c, Sum(h))
  BY <1>5 DEF StockBy, f, g
<1> QED
  BY <1>3, <1>6 DEF h

Here(x, p, c, n) == IF x[1] = p /\ x[3] = c THEN n ELSE 0

LEMMA OneWritten ==
    ASSUME RowsTyped, RowsTyped', NEW p \in Product, NEW c \in Condition,
           NEW x \in Position, NEW n \in Int, NEW k, WritePosition(x, n, k)
    PROVE  StockBy(p, c, Here(x, p, c, n))
<1> DEFINE change == [Nothing EXCEPT ![x] = n]
           h == [b \in Bin |-> change[<<p, b, c>>]]
<1>1. change \in [Position -> Int] /\ change[x] = n /\ \A y \in Position : y # x => change[y] = 0
  BY DEF Nothing
<1>2. onHand' = [y \in Position |-> onHand[y] + change[y]]
  BY DEF WritePosition, WritePositions
<1> HIDE DEF change
<1>3. h \in [Bin -> Int] /\ StockBy(p, c, Sum(h))
  BY <1>1, <1>2, StockWritten
<1>4. x = <<x[1], x[2], x[3]>> /\ x[2] \in Bin
  BY Elements
<1>5. \A b \in Bin : /\ <<p, b, c>> \in Position /\ h[b] = change[<<p, b, c>>]
                     /\ <<p, b, c>> = x => x[1] = p /\ x[2] = b /\ x[3] = c
  BY DEF Position
<1> HIDE DEF h
<1>6. CASE x[1] = p /\ x[3] = c
  <2>1. h[x[2]] = n /\ \A b \in Bin : b # x[2] => h[b] = 0
    BY <1>1, <1>4, <1>5, <1>6
  <2>2. Signed(Bin, h) = n
    BY <1>4, <2>1, TransferFinite, SignedSpike
  <2>3. Sum(h) = n
    BY <1>3, <2>2, SumIsSigned
  <2> QED
    BY <1>3, <1>6, <2>3 DEF Here
<1>7. CASE ~ (x[1] = p /\ x[3] = c)
  <2>1. \A b \in Bin : h[b] = 0
    BY <1>1, <1>5, <1>7
  <2>2. Sum(h) = 0
    BY <1>3, <2>1, SumOfNone
  <2> QED
    BY <1>3, <1>7, <2>2 DEF Here
<1> QED
  BY <1>6, <1>7

LEMMA OneCorrected ==
    ASSUME RowsTyped, NEW p \in Product, NEW c \in Condition, NEW x \in Position, NEW n \in Int,
           Correct(x, n)
    PROVE  CorrectedBy(p, c, Here(x, p, c, n))
<1>1. corrected \in [Product \X Condition -> Int] /\ <<x[1], x[3]>> \in Product \X Condition
      /\ <<p, c>> \in Product \X Condition
  BY Elements DEF RowsTyped, StockTyped
<1>2. corrected[<<p, c>>] \in Int
  BY <1>1
<1>3. CASE x[1] = p /\ x[3] = c
  BY <1>1, <1>2, <1>3 DEF Correct, CorrectedBy, Here
<1>4. CASE ~ (x[1] = p /\ x[3] = c)
  <2>1. <<x[1], x[3]>> # <<p, c>>
    BY <1>4
  <2> QED
    BY <1>1, <1>2, <1>4, <2>1 DEF Correct, CorrectedBy, Here
<1> QED
  BY <1>3, <1>4

LEMMA CountedStock ==
    ASSUME RowsTyped, RowsTyped', NEW p \in Product, NEW c \in Condition, Balanced(p, c),
           NEW x \in Position, NEW n \in Int, WritePosition(x, n, 0), Correct(x, n),
           UNCHANGED <<transfer, receipts, processed, rma>>
    PROVE  Balanced(p, c)'
<1> DEFINE m == Here(x, p, c, n)
<1>1. m \in Int
  BY DEF Here
<1>2. StockBy(p, c, m) /\ CorrectedBy(p, c, m)
  BY OneWritten, OneCorrected
<1>3. \A r \in Return : TakenRow(p)'[r] = TakenRow(p)[r]
  BY DEF TakenRow, ReturnQuantity
<1>4. TransitBy(p, c, 0) /\ AcceptedBy(p, 0) /\ RejectedBy(p, 0) /\ ProcessedBy(p, 0) /\ TakenBy(p, 0)
  BY <1>3, Unmoved
<1> HIDE DEF m
<1>5. m + 0 = (IF c = "sellable" THEN 0 - 0 ELSE 0 + 0) + m
  BY <1>1
<1> QED
  BY <1>1, <1>2, <1>4, <1>5, Rebalanced

LEMMA ReceivedStock ==
    ASSUME RowsTyped, RowsTyped', NEW p \in Product, NEW c \in Condition, Balanced(p, c),
           NEW o \in Purchase, NEW lines \in ReceiptLines(o, Quantities), NEW tolerance, NEW t,
           PostReceipt(o, lines, tolerance, t)
    PROVE  Balanced(p, c)'
<1> DEFINE A == Arrivals(lines)
           h == [b \in Bin |-> A[<<p, b, c>>]]
           line == lines[p]
           a == IF p \in DOMAIN lines THEN lines[p].accepted ELSE 0
           d == IF p \in DOMAIN lines THEN lines[p].rejected ELSE 0
           n == IF c = "sellable" THEN a ELSE d
<1>1. a \in Nat /\ d \in Nat /\ n \in Nat /\ \A q \in DOMAIN lines : lines[q].bin \in Bin
  BY ReceiptLineTyped
<1>2. /\ A \in [Position -> Int]
      /\ \A b \in Bin : A[<<p, b, c>>] = IF p \in DOMAIN lines /\ lines[p].bin = b THEN n ELSE 0
  <2>1. \A b \in Bin : <<p, b, c>> \in Position
    BY DEF Position
  <2> QED
    BY <2>1, ReceiptLineTyped DEF Arrivals
<1>3. onHand' = [y \in Position |-> onHand[y] + A[y]]
  BY DEF PostReceipt, BookArrivals, WritePositions
<1> HIDE DEF A
<1>4. h \in [Bin -> Int] /\ StockBy(p, c, Sum(h))
  BY <1>2, <1>3, StockWritten
<1>5. \A b \in Bin : h[b] = IF p \in DOMAIN lines /\ lines[p].bin = b THEN n ELSE 0
  BY <1>2
<1>6. n = 0 \/ p \in DOMAIN lines
  OBVIOUS
<1> HIDE DEF h, n
<1>7. Sum(h) = n
  <2>1. CASE p \in DOMAIN lines
    <3> DEFINE b == lines[p].bin
    <3>1. b \in Bin /\ h[b] = n /\ \A y \in Bin : y # b => h[y] = 0
      BY <1>1, <1>5, <2>1
    <3> HIDE DEF b
    <3>2. Signed(Bin, h) = n
      BY <1>1, <3>1, TransferFinite, SignedSpike
    <3> QED
      BY <1>4, <3>2, SumIsSigned
  <2>2. CASE p \notin DOMAIN lines
    <3>1. \A b \in Bin : h[b] = 0
      BY <1>5, <2>2
    <3> QED
      BY <1>4, <1>6, <2>2, <3>1, SumOfNone
  <2> QED
    BY <2>1, <2>2
<1>8. StockBy(p, c, n)
  BY <1>4, <1>7
<1>9. OrdersTyped /\ OrdersTyped'
  BY DEF RowsTyped
<1>10. /\ receipts'[o] = WithReceipt(o, lines)
       /\ \A x \in Order : x # o => SameOrder(x)
  BY <1>9, ReceiptEffect
<1>11. StockRowsTyped /\ StockRowsTyped'
  BY RowsOfStock, RowsOfStockNext
<1> HIDE DEF a, d
<1>12. AcceptedBy(p, a)
  <2> DEFINE f == AcceptedRow(p)
             g == AcceptedRow(p)'
  <2>1. f \in [Purchase -> Int] /\ g \in [Purchase -> Int]
    BY <1>11 DEF StockRowsTyped
  <2>2. g[o] = f[o] + a
    BY <1>10 DEF AcceptedRow, WithReceipt, a
  <2>3. \A y \in Purchase : y # o => g[y] = f[y]
    BY <1>10 DEF AcceptedRow, SameOrder, Order
  <2> HIDE DEF f, g
  <2>4. Sum(g) = Sum(f) + a
    BY <1>1, <2>1, <2>2, <2>3, TransferFinite, SumMoved
  <2> QED
    BY <2>4 DEF AcceptedBy, f, g
<1>13. RejectedBy(p, d)
  <2> DEFINE f == RejectedRow(p)
             g == RejectedRow(p)'
  <2>1. f \in [Purchase -> Int] /\ g \in [Purchase -> Int]
    BY <1>11 DEF StockRowsTyped
  <2>2. g[o] = f[o] + d
    BY <1>10 DEF RejectedRow, WithReceipt, d
  <2>3. \A y \in Purchase : y # o => g[y] = f[y]
    BY <1>10 DEF RejectedRow, SameOrder, Order
  <2> HIDE DEF f, g
  <2>4. Sum(g) = Sum(f) + d
    BY <1>1, <2>1, <2>2, <2>3, TransferFinite, SumMoved
  <2> QED
    BY <2>4 DEF RejectedBy, f, g
<1>14. \A x \in Sales : processed'[x] = processed[x]
  BY <1>10, OrderAssumption DEF SameOrder, Order
<1>15. UNCHANGED <<transfer, corrected, rma>>
  BY DEF PostReceipt
<1>16. \A r \in Return : TakenRow(p)'[r] = TakenRow(p)[r]
  BY <1>15 DEF TakenRow, ReturnQuantity
<1>17. TransitBy(p, c, 0) /\ ProcessedBy(p, 0) /\ TakenBy(p, 0) /\ CorrectedBy(p, c, 0)
  BY <1>14, <1>15, <1>16, Unmoved
<1>18. n + 0 = (IF c = "sellable" THEN a - 0 ELSE d + 0) + 0
  BY <1>1 DEF n
<1>19. a \in Int /\ d \in Int /\ n \in Int /\ 0 \in Int
  BY <1>1
<1> QED
  BY <1>8, <1>12, <1>13, <1>17, <1>18, <1>19, Rebalanced

LEMMA ShippedStock ==
    ASSUME RowsTyped, RowsTyped', NEW p \in Product, NEW c \in Condition, Balanced(p, c),
           NEW o \in Sales, NEW S \in SUBSET ReservationId, PostShipment(o, S)
    PROVE  Balanced(p, c)'
<1> DEFINE C == [x \in Position |-> -TakenFrom(S, x)]
           h == [b \in Bin |-> C[<<p, b, c>>]]
           f == [b \in Bin |-> TakenFrom(S, <<p, b, c>>)]
           n == ShippedOf(S, p)
           k == IF c = "sellable" THEN n ELSE 0
<1>1. /\ ReservationsTyped /\ OrdersTyped /\ o \in Order
      /\ \A b \in Bin : <<p, b, c>> \in Position
  BY DEF RowsTyped, Order, Position
<1>2. /\ \A x \in Position : TakenFrom(S, x) = SumOf(S \cap AtPlace(x), QuantityOf)
      /\ \A x \in Position : TakenFrom(S, x) \in Nat
      /\ n = SumOf({s \in S : s[3] = p}, QuantityOf)
      /\ n \in Nat
  BY <1>1, TakenIs
<1>3. C \in [Position -> Int] /\ \A x \in Position : C[x] = -TakenFrom(S, x)
  <2>1. ASSUME NEW x \in Position PROVE -TakenFrom(S, x) \in Int
    <3> DEFINE m == TakenFrom(S, x)
    <3>1. m \in Int
      BY <1>2
    <3> HIDE DEF m
    <3>2. -m \in Int
      BY <3>1
    <3> QED
      BY <3>2 DEF m
  <2> QED
    BY <2>1
<1>4. onHand' = [y \in Position |-> onHand[y] + C[y]]
  BY DEF PostShipment, TakeFromPositions, WritePositions
<1> HIDE DEF C
<1>5. h \in [Bin -> Int] /\ StockBy(p, c, Sum(h))
  BY <1>3, <1>4, StockWritten
<1>6. (\A b \in Bin : f[b] \in Nat) /\ h = Opposite(Bin, f)
  BY <1>1, <1>2, <1>3 DEF Opposite
<1>7. SumOf(Bin, f) = k
  <2>1. CASE c = "sellable"
    <3> DEFINE D == {s \in S : s[3] = p}
               E == [b \in Bin |-> S \cap AtPlace(<<p, b, c>>)]
    <3>1. \A s \in S : PositionOf(s) = <<s[3], s[4], "sellable">> /\ s[4] \in Bin /\ s \in ReservationId
      BY Elements DEF PositionOf
    <3>2. ASSUME NEW s \in D PROVE \E b \in Bin : s \in E[b]
      <4>1. PositionOf(s) = <<p, s[4], c>> /\ s[4] \in Bin /\ s \in ReservationId
        BY <2>1, <3>1
      <4> QED
        BY <4>1 DEF AtPlace
    <3>3. ASSUME NEW b \in Bin, NEW s \in E[b] PROVE s \in D /\ s[4] = b
      <4>1. s \in S /\ PositionOf(s) = <<p, b, c>>
        BY DEF AtPlace
      <4> QED
        BY <3>1, <4>1
    <3>4. \A y, z \in Bin : y # z => E[y] \cap E[z] = {}
      <4> SUFFICES ASSUME NEW y \in Bin, NEW z \in Bin, NEW s \in E[y] \cap E[z]
                   PROVE  y = z
        OBVIOUS
      <4>1. s[4] = y /\ s[4] = z
        BY <3>3
      <4> QED
        BY <4>1
    <3>5. D \in SUBSET ReservationId
      OBVIOUS
    <3>6. IsFiniteSet(D)
      BY <3>5, ReservationIdFinite, FS_Subset
    <3>7. \A s \in D : QuantityOf[s] \in Nat
      BY <1>1, QuantitiesTyped
    <3>8. \A b \in Bin : f[b] = SumOf(E[b], QuantityOf)
      BY <1>1, <1>2
    <3> HIDE DEF D, E, f
    <3>9. \A s \in D : \E b \in Bin : s \in E[b]
      BY <3>2
    <3>10. \A b \in Bin : \A s \in E[b] : s \in D
      BY <3>3
    <3>11. SumOf(Bin, f) = SumOf(D, QuantityOf)
      BY <3>4, <3>6, <3>7, <3>8, <3>9, <3>10, TransferFinite, SumClassified
    <3> QED
      BY <1>2, <2>1, <3>11 DEF D
  <2>2. CASE c # "sellable"
    <3>1. ASSUME NEW b \in Bin PROVE f[b] = 0
      <4>1. (S \cap AtPlace(<<p, b, c>>)) = {}
        BY <2>2 DEF AtPlace, PositionOf
      <4>2. SumOf(S \cap AtPlace(<<p, b, c>>), QuantityOf) = 0
        BY <4>1, SumOfNothing
      <4> QED
        BY <1>1, <1>2, <4>2
    <3> HIDE DEF f
    <3>2. SumOf(Bin, f) = 0
      BY <3>1, SumOfNothing
    <3> QED
      BY <2>2, <3>2
  <2> QED
    BY <2>1, <2>2
<1> HIDE DEF f, h, n
<1>8. Signed(Bin, h) = -SumOf(Bin, f)
  BY <1>6, TransferFinite, SignedOfNats
<1>9. Sum(h) = -k
  BY <1>5, <1>7, <1>8, SumIsSigned
<1>10. k \in Int /\ n \in Int /\ 0 \in Int
  BY <1>2
<1>11. -k \in Int /\ -k + 0 = (IF c = "sellable" THEN 0 - n ELSE 0 + 0) + 0
  BY <1>10
<1>12. StockBy(p, c, -k)
  BY <1>5, <1>9
<1>13. /\ processed'[o] = [y \in Product |-> processed[o][y] + ShippedOf(S, y)]
       /\ \A x \in Order : x # o => SameOrder(x)
  BY <1>1, ShipmentEffect
<1>14. ProcessedBy(p, n)
  <2> DEFINE q == ProcessedRow(p)
             g == ProcessedRow(p)'
  <2>1. q \in [Sales -> Int] /\ g \in [Sales -> Int]
    BY RowsOfStock, RowsOfStockNext DEF StockRowsTyped
  <2>2. g[o] = q[o] + n
    BY <1>13 DEF ProcessedRow, n
  <2>3. \A y \in Sales : y # o => g[y] = q[y]
    BY <1>13 DEF ProcessedRow, SameOrder, Order
  <2> HIDE DEF q, g
  <2>4. Sum(g) = Sum(q) + n
    BY <1>10, <2>1, <2>2, <2>3, TransferFinite, SumMoved
  <2> QED
    BY <2>4 DEF ProcessedBy, q, g
<1>15. UNCHANGED <<transfer, corrected, rma, receipts>>
  BY DEF PostShipment
<1>16. \A r \in Return : TakenRow(p)'[r] = TakenRow(p)[r]
  BY <1>15 DEF TakenRow, ReturnQuantity
<1>17. TransitBy(p, c, 0) /\ AcceptedBy(p, 0) /\ RejectedBy(p, 0) /\ TakenBy(p, 0) /\ CorrectedBy(p, c, 0)
  BY <1>15, <1>16, Unmoved
<1> HIDE DEF k
<1> QED
  BY <1>10, <1>11, <1>12, <1>14, <1>17, Rebalanced

\* An authorization that may still be received has not been.
ReturnsAwaited ==
    \A r \in Return : rma[r] # NoReturn /\ rma[r].state \in {"requested", "authorized"} => ~ rma[r].received

LEMMA AwaitedStep ==
    ASSUME RowsTyped, ReturnsAwaited, [Next]_vars
    PROVE  ReturnsAwaited'
<1>1. CASE UNCHANGED rma
  BY <1>1 DEF ReturnsAwaited
<1>2. CASE OpenReturn
  <2> PICK r \in Return, x \in Sales : \E lines \in ReturnLines(x, Quantities) : CreateReturn(r, x, lines)
    BY <1>2 DEF OpenReturn
  <2> PICK lines \in ReturnLines(x, Quantities) : CreateReturn(r, x, lines)
    OBVIOUS
  <2>1. ReturnOpened(r, x, lines)
    BY ReturnRules
  <2>2. rma'[r].received = FALSE /\ \A y \in Return : y # r => rma'[y] = rma[y]
    BY <2>1 DEF ReturnOpened
  <2> QED
    BY <2>2 DEF ReturnsAwaited
<1>3. CASE CommandReturn
  <2> PICK r \in Return, target \in ReturnCommands : TransitionReturn(r, target)
    BY <1>3 DEF CommandReturn
  <2>1. ReturnAdvanced(r) /\ rma'[r].received = rma[r].received /\ rma'[r].state = target
    BY ReturnRules
  <2>2. target = "authorized" => rma[r].state = "requested"
    <3>1. target \in ReturnWorkflow[rma[r].state] /\ rma[r].state \in DOMAIN ReturnWorkflow
      BY <2>1 DEF TransitionReturn, ReturnAdvanced, RowsTyped, ReturnsTyped, ReturnRow
    <3> QED
      BY <3>1 DEF ReturnWorkflow
  <2>3. target # "requested"
    BY DEF ReturnCommands
  <2> QED
    BY <2>1, <2>2, <2>3 DEF ReturnsAwaited, ReturnAdvanced
<1>4. CASE TakeBack
  <2> PICK r \in Return : \E bins : ReceiveReturn(r, bins)
    BY <1>4 DEF TakeBack
  <2>1. ReturnAdvanced(r) /\ rma'[r].state = "received"
    BY ReturnRules
  <2> QED
    BY <2>1 DEF ReturnsAwaited, ReturnAdvanced
<1>5. CASE UNCHANGED vars
  BY <1>1, <1>5 DEF vars
<1> QED
  BY <1>1, <1>2, <1>3, <1>4, <1>5, ReturnFrame

LEMMA TakenBackStock ==
    ASSUME RowsTyped, RowsTyped', ReturnsAwaited, NEW p \in Product, NEW c \in Condition, Balanced(p, c),
           NEW r \in Return, rma[r] # NoReturn,
           NEW bins \in [DOMAIN rma[r].lines -> BinsOf(rma[r].order)], ReceiveReturn(r, bins)
    PROVE  Balanced(p, c)'
<1> DEFINE A == ReturnArrivals(r, bins)
           h == [b \in Bin |-> A[<<p, b, c>>]]
           n == ReturnQuantity(r, p)
           m == IF c = "quarantined" THEN n ELSE 0
<1>1. /\ n \in Nat /\ m \in Nat /\ \A q \in DOMAIN bins : bins[q] \in Bin /\ rma[r].lines[q] \in Nat
      /\ DOMAIN bins = DOMAIN rma[r].lines
      /\ p \notin DOMAIN bins => n = 0
      /\ p \in DOMAIN bins => n = rma[r].lines[p]
  <2>1. rma[r].lines \in Quantified
    BY DEF RowsTyped, ReturnsTyped, ReturnRow
  <2>2. \A q \in DOMAIN rma[r].lines : rma[r].lines[q] \in Nat
    BY <2>1, QuantifiedTyped
  <2>3. \A q \in DOMAIN bins : bins[q] \in Bin
    BY Elements
  <2> QED
    BY <2>2, <2>3 DEF ReturnQuantity
<1>2. /\ A \in [Position -> Int]
      /\ \A b \in Bin : A[<<p, b, c>>] = IF p \in DOMAIN bins /\ bins[p] = b THEN m ELSE 0
  <2>1. \A b \in Bin : <<p, b, c>> \in Position
    BY DEF Position
  <2>2. A \in [Position -> Int]
    BY <1>1 DEF ReturnArrivals
  <2>3. \A b \in Bin : A[<<p, b, c>>] = IF p \in DOMAIN bins /\ bins[p] = b /\ c = "quarantined"
                                         THEN rma[r].lines[p] ELSE 0
    BY <2>1 DEF ReturnArrivals
  <2> HIDE DEF n
  <2> QED
    BY <1>1, <2>2, <2>3
<1>3. onHand' = [y \in Position |-> onHand[y] + A[y]]
  BY DEF ReceiveReturn, WritePositions
<1> HIDE DEF A
<1>4. h \in [Bin -> Int] /\ StockBy(p, c, Sum(h))
  BY <1>2, <1>3, StockWritten
<1>5. \A b \in Bin : h[b] = IF p \in DOMAIN bins /\ bins[p] = b THEN m ELSE 0
  BY <1>2
<1> HIDE DEF h, n
<1>6. p \notin DOMAIN bins => m = 0
  BY <1>1
<1> HIDE DEF m
<1>7. Sum(h) = m
  <2>1. CASE p \in DOMAIN bins
    <3> DEFINE b == bins[p]
    <3>1. b \in Bin /\ h[b] = m /\ \A y \in Bin : y # b => h[y] = 0
      BY <1>1, <1>5, <2>1
    <3> HIDE DEF b
    <3>2. Signed(Bin, h) = m
      BY <1>1, <3>1, TransferFinite, SignedSpike
    <3> QED
      BY <1>4, <3>2, SumIsSigned
  <2>2. CASE p \notin DOMAIN bins
    <3>1. \A b \in Bin : h[b] = 0
      BY <1>5, <2>2
    <3> QED
      BY <1>4, <1>6, <2>2, <3>1, SumOfNone
  <2> QED
    BY <2>1, <2>2
<1>8. StockBy(p, c, m)
  BY <1>4, <1>7
<1>9. ReturnAdvanced(r) /\ rma'[r].received = TRUE
  BY ReturnRules
<1>10. ~ rma[r].received
  BY DEF ReturnsAwaited, ReceiveReturn
<1>11. TakenBy(p, n)
  <2> DEFINE f == TakenRow(p)
             g == TakenRow(p)'
  <2>1. f \in [Return -> Int] /\ g \in [Return -> Int]
    BY RowsOfStock, RowsOfStockNext DEF StockRowsTyped
  <2>2. f[r] = 0 /\ g[r] = n
    BY <1>9, <1>10 DEF TakenRow, ReturnAdvanced, ReturnQuantity, n
  <2>3. \A y \in Return : y # r => g[y] = f[y]
    BY <1>9 DEF TakenRow, ReturnAdvanced, ReturnQuantity
  <2> HIDE DEF f, g
  <2>4. n \in Int /\ g[r] = f[r] + n
    BY <1>1, <2>2
  <2>5. Sum(g) = Sum(f) + n
    BY <2>1, <2>3, <2>4, TransferFinite, SumMoved
  <2> QED
    BY <2>5 DEF TakenBy, f, g
<1>12. UNCHANGED <<transfer, corrected, receipts, processed>>
  BY DEF ReceiveReturn, orderVars
<1>13. TransitBy(p, c, 0) /\ AcceptedBy(p, 0) /\ RejectedBy(p, 0) /\ ProcessedBy(p, 0) /\ CorrectedBy(p, c, 0)
  BY <1>12, Unmoved
<1>14. c \in {"sellable", "quarantined"}
  BY DEF Condition
<1>15. m + 0 = (IF c = "sellable" THEN 0 - 0 ELSE 0 + n) + 0
  BY <1>1, <1>14 DEF m
<1>16. m \in Int /\ n \in Int /\ 0 \in Int
  BY <1>1
<1> QED
  BY <1>8, <1>11, <1>13, <1>15, <1>16, Rebalanced

-----------------------------------------------------------------------------
(* Transfers: what ships them. *)

\* The task that ships a transfer is its manual task, and it is completed as soon
\* as the transfer exists, so a transfer is shipped once.
TransfersFollowed ==
    /\ \A t \in TaskId : task[t].type = "transfer" => t = ManualTaskId(task[t].ref)
    /\ \A m \in Transfer : transfer[m] # NoTransfer => task[ManualTaskId(m)].state = "completed"

LEMMA TransferMoves ==
    ASSUME RowsTyped, NEW t \in TaskId
    PROVE  /\ ShipTransferTask(t) => LET m == task[t].ref IN
                /\ m \in Transfer
                /\ transfer'[m] = [state |-> "shipped", shipped |-> Manual[m].quantity, received |-> 0]
                /\ transfer'[m].state = "shipped" /\ transfer'[m].shipped = Manual[m].quantity
                /\ transfer'[m] # NoTransfer
                /\ \A n \in Transfer : n # m => transfer'[n] = transfer[n]
           /\ \A got : ReceiveTransferTask(t, got) => LET m == task[t].ref IN
                /\ m \in Transfer
                /\ transfer[m] # NoTransfer /\ transfer[m].state = "shipped" /\ transfer[m].shipped \in Nat
                /\ transfer'[m].state # "shipped"
                /\ \A n \in Transfer : n # m => transfer'[n] = transfer[n]
<1>1. TransfersTyped /\ NoTransfer.state = "none" /\ TasksTyped
  BY DEF RowsTyped, NoTransfer
<1>2. ASSUME ShipTransferTask(t)
      PROVE  LET m == task[t].ref IN
                /\ m \in Transfer
                /\ transfer'[m] = [state |-> "shipped", shipped |-> Manual[m].quantity, received |-> 0]
                /\ transfer'[m].state = "shipped" /\ transfer'[m].shipped = Manual[m].quantity
                /\ transfer'[m] # NoTransfer
                /\ \A n \in Transfer : n # m => transfer'[n] = transfer[n]
  <2> DEFINE m == task[t].ref
             row == [state |-> "shipped", shipped |-> Manual[m].quantity, received |-> 0]
  <2>1. m \in Transfer /\ transfer' = [transfer EXCEPT ![m] = row]
    BY <1>1, <1>2 DEF ShipTransferTask, TasksTyped
  <2>2. row.state = "shipped" /\ row.shipped = Manual[m].quantity
    OBVIOUS
  <2> HIDE DEF row
  <2>3. transfer'[m] = row /\ \A n \in Transfer : n # m => transfer'[n] = transfer[n]
    BY <1>1, <2>1 DEF TransfersTyped
  <2>4. row # NoTransfer
    BY <1>1, <2>2
  <2>5. transfer'[m].state = "shipped" /\ transfer'[m].shipped = Manual[m].quantity /\ transfer'[m] # NoTransfer
    BY <2>2, <2>3, <2>4
  <2> QED
    BY <2>1, <2>3, <2>5 DEF row
<1>3. ASSUME NEW got, ReceiveTransferTask(t, got)
      PROVE  LET m == task[t].ref IN
                /\ m \in Transfer
                /\ transfer[m] # NoTransfer /\ transfer[m].state = "shipped" /\ transfer[m].shipped \in Nat
                /\ transfer'[m].state # "shipped"
                /\ \A n \in Transfer : n # m => transfer'[n] = transfer[n]
  <2> DEFINE m == task[t].ref
             row == [state |-> IF got = transfer[m].shipped THEN "received" ELSE "discrepancy_review",
                     shipped |-> transfer[m].shipped, received |-> got]
  <2>1. m \in Transfer /\ transfer' = [transfer EXCEPT ![m] = row] /\ transfer[m].state = "shipped"
    BY <1>1, <1>3 DEF ReceiveTransferTask, BookTransferReceipt, AwaitsReceipt, TasksTyped
  <2>2. row.state # "shipped"
    OBVIOUS
  <2> HIDE DEF row
  <2>3. transfer'[m] = row /\ \A n \in Transfer : n # m => transfer'[n] = transfer[n]
    BY <1>1, <2>1 DEF TransfersTyped
  <2>4. transfer[m] # NoTransfer
    BY <1>1, <2>1
  <2>5. transfer[m].shipped \in Nat
    BY <1>1, <2>1, <2>4 DEF TransfersTyped, TransferRow
  <2> QED
    BY <2>1, <2>2, <2>3, <2>4, <2>5
<1> QED
  BY <1>2, <1>3

LEMMA FollowedStep ==
    ASSUME RowsTyped, TransfersFollowed, [Next]_vars
    PROVE  TransfersFollowed'
<1>1. TaskRules /\ TasksTyped
  BY TasksStep DEF RowsTyped
<1>2. ASSUME NEW t \in TaskId, task[t] # NoTask
      PROVE  /\ task'[t].type = task[t].type /\ task'[t].ref = task[t].ref
             /\ task[t].state = "completed" => task'[t].state = "completed"
  <2>1. CASE task'[t] = task[t]
    BY <2>1
  <2>2. CASE Advanced(t)
    <3> PICK s \in TaskStates : task'[t] = [task[t] EXCEPT !.state = s]
      BY <2>2 DEF Advanced
    <3> QED
      BY <1>1, <1>2, <2>2, StateOnly DEF Advanced
  <2> QED
    BY <1>1, <1>2, <2>1, <2>2 DEF TaskRules, TaskRule, Opened, PinnedNow
<1>3. ASSUME NEW t \in TaskId, task'[t].type = "transfer"
      PROVE  t = ManualTaskId(task'[t].ref)
  <2>1. CASE task[t] # NoTask
    BY <1>2, <1>3, <2>1 DEF TransfersFollowed
  <2>2. CASE task[t] = NoTask
    <3>1. ~ Opened(t) /\ ~ Advanced(t) /\ task'[t] # task[t]
      BY <1>3, <2>2 DEF Opened, PlainRow, Advanced, NoTask
    <3>2. PinnedNow(t)
      BY <1>1, <3>1 DEF TaskRules, TaskRule
    <3> QED
      BY <1>3, <3>2 DEF PinnedNow
  <2> QED
    BY <2>1, <2>2
<1>4. ASSUME NEW m \in Transfer, transfer'[m] # NoTransfer
      PROVE  task'[ManualTaskId(m)].state = "completed"
  <2>1. ManualTaskId(m) \in TaskId
    BY DEF TaskId, Transfer
  <2>2. CASE transfer[m] # NoTransfer
    <3>1. task[ManualTaskId(m)].state = "completed" /\ task[ManualTaskId(m)] # NoTask
      BY <2>2 DEF TransfersFollowed, NoTask
    <3> QED
      BY <1>2, <2>1, <3>1
  <2>3. CASE transfer[m] = NoTransfer
    <3>1. ~ UNCHANGED transfer
      BY <1>4, <2>3
    <3>2. ~ ReceiveFromTask
      BY <1>4, <2>3, TransferMoves DEF ReceiveFromTask
    <3>3. ShipFromTask
      BY <3>1, <3>2, TransferFrame DEF vars
    <3> PICK t \in TaskId : ShipTransferTask(t)
      BY <3>3 DEF ShipFromTask
    <3>4. task[t].ref = m
      BY <1>4, <2>3, TransferMoves
    <3>5. t = ManualTaskId(m) /\ task[t] # NoTask
      BY <3>4, MayMove DEF ShipTransferTask, TransfersFollowed
    <3>6. task'[t].state = "completed"
      <4>1. task' = WithTasks(ReceiptTaskOf(m), Completed(t, task))
        BY <3>4 DEF ShipTransferTask
      <4>2. Completed(t, task)[t] = [task[t] EXCEPT !.state = "completed"]
        BY <1>1 DEF Completed, TasksTyped
      <4>3. [task[t] EXCEPT !.state = "completed"].state = "completed" /\ [task[t] EXCEPT !.state = "completed"] # NoTask
        <5>1. "completed" \in TaskStates
          BY DEF TaskStates
        <5> QED
          BY <1>1, <3>5, <5>1, StateOnly
      <4> QED
        BY <4>1, <4>2, <4>3 DEF WithTasks
    <3> QED
      BY <3>5, <3>6
  <2> QED
    BY <2>2, <2>3
<1> QED
  BY <1>3, <1>4 DEF TransfersFollowed

LEMMA TransitMoved ==
    ASSUME RowsTyped, RowsTyped', NEW p \in Product, NEW c \in Condition, NEW m \in Transfer, NEW n \in Int,
           TransitRow(p, c)'[m] = TransitRow(p, c)[m] + n,
           \A y \in Transfer : y # m => transfer'[y] = transfer[y]
    PROVE  TransitBy(p, c, n)
<1> DEFINE f == TransitRow(p, c)
           g == TransitRow(p, c)'
<1>1. f \in [Transfer -> Int] /\ g \in [Transfer -> Int]
  BY RowsOfStock, RowsOfStockNext DEF StockRowsTyped
<1>2. g[m] = f[m] + n
  OBVIOUS
<1>3. \A y \in Transfer : y # m => g[y] = f[y]
  BY DEF TransitRow
<1> HIDE DEF f, g
<1>4. Sum(g) = Sum(f) + n
  BY <1>1, <1>2, <1>3, TransferFinite, SumMoved
<1> QED
  BY <1>4 DEF TransitBy, f, g

LEMMA TransferShippedStock ==
    ASSUME RowsTyped, RowsTyped', TransfersFollowed, NEW p \in Product, NEW c \in Condition, Balanced(p, c),
           NEW t \in TaskId, ShipTransferTask(t)
    PROVE  Balanced(p, c)'
<1> DEFINE m == task[t].ref
           x == Manual[m].source
           q == Manual[m].quantity
           n == Here(x, p, c, q)
<1>1. m \in Transfer /\ m \in ManualTask /\ x \in Position /\ q \in Nat
  <2>1. m \in Transfer
    BY TransferMoves
  <2> QED
    BY <2>1, ManualAssumption DEF Transfer
<1>2. transfer[m] = NoTransfer
  <2>1. t = ManualTaskId(m)
    BY DEF ShipTransferTask, TransfersFollowed
  <2>2. task[t].state # "completed"
    BY MayMove DEF ShipTransferTask
  <2> QED
    BY <1>1, <2>1, <2>2 DEF TransfersFollowed
<1>3. /\ transfer'[m] # NoTransfer /\ transfer'[m].state = "shipped" /\ transfer'[m].shipped = q
      /\ \A y \in Transfer : y # m => transfer'[y] = transfer[y]
  BY TransferMoves
<1>4. WritePosition(x, -q, 0)
  BY DEF ShipTransferTask
<1>5. TransitRow(p, c)[m] = 0 /\ TransitRow(p, c)'[m] = n
  BY <1>1, <1>2, <1>3 DEF TransitRow, Here
<1>6. UNCHANGED <<corrected, receipts, processed, rma>>
  BY DEF ShipTransferTask, orderVars
<1>7. Here(x, p, c, -q) = -n
  <2>1. -0 = 0
    <3>1. 0 \in Int
      OBVIOUS
    <3> QED
      BY <3>1, MinusZero
  <2> QED
    BY <2>1 DEF Here
<1>8. n \in Int
  BY <1>1 DEF Here
<1> HIDE DEF m, x, q
<1>9. -q \in Int
  BY <1>1
<1>10. StockBy(p, c, -n)
  <2> DEFINE k == -q
  <2>1. k \in Int /\ WritePosition(x, k, 0) /\ Here(x, p, c, k) = -n
    BY <1>4, <1>7, <1>9
  <2> HIDE DEF k, n
  <2> QED
    BY <1>1, <2>1, OneWritten
<1> HIDE DEF n
<1>11. TransitBy(p, c, n)
  <2>1. TransitRow(p, c)'[m] = TransitRow(p, c)[m] + n
    BY <1>5, <1>8
  <2> QED
    BY <1>1, <1>3, <1>8, <2>1, TransitMoved
<1>12. \A r \in Return : TakenRow(p)'[r] = TakenRow(p)[r]
  BY <1>6 DEF TakenRow, ReturnQuantity
<1>13. AcceptedBy(p, 0) /\ RejectedBy(p, 0) /\ ProcessedBy(p, 0) /\ TakenBy(p, 0) /\ CorrectedBy(p, c, 0)
  BY <1>6, <1>12, Unmoved
<1>14. -n \in Int /\ 0 \in Int /\ -n + n = (IF c = "sellable" THEN 0 - 0 ELSE 0 + 0) + 0
  BY <1>8
<1> QED
  BY <1>8, <1>10, <1>11, <1>13, <1>14, Rebalanced

LEMMA TransferReceivedStock ==
    ASSUME RowsTyped, RowsTyped', NEW p \in Product, NEW c \in Condition, Balanced(p, c),
           NEW t \in TaskId, NEW got \in Quantities, ReceiveTransferTask(t, got)
    PROVE  Balanced(p, c)'
<1> DEFINE m == task[t].ref
           x == Manual[m].destination
           q == transfer[m].shipped
           w == got - q
           i == Here(x, p, c, got)
           j == Here(x, p, c, q)
           n == Here(x, p, c, w)
<1>1. /\ m \in Transfer /\ transfer[m] # NoTransfer /\ transfer[m].state = "shipped" /\ q \in Nat
      /\ transfer'[m].state # "shipped"
      /\ \A y \in Transfer : y # m => transfer'[y] = transfer[y]
  BY TransferMoves
<1>2. x \in Position /\ x[1] = Manual[m].source[1] /\ x[3] = Manual[m].source[3]
  BY <1>1, ManualAssumption
<1>3. got \in Nat
  BY FulfilmentAssumption
<1>4. /\ IF got > 0 THEN WritePosition(x, got, 0) ELSE UNCHANGED positionVars
      /\ Correct(x, w)
      /\ UNCHANGED <<receipts, processed, rma>>
  BY DEF ReceiveTransferTask, BookTransferReceipt, orderVars
<1>5. TransitRow(p, c)[m] = j /\ TransitRow(p, c)'[m] = 0
  BY <1>1, <1>2 DEF TransitRow, Here
<1>6. i \in Int /\ j \in Int /\ n \in Int /\ w \in Int /\ i + (-j) = n /\ (got = 0 => i = 0)
  BY <1>1, <1>3 DEF Here
<1> HIDE DEF m, x, q
<1>7. StockBy(p, c, i)
  <2>1. CASE got > 0
    <3>1. got \in Int /\ WritePosition(x, got, 0)
      BY <1>3, <1>4, <2>1
    <3> QED
      BY <1>2, <3>1, OneWritten
  <2>2. CASE ~ (got > 0)
    <3>1. UNCHANGED onHand
      BY <1>4, <2>2 DEF positionVars
    <3>2. i = 0
      BY <1>3, <1>6, <2>2
    <3>3. StockBy(p, c, 0)
      BY <3>1, Unmoved
    <3> HIDE DEF i
    <3> QED
      BY <3>2, <3>3
  <2> QED
    BY <2>1, <2>2
<1>8. CorrectedBy(p, c, n)
  <2> HIDE DEF w
  <2> QED
    BY <1>2, <1>4, <1>6, OneCorrected
<1> HIDE DEF i, j, n, w
<1> DEFINE l == -j
<1>9. l \in Int /\ 0 = j + l /\ i + l = (IF c = "sellable" THEN 0 - 0 ELSE 0 + 0) + n /\ 0 \in Int
  BY <1>6
<1> HIDE DEF l
<1>10. TransitBy(p, c, l)
  <2>1. TransitRow(p, c)'[m] = TransitRow(p, c)[m] + l
    BY <1>5, <1>9
  <2> QED
    BY <1>1, <1>9, <2>1, TransitMoved
<1>11. \A r \in Return : TakenRow(p)'[r] = TakenRow(p)[r]
  BY <1>4 DEF TakenRow, ReturnQuantity
<1>12. AcceptedBy(p, 0) /\ RejectedBy(p, 0) /\ ProcessedBy(p, 0) /\ TakenBy(p, 0)
  BY <1>4, <1>11, Unmoved
<1> QED
  BY <1>6, <1>7, <1>8, <1>9, <1>10, <1>12, Rebalanced

-----------------------------------------------------------------------------
(* The stock equation under any step. *)

LEMMA UnwrittenStock ==
    ASSUME RowsTyped, NEW p \in Product, NEW c \in Condition, Balanced(p, c),
           UNCHANGED <<onHand, corrected, transfer, receipts, processed>>,
           \A r \in Return : TakenRow(p)'[r] = TakenRow(p)[r]
    PROVE  Balanced(p, c)'
<1>1. StockBy(p, c, 0) /\ TransitBy(p, c, 0) /\ AcceptedBy(p, 0) /\ RejectedBy(p, 0)
      /\ ProcessedBy(p, 0) /\ TakenBy(p, 0) /\ CorrectedBy(p, c, 0)
  BY Unmoved
<1>2. 0 \in Int /\ 0 + 0 = (IF c = "sellable" THEN 0 - 0 ELSE 0 + 0) + 0
  OBVIOUS
<1> QED
  BY <1>1, <1>2, Rebalanced

\* A write that adds nothing on hand, as the reservations make it.
LEMMA ClaimedOnly ==
    ASSUME RowsTyped
    PROVE  /\ \A change, writes : WritePositions(Nothing, change, writes) => UNCHANGED onHand
           /\ \A x, n : WritePosition(x, 0, n) => UNCHANGED onHand
<1>1. onHand \in [Position -> Int] /\ \A x \in Position : Nothing[x] = 0
  BY DEF RowsTyped, StockTyped, Nothing
<1>2. ASSUME NEW change, NEW writes, WritePositions(Nothing, change, writes)
      PROVE  UNCHANGED onHand
  BY <1>1, <1>2 DEF WritePositions
<1>3. ASSUME NEW x, NEW n, WritePosition(x, 0, n)
      PROVE  UNCHANGED onHand
  <2>1. [Nothing EXCEPT ![x] = 0] = Nothing
    BY DEF Nothing
  <2> QED
    BY <1>2, <1>3, <2>1 DEF WritePosition
<1> QED
  BY <1>2, <1>3

LEMMA ReturnsUntaken ==
    ASSUME RowsTyped, NEW p \in Product, OpenReturn \/ CommandReturn
    PROVE  \A r \in Return : TakenRow(p)'[r] = TakenRow(p)[r]
<1>1. CASE OpenReturn
  <2> PICK r \in Return, x \in Sales : \E lines \in ReturnLines(x, Quantities) : CreateReturn(r, x, lines)
    BY <1>1 DEF OpenReturn
  <2> PICK lines \in ReturnLines(x, Quantities) : CreateReturn(r, x, lines)
    OBVIOUS
  <2>1. ReturnOpened(r, x, lines)
    BY ReturnRules
  <2>2. rma[r] = NoReturn /\ rma'[r].received = FALSE /\ \A y \in Return : y # r => rma'[y] = rma[y]
    BY <2>1 DEF ReturnOpened
  <2> QED
    BY <2>2 DEF TakenRow, ReturnQuantity
<1>2. CASE CommandReturn
  <2> PICK r \in Return, target \in ReturnCommands : TransitionReturn(r, target)
    BY <1>2 DEF CommandReturn
  <2>1. ReturnAdvanced(r) /\ rma'[r].received = rma[r].received
    BY ReturnRules
  <2> QED
    BY <2>1 DEF TakenRow, ReturnQuantity, ReturnAdvanced
<1> QED
  BY <1>1, <1>2

\* The commands that bring, take, move or correct stock, and all the others.
LEMMA StockEquationFrame ==
    ASSUME RowsTyped, NEW p \in Product, [Next]_vars
    PROVE  \/ /\ UNCHANGED <<onHand, corrected, transfer, receipts, processed>>
              /\ \A r \in Return : TakenRow(p)'[r] = TakenRow(p)[r]
           \/ Receive \/ ReceiveForTask \/ Ship \/ TakeBack
           \/ Count \/ ShipFromTask \/ ReceiveFromTask \/ AdjustStock
<1>1. UNCHANGED rma => \A r \in Return : TakenRow(p)'[r] = TakenRow(p)[r]
  BY DEF TakenRow, ReturnQuantity
<1>2. UNCHANGED positionVars => UNCHANGED onHand
  BY DEF positionVars
<1>3. CASE PlaceOrder \/ CommandOrder \/ AddTask \/ CommandTask
  BY <1>1, <1>2, <1>3 DEF PlaceOrder, CreateOrder, CommandOrder, TransitionOrder, AddTask, CreateTask,
                          CommandTask, TransitionTask, orderVars
<1>4. CASE Reserve
  BY <1>1, <1>4, ClaimedOnly DEF Reserve, Allocate
<1>5. CASE ReleaseAny
  BY <1>1, <1>5, ClaimedOnly DEF ReleaseAny, Release, orderVars
<1>6. CASE OpenReturn \/ CommandReturn
  <2>1. UNCHANGED <<onHand, corrected, transfer, receipts, processed>>
    BY <1>6 DEF OpenReturn, CreateReturn, CommandReturn, TransitionReturn, orderVars, positionVars
  <2> QED
    BY <1>6, <2>1, ReturnsUntaken
<1>7. CASE UNCHANGED vars
  <2>1. UNCHANGED <<onHand, corrected, transfer, receipts, processed, rma>>
    BY <1>7 DEF vars, orderVars, positionVars
  <2> QED
    BY <1>1, <2>1
<1> QED
  BY <1>3, <1>4, <1>5, <1>6, <1>7 DEF Next

LEMMA BalanceStep ==
    ASSUME RowsTyped, RowsTyped', ReturnsAwaited, TransfersFollowed,
           NEW p \in Product, NEW c \in Condition, Balanced(p, c), [Next]_vars
    PROVE  Balanced(p, c)'
<1>1. CASE /\ UNCHANGED <<onHand, corrected, transfer, receipts, processed>>
           /\ \A r \in Return : TakenRow(p)'[r] = TakenRow(p)[r]
  BY <1>1, UnwrittenStock
<1>2. CASE Receive
  <2> PICK o \in Purchase, tolerance \in Tolerance :
        \E lines \in ReceiptLines(o, Quantities) : PostReceipt(o, lines, tolerance, NoTaskId)
    BY <1>2 DEF Receive
  <2> PICK lines \in ReceiptLines(o, Quantities) : PostReceipt(o, lines, tolerance, NoTaskId)
    OBVIOUS
  <2> QED
    BY ReceivedStock
<1>3. CASE ReceiveForTask
  <2> PICK o \in Purchase, tolerance \in Tolerance, t \in TaskId :
        \E lines \in ReceiptLines(o, Quantities) : PostReceipt(o, lines, tolerance, t)
    BY <1>3 DEF ReceiveForTask
  <2> PICK lines \in ReceiptLines(o, Quantities) : PostReceipt(o, lines, tolerance, t)
    OBVIOUS
  <2> QED
    BY ReceivedStock
<1>4. CASE Ship
  <2> PICK o \in Sales, S \in SUBSET ReservationId : PostShipment(o, S)
    BY <1>4 DEF Ship
  <2> QED
    BY ShippedStock
<1>5. CASE TakeBack
  <2> PICK r \in {x \in Return : rma[x] # NoReturn} :
        \E bins \in [DOMAIN rma[r].lines -> BinsOf(rma[r].order)] : ReceiveReturn(r, bins)
    BY <1>5 DEF TakeBack
  <2> PICK bins \in [DOMAIN rma[r].lines -> BinsOf(rma[r].order)] : ReceiveReturn(r, bins)
    OBVIOUS
  <2> QED
    BY TakenBackStock
<1>6. CASE Count
  <2> PICK t \in TaskId, counted \in Counts : CompleteCount(t, counted)
    BY <1>6 DEF Count
  <2> DEFINE x == task[t].position
             n == counted - onHand[x]
  <2>1. x \in Position
    BY TaskTyped DEF CompleteCount, RowsTyped, TasksTyped, PinnedRow, Pinned
  <2>2. n \in Int
    BY <2>1, FulfilmentAssumption DEF RowsTyped, StockTyped
  <2>3. /\ WritePosition(x, n, 0) /\ Correct(x, n)
        /\ UNCHANGED <<transfer, receipts, processed, rma>>
    BY DEF CompleteCount, orderVars
  <2> HIDE DEF x, n
  <2> QED
    BY <2>1, <2>2, <2>3, CountedStock
<1>7. CASE ShipFromTask
  <2> PICK t \in TaskId : ShipTransferTask(t)
    BY <1>7 DEF ShipFromTask
  <2> QED
    BY TransferShippedStock
<1>8. CASE ReceiveFromTask
  <2> PICK t \in TaskId, got \in Quantities : ReceiveTransferTask(t, got)
    BY <1>8 DEF ReceiveFromTask
  <2> QED
    BY TransferReceivedStock
<1>9. CASE AdjustStock
  <2> PICK x \in Adjusted, delta \in Deltas, allowNegative \in BOOLEAN : Adjust(x, delta, allowNegative)
    BY <1>9 DEF AdjustStock
  <2>1. x \in Position /\ delta \in Int
    BY FulfilmentAssumption
  <2>2. /\ WritePosition(x, delta, 0) /\ Correct(x, delta)
        /\ UNCHANGED <<transfer, receipts, processed, rma>>
    BY DEF Adjust, orderVars
  <2> QED
    BY <2>1, <2>2, CountedStock
<1> QED
  BY <1>1, <1>2, <1>3, <1>4, <1>5, <1>6, <1>7, <1>8, <1>9, StockEquationFrame

LEMMA InitPositions == Init => ReturnsAwaited /\ TransfersFollowed /\ PositionsMatchDocuments
<1> SUFFICES ASSUME OrderInit, RowsTyped
             PROVE  ReturnsAwaited /\ TransfersFollowed /\ PositionsMatchDocuments
  BY InitRows DEF Init
<1>1. ReturnsAwaited
  BY DEF OrderInit, ReturnsAwaited
<1>2. TransfersFollowed
  BY DEF OrderInit, TransfersFollowed, NoTask
<1>3. ReservedMatches
  <2> SUFFICES ASSUME NEW x \in Position PROVE reserved[x] = Held(AtPlace(x))
    BY ReservedSums DEF RowsTyped
  <2>1. Held(AtPlace(x)) = SumOf({r \in AtPlace(x) : reservation[r].status = "active"}, QuantityOf)
    BY DEF Held
  <2>2. {r \in AtPlace(x) : reservation[r].status = "active"} = {}
    BY DEF OrderInit, AtPlace, NoReservation
  <2>3. Held(AtPlace(x)) = 0
    BY <2>1, <2>2, SumOfNothing
  <2> QED
    BY <2>3 DEF OrderInit, Nothing
<1>4. StockMatches
  <2> SUFFICES ASSUME NEW p \in Product, NEW c \in Condition PROVE Balanced(p, c)
    BY StockSays DEF StockSaid
  <2>1. StockRowsTyped
    BY RowsOfStock
  <2>2. Sum(StockRow(p, c)) = 0
    <3>1. \A b \in Bin : StockRow(p, c)[b] = 0
      BY DEF StockRow, OrderInit, Nothing, Position
    <3> QED
      BY <2>1, <3>1, SumOfNone DEF StockRowsTyped
  <2>3. Sum(TransitRow(p, c)) = 0
    <3>1. \A m \in Transfer : TransitRow(p, c)[m] = 0
      BY DEF TransitRow, OrderInit
    <3> QED
      BY <2>1, <3>1, SumOfNone DEF StockRowsTyped
  <2>4. Sum(AcceptedRow(p)) = 0 /\ Sum(RejectedRow(p)) = 0
    <3>1. \A o \in Purchase : AcceptedRow(p)[o] = 0 /\ RejectedRow(p)[o] = 0
      BY DEF AcceptedRow, RejectedRow, OrderInit, NoReceipts
    <3> QED
      BY <2>1, <3>1, SumOfNone DEF StockRowsTyped
  <2>5. Sum(ProcessedRow(p)) = 0
    <3>1. \A o \in Sales : ProcessedRow(p)[o] = 0
      BY DEF ProcessedRow, OrderInit, Order
    <3> QED
      BY <2>1, <3>1, SumOfNone DEF StockRowsTyped
  <2>6. Sum(TakenRow(p)) = 0
    <3>1. \A r \in Return : TakenRow(p)[r] = 0
      BY DEF TakenRow, OrderInit
    <3> QED
      BY <2>1, <3>1, SumOfNone DEF StockRowsTyped
  <2>7. corrected[<<p, c>>] = 0
    BY DEF OrderInit
  <2> QED
    BY <2>2, <2>3, <2>4, <2>5, <2>6, <2>7 DEF Balanced, Booked
<1>5. LinesMatchReceipts
  BY DEF OrderInit, LinesMatchReceipts, NoReceipts, Order
<1> QED
  BY <1>1, <1>2, <1>3, <1>4, <1>5 DEF PositionsMatchDocuments

LEMMA PositionsStep ==
    ASSUME RowsTyped, RowsTyped', AllocationsNumbered, ReturnsAwaited, TransfersFollowed,
           PositionsMatchDocuments, [Next]_vars
    PROVE  PositionsMatchDocuments'
<1>1. ReservedMatches /\ StockMatches /\ LinesMatchReceipts
  BY DEF PositionsMatchDocuments
<1>2. ReservedMatches'
  BY <1>1, ReservedStep
<1>3. LinesMatchReceipts'
  BY <1>1, LinesStep
<1>4. ASSUME NEW p \in Product, NEW c \in Condition
      PROVE  Balanced(p, c)'
  <2>1. Balanced(p, c)
    BY <1>1, StockSays DEF StockSaid
  <2> QED
    BY <2>1, BalanceStep
<1>5. StockMatches'
  BY <1>4, StockSaysNext DEF StockSaid
<1> QED
  BY <1>2, <1>3, <1>5 DEF PositionsMatchDocuments

\* Whatever commands are mixed in whatever order, the books agree: a position's
\* reserved quantity is the sum of the active reservations on it; what is on hand
\* or on its way between two warehouses is what receipts accepted (or rejected,
\* and returns brought back) less what shipments took, with the corrections of
\* counts, adjustments and short transfers; and a purchase line has processed what
\* its receipts delivered.  So post_receipt, post_shipment, receive_return and the
\* transfer tasks never post a document in part, or a second time.
THEOREM PositionsAgree == Spec => []PositionsMatchDocuments
<1>1. Init => AllocationsNumbered
  BY InitReserved
<1>2. RowsTyped /\ AllocationsNumbered /\ [Next]_vars => AllocationsNumbered'
  BY NumberedStep
<1>3. RowsTyped /\ ReturnsAwaited /\ TransfersFollowed /\ [Next]_vars => (ReturnsAwaited /\ TransfersFollowed)'
  BY AwaitedStep, FollowedStep
<1>4. /\ RowsTyped /\ RowsTyped' /\ AllocationsNumbered /\ ReturnsAwaited /\ TransfersFollowed
      /\ PositionsMatchDocuments /\ [Next]_vars
      => PositionsMatchDocuments'
  BY PositionsStep
<1> QED
  BY <1>1, <1>2, <1>3, <1>4, InitPositions, RowsInvariant, PTL DEF Spec

=============================================================================
