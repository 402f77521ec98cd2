-------------------------- MODULE MemoryOperations --------------------------
(***************************************************************************)
(* InMemoryOperationsStore (domain/operations.py), the store of the        *)
(* explicit development mode and of the tests, over the in-process ledger. *)
(*                                                                         *)
(* A document (a receipt, an allocation, a shipment, the receipt of a      *)
(* return) holds the operations lock from its replay check to its record,  *)
(* but it moves stock line by line, each line under the ledger's own lock  *)
(* and a key derived from its own; adjustments and releases go to the      *)
(* ledger directly and take their turns between the lines.  A line that    *)
(* raises ends the request where it is, the lines before it stay.  The     *)
(* client may send a document again under its key, with the versions it    *)
(* sent before or has read since.                                          *)
(*                                                                         *)
(* Documents are posted in one bin, so that a position there is a product  *)
(* and a condition, and a line of an order is named by its product.        *)
(* Versions of orders, returns and tasks are compared while the operations *)
(* lock is held, so that they only refuse and are left out; receipts with  *)
(* a task are in PurchaseReceiving.  Reservations are made by allocations, *)
(* and receipts tolerate nothing over the order.                           *)
(***************************************************************************)
EXTENDS ReferenceLedger, Workflows, FiniteSets, SequencesExt

CONSTANTS
    Purchase, Sales, Product,
    Ordered,       \* per order, the quantity of each product; 0 is no line
    RequestKey,    \* keys of documents
    ClientKey,     \* keys of the ledger's own commands
    Return,        \* returns that may be created
    Asked,         \* the order and the lines of each of them
    Elsewhere,     \* positions of another warehouse
    ManualTask,    \* tasks that a client may create
    Manual,        \* what each of them asks for
    Quantities,    \* quantities of a line
    Deltas,        \* quantities of an adjustment
    Adjusted,      \* positions that are adjusted
    Issued,        \* targets of the state commands that clients issue
    MaxLines,      \* bound on the lines of a document
    MaxCreated,    \* bound on the returns and tasks that clients create
    Opened,        \* where the orders are at the start, by commands before it
    Stocked        \* what is on hand at the start, by one adjustment each

Order == Purchase \cup Sales
Condition == {"sellable", "quarantined"}

\* "{key}:{posting.id}:{label}", "{key}:{posting.id}", "{key}:{line.id}": an id is
\* that of the document and the index of the line in it, or in the return.
SubKey == RequestKey \X (1..MaxLines) \X ({"accepted", "rejected", "allocation", "shipment"} \cup Return)

\* "warehouse-count:{task_id}:{key}" and the like: a task posts once, so its key is
\* named after it.  A shipped transfer has a second task, for its receipt.
PostTask(m) == <<"post", m>>
ReceiptTask(m) == <<"receive", m>>
TaskKey == {"post", "receive"} \X ManualTask

Lines(o) == {p \in Product : Ordered[o][p] > 0}

ASSUME MemoryAssumption ==
    /\ Position = (Product \X Condition) \cup Elsewhere
    /\ Key = SubKey \cup ClientKey \cup TaskKey
    /\ IsFiniteSet(Product) /\ IsFiniteSet(RequestKey) /\ IsFiniteSet(Return)
    /\ Purchase \cap Sales = {}
    /\ Ordered \in [Order -> [Product -> Nat]]
    /\ Opened \in [Order -> STRING]
    /\ \A o \in Order : Opened[o] \in {"none"} \cup
          (IF o \in Purchase THEN {"draft", "pending_approval", "approved", "sent", "acknowledged"}
                             ELSE {"quote", "draft", "confirmed", "backordered", "shipped"})
    /\ Stocked \in [Position -> Nat]
    /\ Quantities \subseteq Nat /\ Deltas \subseteq Int /\ Adjusted \subseteq Position
    /\ MaxLines \in Nat /\ \A o \in Order : Cardinality(Lines(o)) <= MaxLines

\* What returns and tasks ask for: lines of a sales order, and the stock of a position.
ASSUME AskedAssumption ==
    /\ \A r \in Return :
        /\ Asked[r].order \in Sales
        /\ DOMAIN Asked[r].lines \subseteq Lines(Asked[r].order)
        /\ \A p \in DOMAIN Asked[r].lines : Asked[r].lines[p] \in Nat \ {0}
    /\ \A m \in ManualTask :
        /\ Manual[m].type \in {"count", "transfer"}
        /\ Manual[m].source \in Position
        /\ Manual[m].type = "transfer" =>
              Manual[m].destination \in Position /\ Manual[m].quantity \in Nat \ {0}

VARIABLES
    orderState, processed,  \* _orders
    allocated,   \* _allocated_by_line
    rma,         \* _returns
    task,        \* _tasks that a client or a shipped transfer created, by the key they post under
    work,        \* _tasks that orders, returns and document lines generated
    body,        \* per key, the document the client last sent
    recorded,    \* _commands, _receipts, _allocations, _shipments: the keys that have an outcome
    running,     \* the document that holds the operations lock, and the line it is at
    posted       \* per derived key, the movement it made, with the version it named

operationVars == <<orderState, processed, allocated, rma, task, work, body, recorded, running, posted>>
vars == <<ledgerVars, operationVars>>

Idle == [key |-> "none"]
NoBody == [op |-> "none"]
NoMove == [op |-> "none"]
NoReturn == [state |-> "none"]
NoTask == [state |-> "none"]
Resting == running = Idle

\* What an order that is opened as shipped has had allocated and shipped before.
Before(o, p) == IF Opened[o] = "shipped" THEN Ordered[o][p] ELSE 0

OrderMayBecome(o, target) ==
    orderState[o] # "none"
      /\ target \in (IF o \in Purchase THEN PurchaseWorkflow ELSE SalesWorkflow)[orderState[o]]

-----------------------------------------------------------------------------
(* Commands on orders, returns and tasks: the operations lock is free. *)

documentVars == <<body, recorded, running, posted>>

CreateOrder(o) ==
    /\ Resting
    /\ orderState[o] = "none"
    /\ orderState' = [orderState EXCEPT ![o] = IF o \in Purchase THEN "draft" ELSE "quote"]
    /\ UNCHANGED <<ledgerVars, processed, allocated, rma, task, work, documentVars>>

TransitionOrder(o, target) ==
    /\ Resting
    /\ target \in IF o \in Purchase THEN PurchaseCommands ELSE SalesCommands
    /\ OrderMayBecome(o, target)
    /\ orderState' = [orderState EXCEPT ![o] = target]
    /\ work' = IF o \in Purchase /\ target = "acknowledged" THEN work \cup {<<"receive", o>>} ELSE work
    /\ UNCHANGED <<ledgerVars, processed, allocated, rma, task, documentVars>>

Created ==
    Cardinality({r \in Return : rma[r] # NoReturn})
      + Cardinality({m \in ManualTask : task[PostTask(m)] # NoTask})

\* Each return is compared with what was shipped, whatever other returns there are.
CreateReturn(r, o, lines) ==
    /\ Resting
    /\ rma[r] = NoReturn
    /\ Created < MaxCreated
    /\ orderState[o] \in {"shipped", "delivered", "closed"}
    /\ \A p \in DOMAIN lines : lines[p] <= processed[o][p]
    /\ rma' = [rma EXCEPT ![r] = [state |-> "requested", order |-> o, lines |-> lines]]
    /\ UNCHANGED <<ledgerVars, orderState, processed, allocated, task, work, documentVars>>

TransitionReturn(r, target) ==
    /\ Resting
    /\ rma[r] # NoReturn
    /\ target \in ReturnCommands \cap ReturnWorkflow[rma[r].state]
    /\ rma' = [rma EXCEPT ![r].state = target]
    /\ work' = IF target = "authorized" THEN work \cup {<<"return", r>>} ELSE work
    /\ UNCHANGED <<ledgerVars, orderState, processed, allocated, task, documentVars>>

\* The client pins the version it has read.
CreateTask(m) ==
    /\ Resting
    /\ task[PostTask(m)] = NoTask
    /\ Created < MaxCreated
    /\ task' = [task EXCEPT ![PostTask(m)] = [state |-> "open", pin |-> version[Manual[m].source]]]
    /\ UNCHANGED <<ledgerVars, orderState, processed, allocated, rma, work, documentVars>>

TaskMayBecome(t, target) == task[t] # NoTask /\ target \in TaskTransitions[task[t].state]

\* Counts and transfers are completed by their posting.
TransitionTask(t, target) ==
    /\ Resting
    /\ TaskMayBecome(t, target)
    /\ target \in TaskCommands \ {"completed"}
    /\ task' = [task EXCEPT ![t].state = target]
    /\ UNCHANGED <<ledgerVars, orderState, processed, allocated, rma, work, documentVars>>

\* One call of the ledger, then the task: nothing can come between them.
CompleteCountTask(m, counted) ==
    LET t == PostTask(m) IN
      /\ Resting
      /\ Manual[m].type = "count"
      /\ TaskMayBecome(t, "completed")
      /\ version[Manual[m].source] = task[t].pin
      /\ PostCount(t, Manual[m].source, counted)
      /\ task' = [task EXCEPT ![t].state = "completed"]
      /\ UNCHANGED <<orderState, processed, allocated, rma, work, documentVars>>

\* The receipt task pins the destination as it is now.
ShipTransferTask(m) ==
    LET t == PostTask(m) IN
      /\ Resting
      /\ Manual[m].type = "transfer"
      /\ TaskMayBecome(t, "completed")
      /\ version[Manual[m].source] = task[t].pin
      /\ ShipTransfer(t, Manual[m].source, Manual[m].destination, Manual[m].quantity)
      /\ task' = [task EXCEPT
            ![t].state = "completed",
            ![ReceiptTask(m)] = [state |-> "open", pin |-> version[Manual[m].destination]]]
      /\ UNCHANGED <<orderState, processed, allocated, rma, work, documentVars>>

ReceiveTransferTask(m, got) ==
    LET t == ReceiptTask(m) IN
      /\ Resting
      /\ TaskMayBecome(t, "completed")
      /\ version[Manual[m].destination] = task[t].pin
      /\ ReceiveTransfer(t, PostTask(m), got)
      /\ task' = [task EXCEPT ![t].state = "completed"]
      /\ UNCHANGED <<orderState, processed, allocated, rma, work, documentVars>>

-----------------------------------------------------------------------------
(* Documents.  A move is what one line, or one half of a receipt's line, does *)
(* to a position; a body is the moves of a document and the versions it names.*)

\* The members of a set of numbers, the least first.
Ascending(S) == [i \in 1..Cardinality(S) |-> CHOOSE n \in S : Cardinality({m \in S : m <= n}) = i]

\* lines is a function of products; each line is accepted, rejected or both: the
\* halves of line i are 2i - 1 and 2i.
ReceiptMoves(k, o, lines) ==
    LET products == SetToSeq(DOMAIN lines)
        LineOf(h) == (h + 1) \div 2
        Accepted(h) == h % 2 = 1
        Amount(h) == LET line == lines[products[LineOf(h)]] IN
                       IF Accepted(h) THEN line.accepted ELSE line.rejected
        halves == Ascending({h \in 1..(2 * Len(products)) : Amount(h) > 0})
        Half(h) == [sub |-> <<k, LineOf(h), IF Accepted(h) THEN "accepted" ELSE "rejected">>,
                    line |-> <<o, products[LineOf(h)]>>,
                    position |-> <<products[LineOf(h)], IF Accepted(h) THEN "sellable" ELSE "quarantined">>,
                    quantity |-> Amount(h)]
    IN  [i \in DOMAIN halves |-> Half(halves[i])]

AllocationMoves(k, o, lines) ==
    LET products == SetToSeq(DOMAIN lines) IN
      [i \in DOMAIN products |->
          [sub |-> <<k, i, "allocation">>, line |-> <<o, products[i]>>,
           position |-> <<products[i], "sellable">>, quantity |-> lines[products[i]]]]

\* Those of the return's lines that the client names, in full.
ReturnMoves(k, r, named) ==
    LET products == SetToSeq(DOMAIN rma[r].lines)
        chosen == Ascending({n \in DOMAIN products : products[n] \in named})
        Whole(n) == [sub |-> <<k, n, r>>, line |-> <<r, products[n]>>,
                     position |-> <<products[n], "quarantined">>, quantity |-> rma[r].lines[products[n]]]
    IN  [i \in DOMAIN chosen |-> Whole(chosen[i])]

\* A shipment names a reservation for each line; the client chooses both.
ShipmentMoves(k, o, pairs) ==
    [i \in DOMAIN pairs |->
        [sub |-> <<k, i, "shipment">>, line |-> <<o, pairs[i][1]>>, reservation |-> pairs[i][2],
         position |-> reservation[pairs[i][2]].position,
         quantity |-> reservation[pairs[i][2]].quantity]]

\* The versions a client reads for the moves, its own earlier moves included.
Reading(moves) ==
    [i \in DOMAIN moves |-> version[moves[i].position]
        + Cardinality({j \in 1..(i - 1) : moves[j].position = moves[i].position})]

\* The sum of the quantities f[x]: the number of their units.
Total(f) == Cardinality(UNION {{x} \X (1..f[x]) : x \in DOMAIN f})

MovedOf(moves, l) == Total([i \in {j \in DOMAIN moves : moves[j].line = l} |-> moves[i].quantity])

\* Mutant: an allocation is not compared with what its lines have open.
AdmissibleByState(b) ==
    CASE b.op = "receipt" -> orderState[b.of] \in {"acknowledged", "partially_received"}
      [] b.op = "allocation" -> orderState[b.of] \in {"confirmed", "partially_allocated", "backordered"}
      [] b.op = "shipment" -> orderState[b.of] \in {"picking", "partially_shipped"}
      [] b.op = "return" -> rma[b.of].state = "authorized"

\* The state of the order or return under the operations lock.
Admissible(b) ==
    CASE b.op = "receipt" -> orderState[b.of] \in {"acknowledged", "partially_received"}
      [] b.op = "allocation" ->
            /\ orderState[b.of] \in {"confirmed", "partially_allocated", "backordered"}
            /\ \A p \in Product : MovedOf(b.moves, <<b.of, p>>) > 0 =>
                  allocated[b.of][p] + MovedOf(b.moves, <<b.of, p>>) <= Ordered[b.of][p]
      [] b.op = "shipment" -> orderState[b.of] \in {"picking", "partially_shipped"}
      [] b.op = "return" -> rma[b.of].state = "authorized"

Begin(k, b) ==
    /\ Resting
    /\ k \notin recorded
    /\ Admissible(b)
    /\ body' = [body EXCEPT ![k] = b]
    /\ running' = [key |-> k, at |-> 1]
    /\ UNCHANGED <<ledgerVars, orderState, processed, allocated, rma, task, work, recorded, posted>>

Body(op, of, moves, seen) == [op |-> op, of |-> of, moves |-> moves, seen |-> seen]

Send(k, op, of, moves) == moves # <<>> /\ Begin(k, Body(op, of, moves, Reading(moves)))

\* The same document under its key, each version as it was sent or as it is now.
Resend(k) ==
    /\ body[k] # NoBody
    /\ \E refreshed \in SUBSET DOMAIN body[k].moves :
          LET b == body[k] IN
            Begin(k, Body(b.op, b.of, b.moves,
                [i \in DOMAIN b.moves |->
                    IF i \in refreshed THEN Reading(b.moves)[i] ELSE b.seen[i]]))

\* The document that runs and its current move, with the version it names.
Doc == body[running.key]
AtMove == ~Resting /\ running.at \in DOMAIN Doc.moves
ThisMove == Doc.moves[running.at]
ThisSeen == Doc.seen[running.at]

\* Mutant: a derived key replays whatever it did.
ReplaysAny == posted[ThisMove.sub] # NoMove

\* What the fingerprint of a movement keeps of it: all but the order's line.
SameCommand(m, n) == [m EXCEPT !.line = n.line] = n

\* The ledger knows the derived key and the command is the same.  Those of an
\* allocation and a shipment name the correlation of the request, which is new
\* with every try.
Replays ==
    /\ Doc.op \in {"receipt", "return"}
    /\ posted[ThisMove.sub] # NoMove
    /\ SameCommand(posted[ThisMove.sub].move, ThisMove)
    /\ posted[ThisMove.sub].seen = ThisSeen

\* A receipt's line is compared with what the order has open when its turn comes.
WithinOrder ==
    Doc.op = "receipt" =>
        processed[Doc.of][ThisMove.line[2]]
          + MovedOf(SelectSeq(Doc.moves, LAMBDA m : m.sub[2] = ThisMove.sub[2]), ThisMove.line)
            <= Ordered[Doc.of][ThisMove.line[2]]

\* What the ledger asks of the line.
Postable ==
    /\ posted[ThisMove.sub] = NoMove
    /\ version[ThisMove.position] = ThisSeen
    /\ CASE Doc.op \in {"receipt", "return"} -> Adjustable(ThisMove.position, ThisMove.quantity, FALSE)
         [] Doc.op = "allocation" -> Available(ThisMove.position) >= ThisMove.quantity
         [] Doc.op = "shipment" -> reservation[ThisMove.reservation].status = "active"

PostMove ==
    CASE Doc.op \in {"receipt", "return"} ->
            Adjust(ThisMove.sub, ThisMove.position, ThisMove.quantity, FALSE)
      [] Doc.op = "allocation" -> Reserve(ThisMove.sub, ThisMove.position, ThisMove.quantity)
      [] Doc.op = "shipment" -> ConsumeReservation(ThisMove.sub, ThisMove.reservation)

\* Only after the reservation is consumed is its line compared with the shipment's.
OfItsLine == Doc.op = "shipment" => posted[ThisMove.reservation].move.line = ThisMove.line

\* A putaway or pick task, when the line is through.
LineTasks ==
    LET ofLine == {i \in DOMAIN Doc.moves : Doc.moves[i].sub[2] = ThisMove.sub[2]} IN
      IF running.at + 1 \in ofLine THEN {}
      ELSE {Doc.moves[i].sub : i \in {n \in ofLine : Doc.moves[n].sub[3] \in {"accepted", "allocation"}}}

NextLine == running' = [running EXCEPT !.at = @ + 1]

PostLine ==
    /\ AtMove /\ WithinOrder /\ Postable
    /\ PostMove
    /\ posted' = [posted EXCEPT ![ThisMove.sub] = [move |-> ThisMove, seen |-> ThisSeen]]
    /\ IF OfItsLine THEN NextLine ELSE running' = Idle
    /\ work' = work \cup LineTasks
    /\ UNCHANGED <<orderState, processed, allocated, rma, task, body, recorded>>

\* The task of a replayed line is put in place again, open.
ReplayLine ==
    /\ AtMove /\ WithinOrder /\ Replays
    /\ NextLine
    /\ work' = work \cup LineTasks
    /\ UNCHANGED <<ledgerVars, orderState, processed, allocated, rma, task, body, recorded, posted>>

\* A document that has moved nothing is as good as not sent.
LineRaises ==
    /\ AtMove
    /\ ~(WithinOrder /\ (Postable \/ Replays))
    /\ running' = Idle
    /\ body' = IF \E m \in ToSet(Doc.moves) : posted[m.sub] # NoMove
                 THEN body ELSE [body EXCEPT ![running.key] = NoBody]
    /\ UNCHANGED <<ledgerVars, orderState, processed, allocated, rma, task, work, recorded, posted>>

-----------------------------------------------------------------------------
(* After the last line. *)

AllLines == ~Resting /\ running.at = Len(Doc.moves) + 1

NextProcessed(o) == [p \in Product |-> processed[o][p] + MovedOf(Doc.moves, <<o, p>>)]
NextAllocated(o) == [p \in Product |-> allocated[o][p] + MovedOf(Doc.moves, <<o, p>>)]

CompleteOr(quantity, o, complete, partial) ==
    IF \A p \in Lines(o) : quantity[p] >= Ordered[o][p] THEN complete ELSE partial

Target ==
    CASE Doc.op = "receipt" -> CompleteOr(NextProcessed(Doc.of), Doc.of, "received", "partially_received")
      [] Doc.op = "allocation" -> CompleteOr(NextAllocated(Doc.of), Doc.of, "allocated", "partially_allocated")
      [] Doc.op = "shipment" -> CompleteOr(NextProcessed(Doc.of), Doc.of, "shipped", "partially_shipped")
      [] Doc.op = "return" -> "received"

\* A shipment is compared with the order, and the receipt of a return with its
\* lines, when all the stock has moved.
Finishes ==
    /\ Doc.op = "shipment" => \A p \in Product : NextProcessed(Doc.of)[p] <= Ordered[Doc.of][p]
    /\ IF Doc.op = "return"
         THEN {m.line[2] : m \in ToSet(Doc.moves)} = DOMAIN rma[Doc.of].lines
         ELSE OrderMayBecome(Doc.of, Target)

Finish ==
    /\ AllLines /\ Finishes
    /\ IF Doc.op = "return"
         THEN rma' = [rma EXCEPT ![Doc.of].state = Target] /\ UNCHANGED orderState
         ELSE orderState' = [orderState EXCEPT ![Doc.of] = Target] /\ UNCHANGED rma
    /\ processed' = IF Doc.op \in {"receipt", "shipment"}
                      THEN [processed EXCEPT ![Doc.of] = NextProcessed(Doc.of)] ELSE processed
    /\ allocated' = IF Doc.op = "allocation"
                      THEN [allocated EXCEPT ![Doc.of] = NextAllocated(Doc.of)] ELSE allocated
    /\ recorded' = recorded \cup {running.key}
    /\ running' = Idle
    /\ UNCHANGED <<ledgerVars, task, work, body, posted>>

FinishRaises ==
    /\ AllLines /\ ~Finishes
    /\ running' = Idle
    /\ UNCHANGED <<ledgerVars, orderState, processed, allocated, rma, task, work, body, recorded, posted>>

-----------------------------------------------------------------------------
(* The commands that go to the ledger itself. *)

\* The client may say that the stock is allowed to fall below what is reserved.
AdjustStock(k, p, delta, allowNegative) ==
    Adjust(k, p, delta, allowNegative) /\ UNCHANGED operationVars

ReleaseAny(k, r) == ReleaseReservation(k, r) /\ UNCHANGED operationVars

-----------------------------------------------------------------------------

Init ==
    /\ onHand = Stocked
    /\ version = [p \in Position |-> IF Stocked[p] = 0 THEN 0 ELSE 1]
    /\ reserved = [p \in Position |-> 0]
    /\ reservation = [k \in Key |-> NoReservation]
    /\ staged = [k \in Key |-> NoTransfer]
    /\ done = [k \in Key |-> {}]
    /\ orderState = Opened
    /\ processed = [o \in Order |-> [p \in Product |-> Before(o, p)]]
    /\ allocated = [o \in Sales |-> [p \in Product |-> Before(o, p)]]
    /\ rma = [r \in Return |-> NoReturn]
    /\ task = [t \in TaskKey |-> NoTask]
    /\ work = {}
    /\ body = [k \in RequestKey |-> NoBody]
    /\ recorded = {}
    /\ running = Idle
    /\ posted = [s \in SubKey |-> NoMove]

LinesFrom(S, values) == UNION {[T -> values] : T \in (SUBSET S) \ {{}}}

OrderRequests ==
    \/ \E o \in Order : CreateOrder(o) \/ \E target \in Issued : TransitionOrder(o, target)
    \/ \E r \in Return :
          \/ CreateReturn(r, Asked[r].order, Asked[r].lines)
          \/ \E target \in Issued : TransitionReturn(r, target)

TaskRequests ==
    \/ \E m \in ManualTask :
          \/ CreateTask(m) \/ ShipTransferTask(m)
          \/ \E got \in Quantities : ReceiveTransferTask(m, got) \/ CompleteCountTask(m, got)
    \/ \E t \in TaskKey : \E target \in Issued : TransitionTask(t, target)

ReceiptLine == [accepted : Quantities, rejected : Quantities] \ {[accepted |-> 0, rejected |-> 0]}

Documents(k) ==
    \/ \E o \in Purchase : \E lines \in LinesFrom(Lines(o), ReceiptLine) :
          Send(k, "receipt", o, ReceiptMoves(k, o, lines))
    \/ \E o \in Sales :
          \/ \E lines \in LinesFrom(Lines(o), Quantities \ {0}) :
                Send(k, "allocation", o, AllocationMoves(k, o, lines))
          \/ \E pairs \in SeqOf(Lines(o) \X {r \in SubKey : reservation[r] # NoReservation}, MaxLines) :
                Send(k, "shipment", o, ShipmentMoves(k, o, pairs))
    \/ \E r \in {x \in Return : rma[x] # NoReturn} : \E S \in SUBSET DOMAIN rma[r].lines :
          Send(k, "return", r, ReturnMoves(k, r, S))

LedgerRequests ==
    \E k \in ClientKey :
        \/ \E p \in Adjusted, delta \in Deltas, allowNegative \in BOOLEAN :
              AdjustStock(k, p, delta, allowNegative)
        \/ \E r \in SubKey : ReleaseAny(k, r)

Next ==
    \/ OrderRequests \/ TaskRequests
    \/ \E k \in RequestKey : Documents(k) \/ Resend(k)
    \/ PostLine \/ ReplayLine \/ LineRaises
    \/ Finish \/ FinishRaises
    \/ LedgerRequests

Spec == Init /\ [][Next]_vars

-----------------------------------------------------------------------------
(* Properties. *)

\* Every table holds rows of its kind, and a document at rest has no line left.
TypeOK ==
    /\ onHand \in [Position -> Int] /\ reserved \in [Position -> Nat] /\ version \in [Position -> Nat]
    /\ \A o \in Purchase : orderState[o] \in DOMAIN PurchaseWorkflow \cup {"none"}
    /\ \A o \in Sales : orderState[o] \in DOMAIN SalesWorkflow \cup {"none"}
    /\ \A o \in Order : processed[o] \in [Product -> Nat]
    /\ \A o \in Sales, p \in Product : allocated[o][p] \in 0..Ordered[o][p]
    /\ \A r \in Return : rma[r] = NoReturn \/ rma[r].state \in DOMAIN ReturnWorkflow
    /\ \A t \in TaskKey : task[t] = NoTask \/ task[t].state \in DOMAIN TaskTransitions
    /\ recorded \subseteq RequestKey
    /\ running = Idle \/ (running.key \in RequestKey \ recorded /\ running.at \in 1..(Len(Doc.moves) + 1))

Recorded(op, o) == {k \in recorded : body[k].op = op /\ body[k].of = o}

\* A recorded document is wholly in stock and wholly on its order: each of its
\* lines was posted under its own key as the document says, and the order's lines
\* add up to its documents, however often they failed half-way and were sent again.
DocumentsPosted ==
    /\ \A k \in recorded : \A i \in DOMAIN body[k].moves :
          /\ posted[body[k].moves[i].sub] # NoMove
          /\ SameCommand(posted[body[k].moves[i].sub].move, body[k].moves[i])
    /\ \A o \in Order, p \in Product :
          processed[o][p] = Before(o, p) +
              Total([k \in Recorded("receipt", o) \cup Recorded("shipment", o) |-> MovedOf(body[k].moves, <<o, p>>)])
    /\ \A o \in Sales, p \in Product :
          allocated[o][p] = Before(o, p) +
              Total([k \in Recorded("allocation", o) |-> MovedOf(body[k].moves, <<o, p>>)])

\* What a position holds back is what its active reservations claim: documents that
\* fail half-way, shipments and releases between them and overrides lose no claim
\* and count none twice.
ReservationsCounted ==
    \A p \in Position :
        reserved[p] = Total([r \in {x \in SubKey : /\ reservation[x].status = "active"
                                                   /\ reservation[x].position = p}
                             |-> reservation[r].quantity])

\* What a position lacks of what its reservations claim.
Short(p) == IF reserved[p] > onHand[p] THEN reserved[p] - onHand[p] ELSE 0

\* A position lacks nothing until a client overrides it, and its shortage never
\* grows but by another override of the same position: an allocation, a count or a
\* transfer never promises or takes away what is reserved, and a shipment, which
\* does not compare the stock it consumes, lowers both sides alike.
ShortByOverrideOnly ==
    [][\A p \in Position : Short(p)' > Short(p) =>
          \E k \in ClientKey, delta \in Deltas : AdjustStock(k, p, delta, TRUE)]_vars

=============================================================================
