------------------------- MODULE OutboxDispatchProofs -------------------------
(***************************************************************************)
(* Proofs about OutboxDispatch for any events, any workers and any bound   *)
(* on faults: its types, that duplicates need a rollback, and that it      *)
(* implements AtLeastOnce.                                                 *)
(***************************************************************************)
EXTENDS OutboxDispatch, TLAPS

\* A worker that is not idle holds a committed, unpublished row, and one that
\* has published it has delivered it.
HeldRows ==
    \A w \in Worker : worker[w] # Idle =>
        LET e == worker[w].event IN
          /\ command[e] = "committed"
          /\ e \notin published
          /\ worker[w].pc = "sent" => sent[e] > 0

\* The row lock: no two workers hold one row.
RowLock ==
    \A v, w \in Worker :
        (v # w /\ worker[v] # Idle /\ worker[w] # Idle) => worker[v].event # worker[w].event

\* Where every delivery of an event went: rolled back, committed, or still in
\* the hands of the worker that made it.
InFlight(e) == \E w \in Worker : worker[w].pc = "sent" /\ worker[w].event = e

Accounted ==
    \A e \in Event : sent[e] = lost[e] + (IF e \in published \/ InFlight(e) THEN 1 ELSE 0)

Inv == TypeOK /\ HeldRows /\ RowLock

-----------------------------------------------------------------------------

LEMMA BusyShape ==
    ASSUME TypeOK, NEW w \in Worker
    PROVE  /\ worker[w] # Idle => worker[w] \in Busy
           /\ worker[w] # Idle <=> worker[w].pc \in {"locked", "sent"}
           /\ worker[w].pc \in {"locked", "sent"} => worker[w].event \in Event
BY DEF TypeOK, Busy, Idle

LEMMA InitInv == Init => Inv
BY FaultsAssumption DEF Init, Inv, TypeOK, HeldRows, RowLock, Idle, Busy

LEMMA CommandInv ==
    ASSUME Inv, NEW e \in Event, CommandStep(e)
    PROVE  Inv'
<1>1. TypeOK'
  BY DEF Inv, TypeOK, CommandStep, BeginCommand, EndCommand, markVars
<1>2. /\ UNCHANGED <<markVars, worker, sent>>
      /\ \A f \in Event : command[f] = "committed" => command'[f] = "committed"
  BY DEF Inv, TypeOK, CommandStep, BeginCommand, EndCommand
<1>3. HeldRows'
  <2> SUFFICES ASSUME NEW w \in Worker, worker[w] # Idle
               PROVE  /\ command'[worker[w].event] = "committed"
                      /\ worker[w].event \notin published
                      /\ worker[w].pc = "sent" => sent[worker[w].event] > 0
    BY <1>2 DEF HeldRows, markVars
  <2> QED
    BY <1>2, BusyShape DEF Inv, HeldRows
<1>4. RowLock'
  BY <1>2 DEF Inv, RowLock
<1> QED
  BY <1>1, <1>3, <1>4 DEF Inv

LEMMA SelectInv ==
    ASSUME Inv, NEW w \in Worker, NEW e \in Event, SelectEvent(w, e)
    PROVE  Inv'
<1> DEFINE held == [pc |-> "locked", event |-> e]
<1>1. /\ worker' = [worker EXCEPT ![w] = held]
      /\ UNCHANGED <<command, published, sent>>
      /\ held \in Busy /\ held.event = e /\ held.pc = "locked"
  BY DEF SelectEvent, rowVars, markVars, Busy
<1>2. command[e] = "committed" /\ e \notin published /\ ~Locked(e)
  BY DEF SelectEvent, Eligible
<1> HIDE DEF held
<1>3. TypeOK'
  BY <1>1 DEF Inv, TypeOK, SelectEvent, rowVars, markVars
<1>4. /\ worker'[w] = held
      /\ \A v \in Worker \ {w} : worker'[v] = worker[v]
  BY <1>1 DEF Inv, TypeOK
<1>5. HeldRows'
  BY <1>1, <1>2, <1>4 DEF Inv, HeldRows
<1>6. RowLock'
  BY <1>1, <1>2, <1>4 DEF Inv, RowLock, Locked
<1> QED
  BY <1>3, <1>5, <1>6 DEF Inv

LEMMA PublishInv ==
    ASSUME Inv, NEW w \in Worker, Publish(w)
    PROVE  Inv'
<1> DEFINE e == worker[w].event
           held == [pc |-> "sent", event |-> e]
<1>1. e \in Event /\ worker[w] # Idle
  BY BusyShape DEF Publish, Inv
<1>2. /\ worker' = [worker EXCEPT ![w] = held]
      /\ sent' = [sent EXCEPT ![e] = @ + 1]
      /\ UNCHANGED <<command, published>>
      /\ held \in Busy /\ held.event = e /\ held # Idle
  BY <1>1 DEF Publish, rowVars, markVars, Busy, Idle
<1>3. TypeOK'
  <2> HIDE DEF e, held
  <2> QED
    BY <1>1, <1>2 DEF Inv, TypeOK, Publish, rowVars, markVars
<1>4. /\ worker'[w] = held
      /\ \A v \in Worker \ {w} : worker'[v] = worker[v]
      /\ \A f \in Event : sent[f] > 0 => sent'[f] > 0
      /\ sent'[e] > 0
  <2> HIDE DEF e, held
  <2> QED
    BY <1>1, <1>2 DEF Inv, TypeOK
<1>5. HeldRows'
  <2> SUFFICES ASSUME NEW v \in Worker, worker'[v] # Idle
               PROVE  /\ command[worker'[v].event] = "committed"
                      /\ worker'[v].event \notin published
                      /\ worker'[v].pc = "sent" => sent'[worker'[v].event] > 0
    BY <1>2 DEF HeldRows
  <2>1. CASE v = w
    BY <1>1, <1>2, <1>4, <2>1 DEF Inv, HeldRows
  <2>2. CASE v # w
    BY <1>4, <2>2, BusyShape DEF Inv, HeldRows
  <2> QED
    BY <2>1, <2>2
<1>6. RowLock'
  <2> HIDE DEF held
  <2> QED
    BY <1>1, <1>2, <1>4 DEF Inv, RowLock
<1> QED
  BY <1>3, <1>5, <1>6 DEF Inv

\* Every other step of a worker ends its transaction.
LEMMA EndInv ==
    ASSUME Inv, NEW w \in Worker,
           CommitPublished(w) \/ FaultStep(w)
    PROVE  Inv'
<1> DEFINE e == worker[w].event
<1>1. e \in Event /\ worker[w] # Idle
  BY BusyShape DEF CommitPublished, FaultStep, PublisherRaises, Crash, Inv
<1>2. /\ worker' = [worker EXCEPT ![w] = Idle]
      /\ command' = command
      /\ published' \subseteq published \cup {e}
  BY DEF CommitPublished, FaultStep, PublisherRaises, Crash, rowVars, markVars
<1>3. \A f \in Event : sent'[f] \in Nat /\ sent'[f] >= sent[f]
  BY DEF Inv, TypeOK, CommitPublished, FaultStep, PublisherRaises, Crash
<1>4. TypeOK'
  <2>1. CASE CommitPublished(w)
    BY <1>1, <2>1 DEF Inv, TypeOK, CommitPublished, rowVars
  <2>2. CASE FaultStep(w)
    BY <1>1, <2>2, FaultsAssumption
       DEF Inv, TypeOK, FaultStep, PublisherRaises, Crash, Fault, rowVars, markVars
  <2> QED
    BY <2>1, <2>2
<1>5. /\ worker'[w] = Idle
      /\ \A v \in Worker \ {w} : worker'[v] = worker[v]
  BY <1>2 DEF Inv, TypeOK
<1>6. HeldRows'
  <2> SUFFICES ASSUME NEW v \in Worker \ {w}, worker[v] # Idle
               PROVE  /\ command[worker[v].event] = "committed"
                      /\ worker[v].event \notin published'
                      /\ worker[v].pc = "sent" => sent'[worker[v].event] > 0
    BY <1>2, <1>5 DEF HeldRows
  <2>1. worker[v].event \in Event /\ worker[v].event # e
    BY <1>1, BusyShape DEF Inv, RowLock
  <2>2. sent[worker[v].event] \in Nat
    BY <2>1 DEF Inv, TypeOK
  <2> QED
    BY <1>2, <1>3, <2>1, <2>2 DEF Inv, HeldRows
<1>7. RowLock'
  BY <1>5 DEF Inv, RowLock
<1> QED
  BY <1>4, <1>6, <1>7 DEF Inv

LEMMA NextInv == Inv /\ [Next]_vars => Inv'
<1> SUFFICES ASSUME Inv, [Next]_vars PROVE Inv'
  OBVIOUS
<1>1. CASE UNCHANGED vars
  BY <1>1 DEF Inv, TypeOK, HeldRows, RowLock, vars, rowVars, markVars
<1>2. CASE Next
  BY <1>2, CommandInv, SelectInv, PublishInv, EndInv DEF Next, Dispatch
<1> QED
  BY <1>1, <1>2

LEMMA Invariant == Spec => []Inv
BY InitInv, NextInv, PTL DEF Spec

\* The rows and the workers' places in dispatch_one have their types.
THEOREM OutboxTypeCorrect == Spec => []TypeOK
BY Invariant, PTL DEF Inv

-----------------------------------------------------------------------------
(* Duplicates. *)

LEMMA AccountedStep ==
    ASSUME Inv, Accounted, [Next]_vars
    PROVE  Accounted'
<1> SUFFICES ASSUME NEW f \in Event
             PROVE  sent'[f] = lost'[f] + (IF f \in published' \/ InFlight(f)' THEN 1 ELSE 0)
  BY DEF Accounted
<1>1. /\ sent[f] = lost[f] + (IF f \in published \/ InFlight(f) THEN 1 ELSE 0)
      /\ sent[f] \in Nat /\ lost[f] \in Nat
  BY DEF Accounted, Inv, TypeOK
<1>2. ASSUME sent' = sent, lost' = lost, published' = published, InFlight(f)' <=> InFlight(f)
      PROVE  sent'[f] = lost'[f] + (IF f \in published' \/ InFlight(f)' THEN 1 ELSE 0)
  BY <1>1, <1>2
<1>3. CASE UNCHANGED vars
  BY <1>2, <1>3 DEF vars, markVars, InFlight
<1>4. ASSUME NEW e \in Event, CommandStep(e)
      PROVE  sent'[f] = lost'[f] + (IF f \in published' \/ InFlight(f)' THEN 1 ELSE 0)
  BY <1>2, <1>4 DEF CommandStep, BeginCommand, EndCommand, markVars, InFlight
<1>5. ASSUME NEW w \in Worker, NEW e \in Event, SelectEvent(w, e)
      PROVE  sent'[f] = lost'[f] + (IF f \in published' \/ InFlight(f)' THEN 1 ELSE 0)
  <2>1. /\ worker[w].pc = "idle"
        /\ worker'[w].pc = "locked"
        /\ \A v \in Worker \ {w} : worker'[v] = worker[v]
    BY <1>5 DEF SelectEvent, Idle, Inv, TypeOK
  <2>2. InFlight(f)' <=> InFlight(f)
    BY <2>1 DEF InFlight
  <2> QED
    BY <1>2, <1>5, <2>2 DEF SelectEvent, markVars
<1>6. ASSUME NEW w \in Worker, Publish(w)
      PROVE  sent'[f] = lost'[f] + (IF f \in published' \/ InFlight(f)' THEN 1 ELSE 0)
  <2> DEFINE e == worker[w].event
  <2>1. /\ worker[w] # Idle /\ e \in Event /\ e \notin published
        /\ worker[w].pc = "locked"
    BY <1>6, BusyShape DEF Publish, Inv, HeldRows
  <2>2. /\ worker'[w].pc = "sent" /\ worker'[w].event = e
        /\ \A v \in Worker \ {w} : worker'[v] = worker[v]
    BY <1>6 DEF Publish, Inv, TypeOK
  <2>3. published' = published /\ lost' = lost /\ sent' = [sent EXCEPT ![e] = @ + 1]
    BY <1>6 DEF Publish, markVars
  <2>4. \A v \in Worker : worker[v].pc = "sent" => worker[v].event # e
    BY <2>1, BusyShape DEF Inv, RowLock
  <2> HIDE DEF e
  <2>5. CASE f = e
    <3>1. ~InFlight(f) /\ InFlight(f)'
      BY <2>2, <2>4, <2>5 DEF InFlight
    <3>2. sent'[f] = sent[f] + 1
      BY <2>3, <2>5 DEF Inv, TypeOK
    <3> QED
      BY <1>1, <2>1, <2>3, <2>5, <3>1, <3>2
  <2>6. CASE f # e
    <3>1. InFlight(f)' <=> InFlight(f)
      BY <2>1, <2>2, <2>6 DEF InFlight
    <3>2. sent'[f] = sent[f]
      BY <2>3, <2>6 DEF Inv, TypeOK
    <3> QED
      BY <1>1, <2>3, <3>1, <3>2
  <2> QED
    BY <2>5, <2>6
<1>7. ASSUME NEW w \in Worker, CommitPublished(w) \/ FaultStep(w)
      PROVE  sent'[f] = lost'[f] + (IF f \in published' \/ InFlight(f)' THEN 1 ELSE 0)
  <2> DEFINE e == worker[w].event
  <2>1. worker[w] # Idle /\ e \in Event /\ e \notin published
    BY <1>7, BusyShape DEF CommitPublished, FaultStep, PublisherRaises, Crash, Inv, HeldRows
  <2>2. worker'[w].pc = "idle" /\ \A v \in Worker \ {w} : worker'[v] = worker[v]
    BY <1>7 DEF CommitPublished, FaultStep, PublisherRaises, Crash, Idle, Inv, TypeOK
  <2>3. \A v \in Worker \ {w} : worker[v].pc = "sent" => worker[v].event # e
    BY <2>1, BusyShape DEF Inv, RowLock
  <2>4. CASE f # e
    <3>1. InFlight(f)' <=> InFlight(f)
      BY <2>2, <2>4 DEF InFlight
    <3>2. sent'[f] = sent[f] /\ lost'[f] = lost[f] /\ (f \in published' <=> f \in published)
      BY <1>7, <2>4 DEF CommitPublished, FaultStep, PublisherRaises, Crash, markVars, Inv, TypeOK
    <3> QED
      BY <1>1, <3>1, <3>2
  <2>5. CASE f = e
    <3>1. ~InFlight(f)'
      BY <2>2, <2>3, <2>5 DEF InFlight
    <3>2. InFlight(f) <=> worker[w].pc = "sent"
      BY <2>3, <2>5 DEF InFlight
    <3>3. CASE CommitPublished(w)
      BY <1>1, <2>1, <2>5, <3>1, <3>2, <3>3 DEF CommitPublished
    <3>4. ASSUME NEW taken \in {0, 1}, PublisherRaises(w, taken)
          PROVE  sent'[f] = lost'[f] + (IF f \in published' \/ InFlight(f)' THEN 1 ELSE 0)
      <4>1. sent'[f] = sent[f] + taken /\ lost'[f] = lost[f] + taken /\ published' = published
        BY <2>1, <2>5, <3>4 DEF PublisherRaises, markVars, Inv, TypeOK
      <4>2. ~InFlight(f)
        BY <3>2, <3>4 DEF PublisherRaises
      <4> QED
        BY <1>1, <2>1, <2>5, <3>1, <4>1, <4>2
    <3>5. CASE Crash(w)
      <4>1. /\ sent' = sent /\ published' = published
            /\ lost'[f] = IF worker[w].pc = "sent" THEN lost[f] + 1 ELSE lost[f]
        BY <2>1, <2>5, <3>5 DEF Crash, markVars, Inv, TypeOK
      <4> QED
        BY <1>1, <2>1, <2>5, <3>1, <3>2, <4>1
    <3> QED
      BY <1>7, <3>3, <3>4, <3>5 DEF FaultStep
  <2> QED
    BY <2>4, <2>5
<1> QED
  BY <1>3, <1>4, <1>5, <1>6, <1>7 DEF Next, Dispatch

\* An event reaches the broker at most once more than its deliveries that were
\* rolled back, for any number of workers and faults.
THEOREM NoSpuriousDuplicates == Spec => []DuplicatesOnlyAfterRollback
<1>1. Init => Accounted
  <2> SUFFICES ASSUME Init, NEW e \in Event
               PROVE  sent[e] = lost[e] + (IF e \in published \/ InFlight(e) THEN 1 ELSE 0)
    BY DEF Accounted
  <2>1. ~InFlight(e) /\ e \notin published
    BY DEF Init, InFlight, Idle
  <2> QED
    BY <2>1 DEF Init
<1>2. Inv /\ Accounted /\ [Next]_vars => Accounted'
  BY AccountedStep
<1>3. Inv /\ Accounted => DuplicatesOnlyAfterRollback
  <2> SUFFICES ASSUME Inv, Accounted, NEW e \in Event PROVE sent[e] <= 1 + lost[e]
    BY DEF DuplicatesOnlyAfterRollback
  <2>1. sent[e] \in Nat /\ lost[e] \in Nat
    BY DEF Inv, TypeOK
  <2> QED
    BY <2>1 DEF Accounted
<1> QED
  BY <1>1, <1>2, <1>3, Invariant, PTL DEF Spec

-----------------------------------------------------------------------------
(* Refinement. *)

LEMMA PromiseStep ==
    ASSUME Inv, [Next]_vars
    PROVE  [Promise!Next]_Promise!vars
<1> DEFINE committed == {e \in Event : command[e] = "committed"}
<1>1. CASE UNCHANGED vars
  BY <1>1 DEF vars, rowVars, markVars, Promise!vars
<1>2. ASSUME NEW e \in Event, CommandStep(e)
      PROVE  [Promise!Next]_Promise!vars
  <2>1. sent' = sent /\ published' = published
    BY <1>2 DEF CommandStep, BeginCommand, EndCommand, markVars
  <2>2. CASE EndCommand(e, "committed")
    <3>1. e \notin committed /\ committed' = committed \cup {e}
      BY <2>2 DEF EndCommand, Inv, TypeOK
    <3> QED
      BY <2>1, <3>1 DEF Promise!Next, Promise!Accept
  <2>3. CASE BeginCommand(e) \/ EndCommand(e, "aborted")
    <3>1. committed' = committed
      BY <2>3 DEF BeginCommand, EndCommand, Inv, TypeOK
    <3> QED
      BY <2>1, <3>1 DEF Promise!vars
  <2> QED
    BY <1>2, <2>2, <2>3 DEF CommandStep
<1>3. ASSUME NEW w \in Worker, Dispatch(w) \/ FaultStep(w)
      PROVE  [Promise!Next]_Promise!vars
  <2> DEFINE e == worker[w].event
  <2>1. command' = command
    BY <1>3 DEF Dispatch, SelectEvent, Publish, CommitPublished, FaultStep, PublisherRaises,
                Crash, rowVars
  <2>2. worker[w] # Idle => e \in committed \ published /\ e \in Event
    BY BusyShape DEF Inv, HeldRows
  <2>3. CASE sent' = sent /\ published' = published
    BY <2>1, <2>3 DEF Promise!vars
  <2>4. CASE Publish(w)
    <3>1. worker[w] # Idle
      BY <2>4, BusyShape DEF Inv, Publish
    <3>2. sent' = [sent EXCEPT ![e] = @ + 1] /\ published' = published
      BY <2>4 DEF Publish, markVars
    <3> QED
      BY <2>1, <2>2, <3>1, <3>2 DEF Promise!Next, Promise!Deliver
  <2>5. CASE CommitPublished(w)
    <3>1. worker[w] # Idle /\ sent[e] > 0
      BY <2>5, BusyShape DEF Inv, CommitPublished, HeldRows
    <3>2. sent' = sent /\ published' = published \cup {e}
      BY <2>5 DEF CommitPublished
    <3> QED
      BY <2>1, <2>2, <3>1, <3>2 DEF Promise!Next, Promise!Settle
  <2>6. ASSUME NEW taken \in {0, 1}, PublisherRaises(w, taken)
        PROVE  [Promise!Next]_Promise!vars
    <3>1. worker[w] # Idle
      BY <2>6, BusyShape DEF Inv, PublisherRaises
    <3>2. sent' = [sent EXCEPT ![e] = @ + taken] /\ published' = published
      BY <2>6 DEF PublisherRaises, markVars
    <3>3. CASE taken = 0
      <4>1. sent' = sent
        BY <3>2, <3>3 DEF Inv, TypeOK
      <4> QED
        BY <2>3, <3>2, <4>1
    <3>4. CASE taken = 1
      BY <2>1, <2>2, <3>1, <3>2, <3>4 DEF Promise!Next, Promise!Deliver
    <3> QED
      BY <3>3, <3>4
  <2> QED
    BY <1>3, <2>3, <2>4, <2>5, <2>6 DEF Dispatch, FaultStep, SelectEvent, Crash, markVars
<1> QED
  BY <1>1, <1>2, <1>3 DEF Next

\* The dispatcher implements AtLeastOnce: nothing is delivered before its
\* command commits or after it is marked, and nothing is marked undelivered.
THEOREM DispatchIsAtLeastOnce == Spec => AtLeastOnceDelivery
<1>1. Init => Promise!Init
  <2> SUFFICES ASSUME Init PROVE Promise!Init
    OBVIOUS
  <2>1. {e \in Event : command[e] = "committed"} = {}
    BY DEF Init
  <2> QED
    BY <2>1 DEF Init, Promise!Init
<1>2. Inv /\ [Next]_vars => [Promise!Next]_Promise!vars
  BY PromiseStep
<1> QED
  BY <1>1, <1>2, Invariant, PTL DEF Spec, AtLeastOnceDelivery, Promise!Spec

=============================================================================
