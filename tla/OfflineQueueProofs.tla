-------------------------- MODULE OfflineQueueProofs --------------------------
(***************************************************************************)
(* Machine-checked proofs about OfflineQueue, for every set of tasks and   *)
(* identities and for any number of commands and disturbances.             *)
(***************************************************************************)
EXTENDS OfflineQueue, FiniteSetTheorems, TLAPS

-----------------------------------------------------------------------------
(* Types. *)

\* The bound on the commands leaves a record for the enqueue that is under way.
Bounded ==
    /\ Len(entry) <= MaxCommands
    /\ enqueueing # None => Len(entry) < MaxCommands

LEMMA Responses ==
    /\ Conflict \in Refusal /\ Failed \in Refusal
    /\ \A a \in Refusal : a \in Answer /\ a.kind \in {"conflict", "failed"}
    /\ \A t \in TaskRecord : Data(t) \in Answer /\ Data(t).kind = "data" /\ Data(t).task = t
    /\ \A a \in Answer : a.kind = "data" => a.task \in TaskRecord
BY DEF Conflict, Failed, Refusal, Answer, Data

LEMMA TargetsTyped ==
    /\ \A c \in Command : Target[c] \in TaskState
    /\ \A s \in TaskState : Transitions[s] \subseteq TaskState
BY DEF Command, Target, TaskState, Transitions

\* The fields a synchronization has in each of its states.
LEMMA SyncFields ==
    ASSUME sync \in SyncState
    PROVE  /\ sync.pc \in {"next", "marked", "waiting", "answered"} => sync.todo \in SUBSET Id
           /\ sync.pc \in {"marked", "waiting", "answered"} => sync.command \in Id
           /\ sync.pc = "waiting" => sync.token \in Identity \cup {Nobody}
           /\ sync.pc = "answered" => sync.answer \in Answer
           /\ sync.pc \in {"none", "ending", "next", "marked", "waiting", "answered"}
           /\ sync.pc = "none" <=> sync = None
BY DEF SyncState, None

LEMMA SyncTyped ==
    ASSUME NEW todo \in SUBSET Id, NEW c \in Id
    PROVE  /\ None \in SyncState /\ None.pc = "none"
           /\ [pc |-> "ending"] \in SyncState
           /\ [pc |-> "next", todo |-> todo] \in SyncState
           /\ [pc |-> "marked", todo |-> todo, command |-> c] \in SyncState
           /\ \A who \in Identity \cup {Nobody} :
                [pc |-> "waiting", todo |-> todo, command |-> c, token |-> who] \in SyncState
           /\ \A a \in Answer : [pc |-> "answered", todo |-> todo, command |-> c, answer |-> a] \in SyncState
BY DEF SyncState, None

LEMMA Records ==
    ASSUME entry \in Seq(Entry), Bounded
    PROVE  /\ Len(entry) \in Nat /\ DOMAIN entry = 1..Len(entry) /\ DOMAIN entry \subseteq Id
           /\ Queued \subseteq DOMAIN entry /\ Replayable \subseteq DOMAIN entry
           /\ \A c \in DOMAIN entry : entry[c] \in Entry
BY BoundAssumption DEF Bounded, Id, Queued, Replayable

LEMMA DisturbTyped ==
    ASSUME entry \in Seq(Entry), disturbances \in Nat, Disturb
    PROVE  disturbances' \in 0..MaxEvents
<1> DEFINE n == Cardinality({enqueueing} \ {None})
<1>1. n \in Nat
  BY FS_Singleton, FS_Subset, FS_CardinalityType
<1>2. Len(entry) \in Nat /\ MaxEvents \in Nat
  BY BoundAssumption
<1>3. Len(entry) + n + disturbances < MaxEvents /\ disturbances' = disturbances + 1
  BY DEF Disturb, Events
<1> HIDE DEF n
<1> QED
  BY <1>1, <1>2, <1>3

LEMMA ApplyTyped ==
    ASSUME TypeOK, Bounded, NEW c \in DOMAIN entry, Apply(c)
    PROVE  /\ server' \in [Task -> TaskRecord] /\ applied' \in Seq(Id)
           /\ server'[entry[c].task] \in TaskRecord
<1>1. c \in Id /\ entry[c] \in Entry
  BY Records DEF TypeOK
<1>2. entry[c].task \in Task /\ entry[c].command \in Command
  BY <1>1 DEF Entry
<1>3. server[entry[c].task].version + 1 \in Nat \ {0}
  BY <1>2 DEF TypeOK, TaskRecord
<1>4. Moved(entry[c].task, Target[entry[c].command]) \in TaskRecord
  BY <1>2, <1>3, TargetsTyped DEF Moved, TaskRecord
<1>5. server' = [server EXCEPT ![entry[c].task] = Moved(entry[c].task, Target[entry[c].command])]
      /\ applied' = Append(applied, c)
  BY DEF Apply
<1> QED
  BY <1>1, <1>2, <1>4, <1>5 DEF TypeOK

-----------------------------------------------------------------------------
(* What a synchronization works through. *)

\* The commands it has yet to send, and the one it is sending.
Todo == IF sync.pc \in {"next", "marked", "waiting", "answered"} THEN sync.todo ELSE {}
InHand == IF sync.pc \in {"marked", "waiting", "answered"} THEN {sync.command} ELSE {}

LEMMA InFlightIs == InFlight = Todo \cup InHand /\ InFlight' = Todo' \cup InHand'
BY DEF InFlight, Todo, InHand

\* All that synchronize leads to.
Synchronize == SyncWarehouseQueue \/ PerformSync

\* A command that is on its way, or has been, is on record.
Recorded ==
    /\ InFlight \cup late \cup Applied \subseteq DOMAIN entry
    /\ retrying # None => retrying.command \in DOMAIN entry

Typed == TypeOK /\ Bounded /\ Recorded

\* The pages of sync.
LEMMA SyncMoves ==
    ASSUME Typed
    PROVE  /\ SyncWarehouseQueue =>
                UNCHANGED sync \/ (sync = None /\ sync'.pc = "next" /\ Todo' = Replayable /\ InHand' = {})
           /\ MarkSyncing => \E c \in Todo :
                /\ InHand = {} /\ \A d \in Todo : c <= d
                /\ sync'.pc = "marked" /\ Todo' = Todo \ {c} /\ InHand' = {c}
                /\ status' = [status EXCEPT ![c] = "syncing"]
           /\ Send => sync'.pc = "waiting" /\ Todo' = Todo /\ InHand' = InHand
           /\ \A a : sync.pc = "waiting" /\ AnswerWith(a) =>
                sync'.pc = "answered" /\ sync'.answer = a /\ Todo' = Todo /\ InHand' = InHand
           /\ FinishDone => sync'.pc = "next" /\ Todo' = Todo /\ InHand' = {}
           /\ FinishRefused =>
                /\ sync'.pc = "next" /\ InHand' = {}
                /\ Todo' = Todo \ OfTask(Todo, entry[sync.command].task)
           /\ \A who : LoseConnection \/ EndSync \/ Load(who) =>
                sync'.pc \in {"none", "ending"} /\ Todo' = {} /\ InHand' = {}
<1>1. sync \in SyncState
  BY DEF Typed, TypeOK
<1>2. ASSUME SyncWarehouseQueue
      PROVE  UNCHANGED sync \/ (sync = None /\ sync'.pc = "next" /\ Todo' = Replayable /\ InHand' = {})
  BY <1>2 DEF SyncWarehouseQueue, Todo, InHand
<1>3. ASSUME MarkSyncing
      PROVE  \E c \in Todo :
                /\ InHand = {} /\ \A d \in Todo : c <= d
                /\ sync'.pc = "marked" /\ Todo' = Todo \ {c} /\ InHand' = {c}
                /\ status' = [status EXCEPT ![c] = "syncing"]
  <2> PICK c \in sync.todo :
          /\ \A d \in sync.todo : c <= d
          /\ status' = [status EXCEPT ![c] = "syncing"]
          /\ sync' = [pc |-> "marked", todo |-> sync.todo \ {c}, command |-> c]
    BY <1>3 DEF MarkSyncing
  <2>1. sync.pc = "next"
    BY <1>3 DEF MarkSyncing
  <2>2. Todo = sync.todo /\ InHand = {}
    BY <2>1 DEF Todo, InHand
  <2>3. sync'.pc = "marked" /\ Todo' = sync.todo \ {c} /\ InHand' = {c}
    BY DEF Todo, InHand
  <2> QED
    BY <2>2, <2>3
<1>4. ASSUME Send PROVE sync'.pc = "waiting" /\ Todo' = Todo /\ InHand' = InHand
  BY <1>4 DEF Send, Todo, InHand
<1>5. ASSUME NEW a, sync.pc = "waiting", AnswerWith(a)
      PROVE  sync'.pc = "answered" /\ sync'.answer = a /\ Todo' = Todo /\ InHand' = InHand
  BY <1>5 DEF AnswerWith, Todo, InHand
<1>6. ASSUME FinishDone PROVE sync'.pc = "next" /\ Todo' = Todo /\ InHand' = {}
  BY <1>6 DEF FinishDone, Todo, InHand
<1>7. ASSUME FinishRefused
      PROVE  /\ sync'.pc = "next" /\ InHand' = {}
             /\ Todo' = Todo \ OfTask(Todo, entry[sync.command].task)
  BY <1>7 DEF FinishRefused, Todo, InHand
<1>8. ASSUME NEW who, LoseConnection \/ EndSync \/ Load(who)
      PROVE  sync'.pc \in {"none", "ending"} /\ Todo' = {} /\ InHand' = {}
  BY <1>8 DEF LoseConnection, EndSync, Load, None, Todo, InHand
<1> QED
  BY <1>2, <1>3, <1>4, <1>5, <1>6, <1>7, <1>8

\* Commands are only appended, so that what is on record stays there.
LEMMA EntryStep ==
    ASSUME Typed, [Next]_vars
    PROVE  \/ UNCHANGED entry
           \/ /\ WriteEnqueue
              /\ enqueueing # None /\ enqueueing' = None /\ Len(entry) < MaxCommands
              /\ Len(entry') = Len(entry) + 1 /\ DOMAIN entry' = DOMAIN entry \cup {Len(entry) + 1}
              /\ Len(entry) + 1 \in Id /\ Len(entry) + 1 \notin DOMAIN entry
              /\ \A c \in DOMAIN entry : entry'[c] = entry[c]
              /\ entry'[Len(entry) + 1] = [task |-> enqueueing.task, command |-> enqueueing.command,
                                           expected |-> enqueueing.version, by |-> enqueueing.by]
<1>1. CASE WriteEnqueue
  <2> DEFINE e == [task |-> enqueueing.task, command |-> enqueueing.command,
                   expected |-> enqueueing.version, by |-> enqueueing.by]
  <2>1. /\ entry \in Seq(Entry) /\ entry' = Append(entry, e) /\ Len(entry) \in Nat
        /\ enqueueing # None /\ enqueueing' = None /\ Len(entry) < MaxCommands
    BY <1>1 DEF WriteEnqueue, Typed, TypeOK, Bounded
  <2>2. e \in Entry
    BY <2>1 DEF Typed, TypeOK, Entry
  <2> HIDE DEF e
  <2>3. Len(entry') = Len(entry) + 1 /\ entry'[Len(entry) + 1] = e
        /\ \A c \in 1..Len(entry) : entry'[c] = entry[c]
    BY <2>1, <2>2
  <2>4. DOMAIN entry' = 1..(Len(entry) + 1) /\ DOMAIN entry = 1..Len(entry)
    BY <2>1, <2>2
  <2>5. 1..(Len(entry) + 1) = (1..Len(entry)) \cup {Len(entry) + 1} /\ Len(entry) + 1 \in Id
        /\ Len(entry) + 1 \notin 1..Len(entry)
    BY <2>1, BoundAssumption DEF Id
  <2> QED
    BY <1>1, <2>1, <2>3, <2>4, <2>5 DEF e
<1>2. Operator => UNCHANGED entry
  BY Zenon DEF Operator, BeginEnqueue, Discard, ReadRetry, SyncNow, ShowCache, book
<1>3. Synchronize => UNCHANGED entry
  BY Zenon DEF Synchronize, PerformSync, SyncWarehouseQueue, MarkSyncing, Send, Serve, FinishDone,
               FinishRefused, EndSync, book
<1>4. Continue => UNCHANGED entry \/ WriteEnqueue
  BY Zenon DEF Continue, WriteRetry, FetchTasks, CacheTasks, ClearCache, Enter, book
<1>5. World => UNCHANGED entry
  BY Zenon DEF World, MoveTask, ServeRefusal, ServeLate, LoseConnection, Unload, Renew, Load,
               GoOffline, GoOnline, book
<1>6. UNCHANGED vars => UNCHANGED entry
  BY DEF vars, book
<1>7. UNCHANGED entry \/ WriteEnqueue
  BY <1>2, <1>3, <1>4, <1>5, <1>6 DEF Next, Synchronize
<1> QED
  BY <1>1, <1>7

LEMMA BoundedStep ==
    ASSUME Typed, [Next]_vars
    PROVE  Bounded'
<1>1. Len(entry) \in Nat /\ MaxCommands \in Nat /\ Bounded
  BY BoundAssumption DEF Typed, TypeOK
<1>2. CASE UNCHANGED entry /\ UNCHANGED enqueueing
  BY <1>1, <1>2 DEF Bounded
<1>3. CASE UNCHANGED entry /\ enqueueing' = None
  BY <1>1, <1>3 DEF Bounded
<1>4. CASE WriteEnqueue
  <2>1. ~ UNCHANGED entry
    BY <1>1, <1>4 DEF WriteEnqueue, Typed, TypeOK
  <2> QED
    BY <1>1, <2>1, EntryStep DEF Bounded
<1>5. ASSUME NEW t, NEW command, BeginEnqueue(t, command) PROVE Bounded'
  BY <1>1, <1>5 DEF BeginEnqueue, Bounded, book
<1>6. (\E who : Load(who)) => UNCHANGED entry /\ enqueueing' = None
  BY Zenon DEF Load, book
<1>7. CASE \E c \in Id : Discard(c) \/ ReadRetry(c)
  BY <1>2, <1>7, Zenon DEF Discard, ReadRetry, book
<1>8. CASE SyncNow \/ ShowCache
  BY <1>2, <1>8, Zenon DEF SyncNow, ShowCache, book
<1>9. CASE Synchronize
  BY <1>2, <1>9, Zenon DEF Synchronize, PerformSync, SyncWarehouseQueue, MarkSyncing, Send, Serve, FinishDone,
                           FinishRefused, EndSync, book
<1>10. CASE WriteRetry \/ FetchTasks \/ CacheTasks \/ ClearCache \/ Enter
  BY <1>2, <1>10, Zenon DEF WriteRetry, FetchTasks, CacheTasks, ClearCache, Enter, book
<1>11. World => (UNCHANGED entry /\ UNCHANGED enqueueing) \/ \E who : Load(who)
  BY Zenon DEF World, MoveTask, ServeRefusal, ServeLate, LoseConnection, Unload, Renew, GoOffline,
               GoOnline, book
<1>12. CASE UNCHANGED vars
  BY <1>2, <1>12 DEF vars, book
<1> QED
  BY <1>2, <1>3, <1>4, <1>5, <1>6, <1>7, <1>8, <1>9, <1>10, <1>11, <1>12
     DEF Next, Synchronize, Operator, Continue

\* What has taken effect, what is on the network and what is in flight.
LEMMA AppliedFrame ==
    ASSUME [Next]_vars
    PROVE  UNCHANGED applied \/ \E c \in late \cup InHand : Succeeds(c) /\ Apply(c)
<1>1. CASE Serve
  <2>1. sync.pc = "waiting" => InHand = {sync.command}
    BY DEF InHand
  <2> QED
    BY <1>1, <2>1, Zenon DEF Serve
<1>2. CASE \E c \in Id : ServeLate(c)
  BY <1>2, Zenon DEF ServeLate
<1>3. CASE Operator
  BY <1>3, Zenon DEF Operator, BeginEnqueue, Discard, ReadRetry, SyncNow, ShowCache
<1>4. Synchronize => Serve \/ UNCHANGED applied
  BY Zenon DEF Synchronize, PerformSync, SyncWarehouseQueue, MarkSyncing, Send, FinishDone,
               FinishRefused, EndSync
<1>5. CASE Continue
  BY <1>5, Zenon DEF Continue, WriteEnqueue, WriteRetry, FetchTasks, CacheTasks, ClearCache, Enter
<1>6. World => UNCHANGED applied \/ \E c \in Id : ServeLate(c)
  BY Zenon DEF World, MoveTask, ServeRefusal, LoseConnection, Unload, Renew, Load, GoOffline, GoOnline
<1>7. CASE UNCHANGED vars
  BY <1>7 DEF vars
<1> QED
  BY <1>1, <1>2, <1>3, <1>4, <1>5, <1>6, <1>7 DEF Next, Synchronize

LEMMA LateFrame ==
    ASSUME [Next]_vars
    PROVE  late' \subseteq late \cup InHand
<1>1. CASE UNCHANGED late
  BY <1>1
<1>2. CASE Operator
  BY <1>1, <1>2, Zenon DEF Operator, BeginEnqueue, Discard, ReadRetry, SyncNow, ShowCache
<1>3. CASE Synchronize
  BY <1>1, <1>3, Zenon DEF Synchronize, PerformSync, SyncWarehouseQueue, MarkSyncing, Send, Serve, FinishDone,
                           FinishRefused, EndSync
<1>4. CASE Continue
  BY <1>1, <1>4, Zenon DEF Continue, WriteEnqueue, WriteRetry, FetchTasks, CacheTasks, ClearCache, Enter
<1>5. ASSUME NEW c \in Id, ServeLate(c) PROVE late' \subseteq late \cup InHand
  BY <1>5 DEF ServeLate
<1>6. CASE LoseConnection
  BY <1>6 DEF LoseConnection, InHand
<1>7. ASSUME NEW who, Load(who) PROVE late' \subseteq late \cup InHand
  BY <1>7 DEF Load, InHand
<1>8. World => \/ UNCHANGED late \/ LoseConnection
               \/ (\E c \in Id : ServeLate(c)) \/ \E who : Load(who)
  BY Zenon DEF World, MoveTask, ServeRefusal, Unload, Renew, GoOffline, GoOnline
<1> QED
  BY <1>1, <1>2, <1>3, <1>4, <1>5, <1>6, <1>7, <1>8 DEF Next, Synchronize, vars

\* The commands that write a record of the queue or move the synchronization, and
\* all the others.
QueueMoves ==
    \/ WriteEnqueue \/ WriteRetry \/ ClearCache \/ \E c \in Id : Discard(c)
    \/ SyncWarehouseQueue \/ MarkSyncing \/ Send \/ Serve \/ FinishDone \/ FinishRefused \/ EndSync
    \/ (\E answer \in Refusal : ServeRefusal(answer)) \/ LoseConnection \/ \E who : Load(who)

LEMMA QueueFrame ==
    ASSUME [Next]_vars
    PROVE  UNCHANGED <<status, fate, entry, sync>> \/ QueueMoves
<1>1. CASE Operator
  BY <1>1, Zenon DEF Operator, BeginEnqueue, ReadRetry, SyncNow, ShowCache, QueueMoves, cache, book, history
<1>2. CASE Synchronize
  BY <1>2 DEF Synchronize, PerformSync, QueueMoves
<1>3. CASE Continue
  BY <1>3, Zenon DEF Continue, FetchTasks, CacheTasks, Enter, QueueMoves, cache, book, history
<1>4. CASE World
  BY <1>4, Zenon DEF World, MoveTask, ServeLate, Unload, Renew, GoOffline, GoOnline, QueueMoves, cache,
               book, history
<1>5. CASE UNCHANGED vars
  BY <1>5 DEF vars, cache, book, history
<1> QED
  BY <1>1, <1>2, <1>3, <1>4, <1>5 DEF Next, Synchronize

\* The steps that leave the records of the queue as they are.
LEMMA QueueKept ==
    SyncWarehouseQueue \/ Send \/ Serve \/ EndSync \/ (\E answer \in Refusal : ServeRefusal(answer))
        \/ (\E who : Load(who)) => UNCHANGED <<status, fate, entry>>
BY Zenon DEF SyncWarehouseQueue, Send, Serve, EndSync, ServeRefusal, Load, cache, book, history

\* The steps that say nothing of how a command left the queue.
LEMMA FateKept ==
    WriteEnqueue \/ MarkSyncing \/ FinishDone \/ FinishRefused \/ LoseConnection => UNCHANGED fate
BY Zenon DEF WriteEnqueue, MarkSyncing, FinishDone, FinishRefused, LoseConnection, book, history

\* A synchronization holds what its snapshot has found, and never more.
LEMMA FlightFrame ==
    ASSUME Typed, [Next]_vars
    PROVE  \/ InFlight' \subseteq InFlight
           \/ SyncWarehouseQueue /\ sync'.pc = "next" /\ Todo' = Replayable /\ InHand' = {}
<1>1. CASE UNCHANGED sync
  BY <1>1 DEF InFlight, Todo, InHand
<1>2. CASE SyncWarehouseQueue
  BY <1>1, <1>2, SyncMoves
<1>3. CASE MarkSyncing
  <2> PICK c \in Todo : Todo' = Todo \ {c} /\ InHand' = {c}
    BY <1>3, SyncMoves
  <2> QED
    BY InFlightIs
<1>4. CASE Send \/ FinishDone \/ FinishRefused
  BY <1>4, SyncMoves, InFlightIs
<1>5. CASE LoseConnection \/ EndSync \/ \E who : Load(who)
  BY <1>5, SyncMoves, InFlightIs
<1>6. CASE Serve \/ \E answer \in Refusal : ServeRefusal(answer)
  <2>1. \E a : sync.pc = "waiting" /\ AnswerWith(a)
    BY <1>6, Zenon DEF Serve, ServeRefusal
  <2> QED
    BY <2>1, SyncMoves, InFlightIs
<1>7. WriteEnqueue \/ WriteRetry \/ ClearCache \/ (\E c \in Id : Discard(c)) => UNCHANGED sync
  BY Zenon DEF WriteEnqueue, WriteRetry, ClearCache, Discard
<1> QED
  BY <1>1, <1>2, <1>3, <1>4, <1>5, <1>6, <1>7, QueueFrame DEF QueueMoves

LEMMA AppliedIs ==
    ASSUME applied \in Seq(Id), NEW c \in Id, applied' = Append(applied, c)
    PROVE  /\ Applied' = Applied \cup {c}
           /\ Len(applied) \in Nat /\ DOMAIN applied = 1..Len(applied)
           /\ DOMAIN applied' = 1..(Len(applied) + 1) /\ applied'[Len(applied) + 1] = c
           /\ \A i \in DOMAIN applied : applied'[i] = applied[i]
<1>1. /\ Len(applied) \in Nat /\ DOMAIN applied = 1..Len(applied)
      /\ DOMAIN applied' = 1..(Len(applied) + 1) /\ applied'[Len(applied) + 1] = c
      /\ \A i \in 1..Len(applied) : applied'[i] = applied[i]
  OBVIOUS
<1>2. 1..(Len(applied) + 1) = (1..Len(applied)) \cup {Len(applied) + 1}
  BY <1>1
<1>3. Applied' = {applied'[i] : i \in (1..Len(applied)) \cup {Len(applied) + 1}}
  BY <1>1, <1>2 DEF Applied
<1>4. Applied = {applied[i] : i \in 1..Len(applied)}
  BY <1>1 DEF Applied
<1> QED
  BY <1>1, <1>3, <1>4

LEMMA RecordedStep ==
    ASSUME Typed, [Next]_vars
    PROVE  Recorded'
<1>1. DOMAIN entry \subseteq DOMAIN entry'
  BY EntryStep
<1>2. /\ InFlight \cup late \cup Applied \subseteq DOMAIN entry /\ Queued \subseteq DOMAIN entry
      /\ Replayable \subseteq DOMAIN entry /\ DOMAIN entry \subseteq Id
  BY Records DEF Typed, TypeOK, Recorded
<1>3. InFlight' \subseteq DOMAIN entry
  BY <1>2, FlightFrame, InFlightIs
<1>4. late' \subseteq DOMAIN entry
  BY <1>2, LateFrame, InFlightIs
<1>5. Applied' \subseteq DOMAIN entry
  <2>1. CASE UNCHANGED applied
    BY <1>2, <2>1 DEF Applied
  <2>2. ASSUME NEW c \in late \cup InHand, Apply(c) PROVE Applied' \subseteq DOMAIN entry
    <3>1. c \in DOMAIN entry /\ c \in Id /\ applied' = Append(applied, c) /\ applied \in Seq(Id)
      BY <1>2, <2>2, InFlightIs DEF Apply, Typed, TypeOK
    <3> QED
      BY <1>2, <3>1, AppliedIs
  <2> QED
    BY <2>1, <2>2, AppliedFrame
<1>6. retrying' # None => retrying'.command \in DOMAIN entry
  <2>1. CASE UNCHANGED retrying
    BY <2>1 DEF Typed, Recorded
  <2>2. CASE retrying' = None
    BY <2>2
  <2>3. ASSUME NEW c \in Id, ReadRetry(c) PROVE retrying'.command \in DOMAIN entry
    BY <1>2, <2>3 DEF ReadRetry
  <2>4. Operator => UNCHANGED retrying \/ \E c \in Id : ReadRetry(c)
    BY Zenon DEF Operator, BeginEnqueue, Discard, SyncNow, ShowCache
  <2>5. Synchronize => UNCHANGED retrying
    BY Zenon DEF Synchronize, PerformSync, SyncWarehouseQueue, MarkSyncing, Send, Serve, FinishDone,
                 FinishRefused, EndSync
  <2>6. Continue => UNCHANGED retrying \/ retrying' = None
    BY Zenon DEF Continue, WriteEnqueue, WriteRetry, FetchTasks, CacheTasks, ClearCache, Enter
  <2>7. World => UNCHANGED retrying \/ retrying' = None
    BY Zenon DEF World, MoveTask, ServeRefusal, ServeLate, LoseConnection, Unload, Renew, Load,
                 GoOffline, GoOnline
  <2>8. UNCHANGED vars => UNCHANGED retrying
    BY DEF vars
  <2> QED
    BY <2>1, <2>2, <2>3, <2>4, <2>5, <2>6, <2>7, <2>8 DEF Next, Synchronize
<1> QED
  BY <1>1, <1>3, <1>4, <1>5, <1>6 DEF Recorded

\* The same types, of one group of variables at a time.
ServerTyped ==
    /\ server \in [Task -> TaskRecord]
    /\ applied \in Seq(Id) /\ late \subseteq Id
QueueTyped ==
    /\ status \in [Id -> {"absent", "pending", "syncing", "conflict", "failed"}]
    /\ entry \in Seq(Entry)
    /\ fate \in [Id -> {"kept", "discarded", "withdrawn", "revived", "cleared"}]
ShownTyped ==
    /\ shown \in [tasks : [Task -> TaskRecord \cup {NotCached}],
                  blocked : [Id -> {"none", "conflict", "failed"}]]
    /\ left \subseteq Id
TasksTyped ==
    /\ tasks \in [Task -> TaskRecord \cup {NotCached}]
    /\ fetch \in {None, [pc |-> "asked"]} \cup [pc : {"listed"}, tasks : [Task -> TaskRecord \cup {NotCached}]]
PageTyped ==
    /\ identity \in Identity \cup {Nobody} /\ session \in Identity \cup {Nobody}
    /\ auth \in {[pc |-> "ready"]} \cup [pc : {"configuring", "cleared"},
                                        next : Identity \cup {Nobody}]
    /\ online \in BOOLEAN /\ due \in BOOLEAN
    /\ enqueueing \in {None} \cup [pc : {"checked"}, by : Identity, task : Task,
                                   command : Command, version : Nat \ {0}]
    /\ retrying \in {None} \cup [pc : {"read"}, command : Id]
    /\ disturbances \in 0..MaxEvents

LEMMA TypesSplit ==
    TypeOK <=> /\ ServerTyped /\ QueueTyped /\ ShownTyped /\ TasksTyped /\ PageTyped
               /\ sync \in SyncState
BY DEF TypeOK, ServerTyped, QueueTyped, ShownTyped, TasksTyped, PageTyped

LEMMA UnmountedTyped ==
    Unmounted \in [tasks : [Task -> TaskRecord \cup {NotCached}],
                   blocked : [Id -> {"none", "conflict", "failed"}]]
BY DEF Unmounted

LEMMA ListedTyped ==
    ASSUME server \in [Task -> TaskRecord], NEW who
    PROVE  ListedTo(who) \in [Task -> TaskRecord \cup {NotCached}]
BY DEF ListedTo

LEMMA SyncStep ==
    ASSUME Typed, [Next]_vars
    PROVE  sync' \in SyncState
<1>1. sync \in SyncState
  BY DEF Typed, TypeOK
<1>2. Replayable \in SUBSET Id
  BY Records DEF Typed, TypeOK
<1>3. CASE UNCHANGED sync
  BY <1>1, <1>3
<1>4. CASE SyncWarehouseQueue
  BY <1>1, <1>2, <1>4 DEF SyncWarehouseQueue, SyncState
<1>5. CASE MarkSyncing
  <2>1. sync.todo \in SUBSET Id
    BY <1>1, <1>5, SyncFields DEF MarkSyncing
  <2>2. PICK c \in sync.todo : sync' = [pc |-> "marked", todo |-> sync.todo \ {c}, command |-> c]
    BY <1>5 DEF MarkSyncing
  <2>3. c \in Id /\ sync.todo \ {c} \in SUBSET Id
    BY <2>1
  <2> QED
    BY <2>2, <2>3, SyncTyped
<1>6. CASE Send
  <2>1. sync.todo \in SUBSET Id /\ sync.command \in Id /\ session \in Identity \cup {Nobody}
    BY <1>1, <1>6, SyncFields DEF Send, Typed, TypeOK
  <2> QED
    BY <1>6, <2>1, SyncTyped DEF Send
<1>7. ASSUME NEW a \in Answer, sync.pc = "waiting", AnswerWith(a) PROVE sync' \in SyncState
  <2>1. sync.todo \in SUBSET Id /\ sync.command \in Id
    BY <1>1, <1>7, SyncFields
  <2> QED
    BY <1>7, <2>1, SyncTyped DEF AnswerWith
<1>8. CASE Serve
  <2>1. sync.pc = "waiting" /\ sync.command \in DOMAIN entry
    BY <1>8, InFlightIs DEF Serve, Typed, Recorded, InHand
  <2>2. entry[sync.command].task \in Task
    BY <2>1, Records DEF Typed, TypeOK, Entry
  <2>3. Data(server[entry[sync.command].task]) \in Answer /\ Failed \in Answer /\ Conflict \in Answer
    BY <2>2, Responses DEF Typed, TypeOK
  <2>4. Apply(sync.command) => Data(server'[entry[sync.command].task]) \in Answer
    BY <2>1, ApplyTyped, Responses DEF Typed
  <2>5. \E a \in Answer : AnswerWith(a)
    <3>1. \/ AnswerWith(Failed) \/ AnswerWith(Conflict)
          \/ AnswerWith(Data(server[entry[sync.command].task]))
          \/ Apply(sync.command) /\ AnswerWith(Data(server'[entry[sync.command].task]))
      BY <1>8, Zenon DEF Serve
    <3> QED
      BY <2>3, <2>4, <3>1, Zenon
  <2> QED
    BY <1>7, <2>1, <2>5
<1>9. CASE \E answer \in Refusal : ServeRefusal(answer)
  BY <1>7, <1>9, Responses DEF ServeRefusal
<1>10. CASE FinishDone \/ FinishRefused
  <2>1. sync.todo \in SUBSET Id /\ sync.command \in Id
    BY <1>1, <1>10, SyncFields DEF FinishDone, FinishRefused
  <2>2. sync' = [pc |-> "next", todo |-> sync.todo]
        \/ sync' = [pc |-> "next", todo |-> sync.todo \ OfTask(sync.todo, entry[sync.command].task)]
    BY <1>10, Zenon DEF FinishDone, FinishRefused
  <2> QED
    BY <2>1, <2>2, SyncTyped
<1>11. CASE LoseConnection \/ EndSync \/ \E who : Load(who)
  <2>1. sync' = None \/ sync' = [pc |-> "ending"]
    BY <1>11, Zenon DEF LoseConnection, EndSync, Load
  <2> QED
    BY <2>1 DEF SyncState
<1>12. WriteEnqueue \/ WriteRetry \/ ClearCache \/ (\E c \in Id : Discard(c)) => UNCHANGED sync
  BY Zenon DEF WriteEnqueue, WriteRetry, ClearCache, Discard
<1> QED
  BY <1>3, <1>4, <1>5, <1>6, <1>8, <1>9, <1>10, <1>11, <1>12, QueueFrame DEF QueueMoves

LEMMA ServerStep ==
    ASSUME Typed, [Next]_vars
    PROVE  ServerTyped'
<1>1. InFlight \cup late \subseteq DOMAIN entry /\ DOMAIN entry \subseteq Id
  BY Records DEF Typed, TypeOK, Recorded
<1>2. late' \subseteq Id
  BY <1>1, LateFrame, InFlightIs
<1>3. applied' \in Seq(Id)
  BY <1>1, AppliedFrame, ApplyTyped, InFlightIs DEF Typed, TypeOK
<1>4. server' \in [Task -> TaskRecord]
  <2>1. CASE UNCHANGED server
    BY <2>1 DEF Typed, TypeOK
  <2>2. CASE \E c \in late \cup InHand : Apply(c)
    BY <1>1, <2>2, ApplyTyped, InFlightIs DEF Typed
  <2>3. ASSUME NEW t \in Task, NEW state \in Others, MoveTask(t, state)
        PROVE  server' \in [Task -> TaskRecord]
    <3>1. server[t].version + 1 \in Nat \ {0} /\ server[t].state \in TaskState
      BY DEF Typed, TypeOK, TaskRecord
    <3>2. state \in TaskState
      BY <2>3, <3>1, TargetsTyped DEF MoveTask
    <3>3. Moved(t, state) \in TaskRecord
      BY <3>1, <3>2 DEF Moved, TaskRecord
    <3> QED
      BY <2>3, <3>3 DEF MoveTask, Typed, TypeOK
  <2>4. Serve => UNCHANGED server \/ \E c \in late \cup InHand : Apply(c)
    <3>1. sync.pc = "waiting" => InHand = {sync.command}
      BY DEF InHand
    <3> QED
      BY <3>1, Zenon DEF Serve
  <2>5. (\E c \in Id : ServeLate(c)) => UNCHANGED server \/ \E c \in late \cup InHand : Apply(c)
    BY Zenon DEF ServeLate
  <2>6. Operator => UNCHANGED server
    BY Zenon DEF Operator, BeginEnqueue, Discard, ReadRetry, SyncNow, ShowCache
  <2>7. Synchronize => Serve \/ UNCHANGED server
    BY Zenon DEF Synchronize, PerformSync, SyncWarehouseQueue, MarkSyncing, Send, FinishDone,
                 FinishRefused, EndSync
  <2>8. Continue => UNCHANGED server
    BY Zenon DEF Continue, WriteEnqueue, WriteRetry, FetchTasks, CacheTasks, ClearCache, Enter
  <2>9. World => \/ UNCHANGED server \/ \E c \in Id : ServeLate(c)
                 \/ \E t \in Task, state \in Others : MoveTask(t, state)
    BY Zenon DEF World, ServeRefusal, LoseConnection, Unload, Renew, Load, GoOffline, GoOnline
  <2>10. UNCHANGED vars => UNCHANGED server
    BY DEF vars
  <2> QED
    BY <2>1, <2>2, <2>3, <2>4, <2>5, <2>6, <2>7, <2>8, <2>9, <2>10 DEF Next, Synchronize
<1> QED
  BY <1>2, <1>3, <1>4 DEF ServerTyped

LEMMA QueueTypedStep ==
    ASSUME Typed, [Next]_vars
    PROVE  QueueTyped'
<1>1. QueueTyped /\ sync \in SyncState
  BY TypesSplit DEF Typed
<1>2. CASE UNCHANGED <<status, fate, entry>>
  BY <1>1, <1>2 DEF QueueTyped
<1>3. CASE UNCHANGED <<fate, entry>> /\ \E c \in Id :
          \E s \in {"absent", "pending", "syncing", "conflict", "failed"} : status' = [status EXCEPT ![c] = s]
  BY <1>1, <1>3 DEF QueueTyped
<1>4. CASE WriteEnqueue
  <2>1. enqueueing # None /\ PageTyped
    BY <1>4, TypesSplit DEF WriteEnqueue, Typed
  <2>2. [task |-> enqueueing.task, command |-> enqueueing.command, expected |-> enqueueing.version,
         by |-> enqueueing.by] \in Entry
    BY <2>1 DEF PageTyped, Entry
  <2>3. entry' \in Seq(Entry)
    BY <1>1, <1>4, <2>2 DEF WriteEnqueue, QueueTyped
  <2>4. \E c : status' = [status EXCEPT ![c] = "pending"]
    BY <1>4, Zenon DEF WriteEnqueue
  <2> QED
    BY <1>1, <1>4, <2>3, <2>4, FateKept DEF QueueTyped
<1>5. CASE WriteRetry
  <2>1. retrying.command \in Id
    BY <1>5, Records DEF WriteRetry, Typed, TypeOK, Recorded
  <2> QED
    BY <1>1, <1>5, <2>1 DEF WriteRetry, QueueTyped
<1>6. CASE ClearCache
  BY <1>1, <1>6 DEF ClearCache, QueueTyped
<1>7. CASE \E c \in Id : Discard(c)
  BY <1>1, <1>7 DEF Discard, QueueTyped
<1>8. CASE MarkSyncing
  <2>1. sync.todo \in SUBSET Id
    BY <1>1, <1>8, SyncFields DEF MarkSyncing
  <2> QED
    BY <1>3, <1>8, <2>1, FateKept DEF MarkSyncing, book
<1>9. CASE FinishDone \/ FinishRefused \/ LoseConnection
  <2>1. sync.command \in Id
    BY <1>1, <1>9, SyncFields DEF FinishDone, FinishRefused, LoseConnection
  <2>2. FinishRefused => sync.answer.kind \in {"conflict", "failed"}
    BY Responses DEF FinishRefused
  <2> QED
    BY <1>3, <1>9, <2>1, <2>2, FateKept DEF FinishDone, FinishRefused, LoseConnection, book
<1> QED
  BY <1>2, <1>4, <1>5, <1>6, <1>7, <1>8, <1>9, QueueKept, QueueFrame DEF QueueMoves

LEMMA TasksStep ==
    ASSUME Typed, [Next]_vars
    PROVE  TasksTyped'
<1>1. TasksTyped /\ sync \in SyncState /\ PageTyped
  BY TypesSplit DEF Typed
<1>2. CASE UNCHANGED <<tasks, fetch>>
  BY <1>1, <1>2 DEF TasksTyped
<1>3. CASE UNCHANGED tasks /\ fetch' \in {None, fetch, [pc |-> "asked"]}
  BY <1>1, <1>3 DEF TasksTyped
<1>4. Operator => UNCHANGED tasks /\ fetch' \in {None, fetch, [pc |-> "asked"]}
  BY DEF Operator, BeginEnqueue, Discard, ReadRetry, SyncNow, ShowCache, cache
<1>5. CASE WriteEnqueue
  <2>1. enqueueing.command \in Command /\ enqueueing.version + 1 \in Nat \ {0}
    BY <1>1, <1>5 DEF WriteEnqueue, PageTyped
  <2>2. [state |-> Target[enqueueing.command], version |-> enqueueing.version + 1] \in TaskRecord
    BY <2>1, TargetsTyped DEF TaskRecord
  <2> QED
    BY <1>1, <1>5, <2>2 DEF WriteEnqueue, TasksTyped
<1>6. CASE FetchTasks
  <2>1. server \in [Task -> TaskRecord]
    BY DEF Typed, TypeOK
  <2>2. UNCHANGED tasks /\ fetch' \in {None, [pc |-> "listed", tasks |-> ListedTo(session)]}
    BY <1>6 DEF FetchTasks, cache
  <2> QED
    BY <1>1, <2>1, <2>2, ListedTyped DEF TasksTyped
<1>7. CASE CacheTasks
  <2>1. fetch.tasks \in [Task -> TaskRecord \cup {NotCached}]
    BY <1>1, <1>7 DEF CacheTasks, TasksTyped, None
  <2> QED
    BY <1>7, <2>1 DEF CacheTasks, TasksTyped
<1>8. CASE ClearCache
  BY <1>1, <1>8 DEF ClearCache, TasksTyped
<1>9. CASE FinishDone
  <2>1. sync.answer \in Answer /\ sync.answer.kind = "data"
    BY <1>1, <1>9, SyncFields DEF FinishDone
  <2>2. sync.answer.task \in TaskRecord
    BY <2>1, Responses
  <2> QED
    BY <1>1, <1>9, <2>2 DEF FinishDone, TasksTyped
<1>10. CASE EndSync
  BY <1>3, <1>10 DEF EndSync, cache
<1>11. SyncWarehouseQueue \/ MarkSyncing \/ Send \/ Serve \/ FinishRefused \/ WriteRetry \/ Enter
            => UNCHANGED <<tasks, fetch>>
  BY Zenon DEF SyncWarehouseQueue, MarkSyncing, Send, Serve, FinishRefused, WriteRetry, Enter, cache
<1>12. CASE World
  <2>1. (\E who : Load(who)) => UNCHANGED tasks /\ fetch' = None
    BY Zenon DEF Load, cache
  <2>2. World => UNCHANGED <<tasks, fetch>> \/ \E who : Load(who)
    BY Zenon DEF World, MoveTask, ServeRefusal, ServeLate, LoseConnection, Unload, Renew, GoOffline,
                 GoOnline, cache
  <2> QED
    BY <1>2, <1>3, <1>12, <2>1, <2>2
<1>13. UNCHANGED vars => UNCHANGED <<tasks, fetch>>
  BY DEF vars, cache
<1> QED
  BY <1>2, <1>3, <1>4, <1>5, <1>6, <1>7, <1>8, <1>9, <1>10, <1>11, <1>12, <1>13
     DEF Next, Synchronize, PerformSync, Continue

LEMMA ShownStep ==
    ASSUME Typed, [Next]_vars
    PROVE  ShownTyped'
<1>1. ShownTyped /\ QueueTyped /\ TasksTyped
  BY TypesSplit DEF Typed
<1>2. CASE UNCHANGED <<shown, left>>
  BY <1>1, <1>2 DEF ShownTyped
<1>3. CASE ShowCache
  <2>1. [c \in Id |-> IF Blocked(c) THEN status[c] ELSE "none"] \in [Id -> {"none", "conflict", "failed"}]
    BY DEF Blocked
  <2>2. shown' = [tasks |-> tasks,
                  blocked |-> [c \in Id |-> IF Blocked(c) THEN status[c] ELSE "none"]]
        /\ UNCHANGED left
    BY <1>3 DEF ShowCache, history
  <2> QED
    BY <1>1, <2>1, <2>2 DEF ShownTyped, TasksTyped
<1>4. CASE shown' = Unmounted /\ UNCHANGED left
  BY <1>1, <1>4, UnmountedTyped DEF ShownTyped
<1>5. CASE ClearCache
  <2>1. InFlight \subseteq Id /\ (retrying # None => retrying.command \in Id)
    BY Records DEF Typed, TypeOK, Recorded
  <2>2. enqueueing # None => Len(entry) + 1 \in Id
    BY Records, BoundAssumption DEF Typed, TypeOK, Bounded, Id
  <2>3. left' \subseteq Id /\ UNCHANGED shown
    BY <1>5, <2>1, <2>2 DEF ClearCache, RunningOn
  <2> QED
    BY <1>1, <2>3 DEF ShownTyped
<1>6. Operator => UNCHANGED <<shown, left>> \/ ShowCache
  BY Zenon DEF Operator, BeginEnqueue, Discard, ReadRetry, SyncNow, book, history
<1>7. Synchronize => UNCHANGED <<shown, left>>
  BY Zenon DEF Synchronize, PerformSync, SyncWarehouseQueue, MarkSyncing, Send, Serve, FinishDone,
               FinishRefused, EndSync, book, history
<1>8. Continue => UNCHANGED <<shown, left>> \/ ClearCache
  BY Zenon DEF Continue, WriteEnqueue, WriteRetry, FetchTasks, CacheTasks, Enter, book, history
<1>9. World => UNCHANGED <<shown, left>> \/ (shown' = Unmounted /\ UNCHANGED left)
  BY Zenon DEF World, MoveTask, ServeRefusal, ServeLate, LoseConnection, Unload, Renew, Load,
               GoOffline, GoOnline, book, history
<1>10. UNCHANGED vars => UNCHANGED <<shown, left>>
  BY DEF vars, book, history
<1> QED
  BY <1>2, <1>3, <1>4, <1>5, <1>6, <1>7, <1>8, <1>9, <1>10 DEF Next, Synchronize

LEMMA PageStep ==
    ASSUME Typed, [Next]_vars
    PROVE  PageTyped'
<1>1. PageTyped /\ disturbances \in Nat
  <2>1. PageTyped
    BY TypesSplit DEF Typed
  <2> QED
    BY <2>1, BoundAssumption DEF PageTyped
<1>2. CASE UNCHANGED <<identity, page, due, enqueueing, retrying, disturbances>>
  BY <1>1, <1>2 DEF PageTyped, page
<1>3. Disturb => disturbances' \in 0..MaxEvents
  BY <1>1, DisturbTyped DEF Typed, TypeOK
<1>4. ASSUME NEW t \in Task, NEW command \in Command, BeginEnqueue(t, command) PROVE PageTyped'
  <2>1. session \in Identity /\ shown.tasks[t].version \in Nat \ {0}
    <3>1. shown.tasks[t] \in TaskRecord
      BY <1>4 DEF BeginEnqueue, Typed, TypeOK
    <3>2. session # Nobody
      BY <1>4 DEF BeginEnqueue, InWorkspace
    <3> QED
      BY <1>1, <3>1, <3>2 DEF PageTyped, TaskRecord
  <2>2. enqueueing' \in [pc : {"checked"}, by : Identity, task : Task, command : Command,
                         version : Nat \ {0}]
    BY <1>4, <2>1 DEF BeginEnqueue
  <2>3. UNCHANGED <<identity, auth, online, session, due, retrying, disturbances>>
    BY <1>4 DEF BeginEnqueue, book, page
  <2> QED
    BY <1>1, <2>2, <2>3 DEF PageTyped
<1>5. ASSUME NEW c \in Id, Discard(c) \/ ReadRetry(c) PROVE PageTyped'
  BY <1>1, <1>5 DEF Discard, ReadRetry, PageTyped, book, page
<1>6. CASE SyncNow \/ SyncWarehouseQueue
  BY <1>1, <1>6 DEF SyncNow, SyncWarehouseQueue, PageTyped, book, page
<1>7. ShowCache \/ MarkSyncing \/ Send \/ Serve \/ FinishDone \/ FinishRefused \/ EndSync \/ FetchTasks \/ CacheTasks
         => UNCHANGED <<identity, page, due, enqueueing, retrying, disturbances>>
  BY Zenon DEF ShowCache, MarkSyncing, Send, Serve, FinishDone, FinishRefused, EndSync, FetchTasks,
               CacheTasks, book
<1>8. CASE WriteEnqueue \/ WriteRetry
  BY <1>1, <1>8 DEF WriteEnqueue, WriteRetry, PageTyped, book, page
<1>9. CASE ClearCache \/ Enter
  BY <1>1, <1>9 DEF ClearCache, Enter, PageTyped, book
<1>10. (\E t \in Task, state \in Others : MoveTask(t, state)) \/ LoseConnection
           \/ (\E answer \in Refusal : ServeRefusal(answer))
         => Disturb /\ UNCHANGED <<identity, page, due, enqueueing, retrying>>
  BY Zenon DEF MoveTask, LoseConnection, ServeRefusal, book
<1>11. CASE Disturb /\ UNCHANGED <<identity, page, due, enqueueing, retrying>>
  BY <1>1, <1>3, <1>11 DEF PageTyped, page
<1>12. (\E c \in Id : ServeLate(c))
         => UNCHANGED <<identity, page, due, enqueueing, retrying, disturbances>>
  BY Zenon DEF ServeLate, book
<1>13. CASE Unload \/ \E who \in Identity : Renew(who)
  BY <1>1, <1>3, <1>13 DEF Unload, Renew, PageTyped
<1>14. ASSUME NEW who \in Identity \cup {Nobody}, Load(who) PROVE PageTyped'
  BY <1>1, <1>3, <1>14 DEF Load, PageTyped
<1>15. CASE GoOffline
  BY <1>1, <1>3, <1>15 DEF GoOffline, PageTyped, book
<1>16. CASE GoOnline
  BY <1>1, <1>16 DEF GoOnline, PageTyped, InWorkspace, book
<1>17. UNCHANGED vars => UNCHANGED <<identity, page, due, enqueueing, retrying, disturbances>>
  BY DEF vars, page, book
<1> QED
  BY <1>2, <1>4, <1>5, <1>6, <1>7, <1>8, <1>9, <1>10, <1>11, <1>12, <1>13, <1>14, <1>15, <1>16, <1>17
     DEF Next, Operator, Synchronize, PerformSync, Continue, World

LEMMA TypedInit == Init => Typed
<1> SUFFICES ASSUME Init PROVE Typed
  OBVIOUS
<1>1. TypeOK
  <2>1. ServerTyped
    BY DEF Init, ServerTyped, TaskRecord, TaskState
  <2>2. QueueTyped
    BY DEF Init, QueueTyped
  <2>3. TasksTyped
    BY <2>1, ListedTyped DEF Init, ServerTyped, TasksTyped
  <2>4. ShownTyped
    BY <2>3 DEF Init, ShownTyped, TasksTyped
  <2>5. PageTyped
    <3>1. 0 \in 0..MaxEvents
      BY BoundAssumption
    <3>2. /\ identity = Owner /\ session = Owner /\ auth = [pc |-> "ready"]
          /\ online = TRUE /\ due = FALSE /\ enqueueing = None /\ retrying = None /\ disturbances = 0
      BY Zenon DEF Init
    <3> QED
      BY <3>1, <3>2, IdentityAssumption DEF PageTyped
  <2>6. sync \in SyncState
    BY DEF Init, SyncState
  <2> QED
    BY <2>1, <2>2, <2>3, <2>4, <2>5, <2>6, TypesSplit
<1>2. Len(entry) = 0 /\ enqueueing = None /\ MaxCommands \in Nat
  BY BoundAssumption DEF Init
<1>3. Bounded
  BY <1>2 DEF Bounded
<1>4. Todo = {} /\ InHand = {} /\ late = {} /\ retrying = None
  BY DEF Init, Todo, InHand, None
<1>5. Applied = {}
  BY DEF Init, Applied
<1> QED
  BY <1>1, <1>3, <1>4, <1>5, InFlightIs DEF Typed, Recorded

LEMMA TypedStep == Typed /\ [Next]_vars => Typed'
<1> SUFFICES ASSUME Typed, [Next]_vars PROVE Typed'
  OBVIOUS
<1>1. ServerTyped' /\ QueueTyped' /\ ShownTyped' /\ TasksTyped' /\ PageTyped' /\ sync' \in SyncState
  BY ServerStep, QueueTypedStep, ShownStep, TasksStep, PageStep, SyncStep
<1>2. TypeOK'
  BY <1>1 DEF TypeOK, ServerTyped, QueueTyped, ShownTyped, TasksTyped, PageTyped
<1> QED
  BY <1>2, BoundedStep, RecordedStep DEF Typed

LEMMA TypedInvariant == Spec => []Typed
BY TypedInit, TypedStep, PTL DEF Spec

\* Every variable keeps to its kind, and a synchronization, an enqueue, a retry and a
\* refresh have the fields their state needs, wherever another function of
\* warehouseOffline.ts runs between two of their awaits.
THEOREM TypeCorrect == Spec => []TypeOK
<1>1. Typed => TypeOK
  BY DEF Typed
<1> QED
  BY <1>1, TypedInvariant, PTL

-----------------------------------------------------------------------------
(* What holds a command back. *)

\* No command of a task that has a blocked one is left to be sent or on its way.
Held == \A d \in InFlight : ~BlockedTask(entry[d].task)

LEMMA HeldStep ==
    ASSUME Typed, Held, [Next]_vars
    PROVE  Held'
<1> SUFFICES ASSUME ~Held' PROVE FALSE
  OBVIOUS
<1> PICK d \in InFlight', c \in Queued' : entry'[c].task = entry'[d].task /\ Blocked(c)'
  BY Zenon DEF Held, BlockedTask
<1>1. /\ InFlight \subseteq DOMAIN entry /\ Replayable \subseteq DOMAIN entry
      /\ Queued = {e \in DOMAIN entry : status[e] # "absent"}
      /\ DOMAIN entry \subseteq Id /\ status \in [Id -> {"absent", "pending", "syncing", "conflict", "failed"}]
  BY Records DEF Typed, TypeOK, Recorded, Queued
<1>2. d \in DOMAIN entry /\ ~BlockedTask(entry[d].task)
  <2>1. CASE InFlight' = Replayable
    BY <1>1, <2>1 DEF Replayable
  <2> QED
    BY <1>1, <2>1, FlightFrame, InFlightIs DEF Held
<1>3. c \in DOMAIN entry
  <2>1. CASE UNCHANGED entry
    BY <2>1 DEF Queued
  <2>2. CASE WriteEnqueue /\ c = Len(entry) + 1 /\ c \in Id
    <3>1. status'[c] = "pending"
      BY <1>1, <2>2 DEF WriteEnqueue
    <3> QED
      BY <3>1 DEF Blocked
  <2>3. c \in DOMAIN entry'
    BY DEF Queued
  <2> QED
    BY <2>1, <2>2, <2>3, EntryStep
<1>4. entry[c].task = entry[d].task /\ ~Blocked(c)
  <2>1. entry'[c] = entry[c] /\ entry'[d] = entry[d]
    BY <1>2, <1>3, EntryStep
  <2>2. Blocked(c) => c \in Queued
    BY <1>1, <1>3 DEF Blocked
  <2> QED
    BY <1>2, <2>1, <2>2 DEF BlockedTask
<1>5. status'[c] \in {"conflict", "failed"} /\ status[c] \notin {"conflict", "failed"} /\ c \in Id
  BY <1>1, <1>3, <1>4 DEF Blocked
<1>6. ~ UNCHANGED status
  BY <1>5
<1>7. CASE FinishRefused
  <2>1. c = sync.command
    BY <1>5, <1>7 DEF FinishRefused
  <2>2. Todo' = Todo \ OfTask(Todo, entry[sync.command].task) /\ InHand' = {}
    BY <1>7, SyncMoves
  <2> QED
    BY <1>4, <2>1, <2>2, InFlightIs DEF OfTask
<1>8. CASE \E e, s : s \in {"absent", "pending", "syncing"} /\ status' = [status EXCEPT ![e] = s]
  BY <1>1, <1>5, <1>8
<1>9. WriteEnqueue \/ WriteRetry \/ (\E e \in Id : Discard(e)) \/ MarkSyncing \/ FinishDone \/ LoseConnection
        => \E e, s : s \in {"absent", "pending", "syncing"} /\ status' = [status EXCEPT ![e] = s]
  BY Zenon DEF WriteEnqueue, WriteRetry, Discard, MarkSyncing, FinishDone, LoseConnection
<1>10. CASE ClearCache
  BY <1>5, <1>10 DEF ClearCache
<1> QED
  BY <1>6, <1>7, <1>8, <1>9, <1>10, QueueKept, QueueFrame DEF QueueMoves

LEMMA HeldInit == Init => Held
BY DEF Init, Held, InFlight, Todo, InHand, None

LEMMA HeldInvariant == Spec => [](Typed /\ Held)
<1>1. Typed /\ Held /\ [Next]_vars => (Typed /\ Held)'
  BY TypedStep, HeldStep
<1> QED
  BY <1>1, TypedInit, HeldInit, PTL DEF Spec

\* The synchronization of warehouseOffline.ts never has a request under way for a
\* command while an older command of the same task is in conflict or has failed.
THEOREM StopsBehindBlocked == Spec => []HeldBehindBlocked
<1>1. Typed /\ Held => HeldBehindBlocked
  <2> SUFFICES ASSUME Held, sync.pc \in {"waiting", "answered"},
                      NEW c \in OfTask(Queued, entry[sync.command].task), Blocked(c)
               PROVE  FALSE
    BY DEF HeldBehindBlocked
  <2>1. sync.command \in InFlight
    BY InFlightIs DEF InHand
  <2>2. BlockedTask(entry[sync.command].task)
    BY DEF BlockedTask, OfTask
  <2> QED
    BY <2>1, <2>2 DEF Held
<1> QED
  BY <1>1, HeldInvariant, PTL

-----------------------------------------------------------------------------
(* How a command leaves the queue. *)

\* What is in flight has not been discarded, and the name of a command that is not
\* recorded has no history.
Kept ==
    /\ \A c \in InFlight : fate[c] # "discarded"
    /\ \A c \in Id \ DOMAIN entry : fate[c] = "kept"

\* A response with data is the answer to a command that has taken effect.
Answered == sync.pc = "answered" /\ sync.answer.kind = "data" => sync.command \in Applied

\* What the fate of a command becomes.
LEMMA FateFrame ==
    ASSUME Typed, [Next]_vars, NEW c \in Id
    PROVE  \/ fate'[c] = fate[c]
           \/ /\ fate'[c] = "discarded" /\ c \in Queued /\ Blocked(c) /\ UNCHANGED <<sync, entry>>
              /\ status'[c] = "absent"
           \/ fate'[c] \in {"withdrawn", "revived", "cleared"} /\ c \in DOMAIN entry
<1>1. QueueTyped /\ Queued \subseteq DOMAIN entry
  BY TypesSplit, Records DEF Typed, TypeOK
<1>2. CASE UNCHANGED fate
  BY <1>2
<1>3. ASSUME NEW d \in Id, Discard(d)
      PROVE  \/ fate'[c] = fate[c]
             \/ /\ fate'[c] = "discarded" /\ c \in Queued /\ Blocked(c) /\ UNCHANGED <<sync, entry>>
                /\ status'[c] = "absent"
             \/ fate'[c] = "withdrawn" /\ c \in DOMAIN entry
  BY <1>1, <1>3 DEF Discard, QueueTyped
<1>4. CASE WriteRetry
  <2>1. retrying.command \in DOMAIN entry
    BY <1>4 DEF WriteRetry, Typed, Recorded
  <2> QED
    BY <1>1, <1>4, <2>1 DEF WriteRetry, QueueTyped
<1>5. CASE ClearCache
  BY <1>5 DEF ClearCache, Queued
<1> QED
  BY <1>2, <1>3, <1>4, <1>5, FateKept, QueueKept, QueueFrame DEF QueueMoves

LEMMA KeptStep ==
    ASSUME Typed, Held, Kept, DiscardedStaysOut, [Next]_vars
    PROVE  Kept'
<1>1. /\ InFlight \subseteq DOMAIN entry /\ Replayable \subseteq DOMAIN entry /\ DOMAIN entry \subseteq Id
      /\ Queued \subseteq DOMAIN entry
  BY Records DEF Typed, TypeOK, Recorded
<1>2. DOMAIN entry \subseteq DOMAIN entry'
  BY EntryStep
<1>3. ASSUME NEW c \in InFlight' PROVE fate'[c] # "discarded"
  <2>1. c \in Id /\ fate[c] # "discarded"
    <3>1. CASE c \in Replayable
      BY <1>1, <3>1 DEF DiscardedStaysOut, Replayable, Queued
    <3> QED
      BY <1>1, <3>1, FlightFrame, InFlightIs DEF Kept
  <2>2. ASSUME c \in Queued, Blocked(c), UNCHANGED sync PROVE FALSE
    <3>1. c \in InFlight
      BY <2>2 DEF InFlight, Todo, InHand
    <3>2. BlockedTask(entry[c].task)
      BY <2>2 DEF BlockedTask
    <3> QED
      BY <3>1, <3>2 DEF Held
  <2> QED
    BY <2>1, <2>2, FateFrame
<1>4. ASSUME NEW c \in Id \ DOMAIN entry' PROVE fate'[c] = "kept"
  BY <1>1, <1>2, <1>4, FateFrame DEF Kept
<1> QED
  BY <1>3, <1>4 DEF Kept

LEMMA DiscardedStep ==
    ASSUME Typed, Held, Kept, DiscardedStaysOut, [Next]_vars
    PROVE  DiscardedStaysOut'
<1> SUFFICES ASSUME NEW c \in Id, fate'[c] = "discarded", status'[c] # "absent" PROVE FALSE
  BY DEF DiscardedStaysOut
<1>1. fate[c] = "discarded" /\ status[c] = "absent" /\ QueueTyped
  BY FateFrame, TypesSplit DEF DiscardedStaysOut, Typed
<1>2. c \notin InFlight /\ c \in DOMAIN entry
  BY <1>1 DEF Kept
<1>3. CASE UNCHANGED status
  BY <1>1, <1>3
<1>4. CASE \E e \in InFlight : \E s : status' = [status EXCEPT ![e] = s]
  BY <1>1, <1>2, <1>4 DEF QueueTyped
<1>5. CASE WriteEnqueue
  <2>1. c # Len(entry) + 1
    BY <1>2, EntryStep, <1>5 DEF WriteEnqueue, Typed, TypeOK
  <2> QED
    BY <1>1, <1>5, <2>1 DEF WriteEnqueue, QueueTyped
<1>6. CASE WriteRetry
  <2>1. retrying.command # c
    BY <1>1, <1>6 DEF WriteRetry, QueueTyped
  <2> QED
    BY <1>1, <1>6, <2>1 DEF WriteRetry, QueueTyped
<1>7. CASE ClearCache
  BY <1>7 DEF ClearCache
<1>8. ASSUME NEW d \in Id, Discard(d) PROVE FALSE
  BY <1>1, <1>8 DEF Discard, QueueTyped
<1>9. MarkSyncing => \E e \in InFlight : \E s : status' = [status EXCEPT ![e] = s]
  BY SyncMoves, InFlightIs
<1>10. FinishDone \/ FinishRefused \/ LoseConnection => \E e \in InFlight : \E s : status' = [status EXCEPT ![e] = s]
  <2>1. sync.pc \in {"waiting", "answered"} => sync.command \in InFlight
    BY InFlightIs DEF InHand
  <2> QED
    BY <2>1 DEF FinishDone, FinishRefused, LoseConnection
<1> QED
  BY <1>3, <1>4, <1>5, <1>6, <1>7, <1>8, <1>9, <1>10, QueueKept, QueueFrame DEF QueueMoves

LEMMA AppliedGrows ==
    ASSUME Typed, [Next]_vars
    PROVE  Applied \subseteq Applied'
<1>1. CASE UNCHANGED applied
  BY <1>1 DEF Applied
<1>2. ASSUME NEW c \in late \cup InHand, Apply(c) PROVE Applied \subseteq Applied'
  <2>1. c \in Id /\ applied \in Seq(Id) /\ applied' = Append(applied, c)
    BY <1>2, Records, InFlightIs DEF Apply, Typed, TypeOK, Recorded
  <2> QED
    BY <2>1, AppliedIs
<1> QED
  BY <1>1, <1>2, AppliedFrame

LEMMA AnsweredStep ==
    ASSUME Typed, Answered, [Next]_vars
    PROVE  Answered'
<1> SUFFICES ASSUME sync'.pc = "answered", sync'.answer.kind = "data" PROVE sync'.command \in Applied'
  BY DEF Answered
<1>1. CASE UNCHANGED sync
  BY <1>1, AppliedGrows DEF Answered
<1>2. CASE Serve
  <2>1. sync.pc = "waiting" /\ sync.command \in Id /\ applied \in Seq(Id)
    BY <1>2, Records, InFlightIs DEF Serve, Typed, TypeOK, Recorded, InHand
  <2>2. \E a : AnswerWith(a) /\ (\/ a.kind # "data" \/ sync.command \in Applied \/ Apply(sync.command))
    <3>1. Failed.kind # "data" /\ Conflict.kind # "data"
      BY DEF Failed, Conflict
    <3> QED
      BY <1>2, <3>1, Zenon DEF Serve, Replayed
  <2>3. sync'.command = sync.command /\ (sync.command \in Applied \/ Apply(sync.command))
    BY <2>2 DEF AnswerWith
  <2>4. Apply(sync.command) => sync.command \in Applied'
    BY <2>1, AppliedIs DEF Apply
  <2> QED
    BY <2>3, <2>4, AppliedGrows
<1>3. ASSUME NEW a \in Refusal, ServeRefusal(a) PROVE FALSE
  <2>1. a.kind \in {"conflict", "failed"} /\ sync'.answer = a
    BY <1>3, Responses DEF ServeRefusal, AnswerWith
  <2> QED
    BY <2>1
<1>4. \A who : SyncWarehouseQueue \/ MarkSyncing \/ Send \/ FinishDone \/ FinishRefused \/ LoseConnection \/ EndSync
         \/ Load(who) => UNCHANGED sync \/ sync'.pc # "answered"
  BY SyncMoves
<1>5. WriteEnqueue \/ WriteRetry \/ ClearCache \/ (\E c \in Id : Discard(c)) => UNCHANGED sync
  BY Zenon DEF WriteEnqueue, WriteRetry, ClearCache, Discard
<1> QED
  BY <1>1, <1>2, <1>3, <1>4, <1>5, QueueFrame DEF QueueMoves

LEMMA LeavesStep ==
    ASSUME Typed, Answered, LeavesWhenSettled, [Next]_vars
    PROVE  LeavesWhenSettled'
<1> SUFFICES ASSUME NEW c \in DOMAIN entry', status'[c] = "absent"
             PROVE  c \in Applied' \/ fate'[c] \in {"discarded", "withdrawn", "cleared"}
  BY DEF LeavesWhenSettled
<1>1. QueueTyped /\ DOMAIN entry \subseteq Id
  BY TypesSplit, Records DEF Typed, TypeOK
<1>2. c \in DOMAIN entry
  <2>1. CASE WriteEnqueue /\ c = Len(entry) + 1 /\ c \in Id
    BY <1>1, <2>1 DEF WriteEnqueue, QueueTyped
  <2> QED
    BY <2>1, EntryStep
<1>3. c \in Id
  BY <1>1, <1>2
<1>4. CASE status[c] = "absent" /\ fate'[c] = fate[c]
  BY <1>2, <1>4, AppliedGrows DEF LeavesWhenSettled
<1>5. CASE UNCHANGED <<status, fate>>
  BY <1>4, <1>5
<1>6. CASE UNCHANGED fate /\ \E e \in Id : \E s : s # "absent" /\ status' = [status EXCEPT ![e] = s]
  BY <1>1, <1>3, <1>4, <1>6 DEF QueueTyped
<1>7. CASE WriteEnqueue
  <2>1. Len(entry) + 1 \in Id
    BY <1>7, EntryStep DEF WriteEnqueue, Typed, TypeOK
  <2> QED
    BY <1>6, <1>7, <2>1, FateKept DEF WriteEnqueue
<1>8. CASE WriteRetry
  <2>1. retrying.command \in Id
    BY <1>1, <1>8 DEF WriteRetry, Typed, Recorded
  <2>2. retrying.command # c
    BY <1>1, <1>8, <2>1 DEF WriteRetry, QueueTyped
  <2> QED
    BY <1>1, <1>3, <1>4, <1>8, <2>1, <2>2 DEF WriteRetry, QueueTyped
<1>9. CASE ClearCache
  <2>1. fate'[c] = IF c \in Queued THEN "cleared" ELSE fate[c]
    BY <1>3, <1>9 DEF ClearCache
  <2> QED
    BY <1>2, <1>4, <2>1 DEF Queued
<1>10. ASSUME NEW d \in Id, Discard(d) PROVE c \in Applied' \/ fate'[c] \in {"discarded", "withdrawn", "cleared"}
  BY <1>1, <1>2, <1>3, <1>4, <1>10 DEF Discard, Queued, QueueTyped
<1>11. CASE MarkSyncing
  <2>1. Todo \subseteq Id
    BY <1>1, InFlightIs DEF Typed, Recorded
  <2> QED
    BY <1>6, <1>11, <2>1, SyncMoves, FateKept
<1>12. CASE FinishRefused \/ LoseConnection
  <2>1. sync.command \in Id
    BY <1>1, <1>12, InFlightIs DEF FinishRefused, LoseConnection, Typed, Recorded, InHand
  <2>2. FinishRefused => sync.answer.kind # "absent"
    BY Responses DEF FinishRefused
  <2> QED
    BY <1>6, <1>12, <2>1, <2>2, FateKept DEF FinishRefused, LoseConnection
<1>13. CASE FinishDone
  <2>1. sync.command \in Applied
    BY <1>13 DEF FinishDone, Answered
  <2> QED
    BY <1>1, <1>3, <1>4, <1>13, <2>1, AppliedGrows, FateKept DEF FinishDone, QueueTyped
<1> QED
  BY <1>5, <1>7, <1>8, <1>9, <1>10, <1>11, <1>12, <1>13, QueueKept, QueueFrame DEF QueueMoves

\* How a command leaves the queue, and what is known of the commands in flight.
LeavingInv == Typed /\ Held /\ Kept /\ DiscardedStaysOut /\ Answered /\ LeavesWhenSettled

LEMMA LeavingInit == Init => LeavingInv
<1> SUFFICES ASSUME Init PROVE LeavingInv
  OBVIOUS
<1>1. InFlight = {} /\ sync = None
  BY DEF Init, InFlight, Todo, InHand, None
<1>2. DOMAIN entry = {} /\ \A c \in Id : fate[c] = "kept"
  BY DEF Init
<1> QED
  BY <1>1, <1>2, TypedInit, HeldInit
     DEF LeavingInv, Kept, DiscardedStaysOut, Answered, LeavesWhenSettled, None

LEMMA LeavingStep == LeavingInv /\ [Next]_vars => LeavingInv'
BY TypedStep, HeldStep, KeptStep, DiscardedStep, AnsweredStep, LeavesStep DEF LeavingInv

LEMMA LeavingInvariant == Spec => []LeavingInv
BY LeavingInit, LeavingStep, PTL DEF Spec

\* No command recorded by enqueueWarehouseCommand is lost: its record is deleted only
\* once the server has carried the command out, the operator has discarded it, or the
\* cache was cleared for another identity.
THEOREM NothingLost == Spec => []LeavesWhenSettled
<1>1. LeavingInv => LeavesWhenSettled
  BY DEF LeavingInv
<1> QED
  BY <1>1, LeavingInvariant, PTL

\* A command that is blocked when discardWarehouseCommand removes it is not put back by a
\* synchronization: none has it in its snapshot, however old the snapshot and however
\* late the row that the operator clicks on.
THEOREM DiscardIsFinal == Spec => []DiscardedStaysOut
<1>1. LeavingInv => DiscardedStaysOut
  BY DEF LeavingInv
<1> QED
  BY <1>1, LeavingInvariant, PTL

-----------------------------------------------------------------------------
(* The order of creation. *)

\* The commands of the same task that were recorded before.
Older(d) == {c \in OfTask(DOMAIN entry, entry[d].task) : c < d}

\* A command that has taken effect or was withdrawn stands in nobody's way.
Over(c) == c \in Applied \/ fate[c] # "kept"

\* What has been sent had nothing before it; what is to be sent has only commands
\* before it that the same synchronization sends first.
SentInOrder == \A d \in Applied \cup late \cup InHand : \A c \in Older(d) : Over(c)
TodoInOrder == \A d \in Todo : \A c \in Older(d) : Over(c) \/ c \in InFlight

LEMMA OlderFrame ==
    ASSUME Typed, [Next]_vars, NEW d \in DOMAIN entry
    PROVE  Older(d)' = Older(d) /\ Older(d) \subseteq DOMAIN entry
<1>1. Older(d)' = {c \in DOMAIN entry' : entry'[c].task = entry'[d].task /\ c < d}
  BY DEF Older, OfTask
<1>2. Older(d) = {c \in DOMAIN entry : entry[c].task = entry[d].task /\ c < d}
  BY DEF Older, OfTask
<1>3. ASSUME NEW n \in Nat, d \in 1..n PROVE ~(n + 1 < d)
  BY <1>3
<1>4. DOMAIN entry = 1..Len(entry) /\ Len(entry) \in Nat
  BY Records DEF Typed, TypeOK
<1>5. ~(Len(entry) + 1 < d)
  BY <1>3, <1>4
<1> QED
  BY <1>1, <1>2, <1>5, EntryStep

LEMMA OverFrame ==
    ASSUME Typed, [Next]_vars, NEW c \in DOMAIN entry, Over(c)
    PROVE  Over(c)'
<1>1. c \in Id
  BY Records DEF Typed, TypeOK
<1>2. fate[c] # "kept" => fate'[c] # "kept"
  BY <1>1, FateFrame
<1> QED
  BY <1>2, AppliedGrows DEF Over

LEMMA SentStep ==
    ASSUME Typed, SentInOrder, TodoInOrder, [Next]_vars
    PROVE  SentInOrder'
<1> SUFFICES ASSUME NEW d \in (Applied \cup late \cup InHand)', NEW c \in Older(d)'
             PROVE  Over(c)'
  BY DEF SentInOrder
<1>1. /\ InFlight \cup late \cup Applied \subseteq DOMAIN entry /\ DOMAIN entry \subseteq Id
      /\ applied \in Seq(Id)
  BY Records DEF Typed, TypeOK, Recorded
<1>2. Applied' \subseteq Applied \cup late \cup InHand
  <2>1. CASE UNCHANGED applied
    BY <2>1 DEF Applied
  <2>2. ASSUME NEW e \in late \cup InHand, Apply(e) PROVE Applied' \subseteq Applied \cup late \cup InHand
    <3>1. e \in Id /\ applied' = Append(applied, e)
      BY <1>1, <2>2, InFlightIs DEF Apply
    <3> QED
      BY <1>1, <3>1, AppliedIs
  <2> QED
    BY <2>1, <2>2, AppliedFrame
<1>3. InHand' \subseteq InHand \/ (MarkSyncing /\ \E e \in Todo : InHand' = {e} /\ InHand = {} /\ \A f \in Todo : e <= f)
  <2>1. UNCHANGED sync => InHand' = InHand
    BY DEF InHand
  <2>2. Serve \/ (\E answer \in Refusal : ServeRefusal(answer)) => \E a : sync.pc = "waiting" /\ AnswerWith(a)
    BY Zenon DEF Serve, ServeRefusal
  <2>3. WriteEnqueue \/ WriteRetry \/ ClearCache \/ (\E e \in Id : Discard(e)) => UNCHANGED sync
    BY Zenon DEF WriteEnqueue, WriteRetry, ClearCache, Discard
  <2> QED
    BY <2>1, <2>2, <2>3, SyncMoves, QueueFrame DEF QueueMoves
<1>4. CASE d \in Applied \cup late \cup InHand
  <2>1. d \in DOMAIN entry
    BY <1>1, <1>4, InFlightIs
  <2>2. c \in Older(d) /\ c \in DOMAIN entry
    BY <2>1, OlderFrame
  <2> QED
    BY <1>4, <2>2, OverFrame DEF SentInOrder
<1>5. CASE d \in Todo /\ InHand = {} /\ \A f \in Todo : d <= f
  <2>1. d \in DOMAIN entry
    BY <1>1, <1>5, InFlightIs
  <2>2. c \in Older(d) /\ c \in DOMAIN entry
    BY <2>1, OlderFrame
  <2>3. c < d /\ c \in Nat /\ d \in Nat
    BY <1>1, <2>1, <2>2 DEF Older, Id
  <2>4. c \notin InFlight
    BY <1>5, <2>3, InFlightIs
  <2> QED
    BY <1>5, <2>2, <2>4, OverFrame DEF TodoInOrder
<1> QED
  BY <1>2, <1>3, <1>4, <1>5, LateFrame

LEMMA TodoStep ==
    ASSUME LeavingInv, TodoInOrder, [Next]_vars
    PROVE  TodoInOrder'
<1> SUFFICES ASSUME NEW d \in Todo', NEW c \in Older(d)'
             PROVE  Over(c)' \/ c \in InFlight'
  BY DEF TodoInOrder
<1>1. Typed /\ InFlight \subseteq DOMAIN entry /\ Replayable \subseteq DOMAIN entry
  BY Records DEF LeavingInv, Typed, TypeOK, Recorded
<1>2. ASSUME d \in DOMAIN entry PROVE c \in Older(d) /\ c \in DOMAIN entry /\ (Over(c) => Over(c)')
  BY <1>1, <1>2, OlderFrame, OverFrame
<1>3. CASE d \in Todo /\ InFlight' = InFlight
  <2>1. d \in DOMAIN entry
    BY <1>1, <1>3, InFlightIs
  <2> QED
    BY <1>2, <1>3, <2>1 DEF TodoInOrder
<1>4. CASE SyncWarehouseQueue /\ Todo' = Replayable
  <2>1. c \in Older(d) /\ c \in DOMAIN entry /\ d \in Replayable /\ (Over(c) => Over(c)')
    BY <1>1, <1>2, <1>4
  <2>2. CASE c \in Queued
    <3>1. c \in Replayable
      BY <2>1, <2>2 DEF Older, OfTask, Replayable
    <3> QED
      BY <1>4, <3>1, InFlightIs
  <2>3. CASE c \notin Queued
    <3>1. Over(c)
      BY <2>1, <2>3 DEF LeavingInv, LeavesWhenSettled, Queued, Over
    <3> QED
      BY <2>1, <3>1
  <2> QED
    BY <2>2, <2>3
<1>5. CASE MarkSyncing
  <2>1. d \in Todo /\ InFlight' = InFlight
    <3> PICK e \in Todo : InHand = {} /\ Todo' = Todo \ {e} /\ InHand' = {e}
      BY <1>1, <1>5, SyncMoves
    <3> QED
      BY InFlightIs
  <2> QED
    BY <1>3, <2>1
<1>6. CASE FinishDone
  <2>1. Todo' = Todo /\ InHand' = {} /\ InHand = {sync.command} /\ sync.command \in Applied
    BY <1>1, <1>6, SyncMoves DEF FinishDone, InHand, LeavingInv, Answered
  <2>2. d \in Todo /\ d \in DOMAIN entry
    BY <1>1, <2>1, InFlightIs
  <2>3. Over(c) \/ c \in InFlight
    BY <1>2, <2>2 DEF TodoInOrder
  <2>4. c \in InFlight => c \in Todo' \/ Over(c)
    BY <2>1, InFlightIs DEF Over
  <2> QED
    BY <1>2, <2>2, <2>3, <2>4, InFlightIs
<1>7. CASE FinishRefused
  <2>1. Todo' = Todo \ OfTask(Todo, entry[sync.command].task) /\ InHand = {sync.command}
    BY <1>1, <1>7, SyncMoves DEF FinishRefused, InHand
  <2>2. d \in Todo /\ d \in DOMAIN entry /\ entry[d].task # entry[sync.command].task
    BY <1>1, <2>1, InFlightIs DEF OfTask
  <2>3. entry[c].task = entry[d].task
    BY <1>2, <2>2 DEF Older, OfTask
  <2>4. c \in InFlight => c \in Todo'
    BY <2>1, <2>2, <2>3, InFlightIs DEF OfTask
  <2> QED
    BY <1>2, <2>2, <2>4, InFlightIs DEF TodoInOrder
<1>8. CASE Todo' = {}
  BY <1>8
<1>9. Send \/ Serve \/ (\E answer \in Refusal : ServeRefusal(answer)) => Todo' = Todo /\ InHand' = InHand
  <2>1. Serve \/ (\E answer \in Refusal : ServeRefusal(answer)) => \E a : sync.pc = "waiting" /\ AnswerWith(a)
    BY Zenon DEF Serve, ServeRefusal
  <2> QED
    BY <1>1, <2>1, SyncMoves
<1>10. WriteEnqueue \/ WriteRetry \/ ClearCache \/ (\E e \in Id : Discard(e)) => UNCHANGED sync
  BY Zenon DEF WriteEnqueue, WriteRetry, ClearCache, Discard
<1>11. UNCHANGED sync => Todo' = Todo /\ InHand' = InHand
  BY DEF Todo, InHand
<1>12. CASE Todo' = Todo /\ InHand' = InHand
  BY <1>3, <1>12, InFlightIs
<1>13. SyncWarehouseQueue => UNCHANGED sync \/ Todo' = Replayable
  BY <1>1, SyncMoves
<1>14. LoseConnection \/ EndSync \/ (\E who : Load(who)) => Todo' = {}
  BY <1>1, SyncMoves
<1> QED
  BY <1>4, <1>5, <1>6, <1>7, <1>8, <1>9, <1>10, <1>11, <1>12, <1>13, <1>14, QueueFrame DEF QueueMoves

LEMMA OrderStep ==
    ASSUME Typed, SentInOrder, ReplayedInOrder, [Next]_vars
    PROVE  ReplayedInOrder'
<1>1. /\ InFlight \cup late \cup Applied \subseteq DOMAIN entry /\ DOMAIN entry \subseteq Id
      /\ applied \in Seq(Id)
  BY Records DEF Typed, TypeOK, Recorded
<1>2. \A c \in DOMAIN entry : entry'[c] = entry[c] /\ (fate[c] # "kept" => fate'[c] # "kept")
  BY <1>1, EntryStep, FateFrame
<1>3. \A i \in DOMAIN applied : applied[i] \in Applied
  BY DEF Applied
<1>4. CASE UNCHANGED applied
  BY <1>1, <1>2, <1>3, <1>4 DEF ReplayedInOrder
<1>5. ASSUME NEW e \in late \cup InHand, Succeeds(e), Apply(e) PROVE ReplayedInOrder'
  <2>1. e \in DOMAIN entry /\ e \in Id /\ e \notin Applied /\ applied' = Append(applied, e)
    BY <1>1, <1>5, InFlightIs DEF Apply, Succeeds, Replayed
  <2>2. /\ Len(applied) \in Nat /\ DOMAIN applied = 1..Len(applied)
        /\ DOMAIN applied' = 1..(Len(applied) + 1) /\ applied'[Len(applied) + 1] = e
        /\ \A i \in DOMAIN applied : applied'[i] = applied[i]
    BY <1>1, <2>1, AppliedIs
  <2> SUFFICES ASSUME NEW i \in DOMAIN applied', NEW j \in DOMAIN applied', i < j,
                      applied'[j] < applied'[i], entry'[applied'[i]].task = entry'[applied'[j]].task
               PROVE  fate'[applied'[j]] # "kept"
    BY DEF ReplayedInOrder
  <2>3. i \in DOMAIN applied /\ applied'[i] = applied[i] /\ applied[i] \in DOMAIN entry
    BY <1>1, <1>3, <2>2
  <2>4. CASE j \in DOMAIN applied
    <3>1. applied'[j] = applied[j] /\ applied[j] \in DOMAIN entry
      BY <1>1, <1>3, <2>2, <2>4
    <3> QED
      BY <1>2, <2>3, <2>4, <3>1 DEF ReplayedInOrder
  <2>5. CASE j = Len(applied) + 1
    <3>1. applied'[j] = e /\ entry[applied[i]].task = entry[e].task
      BY <1>2, <2>1, <2>2, <2>3, <2>5
    <3>2. e \in Older(applied[i]) /\ applied[i] \in Applied
      BY <1>3, <2>1, <2>3, <3>1 DEF Older, OfTask
    <3>3. fate[e] # "kept"
      BY <2>1, <3>2 DEF SentInOrder, Over
    <3> QED
      BY <1>2, <2>1, <3>1, <3>3
  <2> QED
    BY <2>2, <2>4, <2>5
<1> QED
  BY <1>4, <1>5, AppliedFrame

OrderInv == LeavingInv /\ SentInOrder /\ TodoInOrder /\ ReplayedInOrder

\* Two commands of a task take effect on the server in the order in which they were
\* recorded, unless the older one was withdrawn: the snapshots of synchronizations, the
\* requests given up, the retries and the reloads of the page never reorder them.
THEOREM CreationOrder == Spec => []ReplayedInOrder
<1>1. Init => OrderInv
  <2> SUFFICES ASSUME Init PROVE SentInOrder /\ TodoInOrder /\ ReplayedInOrder
    BY LeavingInit DEF OrderInv
  <2>1. Todo = {} /\ InHand = {} /\ late = {} /\ applied = <<>> /\ Applied = {}
    BY DEF Init, Todo, InHand, None, Applied
  <2> QED
    BY <2>1 DEF SentInOrder, TodoInOrder, ReplayedInOrder
<1>2. OrderInv /\ [Next]_vars => OrderInv'
  <2>1. LeavingInv => Typed
    BY DEF LeavingInv
  <2> QED
    BY <2>1, LeavingStep, SentStep, TodoStep, OrderStep DEF OrderInv
<1>3. OrderInv => ReplayedInOrder
  BY DEF OrderInv
<1> QED
  BY <1>1, <1>2, <1>3, PTL DEF Spec

-----------------------------------------------------------------------------
(* The identity of the queue. *)

\* The names of commands that are in the queue or that something may still put there,
\* and whose command each of them is.
Live == Queued \cup RunningOn
By(c) == IF c \in DOMAIN entry THEN entry[c].by ELSE enqueueing.by

Opened == auth.pc = "ready" => identity = session

\* The stores hold, and what is running may add, commands of the cache's identity and
\* what was running on at the last clearing: nothing else once they are cleared.
Own == \A c \in Live : c \in left \/ By(c) = identity
Cleared == auth.pc = "cleared" => Live \subseteq left

IdentityInv == Opened /\ Own /\ Cleared

\* The steps that change who is signed in, whose cache it is, or what was left.
LEMMA SessionFrame ==
    ASSUME [Next]_vars
    PROVE  \/ UNCHANGED <<identity, auth, session, left>>
           \/ auth'.pc = "configuring" /\ UNCHANGED <<identity, left>>
           \/ ClearCache \/ Enter
<1>1. Operator => UNCHANGED <<identity, auth, session, left>>
  BY Zenon DEF Operator, BeginEnqueue, Discard, ReadRetry, SyncNow, ShowCache, page, book, history
<1>2. Synchronize => UNCHANGED <<identity, auth, session, left>>
  BY Zenon DEF Synchronize, PerformSync, SyncWarehouseQueue, MarkSyncing, Send, Serve, FinishDone,
               FinishRefused, EndSync, page, book, history
<1>3. Continue => UNCHANGED <<identity, auth, session, left>> \/ ClearCache \/ Enter
  BY Zenon DEF Continue, WriteEnqueue, WriteRetry, FetchTasks, CacheTasks, page, book, history
<1>4. CASE Unload \/ (\E who \in Identity : Renew(who)) \/ \E who \in Identity \cup {Nobody} : Load(who)
  BY <1>4 DEF Unload, Renew, Load, history
<1>5. World => \/ UNCHANGED <<identity, auth, session, left>>
               \/ Unload \/ (\E who \in Identity : Renew(who)) \/ \E who \in Identity \cup {Nobody} : Load(who)
  BY Zenon DEF World, MoveTask, ServeRefusal, ServeLate, LoseConnection, GoOffline, GoOnline, page, book,
               history
<1>6. UNCHANGED vars => UNCHANGED <<identity, auth, session, left>>
  BY DEF vars, page, book, history
<1> QED
  BY <1>1, <1>2, <1>3, <1>4, <1>5, <1>6 DEF Next, Synchronize

LEMMA OpenedStep ==
    ASSUME Opened, [Next]_vars
    PROVE  Opened'
BY SessionFrame DEF Opened, ClearCache, Enter

\* Records that a step adds to the queue.
LEMMA QueuedFrame ==
    ASSUME Typed, [Next]_vars
    PROVE  Queued' \subseteq Live
<1> SUFFICES ASSUME NEW c \in Queued', c \notin Queued, c \notin InFlight
             PROVE  \/ retrying # None /\ c = retrying.command
                    \/ enqueueing # None /\ c = Len(entry) + 1
  BY DEF Live, RunningOn
<1>1. QueueTyped /\ DOMAIN entry \subseteq Id /\ c \in DOMAIN entry' /\ status'[c] # "absent"
  BY TypesSplit, Records DEF Typed, TypeOK, Queued
<1>2. CASE ~ UNCHANGED entry /\ c \notin DOMAIN entry
  BY <1>1, <1>2, EntryStep
<1>3. ASSUME c \in DOMAIN entry
      PROVE  retrying # None /\ c = retrying.command
  <2>1. status[c] = "absent" /\ c \in Id
    BY <1>1, <1>3 DEF Queued
  <2>2. CASE UNCHANGED status
    BY <1>1, <2>1, <2>2
  <2>3. CASE \E e, s : e # c /\ status' = [status EXCEPT ![e] = s]
    BY <1>1, <2>1, <2>3 DEF QueueTyped
  <2>4. CASE WriteEnqueue
    <3>1. c # Len(entry) + 1
      BY <1>3, <2>4, EntryStep DEF WriteEnqueue, Typed, TypeOK
    <3> QED
      BY <2>3, <2>4, <3>1 DEF WriteEnqueue
  <2>5. CASE WriteRetry
    BY <2>3, <2>5 DEF WriteRetry
  <2>6. CASE ClearCache
    BY <1>1, <2>1, <2>6 DEF ClearCache
  <2>7. ASSUME NEW d \in Id, Discard(d) PROVE FALSE
    <3>1. status' = [status EXCEPT ![d] = "absent"]
      BY <2>7 DEF Discard
    <3> QED
      BY <1>1, <2>1, <3>1 DEF QueueTyped
  <2>8. CASE MarkSyncing
    <3>1. \E e \in Todo : status' = [status EXCEPT ![e] = "syncing"]
      BY <2>8, SyncMoves
    <3> QED
      BY <2>3, <3>1, InFlightIs
  <2>9. CASE FinishDone \/ FinishRefused \/ LoseConnection
    <3>1. sync.command # c
      BY <2>9, InFlightIs DEF FinishDone, FinishRefused, LoseConnection, InHand
    <3>2. \E s : status' = [status EXCEPT ![sync.command] = s]
      BY <2>9, Zenon DEF FinishDone, FinishRefused, LoseConnection
    <3> QED
      BY <2>3, <3>1, <3>2
  <2> QED
    BY <2>2, <2>4, <2>5, <2>6, <2>7, <2>8, <2>9, QueueKept, QueueFrame DEF QueueMoves
<1> QED
  BY <1>1, <1>2, <1>3

\* What a step does to the slots of Retry and of enqueue.
LEMMA SlotsFrame ==
    ASSUME Typed, [Next]_vars
    PROVE  /\ retrying' = None \/ UNCHANGED retrying \/ retrying'.command \in Queued
           /\ \/ enqueueing' = None
              \/ UNCHANGED <<enqueueing, entry>>
              \/ InWorkspace /\ enqueueing'.by = session /\ UNCHANGED <<entry, identity, session, left>>
<1>1. (\E c \in Id : ReadRetry(c)) => retrying'.command \in Queued
  BY DEF ReadRetry
<1>2. (\E t \in Task, command \in Command : BeginEnqueue(t, command))
         => InWorkspace /\ enqueueing'.by = session /\ UNCHANGED <<entry, identity, session, left>>
  BY DEF BeginEnqueue, page, book, history
<1>3. Operator => UNCHANGED retrying \/ \E c \in Id : ReadRetry(c)
  BY Zenon DEF Operator, BeginEnqueue, Discard, SyncNow, ShowCache
<1>4. Operator => UNCHANGED <<enqueueing, entry>>
                    \/ \E t \in Task, command \in Command : BeginEnqueue(t, command)
  BY Zenon DEF Operator, Discard, ReadRetry, SyncNow, ShowCache, book
<1>5. Synchronize => UNCHANGED <<retrying, enqueueing, entry>>
  BY Zenon DEF Synchronize, PerformSync, SyncWarehouseQueue, MarkSyncing, Send, Serve, FinishDone,
               FinishRefused, EndSync, book
<1>6. Continue => UNCHANGED retrying \/ retrying' = None
  BY Zenon DEF Continue, WriteEnqueue, WriteRetry, FetchTasks, CacheTasks, ClearCache, Enter
<1>7. Continue => UNCHANGED <<enqueueing, entry>> \/ enqueueing' = None
  BY Zenon DEF Continue, WriteEnqueue, WriteRetry, FetchTasks, CacheTasks, ClearCache, Enter, book
<1>8. World => UNCHANGED <<retrying, enqueueing, entry>> \/ (retrying' = None /\ enqueueing' = None)
  BY Zenon DEF World, MoveTask, ServeRefusal, ServeLate, LoseConnection, Unload, Renew, Load,
               GoOffline, GoOnline, book
<1>9. UNCHANGED vars => UNCHANGED <<retrying, enqueueing, entry>>
  BY DEF vars, book
<1>10. retrying' = None \/ UNCHANGED retrying \/ retrying'.command \in Queued
  BY <1>1, <1>3, <1>5, <1>6, <1>8, <1>9 DEF Next, Synchronize
<1>11. \/ enqueueing' = None \/ UNCHANGED <<enqueueing, entry>>
       \/ InWorkspace /\ enqueueing'.by = session /\ UNCHANGED <<entry, identity, session, left>>
  BY <1>2, <1>4, <1>5, <1>7, <1>8, <1>9 DEF Next, Synchronize
<1> QED
  BY <1>10, <1>11

\* Nothing becomes live but the command that the operator of an open workspace gives.
LEMMA LiveFrame ==
    ASSUME Typed, [Next]_vars, NEW c \in Live'
    PROVE  \/ c \in Live /\ By(c)' = By(c)
           \/ InWorkspace /\ By(c)' = session /\ UNCHANGED <<identity, session, left>>
<1>1. /\ Queued \subseteq DOMAIN entry /\ InFlight \subseteq DOMAIN entry /\ Replayable \subseteq Queued
      /\ retrying # None => retrying.command \in DOMAIN entry
      /\ Len(entry) \in Nat /\ DOMAIN entry = 1..Len(entry)
  BY Records DEF Typed, TypeOK, Recorded, Replayable
<1>2. Len(entry) + 1 \notin DOMAIN entry
  BY <1>1
<1>3. InFlight' \subseteq InFlight \cup Queued
  BY <1>1, FlightFrame, InFlightIs
<1>4. CASE c \in DOMAIN entry
  <2>1. By(c)' = By(c)
    BY <1>4, EntryStep DEF By
  <2>2. CASE c \in Queued' \cup InFlight'
    BY <1>3, <2>1, <2>2, QueuedFrame DEF Live, RunningOn
  <2>3. CASE retrying' # None /\ c = retrying'.command
    BY <2>1, <2>3, SlotsFrame DEF Live, RunningOn
  <2>4. CASE enqueueing' # None /\ c = Len(entry') + 1
    BY <1>2, <1>4, <2>4, SlotsFrame
  <2> QED
    BY <2>2, <2>3, <2>4 DEF Live, RunningOn
<1>5. CASE c \notin DOMAIN entry
  <2>1. CASE enqueueing' # None /\ c = Len(entry') + 1
    <3>1. By(c)' = enqueueing'.by /\ UNCHANGED entry
      BY <1>2, <2>1, SlotsFrame DEF By
    <3>2. CASE UNCHANGED enqueueing
      BY <1>2, <2>1, <3>1, <3>2 DEF By, Live, RunningOn
    <3> QED
      BY <2>1, <3>1, <3>2, SlotsFrame
  <2>2. CASE c \in Queued'
    <3>1. c \in Live /\ c \notin Queued /\ c \notin InFlight /\ (retrying # None => c # retrying.command)
      BY <1>1, <1>5, <2>2, QueuedFrame
    <3>2. enqueueing # None /\ c = Len(entry) + 1
      BY <3>1 DEF Live, RunningOn
    <3>3. c \in DOMAIN entry' /\ entry'[c].by = enqueueing.by
      BY <1>5, <2>2, <3>2, EntryStep DEF Queued
    <3> QED
      BY <1>5, <3>1, <3>3 DEF By
  <2>3. CASE c \in InFlight' \/ (retrying' # None /\ c = retrying'.command)
    BY <1>1, <1>3, <1>5, <2>3, SlotsFrame
  <2> QED
    BY <2>1, <2>2, <2>3 DEF Live, RunningOn
<1> QED
  BY <1>4, <1>5

\* The steps of configureWarehouseCacheIdentity.
LEMMA ConfigureMoves ==
    ASSUME Typed
    PROVE  /\ ClearCache => Live' \subseteq left'
           /\ Enter => Live' = Live /\ left' = left /\ \A c : By(c)' = By(c)
<1>1. ASSUME ClearCache PROVE Live' \subseteq left'
  <2>1. UNCHANGED <<sync, enqueueing, retrying, entry>> /\ left' = RunningOn
    BY <1>1 DEF ClearCache
  <2>2. RunningOn' = RunningOn
    BY <2>1 DEF RunningOn, InFlight
  <2>3. \A c \in Id : status'[c] = "absent"
    BY <1>1 DEF ClearCache
  <2>4. DOMAIN entry' \subseteq Id
    BY <2>1, Records DEF Typed, TypeOK
  <2>5. Queued' = {}
    BY <2>3, <2>4 DEF Queued
  <2> QED
    BY <2>1, <2>2, <2>5 DEF Live
<1>2. ASSUME Enter PROVE Live' = Live /\ left' = left /\ \A c : By(c)' = By(c)
  <2>1. UNCHANGED <<status, entry, sync, enqueueing, retrying, left>>
    BY <1>2, Zenon DEF Enter, cache, history
  <2> QED
    BY <2>1 DEF Live, Queued, RunningOn, InFlight, By
<1> QED
  BY <1>1, <1>2

LEMMA OwnStep ==
    ASSUME Typed, IdentityInv, [Next]_vars
    PROVE  Own' /\ Cleared'
<1>1. CASE ClearCache
  BY <1>1, ConfigureMoves DEF Own, Cleared
<1>2. CASE Enter
  <2>1. Live' = Live /\ left' = left /\ (\A c : By(c)' = By(c)) /\ auth'.pc = "ready"
    BY <1>2, ConfigureMoves DEF Enter
  <2>2. UNCHANGED identity \/ Live \subseteq left
    BY <1>2 DEF Enter, SameIdentity, IdentityInv, Cleared
  <2> QED
    BY <2>1, <2>2 DEF IdentityInv, Own, Cleared
<1>3. CASE UNCHANGED <<identity, left>> /\ (UNCHANGED auth \/ auth'.pc = "configuring")
  <2>1. InWorkspace => identity = session /\ auth.pc = "ready"
    BY DEF InWorkspace, IdentityInv, Opened
  <2>2. Own'
    BY <1>3, <2>1, LiveFrame DEF IdentityInv, Own
  <2>3. ASSUME auth'.pc = "cleared" PROVE Live' \subseteq left'
    <3>1. auth.pc = "cleared" /\ ~InWorkspace
      BY <1>3, <2>1, <2>3
    <3> QED
      BY <1>3, <3>1, LiveFrame DEF IdentityInv, Cleared
  <2> QED
    BY <2>2, <2>3 DEF Cleared
<1> QED
  BY <1>1, <1>2, <1>3, SessionFrame

LEMMA IdentityInit == Init => IdentityInv
<1> SUFFICES ASSUME Init PROVE IdentityInv
  OBVIOUS
<1>1. /\ identity = session /\ auth.pc = "ready" /\ enqueueing = None /\ retrying = None
      /\ DOMAIN entry = {} /\ sync = None
  BY DEF Init
<1>2. Live = {}
  BY <1>1 DEF Live, Queued, RunningOn, InFlight, None
<1> QED
  BY <1>1, <1>2 DEF IdentityInv, Opened, Own, Cleared

\* configureWarehouseCacheIdentity clears the stores before another user or organization
\* enters the workspace: a command of somebody else that is found in an open workspace
\* was written there by an enqueue, a retry or a synchronization that was already
\* running in the page when the stores were cleared, and by nothing else.
THEOREM NothingElseIsKept == Spec => []ClearedBeforeEntry
<1>1. Typed /\ IdentityInv /\ [Next]_vars => (Typed /\ IdentityInv)'
  BY TypedStep, OpenedStep, OwnStep DEF IdentityInv
<1>2. Typed /\ IdentityInv => ClearedBeforeEntry
  <2> SUFFICES ASSUME Typed, IdentityInv, InWorkspace, NEW c \in Queued
               PROVE  entry[c].by = session \/ c \in left
    BY DEF ClearedBeforeEntry
  <2>1. c \in DOMAIN entry /\ c \in Live /\ identity = session
    BY Records DEF Typed, TypeOK, Live, IdentityInv, Opened, InWorkspace
  <2> QED
    BY <2>1 DEF IdentityInv, Own, By
<1> QED
  BY <1>1, <1>2, TypedInit, IdentityInit, PTL DEF Spec

=============================================================================
