----------------------------- MODULE OfflineQueue -----------------------------
(***************************************************************************)
(* The warehouse PWA's offline queue, apps/web/src/data/warehouseOffline.ts,*)
(* with the pages and the sign-in that call it (WarehouseWorkspace.tsx,    *)
(* AuthProvider.tsx) and the task commands of the server it replays to.    *)
(* One page is open.  Its functions await IndexedDB and the network, so    *)
(* that a synchronization, the operator's clicks, a refresh and a change   *)
(* of identity run into each other between any two awaits.                 *)
(*                                                                         *)
(* A command is named by its place in the order of creation: createdAt is  *)
(* above that of every queued command of the same task, and that is all    *)
(* the order is used for.  Quantities, scans and the receipt task that a   *)
(* shipped transfer adds to the cache are left out; the four endpoints run *)
(* one protocol.  An enqueue, a retry, a refresh and a change of identity  *)
(* have one slot each.  What the operator acts on is what the page shows,  *)
(* which lags behind the stores.                                           *)
(***************************************************************************)
EXTENDS Naturals, Sequences, FiniteSets

CONSTANTS
    Task,              \* warehouse tasks
    Identity,          \* user and organization pairs that may sign in
    Owner,             \* the one who is signed in at first
    Nobody,            \* the identity of a page that nobody is signed in to
    TasksOf,           \* the tasks of each identity's organization
    NotCached,         \* a task that the cache does not hold
    Others,            \* the states that somebody else may move a task to
    MaxCommands,       \* bound on the commands recorded
    MaxEvents          \* bound on the commands and the disturbances together

ASSUME IdentityAssumption ==
    /\ Owner \in Identity /\ Nobody \notin Identity
    /\ TasksOf \in [Identity -> SUBSET Task]
ASSUME BoundAssumption == MaxCommands \in Nat /\ MaxEvents \in Nat

VARIABLES
    server,            \* the server's warehouse_tasks: state and version
    applied,           \* the commands that have taken effect, in that order
    late,              \* requests the page has given up but the network has not
    tasks,             \* IndexedDB store 'tasks'
    status,            \* IndexedDB store 'commands': status of each record
    entry,             \* content of every record ever written
    shown,             \* WarehouseWorkspace: the tasks and the blocked commands it shows
    fate,              \* history: how a command left the queue without effect
    left,              \* history: what was running on when the stores were cleared
    identity,          \* localStorage: the identity the cache is for
    session,           \* the identity of the access token
    auth,              \* AuthProvider: ready, or on its way to another identity
    online,            \* navigator.onLine
    due,               \* synchronize has been called and not yet run
    sync,              \* the active synchronization
    enqueueing,        \* a command between the checks and the write of its enqueue
    retrying,          \* a record that Retry has read and not yet put back
    fetch,             \* a refresh: asked for, or the server's list
    disturbances       \* how many disturbances there have been

cache == <<tasks, status>>
history == <<fate, left>>
page == <<auth, online, session>>
book == <<entry, shown, history, identity>>
vars == <<server, applied, late, cache, book, page, due, sync, enqueueing, retrying, fetch, disturbances>>

TaskState == {"open", "assigned", "in_progress", "completed", "exception", "cancelled"}
Command == {"start", "complete", "report_exception", "reopen"}
TaskRecord == [state : TaskState, version : Nat \ {0}]

Id == 1..MaxCommands
Entry == [task : Task, command : Command, expected : Nat \ {0}, by : Identity]

\* Values of sync, enqueueing, retrying and fetch when nothing is under way.
None == [pc |-> "none"]

\* What the page makes of a response: data, a 409, or any other status.
Refusal == [kind : {"conflict", "failed"}]
Answer == [kind : {"data"}, task : TaskRecord] \cup Refusal

SyncState ==
    {None} \cup [pc : {"ending"}] \cup [pc : {"next"}, todo : SUBSET Id]
    \cup [pc : {"marked"}, todo : SUBSET Id, command : Id]
    \cup [pc : {"waiting"}, todo : SUBSET Id, command : Id, token : Identity \cup {Nobody}]
    \cup [pc : {"answered"}, todo : SUBSET Id, command : Id, answer : Answer]

Queued == {c \in DOMAIN entry : status[c] # "absent"}
Blocked(c) == status[c] \in {"conflict", "failed"}
BlockedTask(t) == \E c \in Queued : entry[c].task = t /\ Blocked(c)
OfTask(ids, t) == {c \in ids : entry[c].task = t}
Applied == {applied[i] : i \in DOMAIN applied}

\* AuthGate shows the workspace to somebody who is signed in and nothing else.
InWorkspace == auth.pc = "ready" /\ session # Nobody

\* Commands recorded or being recorded, and disturbances.
Events == Len(entry) + Cardinality({enqueueing} \ {None}) + disturbances

\* The page shows nothing, because it has just been opened or is not open.
Unmounted == [tasks |-> [t \in Task |-> NotCached], blocked |-> [c \in Id |-> "none"]]

\* The tasks that the server lists to an identity.
ListedTo(who) == [t \in Task |-> IF t \in TasksOf[who] THEN server[t] ELSE NotCached]

Disturb == Events < MaxEvents /\ disturbances' = disturbances + 1

-----------------------------------------------------------------------------
(* The server. *)

\* TASK_TRANSITIONS of domain/operations.py.
Transitions ==
    [open |-> {"assigned", "in_progress", "cancelled"},
     assigned |-> {"in_progress", "open", "cancelled"},
     in_progress |-> {"completed", "exception", "cancelled"},
     exception |-> {"open", "in_progress", "cancelled"},
     completed |-> {}, cancelled |-> {}]

\* Mutant: a completed task is cached under the name of the command.
TargetNamed ==
    [start |-> "in_progress", complete |-> "complete",
     report_exception |-> "exception", reopen |-> "open"]

\* The state a command asks for.
Target ==
    [start |-> "in_progress", complete |-> "completed",
     report_exception |-> "exception", reopen |-> "open"]

Moved(t, state) == [state |-> state, version |-> server[t].version + 1]

\* The command's transaction: the key is claimed first, then the version
\* compared, then the transition.
Replayed(c) == c \in Applied
Stale(c) == server[entry[c].task].version # entry[c].expected
Allowed(c) == Target[entry[c].command] \in Transitions[server[entry[c].task].state]
Succeeds(c) == ~Replayed(c) /\ ~Stale(c) /\ Allowed(c)

Apply(c) ==
    LET t == entry[c].task IN
    /\ server' = [server EXCEPT ![t] = Moved(t, Target[entry[c].command])]
    /\ applied' = Append(applied, c)

\* The task is changed by somebody else: another operator, an assignment, a cancellation.
MoveTask(t, state) ==
    /\ Disturb
    /\ state \in Others \cap Transitions[server[t].state]
    /\ server' = [server EXCEPT ![t] = Moved(t, state)]
    /\ UNCHANGED <<applied, late, cache, book, page, due, sync,
                   enqueueing, retrying, fetch>>

-----------------------------------------------------------------------------
(* The operator's commands.  The page shows what loadCache has read; it is *)
(* told of each change, reads both stores and renders when it comes to it. *)

ShowCache ==
    /\ InWorkspace
    /\ shown' = [tasks |-> tasks,
                 blocked |-> [c \in Id |-> IF Blocked(c) THEN status[c] ELSE "none"]]
    /\ UNCHANGED <<server, applied, late, cache, entry, history, identity, page, due, sync,
                   enqueueing, retrying, fetch, disturbances>>

\* nextWarehouseTaskState: the states from which the page offers a command.
OfferedFrom ==
    [start |-> {"open", "assigned", "exception"}, complete |-> {"in_progress"},
     report_exception |-> {"in_progress"}, reopen |-> {"assigned", "exception"}]

\* enqueueWarehouseCommand, for a task as it is shown, up to its read of the
\* task's queued commands.
BeginEnqueue(t, command) ==
    /\ InWorkspace
    /\ enqueueing = None
    /\ Len(entry) < MaxCommands /\ Events < MaxEvents
    /\ shown.tasks[t] # NotCached
    /\ shown.tasks[t].state \in OfferedFrom[command]
    /\ ~BlockedTask(t)
    /\ enqueueing' = [pc |-> "checked", by |-> session, task |-> t, command |-> command,
                      version |-> shown.tasks[t].version]
    /\ UNCHANGED <<server, applied, late, cache, book, page, due, sync,
                   retrying, fetch, disturbances>>

\* Its transaction over both stores, and the page's call of synchronize.
WriteEnqueue ==
    LET c == Len(entry) + 1
        new == enqueueing
    IN
    /\ new # None
    /\ entry' = Append(entry, [task |-> new.task, command |-> new.command,
                               expected |-> new.version, by |-> new.by])
    /\ status' = [status EXCEPT ![c] = "pending"]
    /\ tasks' = [tasks EXCEPT ![new.task] = [state |-> Target[new.command],
                                             version |-> new.version + 1]]
    /\ enqueueing' = None
    /\ due' = (due \/ online)
    /\ UNCHANGED <<server, applied, late, shown, history, identity, page, sync, retrying,
                   fetch, disturbances>>

\* discardWarehouseCommand, offered for the commands that are shown as blocked: the
\* record goes, whatever has become of it since, and the tasks are loaded again.
Discard(c) ==
    /\ InWorkspace
    /\ shown.blocked[c] # "none"
    /\ status' = [status EXCEPT ![c] = "absent"]
    /\ fate' = [fate EXCEPT ![c] = IF c \notin Queued THEN @
                                  ELSE IF Blocked(c) THEN "discarded" ELSE "withdrawn"]
    /\ fetch' = IF online /\ fetch = None THEN [pc |-> "asked"] ELSE fetch
    /\ UNCHANGED <<server, applied, late, tasks, entry, shown, left, identity, page, due, sync,
                   enqueueing, retrying, disturbances>>

\* retryWarehouseCommand, offered for those shown as failed: it reads the record ...
ReadRetry(c) ==
    /\ InWorkspace
    /\ retrying = None
    /\ shown.blocked[c] = "failed"
    /\ c \in Queued
    /\ retrying' = [pc |-> "read", command |-> c]
    /\ UNCHANGED <<server, applied, late, cache, book, page, due, sync,
                   enqueueing, fetch, disturbances>>

\* ... and puts it back as pending, even if it was discarded in between.
WriteRetry ==
    /\ retrying # None
    /\ status' = [status EXCEPT ![retrying.command] = "pending"]
    /\ fate' = [fate EXCEPT ![retrying.command] = IF @ = "discarded" THEN "revived" ELSE @]
    /\ retrying' = None
    /\ due' = TRUE
    /\ UNCHANGED <<server, applied, late, tasks, entry, shown, left, identity, page, sync,
                   enqueueing, fetch, disturbances>>

\* The button "Sync now", disabled offline and while a synchronization is shown.
SyncNow ==
    /\ InWorkspace
    /\ online /\ ~due /\ sync = None
    /\ due' = TRUE
    /\ UNCHANGED <<server, applied, late, cache, book, page, sync,
                   enqueueing, retrying, fetch, disturbances>>

-----------------------------------------------------------------------------
(* performSync. *)

\* Mutant: only commands in status pending are sent.
PendingOnly == {c \in Queued : status[c] = "pending" /\ ~BlockedTask(entry[c].task)}

\* Mutant: the loop does not look at what the snapshot says of a command.
EveryQueued == Queued

\* Mutant: a blocked command is passed over, but not those behind it.
Unblocked == {c \in Queued : ~Blocked(c)}

\* The commands of the snapshot that the loop does not pass over at once.
Replayable == {c \in Queued : ~BlockedTask(entry[c].task)}

\* syncWarehouseQueue: join the active synchronization, do nothing offline, or
\* take the snapshot of the queue that this synchronization works through.
SyncWarehouseQueue ==
    /\ due
    /\ due' = FALSE
    /\ \/ (sync # None \/ ~online) /\ UNCHANGED sync
       \/ sync = None /\ online /\ sync' = [pc |-> "next", todo |-> Replayable]
    /\ UNCHANGED <<server, applied, late, cache, book, page, enqueueing,
                   retrying, fetch, disturbances>>

\* Mutant: the snapshot is not read in the order of creation.
MarkAny ==
    /\ sync.pc = "next"
    /\ \E c \in sync.todo :
          /\ status' = [status EXCEPT ![c] = "syncing"]
          /\ sync' = [pc |-> "marked", todo |-> sync.todo \ {c}, command |-> c]
    /\ UNCHANGED <<server, applied, late, tasks, book, page, due, enqueueing, retrying, fetch,
                   disturbances>>

\* The oldest command that is left is put back as syncing, whatever has become
\* of its record since the snapshot.
MarkSyncing ==
    /\ sync.pc = "next"
    /\ \E c \in sync.todo :
          /\ \A d \in sync.todo : c <= d
          /\ status' = [status EXCEPT ![c] = "syncing"]
          /\ sync' = [pc |-> "marked", todo |-> sync.todo \ {c}, command |-> c]
    /\ UNCHANGED <<server, applied, late, tasks, book, page, due,
                   enqueueing, retrying, fetch, disturbances>>

\* The request leaves with the access token of that moment.
Send ==
    /\ sync.pc = "marked"
    /\ sync' = [pc |-> "waiting", todo |-> sync.todo, command |-> sync.command,
                token |-> session]
    /\ UNCHANGED <<server, applied, late, cache, book, page, due,
                   enqueueing, retrying, fetch, disturbances>>

AnswerWith(answer) ==
    sync' = [pc |-> "answered", todo |-> sync.todo, command |-> sync.command,
             answer |-> answer]

Data(task) == [kind |-> "data", task |-> task]
Conflict == [kind |-> "conflict"]
Failed == [kind |-> "failed"]

\* A token whose organization has the task.
Authorized(token, c) == token # Nobody /\ entry[c].task \in TasksOf[token]

\* The server takes the request: 401 without a token and 404 with that of another
\* organization, the task as it is for a replay, 412 for a stale version, 409 for a
\* forbidden transition.
Serve ==
    /\ sync.pc = "waiting"
    /\ LET c == sync.command
           authorized == Authorized(sync.token, c)
       IN
       \/ ~authorized /\ AnswerWith(Failed) /\ UNCHANGED <<server, applied>>
       \/ /\ authorized
          /\ \/ Replayed(c) /\ AnswerWith(Data(server[entry[c].task]))
             \/ ~Replayed(c) /\ Stale(c) /\ AnswerWith(Failed)
             \/ ~Replayed(c) /\ ~Stale(c) /\ ~Allowed(c) /\ AnswerWith(Conflict)
          /\ UNCHANGED <<server, applied>>
       \/ /\ authorized
          /\ Succeeds(c)
          /\ Apply(c)
          /\ AnswerWith(Data(server'[entry[c].task]))
    /\ UNCHANGED <<late, cache, book, page, due, enqueueing, retrying,
                   fetch, disturbances>>

\* A command that would have done is refused all the same and rolled back: the
\* posting finds no stock or a moved position, the server fails.
ServeRefusal(answer) ==
    /\ sync.pc = "waiting"
    /\ Disturb
    /\ AnswerWith(answer)
    /\ UNCHANGED <<server, applied, late, cache, book, page, due,
                   enqueueing, retrying, fetch>>

\* A request that the page no longer waits for reaches the server.
ServeLate(c) ==
    /\ c \in late
    /\ late' = late \ {c}
    /\ \/ Succeeds(c) /\ Apply(c)
       \/ ~Succeeds(c) /\ UNCHANGED <<server, applied>>
    /\ UNCHANGED <<cache, book, page, due, sync, enqueueing, retrying,
                   fetch, disturbances>>

\* A response with data: the task is cached and the record deleted.
FinishDone ==
    /\ sync.pc = "answered" /\ sync.answer.kind = "data"
    /\ tasks' = [tasks EXCEPT ![entry[sync.command].task] = sync.answer.task]
    /\ status' = [status EXCEPT ![sync.command] = "absent"]
    /\ sync' = [pc |-> "next", todo |-> sync.todo]
    /\ UNCHANGED <<server, applied, late, book, page, due, enqueueing,
                   retrying, fetch, disturbances>>

\* Mutant: a refused command is dropped.
FinishRefusedDrop ==
    /\ sync.pc = "answered" /\ sync.answer \in Refusal
    /\ status' = [status EXCEPT ![sync.command] = "absent"]
    /\ sync' = [pc |-> "next", todo |-> sync.todo]
    /\ UNCHANGED <<server, applied, late, tasks, book, page, due,
                   enqueueing, retrying, fetch, disturbances>>

\* A response without data: 409 is a conflict, every other status a failure, and
\* the rest of the task's commands wait.
FinishRefused ==
    /\ sync.pc = "answered" /\ sync.answer \in Refusal
    /\ status' = [status EXCEPT ![sync.command] = sync.answer.kind]
    /\ sync' = [pc |-> "next",
                todo |-> sync.todo \ OfTask(sync.todo, entry[sync.command].task)]
    /\ UNCHANGED <<server, applied, late, tasks, book, page, due,
                   enqueueing, retrying, fetch, disturbances>>

\* fetch raises, before the server has taken the request, after, or without the
\* request being out of the way; the record is pending again and the loop ends.
LoseConnection ==
    /\ sync.pc \in {"waiting", "answered"}
    /\ Disturb
    /\ status' = [status EXCEPT ![sync.command] = "pending"]
    /\ sync' = [pc |-> "ending"]
    /\ \/ UNCHANGED late
       \/ /\ sync.pc = "waiting" /\ Authorized(sync.token, sync.command)
          /\ late' = late \cup {sync.command}
    /\ UNCHANGED <<server, applied, tasks, book, page, due, enqueueing,
                   retrying, fetch>>

\* The loop is over; an empty queue has the tasks loaded again.
EndSync ==
    /\ \/ sync.pc = "next" /\ sync.todo = {}
       \/ sync.pc = "ending"
    /\ sync' = None
    /\ fetch' = IF Queued = {} /\ fetch = None THEN [pc |-> "asked"] ELSE fetch
    /\ UNCHANGED <<server, applied, late, cache, book, page, due,
                   enqueueing, retrying, disturbances>>

-----------------------------------------------------------------------------
(* refreshWarehouseTasks. *)

\* The server's list of the tasks, or a failure.
FetchTasks ==
    /\ fetch.pc = "asked"
    /\ \/ fetch' = None
       \/ session # Nobody /\ fetch' = [pc |-> "listed", tasks |-> ListedTo(session)]
    /\ UNCHANGED <<server, applied, late, cache, book, page, due, sync,
                   enqueueing, retrying, disturbances>>

\* The transaction that clears the store and puts the list, however old.
CacheTasks ==
    /\ fetch.pc = "listed"
    /\ tasks' = fetch.tasks
    /\ fetch' = None
    /\ UNCHANGED <<server, applied, late, status, book, page, due, sync,
                   enqueueing, retrying, disturbances>>

-----------------------------------------------------------------------------
(* The page. *)

\* The token goes or has expired (addUserUnloaded); what is running runs on.
Unload ==
    /\ Disturb
    /\ InWorkspace
    /\ auth' = [pc |-> "configuring", next |-> Nobody]
    /\ shown' = Unmounted
    /\ UNCHANGED <<server, applied, late, cache, entry, history, identity, session, online,
                   due, sync, enqueueing, retrying, fetch>>

\* A renewed token is loaded (addUserLoaded), which may name another identity; the
\* page stays, and what is running in it runs on.
Renew(who) ==
    /\ Disturb
    /\ auth.pc = "ready"
    /\ auth' = [pc |-> "configuring", next |-> who]
    /\ shown' = Unmounted
    /\ UNCHANGED <<server, applied, late, cache, entry, history, identity, session, online,
                   due, sync, enqueueing, retrying, fetch>>

\* The page is loaded again, by the operator or by a redirect to sign in or out:
\* all that was running is gone, and the identity is what getUser returns, nobody's
\* when the stored token has expired.
Load(who) ==
    /\ Disturb
    /\ auth' = [pc |-> "configuring", next |-> who]
    /\ session' = Nobody
    /\ due' = FALSE
    /\ sync' = None /\ enqueueing' = None /\ retrying' = None /\ fetch' = None
    /\ shown' = Unmounted
    /\ late' = late \cup (IF sync.pc = "waiting" /\ Authorized(sync.token, sync.command)
                          THEN {sync.command} ELSE {})
    /\ UNCHANGED <<server, applied, cache, entry, history, identity, online>>

\* Commands that what is running may still write: those that a synchronization has
\* to send or is sending, the one of a retry, and the one of an enqueue.
InFlight ==
    (IF sync.pc \in {"next", "marked", "waiting", "answered"} THEN sync.todo ELSE {})
      \cup (IF sync.pc \in {"marked", "waiting", "answered"} THEN {sync.command} ELSE {})
RunningOn ==
    InFlight \cup (IF retrying = None THEN {} ELSE {retrying.command})
             \cup (IF enqueueing = None THEN {} ELSE {Len(entry) + 1})

SameIdentity(who) == identity = who

\* Mutant: the commands of the former identity are kept.
ClearTasks ==
    /\ auth.pc = "configuring"
    /\ ~SameIdentity(auth.next)
    /\ tasks' = [t \in Task |-> NotCached]
    /\ auth' = [pc |-> "cleared", next |-> auth.next]
    /\ UNCHANGED <<server, applied, late, status, book, session, online, due, sync,
                   enqueueing, retrying, fetch, disturbances>>

\* configureWarehouseCacheIdentity: one transaction clears both stores ...
ClearCache ==
    /\ auth.pc = "configuring"
    /\ ~SameIdentity(auth.next)
    /\ tasks' = [t \in Task |-> NotCached]
    /\ status' = [c \in Id |-> "absent"]
    /\ fate' = [c \in Id |-> IF c \in Queued THEN "cleared" ELSE fate[c]]
    /\ left' = RunningOn
    /\ auth' = [pc |-> "cleared", next |-> auth.next]
    /\ UNCHANGED <<server, applied, late, entry, shown, identity, session, online, due, sync,
                   enqueueing, retrying, fetch, disturbances>>

\* ... then the identity is stored, unless it was the same, and the workspace opens.
\* With a token it calls synchronize as it is mounted.
Enter ==
    /\ \/ auth.pc = "configuring" /\ SameIdentity(auth.next)
       \/ auth.pc = "cleared"
    /\ identity' = auth.next
    /\ session' = auth.next
    /\ auth' = [pc |-> "ready"]
    /\ due' = (due \/ (online /\ auth.next # Nobody))
    /\ UNCHANGED <<server, applied, late, cache, entry, shown, history, online, sync, enqueueing,
                   retrying, fetch, disturbances>>

GoOffline ==
    /\ Disturb
    /\ online
    /\ online' = FALSE
    /\ UNCHANGED <<server, applied, late, cache, book, session, auth, due,
                   sync, enqueueing, retrying, fetch>>

\* The workspace listens to the event and calls synchronize.
GoOnline ==
    /\ ~online
    /\ online' = TRUE
    /\ due' = (due \/ InWorkspace)
    /\ UNCHANGED <<server, applied, late, cache, book, session, auth, sync,
                   enqueueing, retrying, fetch, disturbances>>

-----------------------------------------------------------------------------

\* A page whose cache is fresh and whose queue is empty.
Init ==
    /\ server = [t \in Task |-> [state |-> "open", version |-> 1]]
    /\ applied = <<>> /\ late = {}
    /\ tasks = ListedTo(Owner)
    /\ status = [c \in Id |-> "absent"]
    /\ entry = <<>>
    /\ shown = [tasks |-> tasks, blocked |-> [c \in Id |-> "none"]]
    /\ fate = [c \in Id |-> "kept"] /\ left = {}
    /\ identity = Owner /\ session = Owner
    /\ auth = [pc |-> "ready"]
    /\ online = TRUE /\ due = FALSE
    /\ sync = None /\ enqueueing = None /\ retrying = None /\ fetch = None
    /\ disturbances = 0

Operator ==
    \/ \E t \in Task, command \in Command : BeginEnqueue(t, command)
    \/ \E c \in Id : Discard(c) \/ ReadRetry(c)
    \/ SyncNow \/ ShowCache

PerformSync == MarkSyncing \/ Send \/ Serve \/ FinishDone \/ FinishRefused \/ EndSync

Continue == WriteEnqueue \/ WriteRetry \/ FetchTasks \/ CacheTasks \/ ClearCache \/ Enter

World ==
    \/ \E t \in Task, state \in Others : MoveTask(t, state)
    \/ \E answer \in Refusal : ServeRefusal(answer)
    \/ \E c \in Id : ServeLate(c)
    \/ LoseConnection
    \/ Unload
    \/ \E who \in Identity : Renew(who)
    \/ \E who \in Identity \cup {Nobody} : Load(who)
    \/ GoOffline \/ GoOnline

Next == Operator \/ SyncWarehouseQueue \/ PerformSync \/ Continue \/ World

Spec == Init /\ [][Next]_vars

\* What has been called runs to its end: every await is answered or raises.  The
\* connection comes back.
FairSpec ==
    /\ Spec
    /\ WF_vars(SyncWarehouseQueue) /\ WF_vars(PerformSync) /\ WF_vars(GoOnline)
    /\ WF_vars(WriteEnqueue) /\ WF_vars(WriteRetry) /\ WF_vars(ClearCache \/ Enter)

\* An operator who presses "Sync now" whenever it is offered.
DiligentSpec == FairSpec /\ WF_vars(SyncNow)

-----------------------------------------------------------------------------
(* Properties. *)

TypeOK ==
    /\ server \in [Task -> TaskRecord]
    /\ applied \in Seq(Id) /\ late \subseteq Id
    /\ tasks \in [Task -> TaskRecord \cup {NotCached}]
    /\ status \in [Id -> {"absent", "pending", "syncing", "conflict", "failed"}]
    /\ entry \in Seq(Entry)
    /\ shown \in [tasks : [Task -> TaskRecord \cup {NotCached}],
                  blocked : [Id -> {"none", "conflict", "failed"}]]
    /\ fate \in [Id -> {"kept", "discarded", "withdrawn", "revived", "cleared"}]
    /\ left \subseteq Id
    /\ identity \in Identity \cup {Nobody} /\ session \in Identity \cup {Nobody}
    /\ auth \in {[pc |-> "ready"]} \cup [pc : {"configuring", "cleared"},
                                        next : Identity \cup {Nobody}]
    /\ online \in BOOLEAN /\ due \in BOOLEAN
    /\ sync \in SyncState
    /\ enqueueing \in {None} \cup [pc : {"checked"}, by : Identity, task : Task,
                                   command : Command, version : Nat \ {0}]
    /\ retrying \in {None} \cup [pc : {"read"}, command : Id]
    /\ fetch \in {None, [pc |-> "asked"]} \cup [pc : {"listed"}, tasks : [Task -> TaskRecord \cup {NotCached}]]
    /\ disturbances \in 0..MaxEvents

\* docs/contracts/API.md: the PWA "replays commands per task in creation order".
\* Two commands of a task take effect in the order in which they were recorded,
\* unless the operator or a change of identity has withdrawn the older one, whatever
\* is lost, refused, retried or refreshed in between.
ReplayedInOrder ==
    \A i, j \in DOMAIN applied :
        (i < j /\ applied[j] < applied[i] /\ entry[applied[i]].task = entry[applied[j]].task)
            => fate[applied[j]] # "kept"

\* The same: it "stops later task commands behind conflicts".  No command is on its
\* way to the server while an older one of its task is blocked.
HeldBehindBlocked ==
    sync.pc \in {"waiting", "answered"} =>
        \A c \in OfTask(Queued, entry[sync.command].task) : c < sync.command => ~Blocked(c)

\* A recorded command leaves the queue only because it took effect, because the
\* operator deleted it, or because it was cleared for another identity.
LeavesWhenSettled ==
    \A c \in DOMAIN entry :
        status[c] = "absent" => c \in Applied \/ fate[c] \in {"discarded", "withdrawn", "cleared"}

\* A command that is blocked when the operator discards it is not written back by a
\* synchronization that runs on.  (One that is pending again by then, because the row
\* is an old one and Retry came in between, may be: its fate is "withdrawn".)
DiscardedStaysOut == \A c \in Id : fate[c] = "discarded" => status[c] = "absent"

\* The same document: the cache "is cleared before a different authenticated
\* user/organization identity may enter the workspace".  What an open workspace holds
\* of another identity was written after the clearing, by something that was running
\* on in the page when the stores were cleared.
ClearedBeforeEntry == InWorkspace => \A c \in Queued : entry[c].by = session \/ c \in left

Waits(c) == c \in DOMAIN entry /\ status[c] \in {"pending", "syncing"}
Settled(c) == ~Waits(c) \/ BlockedTask(entry[c].task) \/ session = Nobody

\* A command that waits is sent in the end, or a command of its task needs review.
Drains == \A c \in Id : Waits(c) ~> Settled(c)

\* WarehouseWorkspace.tsx shows an operator who is offline: "Actions will
\* synchronize when the connection returns."  Nothing else need go wrong: no
\* disturbance after the command waits offline excuses it.
SynchronizedOnReturn ==
    \A c \in Id, n \in 0..MaxEvents :
        (Waits(c) /\ ~online /\ disturbances = n) ~> (Settled(c) \/ disturbances # n)

=============================================================================
