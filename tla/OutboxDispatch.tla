---------------------------- MODULE OutboxDispatch ----------------------------
(***************************************************************************)
(* OutboxDispatcher.dispatch_one (infrastructure/outbox.py) run by several *)
(* workers against the outbox_events rows that command transactions        *)
(* insert.  dispatch_one selects a row, publishes it and marks it, all in  *)
(* one transaction: its UPDATEs are visible to nobody before the commit    *)
(* and are gone if the publisher raises or the worker dies.                *)
(*                                                                         *)
(* locked_at is written and cleared inside that one transaction, so no     *)
(* worker ever reads it other than NULL: the row lock of FOR UPDATE is     *)
(* what keeps workers apart, and locked_at is left out.                    *)
(*                                                                         *)
(* Nothing in the repository runs a dispatcher, so that nothing obliges a  *)
(* worker to take a step: what is specified is what dispatch_one may do.   *)
(***************************************************************************)
EXTENDS Naturals

CONSTANTS
    Event,         \* outbox rows, one per event a command produces
    Worker,        \* dispatcher processes
    MaxFaults      \* bound on publisher failures and worker crashes together

ASSUME FaultsAssumption == MaxFaults \in Nat

VARIABLES
    command,       \* the transaction that inserts each event
    occurredAt,    \* outbox_events.occurred_at, the start of that transaction
    clock,         \* the database's now()
    published,     \* rows whose published_at is set
    attempts,      \* outbox_events.attempts
    lastError,     \* rows whose last_error is set
    worker,        \* each worker's place in dispatch_one, and the row it locked
    sent,          \* how often the broker took each event
    faults,        \* publisher failures and crashes so far
    lost           \* history: deliveries of each event whose transaction rolled back

rowVars == <<command, occurredAt, clock>>
markVars == <<published, attempts, lastError>>
vars == <<rowVars, markVars, worker, sent, faults, lost>>

Idle == [pc |-> "idle"]
Busy == [pc : {"locked", "sent"}, event : Event]

-----------------------------------------------------------------------------
(* Commands that insert events. *)

\* The insert takes now(), which is when its transaction began; two transactions
\* may begin in the same instant, and commit in either order.
BeginCommand(e) ==
    /\ command[e] = "absent"
    /\ command' = [command EXCEPT ![e] = "open"]
    /\ \E now \in {clock, clock + 1} :
          /\ clock' = now
          /\ occurredAt' = [occurredAt EXCEPT ![e] = now]
    /\ UNCHANGED <<markVars, worker, sent, faults, lost>>

EndCommand(e, outcome) ==
    /\ command[e] = "open"
    /\ command' = [command EXCEPT ![e] = outcome]
    /\ UNCHANGED <<occurredAt, clock, markVars, worker, sent, faults, lost>>

-----------------------------------------------------------------------------
(* dispatch_one. *)

Locked(e) == \E w \in Worker : worker[w] # Idle /\ worker[w].event = e

\* Mutant: the SELECT locks nothing.
EligibleUnlocked(e) == command[e] = "committed" /\ e \notin published

\* The rows the SELECT may return: committed, unpublished, not skipped as locked.
Eligible(e) == command[e] = "committed" /\ e \notin published /\ ~Locked(e)

\* Mutant: an empty result is not noticed.
SelectNothing(w, e) ==
    /\ worker[w] = Idle
    /\ ~Eligible(e)
    /\ worker' = [worker EXCEPT ![w] = [pc |-> "locked", event |-> "none"]]
    /\ UNCHANGED <<rowVars, markVars, sent, faults, lost>>

\* ORDER BY occurred_at LIMIT 1, and the still uncommitted UPDATE of attempts.
SelectEvent(w, e) ==
    /\ worker[w] = Idle
    /\ Eligible(e)
    /\ \A other \in Event : Eligible(other) => occurredAt[e] <= occurredAt[other]
    /\ worker' = [worker EXCEPT ![w] = [pc |-> "locked", event |-> e]]
    /\ UNCHANGED <<rowVars, markVars, sent, faults, lost>>

\* The publisher returns.
Publish(w) ==
    /\ worker[w].pc = "locked"
    /\ sent' = [sent EXCEPT ![worker[w].event] = @ + 1]
    /\ worker' = [worker EXCEPT ![w] = [pc |-> "sent", event |-> @.event]]
    /\ UNCHANGED <<rowVars, markVars, faults, lost>>

Fault == faults < MaxFaults /\ faults' = faults + 1

\* Mutant: the failed event is marked as if it had been published.
RaiseAndMark(w, taken) ==
    /\ worker[w].pc = "locked"
    /\ Fault
    /\ published' = published \cup {worker[w].event}
    /\ worker' = [worker EXCEPT ![w] = Idle]
    /\ UNCHANGED <<rowVars, attempts, lastError, sent, lost>>

\* The publisher raises, whether or not the broker took the event.  The handler
\* clears locked_at, sets last_error and raises again, which rolls both UPDATEs
\* back with the rest of the transaction.
PublisherRaises(w, taken) ==
    /\ worker[w].pc = "locked"
    /\ Fault
    /\ LET e == worker[w].event IN
         /\ sent' = [sent EXCEPT ![e] = @ + taken]
         /\ lost' = [lost EXCEPT ![e] = @ + taken]
    /\ worker' = [worker EXCEPT ![w] = Idle]
    /\ UNCHANGED <<rowVars, markVars>>

\* published_at set, last_error cleared, and the commit that shows all of it.
CommitPublished(w) ==
    /\ worker[w].pc = "sent"
    /\ LET e == worker[w].event IN
         /\ published' = published \cup {e}
         /\ attempts' = [attempts EXCEPT ![e] = @ + 1]
         /\ lastError' = lastError \ {e}
    /\ worker' = [worker EXCEPT ![w] = Idle]
    /\ UNCHANGED <<rowVars, sent, faults, lost>>

\* The worker or its connection dies and the database rolls back.
Crash(w) ==
    /\ worker[w] # Idle
    /\ Fault
    /\ LET e == worker[w].event IN
         lost' = [lost EXCEPT ![e] = IF worker[w].pc = "sent" THEN @ + 1 ELSE @]
    /\ worker' = [worker EXCEPT ![w] = Idle]
    /\ UNCHANGED <<rowVars, markVars, sent>>

-----------------------------------------------------------------------------

Init ==
    /\ command = [e \in Event |-> "absent"]
    /\ occurredAt = [e \in Event |-> 0]
    /\ clock = 0
    /\ published = {}
    /\ attempts = [e \in Event |-> 0]
    /\ lastError = {}
    /\ worker = [w \in Worker |-> Idle]
    /\ sent = [e \in Event |-> 0]
    /\ faults = 0
    /\ lost = [e \in Event |-> 0]

CommandStep(e) ==
    \/ BeginCommand(e)
    \/ \E outcome \in {"committed", "aborted"} : EndCommand(e, outcome)

Dispatch(w) ==
    \/ \E e \in Event : SelectEvent(w, e)
    \/ Publish(w)
    \/ CommitPublished(w)

FaultStep(w) ==
    \/ \E taken \in {0, 1} : PublisherRaises(w, taken)
    \/ Crash(w)

Next ==
    \/ \E e \in Event : CommandStep(e)
    \/ \E w \in Worker : Dispatch(w) \/ FaultStep(w)

Spec == Init /\ [][Next]_vars

-----------------------------------------------------------------------------
(* Properties. *)

TypeOK ==
    /\ command \in [Event -> {"absent", "open", "committed", "aborted"}]
    /\ occurredAt \in [Event -> Nat]
    /\ clock \in Nat
    /\ published \subseteq Event
    /\ attempts \in [Event -> Nat]
    /\ lastError \subseteq Event
    /\ worker \in [Worker -> Busy \cup {Idle}]
    /\ sent \in [Event -> Nat]
    /\ faults \in 0..MaxFaults
    /\ lost \in [Event -> Nat]

\* Duplicates come from rollbacks only: with however many workers, an event
\* reaches the broker once more than the deliveries that were rolled back, never
\* because two workers picked the same row.
DuplicatesOnlyAfterRollback == \A e \in Event : sent[e] <= 1 + lost[e]

\* The dispatcher implements at-least-once delivery: only committed events are
\* delivered, a row is marked published only after a delivery, and never
\* delivered afterwards.
Promise == INSTANCE AtLeastOnce WITH
    accepted <- {e \in Event : command[e] = "committed"},
    delivered <- sent,
    settled <- published

AtLeastOnceDelivery == Promise!Spec

=============================================================================
