------------------------- MODULE ExactlyOnceCommands -------------------------
(***************************************************************************)
(* What the command stores promise their clients: a command takes effect   *)
(* at one instant, on exactly the position versions it was composed from,  *)
(* at most once per idempotency key; a retry is answered with the outcome  *)
(* that is already stored; and a request refused as stale or conflicting   *)
(* changes nothing and is refused for a reason that holds at that instant. *)
(***************************************************************************)
EXTENDS Naturals, Sequences

CONSTANTS
    Position,
    Key,
    Command,
    Request,       \* HTTP requests; several may carry one command
    NoRequest,
    CommandOf,     \* the command a request carries
    KeyOf,         \* the Idempotency-Key a command was given
    RowsOf,        \* the positions a command changes
    Same(_, _)     \* whether two requests have one fingerprint

VARIABLES
    version,       \* the version of every position
    expected,      \* the versions each command was composed from
    outcome,       \* per key, the request that took effect
    answer         \* per request, what it was told

vars == <<version, expected, outcome, answer>>

Row(r) == {RowsOf[CommandOf[r]][i] : i \in DOMAIN RowsOf[CommandOf[r]]}

KeyFor(r) == KeyOf[CommandOf[r]]

Answer(r, status, body) ==
    /\ answer[r].status = "none"
    /\ answer' = [answer EXCEPT ![r] = [status |-> status, body |-> body]]

\* A client reads the positions and composes a command from what it saw.
Compose(c) ==
    /\ expected' = [expected EXCEPT ![c] = version]
    /\ UNCHANGED <<version, outcome, answer>>

Execute(r) ==
    /\ outcome[KeyFor(r)] = NoRequest
    /\ \A p \in Row(r) : version[p] = expected[CommandOf[r]][p]
    /\ version' = [p \in Position |-> IF p \in Row(r) THEN version[p] + 1 ELSE version[p]]
    /\ outcome' = [outcome EXCEPT ![KeyFor(r)] = r]
    /\ Answer(r, "done", r)
    /\ UNCHANGED expected

Replay(r) ==
    /\ outcome[KeyFor(r)] # NoRequest
    /\ Same(r, outcome[KeyFor(r)])
    /\ Answer(r, "replayed", outcome[KeyFor(r)])
    /\ UNCHANGED <<version, expected, outcome>>

RefuseConflict(r) ==
    /\ outcome[KeyFor(r)] # NoRequest
    /\ ~Same(r, outcome[KeyFor(r)])
    /\ Answer(r, "conflict", NoRequest)
    /\ UNCHANGED <<version, expected, outcome>>

RefuseStale(r) ==
    /\ outcome[KeyFor(r)] = NoRequest
    /\ \E p \in Row(r) : version[p] # expected[CommandOf[r]][p]
    /\ Answer(r, "stale", NoRequest)
    /\ UNCHANGED <<version, expected, outcome>>

Fail(r) ==
    /\ Answer(r, "error", NoRequest)
    /\ UNCHANGED <<version, expected, outcome>>

Init ==
    /\ version = [p \in Position |-> 0]
    /\ expected = [c \in Command |-> version]
    /\ outcome = [k \in Key |-> NoRequest]
    /\ answer = [r \in Request |-> [status |-> "none", body |-> NoRequest]]

Next ==
    \/ \E c \in Command : Compose(c)
    \/ \E r \in Request : \/ Execute(r) \/ Replay(r) \/ Fail(r)
                          \/ RefuseConflict(r) \/ RefuseStale(r)

Spec == Init /\ [][Next]_vars

=============================================================================
