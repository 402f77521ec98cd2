------------------------- MODULE CommandTransactions -------------------------
(***************************************************************************)
(* The transaction every command of the PostgreSQL stores runs, statement  *)
(* by statement: claim the idempotency key, lock the position rows one     *)
(* after another, compare their versions, write, complete the key, commit. *)
(* Many requests run it at once, some of them retries of one command.      *)
(* What a transaction has written is seen by nobody until it commits, so   *)
(* only committed rows are variables here; what it holds is in txn.        *)
(*                                                                         *)
(* The sessions run at READ COMMITTED: a statement sees what is committed  *)
(* when it starts, FOR UPDATE and a conflicting INSERT wait for the        *)
(* transaction that is ahead and then look again.                          *)
(***************************************************************************)
EXTENDS Naturals, Sequences

CONSTANTS
    Position,
    Key,
    Command,
    Request,       \* HTTP requests; several may carry one command
    NoRequest,
    CommandOf,     \* the command a request carries
    KeyOf,         \* the Idempotency-Key a command was given
    RowsOf,        \* the positions a command locks, in the order it locks them
    Stamped        \* commands whose fingerprint covers what the server stamps on each request

ASSUME CommandAssumption ==
    /\ NoRequest \notin Request
    /\ CommandOf \in [Request -> Command]
    /\ KeyOf \in [Command -> Key]
    /\ RowsOf \in [Command -> Seq(Position) \ {<<>>}]
    /\ Stamped \subseteq Command

VARIABLES
    version,       \* inventory_positions.version, committed
    record,        \* idempotency_records, committed: the request whose hash and body it holds
    expected,      \* the versions a client composed each command from
    composed,      \* commands some client has composed
    txn,           \* each request's place in its transaction and the rows it has locked
    answer         \* what each request was told

vars == <<version, record, expected, composed, txn, answer>>

KeyFor(r) == KeyOf[CommandOf[r]]
Rows(r) == RowsOf[CommandOf[r]]
RowSet(r) == {Rows(r)[i] : i \in DOMAIN Rows(r)}

\* Whether the fingerprint of r equals the stored hash of s.  It covers the body
\* of the command, and for a stamped one the correlation id or created_at of the
\* request as well.
SameFingerprint(r, s) ==
    /\ CommandOf[r] = CommandOf[s]
    /\ CommandOf[r] \in Stamped => r = s

-----------------------------------------------------------------------------
(* Locks. *)

\* A transaction holds its key from the claim on, and a prefix of its rows.
HoldsKey(r) == txn[r].pc \in {"locking", "written"}
HoldsRow(r, p) == \E i \in 1..txn[r].locked : Rows(r)[i] = p
NextRow(r) == Rows(r)[txn[r].locked + 1]
WantsRow(r) == txn[r].pc = "locking" /\ txn[r].locked < Len(Rows(r))

WaitsFor(r, s) ==
    /\ r # s
    /\ \/ txn[r].pc = "claiming" /\ HoldsKey(s) /\ KeyFor(s) = KeyFor(r)
       \/ WantsRow(r) /\ HoldsRow(s, NextRow(r))

Blocked(r) == \E s \in Request : WaitsFor(r, s)

\* Requests that wait for each other in a circle, which is what the database's
\* deadlock detector looks for.
InCycle(r) ==
    \E circle \in SUBSET Request :
        /\ r \in circle
        /\ \A s \in circle : /\ \E t \in circle : WaitsFor(s, t)
                             /\ \E t \in circle : WaitsFor(t, s)

-----------------------------------------------------------------------------
(* Steps. *)

\* A client reads the positions, and keeps what it read for every retry.
Compose(c) ==
    /\ c \notin composed
    /\ composed' = composed \cup {c}
    /\ expected' = [expected EXCEPT ![c] = version]
    /\ UNCHANGED <<version, record, txn, answer>>

Begin(r) ==
    /\ txn[r].pc = "new"
    /\ CommandOf[r] \in composed
    /\ txn' = [txn EXCEPT ![r].pc = "claiming"]
    /\ UNCHANGED <<version, record, expected, composed, answer>>

\* Mutant: the locks outlive the transaction.
EndHolding(r, status, body) ==
    /\ txn' = [txn EXCEPT ![r].pc = "ended"]
    /\ answer' = [answer EXCEPT ![r] = [status |-> status, body |-> body]]

\* Every end of a transaction releases its locks.
End(r, status, body) ==
    /\ txn' = [txn EXCEPT ![r] = [pc |-> "ended", locked |-> 0]]
    /\ answer' = [answer EXCEPT ![r] = [status |-> status, body |-> body]]

\* INSERT ... ON CONFLICT DO NOTHING RETURNING key.
Claim(r) ==
    /\ txn[r].pc = "claiming"
    /\ ~Blocked(r)
    /\ record[KeyFor(r)] = NoRequest
    /\ txn' = [txn EXCEPT ![r].pc = "locking"]
    /\ UNCHANGED <<version, record, expected, composed, answer>>

\* Mutant: whatever the key stored is returned, for any request.
ReplayAny(r) ==
    /\ txn[r].pc = "claiming"
    /\ ~Blocked(r)
    /\ record[KeyFor(r)] # NoRequest
    /\ End(r, "replayed", record[KeyFor(r)])
    /\ UNCHANGED <<version, record, expected, composed>>

\* The key is taken: the stored body answers the same fingerprint, and any other
\* is an IdempotencyConflict.
ClaimTaken(r) ==
    /\ txn[r].pc = "claiming"
    /\ ~Blocked(r)
    /\ record[KeyFor(r)] # NoRequest
    /\ IF SameFingerprint(r, record[KeyFor(r)])
         THEN End(r, "replayed", record[KeyFor(r)])
         ELSE End(r, "conflict", NoRequest)
    /\ UNCHANGED <<version, record, expected, composed>>

\* SELECT ... FOR UPDATE of the next position.
LockRow(r) ==
    /\ WantsRow(r)
    /\ ~Blocked(r)
    /\ txn' = [txn EXCEPT ![r].locked = @ + 1]
    /\ UNCHANGED <<version, record, expected, composed, answer>>

Current(r) == \A p \in RowSet(r) : version[p] = expected[CommandOf[r]][p]

\* Mutant: the versions are not compared.
WriteUnchecked(r) ==
    /\ txn[r].pc = "locking"
    /\ ~WantsRow(r)
    /\ txn' = [txn EXCEPT ![r].pc = "written"]
    /\ UNCHANGED <<version, record, expected, composed, answer>>

\* All rows are locked: the versions agree and the updates are made, unseen.
Write(r) ==
    /\ txn[r].pc = "locking"
    /\ ~WantsRow(r)
    /\ Current(r)
    /\ txn' = [txn EXCEPT ![r].pc = "written"]
    /\ UNCHANGED <<version, record, expected, composed, answer>>

\* A version has moved on: ConcurrencyConflict, and the key is free again.
RefuseStale(r) ==
    /\ txn[r].pc = "locking"
    /\ ~WantsRow(r)
    /\ ~Current(r)
    /\ End(r, "stale", NoRequest)
    /\ UNCHANGED <<version, record, expected, composed>>

Commit(r) ==
    /\ txn[r].pc = "written"
    /\ version' = [p \in Position |-> IF p \in RowSet(r) THEN version[p] + 1 ELSE version[p]]
    /\ record' = [record EXCEPT ![KeyFor(r)] = r]
    /\ End(r, "done", r)
    /\ UNCHANGED <<expected, composed>>

\* The server or its connection dies before the commit, and all is rolled back.
Crash(r) ==
    /\ txn[r].pc \in {"claiming", "locking", "written"}
    /\ End(r, "error", NoRequest)
    /\ UNCHANGED <<version, record, expected, composed>>

\* Mutant: nobody breaks a circle of waiting transactions.
NoVictim(r) == FALSE /\ UNCHANGED vars

\* The database aborts one transaction of a circle.
DeadlockVictim(r) ==
    /\ InCycle(r)
    /\ End(r, "error", NoRequest)
    /\ UNCHANGED <<version, record, expected, composed>>

-----------------------------------------------------------------------------

Init ==
    /\ version = [p \in Position |-> 0]
    /\ record = [k \in Key |-> NoRequest]
    /\ expected = [c \in Command |-> version]
    /\ composed = {}
    /\ txn = [r \in Request |-> [pc |-> "new", locked |-> 0]]
    /\ answer = [r \in Request |-> [status |-> "none", body |-> NoRequest]]

\* What the server and the database do by themselves once a request has arrived.
Serve(r) ==
    \/ Claim(r) \/ ClaimTaken(r) \/ LockRow(r)
    \/ Write(r) \/ RefuseStale(r) \/ Commit(r)
    \/ DeadlockVictim(r)

Next ==
    \/ \E c \in Command : Compose(c)
    \/ \E r \in Request : Begin(r) \/ Serve(r) \/ Crash(r)

Spec == Init /\ [][Next]_vars

\* Every request has a server thread and a connection of its own, and no crash is
\* needed for it to go on.
FairSpec == Spec /\ \A r \in Request : WF_vars(Serve(r))

-----------------------------------------------------------------------------
(* Properties. *)

TypeOK ==
    /\ version \in [Position -> Nat]
    /\ record \in [Key -> Request \cup {NoRequest}]
    /\ expected \in [Command -> [Position -> Nat]]
    /\ composed \subseteq Command
    /\ txn \in [Request -> [pc : {"new", "claiming", "locking", "written", "ended"}, locked : Nat]]
    /\ \A r \in Request : /\ txn[r].locked <= Len(Rows(r))
                          /\ txn[r].locked > 0 => txn[r].pc \in {"locking", "written"}
    /\ answer \in [Request -> [status : {"none", "done", "replayed", "conflict", "stale", "error"},
                               body : Request \cup {NoRequest}]]

\* Requests interleaved statement by statement still act as if each command took
\* effect at one instant, at most once per key, on the versions it names.
Promise == INSTANCE ExactlyOnceCommands WITH
    outcome <- record,
    Same <- SameFingerprint

CommandsExactlyOnce == Promise!Spec

\* No request waits for ever, neither for a key another request is using nor in a
\* circle of row locks.
EveryRequestAnswered ==
    \A r \in Request : txn[r].pc = "claiming" ~> answer[r].status # "none"

\* Whoever is told that a command succeeded, at first or on a retry, is told of
\* the outcome that is stored, and it is an outcome of the command they sent.
AnswersAgree ==
    \A r \in Request :
        answer[r].status \in {"done", "replayed"} =>
            /\ record[KeyFor(r)] = answer[r].body
            /\ CommandOf[answer[r].body] = CommandOf[r]

\* docs/contracts/API.md: every command "replays an identical retry".
RetryReplayed ==
    \A r \in Request : answer[r].status = "conflict" => CommandOf[record[KeyFor(r)]] # CommandOf[r]

=============================================================================
