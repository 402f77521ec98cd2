---------------------- MODULE CommandTransactionsProofs ----------------------
(***************************************************************************)
(* Proofs about CommandTransactions for any commands, requests, keys and   *)
(* lock orders: its types, that the key and the rows a transaction holds   *)
(* are its own, that what clients are told agrees with what is stored, and *)
(* that the interleaved statements implement ExactlyOnceCommands.          *)
(***************************************************************************)
EXTENDS CommandTransactions, TLAPS

-----------------------------------------------------------------------------
(* The inductive invariant. *)

\* Only a command that has been composed is sent, and only an ended transaction
\* has answered.
InOrder ==
    \A r \in Request : /\ txn[r].pc # "new" => CommandOf[r] \in composed
                       /\ txn[r].pc # "ended" => answer[r].status = "none"

\* The key lock: whoever holds a key is alone, and nothing is stored under it.
KeyLock ==
    /\ \A r \in Request : HoldsKey(r) => record[KeyFor(r)] = NoRequest
    /\ \A r, s \in Request :
          (r # s /\ HoldsKey(r) /\ HoldsKey(s)) => KeyFor(r) # KeyFor(s)

\* The row locks.
RowLock ==
    \A r, s \in Request : r # s => \A p \in Position : ~(HoldsRow(r, p) /\ HoldsRow(s, p))

\* Who has compared the versions holds all rows, and they are still current.
StillCurrent ==
    \A r \in Request :
        txn[r].pc = "written" => txn[r].locked = Len(Rows(r)) /\ Current(r)

Inv == TypeOK /\ InOrder /\ KeyLock /\ RowLock /\ StillCurrent

-----------------------------------------------------------------------------

LEMMA RequestTyped ==
    ASSUME NEW r \in Request
    PROVE  /\ CommandOf[r] \in Command
           /\ KeyFor(r) \in Key
           /\ Rows(r) \in Seq(Position)
           /\ Len(Rows(r)) \in Nat
           /\ DOMAIN Rows(r) = 1..Len(Rows(r))
           /\ RowSet(r) \subseteq Position
BY CommandAssumption DEF KeyFor, Rows, RowSet

\* An update of one field of a transaction, as an update of the whole of it.
LEMMA TxnFields ==
    ASSUME TypeOK, NEW r \in Request
    PROVE  /\ txn[r].pc \in {"new", "claiming", "locking", "written", "ended"}
           /\ txn[r].locked \in Nat
           /\ txn[r].locked <= Len(Rows(r))
           /\ txn[r].pc \notin {"locking", "written"} => txn[r].locked = 0
           /\ \A x : [txn EXCEPT ![r].pc = x] =
                    [txn EXCEPT ![r] = [pc |-> x, locked |-> txn[r].locked]]
           /\ \A n : [txn EXCEPT ![r].locked = n] =
                    [txn EXCEPT ![r] = [pc |-> txn[r].pc, locked |-> n]]
<1>1. txn[r] \in [pc : {"new", "claiming", "locking", "written", "ended"}, locked : Nat]
  BY DEF TypeOK
<1>2. \A x : [txn[r] EXCEPT !.pc = x] = [pc |-> x, locked |-> txn[r].locked]
  BY <1>1
<1>3. \A n : [txn[r] EXCEPT !.locked = n] = [pc |-> txn[r].pc, locked |-> n]
  BY <1>1
<1>4. /\ txn[r].locked <= Len(Rows(r))
      /\ txn[r].locked > 0 => txn[r].pc \in {"locking", "written"}
  BY DEF TypeOK
<1> QED
  BY <1>1, <1>2, <1>3, <1>4

LEMMA InitInv == Init => Inv
<1> SUFFICES ASSUME Init PROVE Inv
  OBVIOUS
<1>1. TypeOK
  BY CommandAssumption, RequestTyped DEF Init, TypeOK
<1>2. InOrder /\ KeyLock /\ RowLock /\ StillCurrent
  BY RequestTyped DEF Init, InOrder, KeyLock, HoldsKey, RowLock, HoldsRow, StillCurrent
<1> QED
  BY <1>1, <1>2 DEF Inv

\* The clients' own steps.
LEMMA ComposeInv ==
    ASSUME Inv, NEW c \in Command, Compose(c)
    PROVE  Inv'
<1>1. /\ c \notin composed
      /\ composed' = composed \cup {c}
      /\ expected' = [expected EXCEPT ![c] = version]
      /\ UNCHANGED <<version, record, txn, answer>>
  BY DEF Compose
<1>2. TypeOK'
  BY <1>1 DEF Inv, TypeOK
<1>3. InOrder' /\ KeyLock' /\ RowLock'
  BY <1>1 DEF Inv, InOrder, KeyLock, HoldsKey, RowLock, HoldsRow
<1>4. StillCurrent'
  <2> SUFFICES ASSUME NEW r \in Request, txn[r].pc = "written"
               PROVE  txn[r].locked = Len(Rows(r)) /\ Current(r)'
    BY <1>1 DEF StillCurrent
  <2>1. CommandOf[r] \in composed /\ CommandOf[r] # c
    BY <1>1 DEF Inv, InOrder
  <2>2. expected'[CommandOf[r]] = expected[CommandOf[r]]
    BY <1>1, <2>1, RequestTyped DEF Inv, TypeOK
  <2> QED
    BY <1>1, <2>2 DEF Inv, StillCurrent, Current
<1> QED
  BY <1>2, <1>3, <1>4 DEF Inv

-----------------------------------------------------------------------------
(* Steps inside a transaction: one request moves on and nothing is committed. *)

MovesTo(r, pc, locked) ==
    /\ txn' = [txn EXCEPT ![r] = [pc |-> pc, locked |-> locked]]
    /\ UNCHANGED <<version, record, expected, composed, answer>>

LEMMA MoveInv ==
    ASSUME Inv, NEW r \in Request, NEW pc \in {"claiming", "locking", "written"}, NEW n \in Nat,
           MovesTo(r, pc, n),
           n <= Len(Rows(r)), n > 0 => pc \in {"locking", "written"},
           CommandOf[r] \in composed, answer[r].status = "none",
           pc # "claiming" =>
             /\ record[KeyFor(r)] = NoRequest
             /\ \A s \in Request \ {r} : HoldsKey(s) => KeyFor(s) # KeyFor(r),
           \A s \in Request \ {r} : \A i \in 1..n : ~HoldsRow(s, Rows(r)[i]),
           pc = "written" => n = Len(Rows(r)) /\ Current(r)
    PROVE  Inv'
<1>1. /\ txn'[r].pc = pc
      /\ txn'[r].locked = n
      /\ \A s \in Request \ {r} : txn'[s] = txn[s]
      /\ UNCHANGED <<version, record, expected, composed, answer>>
  BY DEF MovesTo, Inv, TypeOK
<1>2. TypeOK'
  BY <1>1 DEF MovesTo, Inv, TypeOK
<1>3. InOrder'
  BY <1>1 DEF Inv, InOrder
<1>4. KeyLock'
  BY <1>1 DEF Inv, KeyLock, HoldsKey
<1>5. RowLock'
  BY <1>1 DEF Inv, RowLock, HoldsRow
<1>6. StillCurrent'
  BY <1>1 DEF Inv, StillCurrent, Current
<1> QED
  BY <1>2, <1>3, <1>4, <1>5, <1>6 DEF Inv

LEMMA StepInv ==
    ASSUME Inv, NEW r \in Request, Begin(r) \/ Claim(r) \/ LockRow(r) \/ Write(r)
    PROVE  Inv'
<1>1. txn[r].locked \in Nat
  BY TxnFields DEF Inv
<1>2. txn[r].pc \in {"new", "claiming", "locking"}
  BY DEF Begin, Claim, LockRow, WantsRow, Write
<1>3. answer[r].status = "none" /\ txn[r].locked <= Len(Rows(r))
  <2>1. txn[r].pc # "ended"
    BY <1>2
  <2>2. answer[r].status = "none"
    BY <2>1 DEF Inv, InOrder
  <2>3. txn[r].locked <= Len(Rows(r))
    BY TxnFields DEF Inv
  <2> QED
    BY <2>2, <2>3
<1>4. \A s \in Request \ {r} : \A i \in 1..txn[r].locked : ~HoldsRow(s, Rows(r)[i])
  <2> SUFFICES ASSUME NEW s \in Request \ {r}, NEW i \in 1..txn[r].locked
               PROVE  ~HoldsRow(s, Rows(r)[i])
    OBVIOUS
  <2>1. Rows(r)[i] \in Position
    BY <1>1, <1>3, RequestTyped
  <2>2. HoldsRow(r, Rows(r)[i])
    BY DEF HoldsRow
  <2> QED
    BY <2>1, <2>2 DEF Inv, RowLock
<1>5. CASE Begin(r)
  <2>1. txn[r].pc = "new" /\ CommandOf[r] \in composed
    BY <1>5 DEF Begin
  <2>2. txn[r].locked = 0
    BY <2>1, TxnFields DEF Inv
  <2>3. MovesTo(r, "claiming", 0)
    BY <1>5, <2>2, TxnFields DEF Begin, MovesTo, Inv
  <2> QED
    BY <1>3, <2>1, <2>3, MoveInv
<1>6. CASE Claim(r)
  <2>1. txn[r].pc = "claiming" /\ record[KeyFor(r)] = NoRequest
    BY <1>6 DEF Claim
  <2>2. txn[r].locked = 0 /\ CommandOf[r] \in composed
    <3>1. txn[r].locked = 0
      BY <2>1, TxnFields DEF Inv
    <3>2. CommandOf[r] \in composed
      BY <2>1 DEF Inv, InOrder
    <3> QED
      BY <3>1, <3>2
  <2>3. MovesTo(r, "locking", 0)
    BY <1>6, <2>2, TxnFields DEF Claim, MovesTo, Inv
  <2>4. \A s \in Request \ {r} : HoldsKey(s) => KeyFor(s) # KeyFor(r)
    BY <1>6, <2>1 DEF Claim, Blocked, WaitsFor
  <2> QED
    BY <1>3, <2>1, <2>2, <2>3, <2>4, MoveInv
<1>7. CASE LockRow(r) \/ Write(r)
  <2>1. /\ txn[r].pc = "locking"
        /\ CommandOf[r] \in composed
        /\ record[KeyFor(r)] = NoRequest
        /\ \A s \in Request \ {r} : HoldsKey(s) => KeyFor(s) # KeyFor(r)
    BY <1>7 DEF LockRow, WantsRow, Write, Inv, InOrder, KeyLock, HoldsKey
  <2>2. CASE LockRow(r)
    <3>1. txn[r].locked < Len(Rows(r)) /\ txn[r].locked + 1 \in Nat
      BY <1>1, <2>2 DEF LockRow, WantsRow
    <3>2. MovesTo(r, "locking", txn[r].locked + 1)
      <4> DEFINE n == txn[r].locked + 1
      <4>1. /\ txn' = [txn EXCEPT ![r].locked = n]
            /\ UNCHANGED <<version, record, expected, composed, answer>>
        BY <2>2 DEF LockRow
      <4> HIDE DEF n
      <4>2. [txn EXCEPT ![r].locked = n] = [txn EXCEPT ![r] = [pc |-> txn[r].pc, locked |-> n]]
        BY TxnFields DEF Inv
      <4>3. MovesTo(r, "locking", n)
        BY <2>1, <4>1, <4>2, Zenon DEF MovesTo
      <4> QED
        BY <4>3 DEF n
    <3>3. \A s \in Request \ {r} : ~HoldsRow(s, Rows(r)[txn[r].locked + 1])
      BY <2>2 DEF LockRow, Blocked, WaitsFor, NextRow
    <3>4. \A s \in Request \ {r} : \A i \in 1..(txn[r].locked + 1) : ~HoldsRow(s, Rows(r)[i])
      BY <1>1, <1>4, <3>3
    <3>5. txn[r].locked + 1 <= Len(Rows(r))
      BY <1>1, <3>1, RequestTyped
    <3> QED
      BY <1>3, <2>1, <3>1, <3>2, <3>4, <3>5, MoveInv
  <2>3. CASE Write(r)
    <3>1. txn[r].locked = Len(Rows(r)) /\ Current(r)
      BY <1>1, <1>3, <2>1, <2>3, RequestTyped DEF Write, WantsRow
    <3>2. MovesTo(r, "written", txn[r].locked)
      BY <2>3, TxnFields DEF Write, MovesTo, Inv
    <3> QED
      BY <1>1, <1>3, <1>4, <2>1, <3>1, <3>2, MoveInv
  <2> QED
    BY <1>7, <2>2, <2>3
<1> QED
  BY <1>5, <1>6, <1>7

-----------------------------------------------------------------------------
(* The end of a transaction. *)

\* End writes the entries of one request.
LEMMA EndOnly ==
    ASSUME TypeOK, NEW r \in Request, NEW status, NEW body, End(r, status, body)
    PROVE  /\ txn'[r] = [pc |-> "ended", locked |-> 0]
           /\ answer'[r] = [status |-> status, body |-> body]
           /\ \A s \in Request \ {r} : txn'[s] = txn[s] /\ answer'[s] = answer[s]
BY DEF End, TypeOK

LEMMA EndTyped ==
    ASSUME TypeOK, NEW r \in Request,
           NEW status \in {"done", "replayed", "conflict", "stale", "error"},
           NEW body \in Request \cup {NoRequest}, End(r, status, body)
    PROVE  /\ txn' \in [Request -> [pc : {"new", "claiming", "locking", "written", "ended"},
                                    locked : Nat]]
           /\ \A s \in Request : /\ txn'[s].locked <= Len(Rows(s))
                                 /\ txn'[s].locked > 0 => txn'[s].pc \in {"locking", "written"}
           /\ answer' \in [Request -> [status : {"none", "done", "replayed", "conflict", "stale", "error"},
                                       body : Request \cup {NoRequest}]]
           /\ txn'[r] = [pc |-> "ended", locked |-> 0]
           /\ answer'[r] = [status |-> status, body |-> body]
           /\ \A s \in Request \ {r} : txn'[s] = txn[s] /\ answer'[s] = answer[s]
<1>1. /\ txn'[r] = [pc |-> "ended", locked |-> 0]
      /\ answer'[r] = [status |-> status, body |-> body]
      /\ \A s \in Request \ {r} : txn'[s] = txn[s] /\ answer'[s] = answer[s]
  BY EndOnly
<1>2. [pc |-> "ended", locked |-> 0]
        \in [pc : {"new", "claiming", "locking", "written", "ended"}, locked : Nat]
  OBVIOUS
<1>3. txn' \in [Request -> [pc : {"new", "claiming", "locking", "written", "ended"}, locked : Nat]]
  BY <1>2 DEF End, TypeOK
<1>4. answer' \in [Request -> [status : {"none", "done", "replayed", "conflict", "stale", "error"},
                               body : Request \cup {NoRequest}]]
  BY DEF End, TypeOK
<1>5. ASSUME NEW s \in Request
      PROVE  /\ txn'[s].locked <= Len(Rows(s))
             /\ txn'[s].locked > 0 => txn'[s].pc \in {"locking", "written"}
  <2>1. CASE s = r
    <3>1. txn'[s].locked = 0 /\ Len(Rows(s)) \in Nat
      BY <1>1, <2>1, RequestTyped
    <3> QED
      BY <3>1
  <2>2. CASE s # r
    BY <1>1, <2>2 DEF TypeOK
  <2> QED
    BY <2>1, <2>2
<1> QED
  BY <1>1, <1>3, <1>4, <1>5

\* Without a commit.
LEMMA RollBackInv ==
    ASSUME Inv, NEW r \in Request, txn[r].pc \notin {"new", "ended"},
           NEW status \in {"replayed", "conflict", "stale", "error"},
           NEW body \in Request \cup {NoRequest},
           End(r, status, body), UNCHANGED <<version, record, expected, composed>>
    PROVE  Inv'
<1>1. /\ txn'[r] = [pc |-> "ended", locked |-> 0]
      /\ \A s \in Request \ {r} : txn'[s] = txn[s] /\ answer'[s] = answer[s]
  BY EndOnly DEF Inv
<1>2. TypeOK'
  <2>1. TypeOK /\ status \in {"done", "replayed", "conflict", "stale", "error"}
    BY DEF Inv
  <2>2. /\ txn' \in [Request -> [pc : {"new", "claiming", "locking", "written", "ended"},
                                  locked : Nat]]
        /\ \A s \in Request : /\ txn'[s].locked <= Len(Rows(s))
                              /\ txn'[s].locked > 0 => txn'[s].pc \in {"locking", "written"}
        /\ answer' \in [Request -> [status : {"none", "done", "replayed", "conflict", "stale", "error"},
                                    body : Request \cup {NoRequest}]]
    BY <2>1, EndTyped
  <2> QED
    BY <2>2 DEF Inv, TypeOK
<1>3. InOrder'
  BY <1>1 DEF Inv, InOrder
<1>4. KeyLock' /\ RowLock'
  BY <1>1 DEF Inv, KeyLock, HoldsKey, RowLock, HoldsRow
<1>5. StillCurrent'
  BY <1>1 DEF Inv, StillCurrent, Current
<1> QED
  BY <1>2, <1>3, <1>4, <1>5 DEF Inv

LEMMA Waiting ==
    ASSUME NEW r \in Request, DeadlockVictim(r)
    PROVE  txn[r].pc \in {"claiming", "locking"}
BY DEF DeadlockVictim, InCycle, WaitsFor, WantsRow

LEMMA RefusalInv ==
    ASSUME Inv, NEW r \in Request,
           ClaimTaken(r) \/ RefuseStale(r) \/ Crash(r) \/ DeadlockVictim(r)
    PROVE  Inv'
<1>1. txn[r].pc \notin {"new", "ended"}
  BY Waiting DEF ClaimTaken, RefuseStale, Crash
<1>2. UNCHANGED <<version, record, expected, composed>>
  BY DEF ClaimTaken, RefuseStale, Crash, DeadlockVictim
<1>3. record[KeyFor(r)] \in Request \cup {NoRequest}
  BY RequestTyped DEF Inv, TypeOK
<1>4. \E status \in {"replayed", "conflict", "stale", "error"}, body \in Request \cup {NoRequest} :
          End(r, status, body)
  BY <1>3 DEF ClaimTaken, RefuseStale, Crash, DeadlockVictim
<1> QED
  BY <1>1, <1>2, <1>4, RollBackInv

LEMMA CommitInv ==
    ASSUME Inv, NEW r \in Request, Commit(r)
    PROVE  Inv'
<1>1. /\ txn[r].pc = "written"
      /\ version' = [p \in Position |-> IF p \in RowSet(r) THEN version[p] + 1 ELSE version[p]]
      /\ record' = [record EXCEPT ![KeyFor(r)] = r]
      /\ End(r, "done", r)
      /\ UNCHANGED <<expected, composed>>
  BY DEF Commit
<1>2. /\ txn'[r] = [pc |-> "ended", locked |-> 0]
      /\ \A s \in Request \ {r} : txn'[s] = txn[s] /\ answer'[s] = answer[s]
  BY <1>1, EndOnly DEF Inv
<1>3. TypeOK'
  <2>1. version' \in [Position -> Nat]
    BY <1>1 DEF Inv, TypeOK
  <2>2. record' \in [Key -> Request \cup {NoRequest}]
    BY <1>1 DEF Inv, TypeOK
  <2> QED
    BY <1>1, <2>1, <2>2, EndTyped DEF Inv, TypeOK
<1>4. InOrder'
  BY <1>1, <1>2 DEF Inv, InOrder
<1>5. KeyLock'
  <2>1. HoldsKey(r) /\ ~HoldsKey(r)'
    BY <1>1, <1>2 DEF HoldsKey
  <2>2. \A s \in Request \ {r} : HoldsKey(s)' = HoldsKey(s)
    BY <1>2 DEF HoldsKey
  <2>3. \A s \in Request \ {r} : HoldsKey(s) => record'[KeyFor(s)] = NoRequest
    BY <1>1, <2>1, RequestTyped DEF Inv, KeyLock, TypeOK
  <2> QED
    BY <2>1, <2>2, <2>3 DEF Inv, KeyLock
<1>6. RowLock'
  BY <1>2 DEF Inv, RowLock, HoldsRow
<1>7. StillCurrent'
  <2> SUFFICES ASSUME NEW s \in Request, txn'[s].pc = "written"
               PROVE  txn'[s].locked = Len(Rows(s)) /\ Current(s)'
    BY DEF StillCurrent
  <2>1. s # r /\ txn'[s] = txn[s] /\ txn[s].pc = "written"
    BY <1>2
  <2>2. txn[s].locked = Len(Rows(s)) /\ Current(s)
    BY <2>1 DEF Inv, StillCurrent
  <2>3. txn[r].locked = Len(Rows(r))
    BY <1>1 DEF Inv, StillCurrent
  <2>4. ASSUME NEW p \in RowSet(s) PROVE p \notin RowSet(r)
    <3>1. \A q \in Request : txn[q].locked = Len(Rows(q)) /\ p \in RowSet(q) => HoldsRow(q, p)
      BY RequestTyped DEF RowSet, HoldsRow
    <3>2. p \in Position
      BY <2>4, RequestTyped
    <3> QED
      BY <2>1, <2>2, <2>3, <2>4, <3>1, <3>2 DEF Inv, RowLock
  <2>5. \A p \in RowSet(s) : version'[p] = version[p]
    BY <1>1, <2>4, RequestTyped
  <2> QED
    BY <1>1, <2>1, <2>2, <2>5 DEF Current
<1> QED
  BY <1>3, <1>4, <1>5, <1>6, <1>7 DEF Inv

LEMMA NextInv == Inv /\ [Next]_vars => Inv'
<1> SUFFICES ASSUME Inv, [Next]_vars PROVE Inv'
  OBVIOUS
<1>1. CASE UNCHANGED vars
  BY <1>1 DEF vars, Inv, TypeOK, InOrder, KeyLock, HoldsKey, RowLock, HoldsRow, StillCurrent, Current
<1>2. CASE Next
  BY <1>2, ComposeInv, StepInv, RefusalInv, CommitInv DEF Next, Serve
<1> QED
  BY <1>1, <1>2

\* At every moment a transaction is alone with the key and the rows it holds, and
\* whoever is about to commit has compared versions that are still the live ones.
THEOREM LocksHold == Spec => []Inv
BY InitInv, NextInv, PTL DEF Spec

\* The rows have their columns' types, and only a transaction that is past its claim
\* has locked rows, never more than its command names.
THEOREM TypeCorrect == Spec => []TypeOK
<1>1. Inv => TypeOK
  BY DEF Inv
<1> QED
  BY <1>1, LocksHold, PTL

-----------------------------------------------------------------------------
(* What clients are told. *)

\* A request that was told of an outcome was told of a stored one.
Agrees(r) ==
    answer[r].status \in {"done", "replayed"} =>
        /\ answer[r].body \in Request
        /\ record[KeyFor(r)] = answer[r].body
        /\ CommandOf[answer[r].body] = CommandOf[r]

LEMMA AgreesStep ==
    ASSUME Inv, NEW r \in Request, Agrees(r), Next
    PROVE  Agrees(r)'
<1>1. CASE UNCHANGED <<record, answer>>
  BY <1>1 DEF Agrees
<1>2. ASSUME NEW s \in Request, NEW status \in {"done", "replayed", "conflict", "stale", "error"},
             NEW body \in Request \cup {NoRequest}, End(s, status, body)
      PROVE  /\ answer'[s] = [status |-> status, body |-> body]
             /\ r # s => answer'[r] = answer[r]
  <2>1. TypeOK
    BY DEF Inv
  <2> QED
    BY <1>2, <2>1, EndTyped
<1>3. ASSUME NEW s \in Request, NEW status \in {"replayed", "conflict", "stale", "error"},
             NEW body \in Request \cup {NoRequest}, End(s, status, body), UNCHANGED record,
             status = "replayed" => /\ body = record[KeyFor(s)]
                                    /\ body \in Request
                                    /\ CommandOf[body] = CommandOf[s]
      PROVE  Agrees(r)'
  <2>1. answer'[s] = [status |-> status, body |-> body] /\ (r # s => answer'[r] = answer[r])
    <3>1. status \in {"done", "replayed", "conflict", "stale", "error"}
      OBVIOUS
    <3> QED
      BY <1>2, <1>3, <3>1
  <2>2. CASE r = s
    <3>1. answer'[r].status = status /\ answer'[r].body = body /\ status # "done"
      BY <2>1, <2>2
    <3> QED
      BY <1>3, <2>2, <3>1 DEF Agrees
  <2>3. CASE r # s
    BY <1>3, <2>1, <2>3 DEF Agrees
  <2> QED
    BY <2>2, <2>3
<1>4. ASSUME NEW s \in Request, ClaimTaken(s)
      PROVE  Agrees(r)'
  <2>1. record[KeyFor(s)] \in Request /\ UNCHANGED record
    BY <1>4, RequestTyped DEF ClaimTaken, Inv, TypeOK
  <2>2. CASE SameFingerprint(s, record[KeyFor(s)])
    <3>1. End(s, "replayed", record[KeyFor(s)])
      BY <1>4, <2>2 DEF ClaimTaken
    <3>2. CommandOf[record[KeyFor(s)]] = CommandOf[s]
      BY <2>2 DEF SameFingerprint
    <3> QED
      BY <1>3, <2>1, <3>1, <3>2
  <2>3. CASE ~SameFingerprint(s, record[KeyFor(s)])
    <3>1. End(s, "conflict", NoRequest)
      BY <1>4, <2>3 DEF ClaimTaken
    <3> QED
      BY <1>3, <2>1, <3>1
  <2> QED
    BY <2>2, <2>3
<1>5. ASSUME NEW s \in Request, RefuseStale(s) \/ Crash(s) \/ DeadlockVictim(s)
      PROVE  Agrees(r)'
  <2>1. UNCHANGED record
    BY <1>5 DEF RefuseStale, Crash, DeadlockVictim
  <2>2. \E status \in {"stale", "error"} : End(s, status, NoRequest)
    BY <1>5 DEF RefuseStale, Crash, DeadlockVictim
  <2> QED
    BY <1>3, <2>1, <2>2
<1>6. ASSUME NEW s \in Request, Commit(s)
      PROVE  Agrees(r)'
  <2>1. End(s, "done", s) /\ record' = [record EXCEPT ![KeyFor(s)] = s]
    BY <1>6 DEF Commit
  <2>2. record[KeyFor(s)] = NoRequest
    BY <1>6 DEF Commit, Inv, KeyLock, HoldsKey
  <2>3. record'[KeyFor(s)] = s /\ \A k \in Key : k # KeyFor(s) => record'[k] = record[k]
    BY <2>1, RequestTyped DEF Inv, TypeOK
  <2>4. CASE r = s
    <3>1. answer'[r].body = s
      <4>1. answer'[s] = [status |-> "done", body |-> s]
        BY <2>1 DEF End, Inv, TypeOK
      <4> QED
        BY <2>4, <4>1
    <3> QED
      BY <2>3, <2>4, <3>1 DEF Agrees
  <2>5. CASE r # s
    <3>1. answer'[r] = answer[r]
      BY <1>2, <2>1, <2>5
    <3>2. ASSUME answer[r].status \in {"done", "replayed"}
          PROVE  record'[KeyFor(r)] = record[KeyFor(r)]
      <4>1. record[KeyFor(r)] # NoRequest
        BY <3>2, CommandAssumption DEF Agrees
      <4> QED
        BY <2>2, <2>3, <4>1, RequestTyped
    <3> QED
      BY <3>1, <3>2 DEF Agrees
  <2> QED
    BY <2>4, <2>5
<1>7. ASSUME NEW s \in Request, Begin(s) \/ Claim(s) \/ LockRow(s) \/ Write(s)
      PROVE  Agrees(r)'
  BY <1>1, <1>7 DEF Begin, Claim, LockRow, Write
<1>8. ASSUME NEW c \in Command, Compose(c)
      PROVE  Agrees(r)'
  BY <1>1, <1>8 DEF Compose
<1> QED
  BY <1>4, <1>5, <1>6, <1>7, <1>8 DEF Next, Serve

\* Whoever is told that a command succeeded is told of the outcome stored under
\* its key, which is an outcome of that very command.
THEOREM AnswersTrue == Spec => []AnswersAgree
<1> DEFINE AllAgree == \A r \in Request : Agrees(r)
<1>1. Init => AllAgree
  BY DEF Init, Agrees
<1>2. Inv /\ AllAgree /\ [Next]_vars => AllAgree'
  <2> SUFFICES ASSUME Inv, AllAgree, [Next]_vars, NEW r \in Request PROVE Agrees(r)'
    OBVIOUS
  <2>1. CASE UNCHANGED vars
    BY <2>1 DEF vars, Agrees
  <2>2. CASE Next
    BY <2>2, AgreesStep
  <2> QED
    BY <2>1, <2>2
<1>3. AllAgree => AnswersAgree
  BY DEF AnswersAgree, Agrees
<1> HIDE DEF AllAgree
<1> QED
  BY <1>1, <1>2, <1>3, LocksHold, PTL DEF Spec

-----------------------------------------------------------------------------
(* Refinement: a transaction takes effect where it commits or is refused.    *)

LEMMA EndAnswers ==
    ASSUME Inv, NEW r \in Request, txn[r].pc # "ended", NEW status, NEW body, End(r, status, body)
    PROVE  Promise!Answer(r, status, body)
BY DEF End, Inv, InOrder, Promise!Answer

LEMMA RowsAgree == \A r \in Request : Promise!Row(r) = RowSet(r) /\ Promise!KeyFor(r) = KeyFor(r)
BY DEF Promise!Row, RowSet, Rows, Promise!KeyFor, KeyFor

LEMMA ServeRefines ==
    ASSUME Inv, NEW r \in Request, Begin(r) \/ Serve(r) \/ Crash(r)
    PROVE  Promise!Next \/ UNCHANGED Promise!vars
<1>1. CASE Begin(r) \/ Claim(r) \/ LockRow(r) \/ Write(r)
  BY <1>1 DEF Begin, Claim, LockRow, Write, Promise!vars
<1>2. CASE ClaimTaken(r)
  <2>1. txn[r].pc # "ended" /\ record[KeyFor(r)] # NoRequest
    BY <1>2 DEF ClaimTaken
  <2>2. CASE SameFingerprint(r, record[KeyFor(r)])
    <3>1. End(r, "replayed", record[KeyFor(r)])
      BY <1>2, <2>2 DEF ClaimTaken
    <3>2. Promise!Answer(r, "replayed", record[KeyFor(r)])
      BY <2>1, <3>1, EndAnswers
    <3>3. Promise!Replay(r)
      BY <1>2, <2>1, <2>2, <3>2, RowsAgree DEF ClaimTaken, Promise!Replay
    <3> QED
      BY <3>3 DEF Promise!Next
  <2>3. CASE ~SameFingerprint(r, record[KeyFor(r)])
    <3>1. End(r, "conflict", NoRequest)
      BY <1>2, <2>3 DEF ClaimTaken
    <3>2. Promise!Answer(r, "conflict", NoRequest)
      BY <2>1, <3>1, EndAnswers
    <3>3. Promise!RefuseConflict(r)
      BY <1>2, <2>1, <2>3, <3>2, RowsAgree DEF ClaimTaken, Promise!RefuseConflict
    <3> QED
      BY <3>3 DEF Promise!Next
  <2> QED
    BY <2>2, <2>3
<1>3. CASE RefuseStale(r)
  <2>1. txn[r].pc = "locking" /\ record[KeyFor(r)] = NoRequest
    BY <1>3 DEF RefuseStale, Inv, KeyLock, HoldsKey
  <2>2. Promise!Answer(r, "stale", NoRequest)
    BY <1>3, <2>1, EndAnswers DEF RefuseStale
  <2>3. Promise!RefuseStale(r)
    BY <1>3, <2>1, <2>2, RowsAgree DEF RefuseStale, Current, Promise!RefuseStale
  <2> QED
    BY <2>3 DEF Promise!Next
<1>4. CASE Commit(r)
  <2>1. txn[r].pc = "written" /\ record[KeyFor(r)] = NoRequest /\ Current(r)
    BY <1>4 DEF Commit, Inv, KeyLock, HoldsKey, StillCurrent
  <2>2. Promise!Answer(r, "done", r)
    BY <1>4, <2>1, EndAnswers DEF Commit
  <2>3. Promise!Execute(r)
    BY <1>4, <2>1, <2>2, RowsAgree DEF Commit, Current, Promise!Execute
  <2> QED
    BY <2>3 DEF Promise!Next
<1>5. CASE Crash(r) \/ DeadlockVictim(r)
  <2>1. txn[r].pc # "ended"
    BY <1>5, Waiting DEF Crash
  <2>2. Promise!Answer(r, "error", NoRequest)
    BY <1>5, <2>1, EndAnswers DEF Crash, DeadlockVictim
  <2>3. Promise!Fail(r)
    BY <1>5, <2>2 DEF Crash, DeadlockVictim, Promise!Fail
  <2> QED
    BY <2>3 DEF Promise!Next
<1> QED
  BY <1>1, <1>2, <1>3, <1>4, <1>5 DEF Serve

\* The statements of concurrent transactions, with their crashes and deadlock
\* victims, amount to commands that take effect at one instant, at most once per
\* key, and on the position versions they were composed from.
THEOREM ExactlyOnce == Spec => CommandsExactlyOnce
<1>1. Init => Promise!Init
  BY DEF Init, Promise!Init
<1>2. Inv /\ [Next]_vars => [Promise!Next]_Promise!vars
  <2> SUFFICES ASSUME Inv, Next PROVE Promise!Next \/ UNCHANGED Promise!vars
    BY DEF vars, Promise!vars
  <2>1. ASSUME NEW c \in Command, Compose(c) PROVE Promise!Next
    <3>1. Promise!Compose(c)
      BY <2>1 DEF Compose, Promise!Compose
    <3> QED
      BY <3>1 DEF Promise!Next
  <2> QED
    BY <2>1, ServeRefines DEF Next
<1> QED
  BY <1>1, <1>2, LocksHold, PTL DEF Spec, CommandsExactlyOnce, Promise!Spec

=============================================================================
