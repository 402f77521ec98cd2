------------------------ MODULE ProposalReviewProofs ------------------------
(***************************************************************************)
(* Proofs about ProposalReview for any proposals, requests and sources:    *)
(* its types, one order per proposal, that every order rests on evidence   *)
(* that was live when its approval came in, that a recorded success has    *)
(* its order, and that a request on its own keeps to the lifecycle.        *)
(***************************************************************************)
EXTENDS ProposalReview, TLAPS

-----------------------------------------------------------------------------
(* Types. *)

\* A handler that is at work.
Busy(r) == handler[r] \notin {Waiting, Done}

LEMMA BusyTyped ==
    ASSUME TypeOK, NEW r \in Request
    PROVE  /\ handler[r].pc \notin {"waiting", "done"} => Busy(r)
           /\ Busy(r) => /\ handler[r] \in Working
                         /\ handler[r].pc \in {"rejecting", "revalidating", "executing",
                                               "succeeding", "failing"}
                         /\ handler[r].proposal \in Proposal
                         /\ handler[r].item \in Item
                         /\ handler[r].live \in Seq(1..MaxVersion)
                         /\ handler[r].loaded \in [versions : Versions, cost : 0..MaxVersion]
           /\ \A pc : Busy(r) => [handler[r] EXCEPT !.pc = pc] =
                 [pc |-> pc, proposal |-> handler[r].proposal, item |-> handler[r].item,
                  live |-> handler[r].live, loaded |-> handler[r].loaded, alone |-> handler[r].alone]
<1>1. Busy(r) => handler[r] \in Working
  BY DEF Busy, TypeOK
<1>2. handler[r].pc \notin {"waiting", "done"} => Busy(r)
  BY DEF Busy, Waiting, Done
<1> QED
  BY <1>1, <1>2 DEF Working

LEMMA InitTypeOK == Init => TypeOK
BY SourceAssumption DEF Init, TypeOK, Versions

LEMMA WorldTypeOK ==
    ASSUME TypeOK, World
    PROVE  TypeOK'
<1>1. ASSUME NEW i \in DOMAIN Source, UpdateSource(i) PROVE TypeOK'
  <2>1. version' \in Versions
    BY <1>1, SourceAssumption DEF UpdateSource, TypeOK, Versions
  <2> QED
    BY <1>1, <2>1 DEF UpdateSource, TypeOK
<1>2. CASE MoveCost
  <2>1. cost' \in 0..MaxVersion
    BY <1>2, SourceAssumption DEF MoveCost, TypeOK
  <2> QED
    BY <1>2, <2>1 DEF MoveCost, TypeOK
<1>3. ASSUME NEW p \in Proposal, Draft(p) PROVE TypeOK'
  <2>1. [state |-> "awaiting_review", version |-> 1, evidence |-> version, price |-> cost] \in Item
    BY DEF TypeOK, Item
  <2>2. proposal' \in [Proposal -> Item \cup {Undrafted, Lost}]
    BY <1>3, <2>1 DEF Draft, TypeOK
  <2> QED
    BY <1>3, <2>2 DEF Draft, TypeOK
<1>4. ASSUME NEW p \in Proposal, Expire(p) PROVE TypeOK'
  BY <1>4 DEF Expire, TypeOK
<1>5. CASE Restart
  BY <1>5 DEF Restart, TypeOK
<1> QED
  BY <1>1, <1>2, <1>3, <1>4, <1>5 DEF World

LEMMA LoadTypeOK ==
    ASSUME TypeOK, NEW r \in Request, NEW p \in Proposal, NEW pc \in {"rejecting", "revalidating"},
           Load(r, p, pc)
    PROVE  TypeOK'
<1> DEFINE new == [pc |-> pc, proposal |-> p, item |-> proposal[p], live |-> <<>>,
                   loaded |-> [versions |-> version, cost |-> cost], alone |-> InFlight(p) = {}]
<1>1. proposal[p] \in Item
  BY DEF Load, InStore, TypeOK
<1>2. new \in Working
  <2>1. (InFlight(p) = {}) \in BOOLEAN
    OBVIOUS
  <2>2. <<>> \in Seq(1..MaxVersion)
    OBVIOUS
  <2>3. [versions |-> version, cost |-> cost] \in [versions : Versions, cost : 0..MaxVersion]
    BY DEF TypeOK
  <2> QED
    BY <1>1, <2>1, <2>2, <2>3 DEF Working
<1>3. \A x \in InFlight(p) : [handler[x] EXCEPT !.alone = FALSE] \in Working
  <2> SUFFICES ASSUME NEW x \in InFlight(p) PROVE [handler[x] EXCEPT !.alone = FALSE] \in Working
    OBVIOUS
  <2>1. handler[x] \in Working
    BY DEF InFlight, TypeOK
  <2> QED
    BY <2>1 DEF Working
<1>4. handler' = [x \in Request |->
          IF x = r THEN new
          ELSE IF x \in InFlight(p) THEN [handler[x] EXCEPT !.alone = FALSE] ELSE handler[x]]
  BY DEF Load
<1>5. handler' \in [Request -> Working \cup {Waiting, Done}]
  <2> HIDE DEF new
  <2> QED
    BY <1>2, <1>3, <1>4 DEF TypeOK
<1> QED
  BY <1>5 DEF Load, TypeOK

LEMMA StoreTyped ==
    ASSUME TypeOK, NEW r \in Request, Busy(r), NEW bump \in Nat,
           NEW state \in {"rejected", "executing", "succeeded", "failed"}, Store(r, state, bump)
    PROVE  proposal' \in [Proposal -> Item \cup {Undrafted, Lost}]
<1> DEFINE item == [state |-> state, version |-> handler[r].item.version + bump,
                    evidence |-> handler[r].item.evidence, price |-> handler[r].item.price]
<1>1. handler[r].proposal \in Proposal /\ handler[r].item \in Item
  BY BusyTyped
<1>2. item \in Item
  BY <1>1 DEF Item
<1>3. proposal' = [proposal EXCEPT ![handler[r].proposal] = item]
  BY DEF Store
<1> HIDE DEF item
<1> QED
  BY <1>1, <1>2, <1>3 DEF TypeOK

\* A handler's place, or what it has read, is all that changes of its record.
LEMMA PlaceTyped ==
    ASSUME TypeOK, NEW r \in Request, Busy(r),
           NEW pc \in {"rejecting", "revalidating", "executing", "succeeding", "failing"},
           handler' = [handler EXCEPT ![r].pc = pc]
    PROVE  /\ handler' \in [Request -> Working \cup {Waiting, Done}]
           /\ handler'[r] = [handler[r] EXCEPT !.pc = pc]
           /\ \A s \in Request \ {r} : handler'[s] = handler[s]
<1>1. handler[r] \in Working
  BY BusyTyped
<1>2. [handler[r] EXCEPT !.pc = pc] \in Working
  BY <1>1 DEF Working
<1> QED
  BY <1>2 DEF TypeOK

LEMMA FinishTyped ==
    ASSUME TypeOK, NEW r \in Request, Finish(r)
    PROVE  /\ handler' \in [Request -> Working \cup {Waiting, Done}]
           /\ handler'[r] = Done
           /\ \A s \in Request \ {r} : handler'[s] = handler[s]
BY DEF Finish, TypeOK

LEMMA HandleTypeOK ==
    ASSUME TypeOK, NEW r \in Request, Handle(r)
    PROVE  TypeOK'
<1>1. Busy(r)
  <2>1. handler[r].pc \in {"rejecting", "revalidating", "executing", "succeeding", "failing"}
    BY DEF Handle, Reject, Refuse, Revalidated, ReadSource, Approve, CreateOrder, OrderRefused,
           RecordResult, ResultDropped
  <2> QED
    BY <2>1, BusyTyped
<1>2. CASE Reject(r)
  <2>1. proposal' \in [Proposal -> Item \cup {Undrafted, Lost}]
    BY <1>1, <1>2, StoreTyped DEF Reject
  <2> QED
    BY <1>2, <2>1, FinishTyped DEF Reject, TypeOK
<1>3. CASE Refuse(r) \/ ResultDropped(r)
  BY <1>3, FinishTyped DEF Refuse, ResultDropped, TypeOK
<1>4. CASE ReadSource(r)
  <2> DEFINE h == handler[r]
             next == Append(h.live, version[Len(h.live) + 1])
  <2>1. h \in Working /\ h.live \in Seq(1..MaxVersion)
    BY <1>1, BusyTyped
  <2>2. next \in Seq(1..MaxVersion)
    <3>1. Len(h.live) + 1 \in DOMAIN Source
      BY <1>4, <2>1, SourceAssumption DEF ReadSource
    <3>2. version[Len(h.live) + 1] \in 1..MaxVersion
      BY <3>1 DEF TypeOK, Versions
    <3> QED
      BY <2>1, <3>2
  <2>3. handler' = [handler EXCEPT ![r] = [h EXCEPT !.live = next]]
    BY <1>4 DEF ReadSource
  <2>4. [h EXCEPT !.live = next] \in Working
    <3> HIDE DEF next
    <3> QED
      BY <2>1, <2>2 DEF Working
  <2>5. handler' \in [Request -> Working \cup {Waiting, Done}]
    <3> HIDE DEF next, h
    <3> QED
      BY <2>3, <2>4 DEF TypeOK
  <2> QED
    BY <1>4, <2>5 DEF ReadSource, TypeOK
<1>5. CASE Approve(r)
  <2>1. proposal' \in [Proposal -> Item \cup {Undrafted, Lost}]
    BY <1>1, <1>5, StoreTyped DEF Approve
  <2>2. handler' \in [Request -> Working \cup {Waiting, Done}]
    BY <1>1, <1>5, PlaceTyped DEF Approve
  <2> QED
    BY <1>5, <2>1, <2>2 DEF Approve, TypeOK
<1>6. CASE CreateOrder(r)
  <2> DEFINE o == [proposal |-> handler[r].proposal, by |-> r, evidence |-> handler[r].item.evidence,
                   price |-> handler[r].item.price, loaded |-> handler[r].loaded]
  <2>1. o \in Order
    BY <1>1, BusyTyped DEF Order, Item
  <2>2. orders' = orders \cup {o}
    BY <1>6 DEF CreateOrder
  <2>3. handler' \in [Request -> Working \cup {Waiting, Done}]
    BY <1>1, <1>6, PlaceTyped DEF CreateOrder
  <2> HIDE DEF o
  <2> QED
    BY <1>6, <2>1, <2>2, <2>3 DEF CreateOrder, TypeOK
<1>7. CASE OrderRefused(r)
  BY <1>1, <1>7, PlaceTyped DEF OrderRefused, TypeOK
<1>8. CASE RecordResult(r)
  <2>1. \E state \in {"succeeded", "failed"} : Store(r, state, 3)
    BY <1>8 DEF RecordResult
  <2>2. proposal' \in [Proposal -> Item \cup {Undrafted, Lost}]
    BY <1>1, <2>1, StoreTyped
  <2> QED
    BY <1>8, <2>2, FinishTyped DEF RecordResult, TypeOK
<1> QED
  BY <1>2, <1>3, <1>4, <1>5, <1>6, <1>7, <1>8 DEF Handle

LEMMA NextTypeOK == TypeOK /\ [Next]_vars => TypeOK'
<1>1. TypeOK /\ UNCHANGED vars => TypeOK'
  BY DEF TypeOK, vars
<1> QED
  BY <1>1, WorldTypeOK, LoadTypeOK, HandleTypeOK DEF Next

\* The store holds undrafted, lost or well-formed proposals in the states of the
\* lifecycle, and every handler at work keeps a well-formed copy of one.
THEOREM TypeCorrect == Spec => []TypeOK
BY InitTypeOK, NextTypeOK, PTL DEF Spec

-----------------------------------------------------------------------------
(* Live evidence.  The versions of a source only grow, so evidence recorded   *)
(* before the handler loaded the proposal, and equal to what it reads again    *)
(* afterwards, was the live version all the time between the two.             *)

Below(v, w) == \A i \in DOMAIN Source : v[i] <= w[i]

DraftedBefore == \A p \in Proposal : InStore(p) => Below(proposal[p].evidence, version)

ReadAfterLoading(h) ==
    /\ Below(h.item.evidence, h.loaded.versions)
    /\ Below(h.loaded.versions, version)
    /\ Len(h.live) <= Len(Source)
    /\ \A i \in 1..Len(h.live) : h.loaded.versions[i] <= h.live[i]
    /\ h.pc \in {"executing", "succeeding"} => h.item.evidence = h.loaded.versions

EvidenceInv ==
    /\ DraftedBefore
    /\ \A r \in Request : Busy(r) => ReadAfterLoading(handler[r])
    /\ OrderedOnLiveEvidence

LEMMA BelowTransitive ==
    ASSUME NEW u \in Versions, NEW v \in Versions, NEW w \in Versions, Below(u, v), Below(v, w)
    PROVE  Below(u, w)
<1> SUFFICES ASSUME NEW i \in DOMAIN Source PROVE u[i] <= w[i]
  BY DEF Below
<1>1. u[i] \in Nat /\ v[i] \in Nat /\ w[i] \in Nat
  BY SourceAssumption DEF Versions
<1> QED
  BY <1>1 DEF Below

LEMMA WorldEvidence ==
    ASSUME TypeOK, TypeOK', EvidenceInv, World
    PROVE  EvidenceInv'
<1>1. Below(version, version')
  <2> SUFFICES ASSUME NEW i \in DOMAIN Source PROVE version[i] <= version'[i]
    BY DEF Below
  <2>1. version[i] \in Nat
    BY SourceAssumption DEF TypeOK, Versions
  <2> QED
    BY <2>1 DEF World, UpdateSource, MoveCost, Draft, Expire, Restart, TypeOK, Versions
<1>2. orders' = orders
  BY DEF World, UpdateSource, MoveCost, Draft, Expire, Restart
<1>3. \A r \in Request : handler'[r] = handler[r] \/ ~Busy(r)'
  BY DEF World, UpdateSource, MoveCost, Draft, Expire, Restart, TypeOK, Busy
<1>4. ASSUME NEW r \in Request, Busy(r)'
      PROVE  ReadAfterLoading(handler[r])' /\ handler'[r] = handler[r]
  <2>1. Busy(r) /\ handler'[r] = handler[r]
    BY <1>3, <1>4 DEF Busy
  <2>2. /\ ReadAfterLoading(handler[r])
        /\ handler[r].loaded.versions \in Versions
    BY <2>1, BusyTyped DEF EvidenceInv
  <2>3. version \in Versions /\ version' \in Versions
    BY DEF TypeOK
  <2>4. Below(handler[r].loaded.versions, version')
    BY <1>1, <2>2, <2>3, BelowTransitive DEF ReadAfterLoading
  <2> QED
    BY <2>1, <2>2, <2>4 DEF ReadAfterLoading, Below
<1>5. DraftedBefore'
  <2> SUFFICES ASSUME NEW p \in Proposal, InStore(p)' PROVE Below(proposal'[p].evidence, version')
    BY DEF DraftedBefore
  <2>1. CASE proposal'[p] = proposal[p]
    <3>1. InStore(p) /\ proposal[p].evidence \in Versions /\ Below(proposal[p].evidence, version)
      BY <2>1 DEF InStore, EvidenceInv, DraftedBefore, TypeOK, Item
    <3> QED
      BY <1>1, <2>1, <3>1, BelowTransitive DEF TypeOK
  <2>2. CASE proposal'[p] # proposal[p]
    <3>1. Draft(p)
      BY <2>2 DEF World, UpdateSource, MoveCost, Draft, Expire, Restart, TypeOK, InStore
    <3>2. proposal'[p].evidence = version /\ version' = version
      BY <3>1 DEF Draft, TypeOK
    <3> QED
      BY <1>1, <3>2
  <2> QED
    BY <2>1, <2>2
<1> QED
  BY <1>2, <1>4, <1>5 DEF EvidenceInv, OrderedOnLiveEvidence

LEMMA LoadEvidence ==
    ASSUME TypeOK, EvidenceInv, NEW r \in Request, NEW p \in Proposal,
           NEW pc \in {"rejecting", "revalidating"}, Load(r, p, pc)
    PROVE  EvidenceInv'
<1>1. UNCHANGED <<version, proposal, orders>> /\ InStore(p)
  BY DEF Load
<1> DEFINE new == [pc |-> pc, proposal |-> p, item |-> proposal[p], live |-> <<>>,
                   loaded |-> [versions |-> version, cost |-> cost], alone |-> InFlight(p) = {}]
<1>2. handler' = [x \in Request |->
          IF x = r THEN new
          ELSE IF x \in InFlight(p) THEN [handler[x] EXCEPT !.alone = FALSE] ELSE handler[x]]
  BY DEF Load
<1>3. ReadAfterLoading(handler[r])'
  <2>1. Below(proposal[p].evidence, version) /\ Below(version, version)
    <3>1. \A i \in DOMAIN Source : version[i] \in Nat
      BY SourceAssumption DEF TypeOK, Versions
    <3> QED
      BY <1>1, <3>1 DEF EvidenceInv, DraftedBefore, Below
  <2>2. Len(Source) \in Nat /\ Len(<<>>) = 0
    BY SourceAssumption
  <2>3. /\ handler'[r].item = proposal[p]
        /\ handler'[r].loaded.versions = version
        /\ handler'[r].live = <<>>
        /\ handler'[r].pc = pc
    BY <1>2
  <2> QED
    BY <1>1, <2>1, <2>2, <2>3 DEF ReadAfterLoading, Below
<1>4. ASSUME NEW x \in Request, x # r, Busy(x)'
      PROVE  ReadAfterLoading(handler[x])'
  <2>1. CASE x \in InFlight(p)
    <3>1. Busy(x) /\ handler[x] \in Working
      BY <2>1 DEF InFlight, Busy, TypeOK
    <3>2. handler'[x] = [handler[x] EXCEPT !.alone = FALSE]
      BY <1>2, <1>4, <2>1
    <3>3. /\ handler'[x].item = handler[x].item
          /\ handler'[x].loaded = handler[x].loaded
          /\ handler'[x].live = handler[x].live
          /\ handler'[x].pc = handler[x].pc
      BY <3>1, <3>2 DEF Working
    <3> QED
      BY <1>1, <3>1, <3>3 DEF EvidenceInv, ReadAfterLoading, Below
  <2>2. CASE x \notin InFlight(p)
    <3>1. handler'[x] = handler[x]
      BY <1>2, <1>4, <2>2
    <3> QED
      BY <1>1, <1>4, <3>1 DEF EvidenceInv, Busy, ReadAfterLoading, Below
  <2> QED
    BY <2>1, <2>2
<1> QED
  BY <1>1, <1>3, <1>4 DEF EvidenceInv, DraftedBefore, InStore, Below, OrderedOnLiveEvidence

\* The store's own copy of a proposal keeps the evidence it was drafted with.
LEMMA StoreEvidence ==
    ASSUME TypeOK, EvidenceInv, NEW r \in Request, Busy(r), NEW state, NEW bump,
           Store(r, state, bump), UNCHANGED version
    PROVE  DraftedBefore'
<1>1. /\ handler[r].proposal \in Proposal
      /\ handler[r].item.evidence \in Versions
      /\ handler[r].loaded.versions \in Versions
      /\ version \in Versions
  BY BusyTyped DEF TypeOK, Item
<1>2. Below(handler[r].item.evidence, version)
  BY <1>1, BelowTransitive DEF EvidenceInv, ReadAfterLoading
<1>3. /\ proposal'[handler[r].proposal].evidence = handler[r].item.evidence
      /\ \A p \in Proposal \ {handler[r].proposal} : proposal'[p] = proposal[p]
  BY <1>1 DEF Store, TypeOK
<1> SUFFICES ASSUME NEW p \in Proposal, InStore(p)' PROVE Below(proposal'[p].evidence, version)
  BY DEF DraftedBefore, Below
<1>4. CASE p = handler[r].proposal
  BY <1>2, <1>3, <1>4
<1>5. CASE p # handler[r].proposal
  BY <1>3, <1>5 DEF InStore, EvidenceInv, DraftedBefore
<1> QED
  BY <1>4, <1>5

\* Whoever revalidated read, after loading, exactly what was recorded before.
LEMMA ApproveEvidence ==
    ASSUME TypeOK, EvidenceInv, NEW r \in Request, Busy(r), Approve(r)
    PROVE  handler[r].item.evidence = handler[r].loaded.versions
<1> DEFINE h == handler[r]
<1>1. /\ h.item.evidence \in Versions
      /\ h.loaded.versions \in Versions
      /\ h.live \in Seq(1..MaxVersion)
  BY BusyTyped DEF Item
<1>2. /\ Len(h.live) = Len(Source)
      /\ \A i \in DOMAIN Source : h.live[i] = h.item.evidence[i]
  BY DEF Approve, Revalidated, EvidenceHolds
<1>3. ReadAfterLoading(h)
  BY DEF EvidenceInv
<1>4. DOMAIN Source = 1..Len(Source)
  BY SourceAssumption
<1> HIDE DEF h
<1>5. ASSUME NEW i \in DOMAIN Source PROVE h.item.evidence[i] = h.loaded.versions[i]
  <2>1. h.item.evidence[i] <= h.loaded.versions[i]
    BY <1>3 DEF ReadAfterLoading, Below
  <2>2. h.loaded.versions[i] <= h.item.evidence[i]
    BY <1>2, <1>3, <1>4 DEF ReadAfterLoading
  <2>3. h.item.evidence[i] \in Nat /\ h.loaded.versions[i] \in Nat
    BY <1>1, SourceAssumption DEF Versions
  <2> QED
    BY <2>1, <2>2, <2>3
<1>6. h.item.evidence = h.loaded.versions
  BY <1>1, <1>5 DEF Versions
<1> QED
  BY <1>6 DEF h

LEMMA HandleEvidence ==
    ASSUME TypeOK, EvidenceInv, NEW r \in Request, Handle(r)
    PROVE  EvidenceInv'
<1>1. Busy(r) /\ UNCHANGED version
  <2>1. handler[r].pc \in {"rejecting", "revalidating", "executing", "succeeding", "failing"}
    BY DEF Handle, Reject, Refuse, Revalidated, ReadSource, Approve, CreateOrder, OrderRefused,
           RecordResult, ResultDropped
  <2> QED
    BY <2>1, BusyTyped DEF Handle, Reject, Refuse, ReadSource, Approve, CreateOrder, OrderRefused,
           RecordResult, ResultDropped
<1>2. ReadAfterLoading(handler[r]) /\ handler[r] \in Working
  BY <1>1, BusyTyped DEF EvidenceInv
<1>3. \A s \in Request \ {r} : handler'[s] = handler[s]
  BY DEF Handle, Reject, Refuse, ReadSource, Approve, CreateOrder, OrderRefused, RecordResult,
         ResultDropped, Finish, TypeOK
<1>4. \A s \in Request \ {r} : Busy(s)' => ReadAfterLoading(handler[s])'
  BY <1>1, <1>3 DEF EvidenceInv, Busy, ReadAfterLoading, Below
<1>5. DraftedBefore'
  <2>1. CASE UNCHANGED proposal
    BY <1>1, <2>1 DEF EvidenceInv, DraftedBefore, InStore, Below
  <2>2. CASE ~UNCHANGED proposal
    <3>1. \E state, bump : Store(r, state, bump)
      BY <2>2 DEF Handle, Reject, Refuse, ReadSource, Approve, CreateOrder, OrderRefused,
                  RecordResult, ResultDropped
    <3> QED
      BY <1>1, <3>1, StoreEvidence
  <2> QED
    BY <2>1, <2>2
<1>6. ASSUME NEW pc \in {"executing", "succeeding", "failing"},
             handler' = [handler EXCEPT ![r].pc = pc],
             pc # "failing" => handler[r].item.evidence = handler[r].loaded.versions
      PROVE  ReadAfterLoading(handler[r])'
  <2>1. handler'[r] = [handler[r] EXCEPT !.pc = pc]
    BY <1>1, <1>6, PlaceTyped
  <2>2. /\ handler'[r].pc = pc
        /\ handler'[r].item = handler[r].item
        /\ handler'[r].loaded = handler[r].loaded
        /\ handler'[r].live = handler[r].live
    BY <1>2, <2>1 DEF Working
  <2> QED
    BY <1>1, <1>2, <1>6, <2>2 DEF ReadAfterLoading, Below
<1>7. CASE Reject(r) \/ Refuse(r) \/ RecordResult(r) \/ ResultDropped(r)
  <2>1. ~Busy(r)'
    BY <1>7, FinishTyped DEF Reject, Refuse, RecordResult, ResultDropped, Busy
  <2>2. orders' = orders
    BY <1>7 DEF Reject, Refuse, RecordResult, ResultDropped
  <2> QED
    BY <1>4, <1>5, <2>1, <2>2 DEF EvidenceInv, OrderedOnLiveEvidence
<1>8. CASE ReadSource(r)
  <2> DEFINE h == handler[r]
             n == Len(h.live) + 1
  <2>1. h.live \in Seq(1..MaxVersion) /\ h.loaded.versions \in Versions
    BY <1>1, BusyTyped
  <2>2. n \in DOMAIN Source /\ n <= Len(Source) /\ n \in Nat
    BY <1>8, <2>1, SourceAssumption DEF ReadSource
  <2>3. handler'[r] = [h EXCEPT !.live = Append(h.live, version[n])]
    BY <1>8 DEF ReadSource, TypeOK
  <2>4. /\ handler'[r].pc = h.pc
        /\ handler'[r].item = h.item
        /\ handler'[r].loaded = h.loaded
        /\ handler'[r].live = Append(h.live, version[n])
    BY <1>2, <2>3 DEF Working
  <2>5. h.loaded.versions[n] <= version[n]
    BY <1>2, <2>2 DEF ReadAfterLoading, Below
  <2>6. /\ Len(Append(h.live, version[n])) = n
        /\ \A i \in 1..n : h.loaded.versions[i] <= Append(h.live, version[n])[i]
    <3>1. version[n] \in 1..MaxVersion
      BY <2>2 DEF TypeOK, Versions
    <3> QED
      BY <1>2, <2>1, <2>5, <3>1 DEF ReadAfterLoading
  <2>7. ReadAfterLoading(handler[r])'
    BY <1>1, <1>2, <2>2, <2>4, <2>6 DEF ReadAfterLoading, Below
  <2> QED
    BY <1>4, <1>5, <1>8, <2>7 DEF ReadSource, EvidenceInv, OrderedOnLiveEvidence
<1>9. CASE Approve(r)
  <2>1. ReadAfterLoading(handler[r])'
    BY <1>1, <1>6, <1>9, ApproveEvidence DEF Approve
  <2> QED
    BY <1>4, <1>5, <1>9, <2>1 DEF Approve, EvidenceInv, OrderedOnLiveEvidence
<1>10. CASE CreateOrder(r)
  <2>1. handler[r].item.evidence = handler[r].loaded.versions
    BY <1>2, <1>10 DEF CreateOrder, ReadAfterLoading
  <2>2. ReadAfterLoading(handler[r])'
    BY <1>6, <1>10, <2>1 DEF CreateOrder
  <2>3. OrderedOnLiveEvidence'
    BY <1>10, <2>1 DEF CreateOrder, EvidenceInv, OrderedOnLiveEvidence
  <2> QED
    BY <1>4, <1>5, <2>2, <2>3 DEF EvidenceInv
<1>11. CASE OrderRefused(r)
  <2>1. ReadAfterLoading(handler[r])'
    BY <1>6, <1>11 DEF OrderRefused
  <2> QED
    BY <1>4, <1>5, <1>11, <2>1 DEF OrderRefused, EvidenceInv, OrderedOnLiveEvidence
<1> QED
  BY <1>7, <1>8, <1>9, <1>10, <1>11 DEF Handle

\* Every order rests on versions that were all live at one instant, the one at
\* which its approval loaded the proposal, although they were read one by one.
THEOREM OrderedOnTruth == Spec => []OrderedOnLiveEvidence
<1>1. Init => EvidenceInv
  BY DEF Init, EvidenceInv, DraftedBefore, InStore, Busy, OrderedOnLiveEvidence
<1>2. TypeOK /\ TypeOK' /\ EvidenceInv /\ [Next]_vars => EvidenceInv'
  <2> SUFFICES ASSUME TypeOK, TypeOK', EvidenceInv, [Next]_vars PROVE EvidenceInv'
    OBVIOUS
  <2>1. CASE UNCHANGED vars
    BY <2>1 DEF vars, EvidenceInv, DraftedBefore, InStore, Busy, ReadAfterLoading, Below,
                OrderedOnLiveEvidence
  <2>2. CASE Next
    BY <2>2, WorldEvidence, LoadEvidence, HandleEvidence DEF Next
  <2> QED
    BY <2>1, <2>2
<1>3. EvidenceInv => OrderedOnLiveEvidence
  BY DEF EvidenceInv
<1> QED
  BY <1>1, <1>2, <1>3, TypeCorrect, PTL DEF Spec

-----------------------------------------------------------------------------
(* Orders and what is recorded of them. *)

HasOrder(p) == \E o \in orders : o.proposal = p

OrdersInv ==
    /\ OneOrderPerProposal
    /\ SuccessHasOrder
    /\ \A r \in Request : handler[r].pc = "succeeding" => HasOrder(handler[r].proposal)

LEMMA HandleOrders ==
    ASSUME TypeOK, OrdersInv, NEW r \in Request, Handle(r)
    PROVE  OrdersInv'
<1>1. Busy(r)
  <2>1. handler[r].pc \in {"rejecting", "revalidating", "executing", "succeeding", "failing"}
    BY DEF Handle, Reject, Refuse, Revalidated, ReadSource, Approve, CreateOrder, OrderRefused,
           RecordResult, ResultDropped
  <2> QED
    BY <2>1, BusyTyped
<1>2. \A p : HasOrder(p) => HasOrder(p)'
  BY DEF Handle, Reject, Refuse, ReadSource, Approve, CreateOrder, OrderRefused, RecordResult,
         ResultDropped, HasOrder
<1>3. \A s \in Request \ {r} : handler'[s] = handler[s]
  BY DEF Handle, Reject, Refuse, ReadSource, Approve, CreateOrder, OrderRefused, RecordResult,
         ResultDropped, Finish, TypeOK
<1>4. OneOrderPerProposal'
  <2>1. CASE CreateOrder(r)
    BY <2>1 DEF CreateOrder, KeyFree, OrdersInv, OneOrderPerProposal
  <2>2. CASE ~CreateOrder(r)
    BY <2>2 DEF Handle, Reject, Refuse, ReadSource, Approve, OrderRefused, RecordResult,
                ResultDropped, OrdersInv, OneOrderPerProposal
  <2> QED
    BY <2>1, <2>2
<1>5. handler'[r].pc = "succeeding" => HasOrder(handler[r].proposal)'
  <2>1. CASE CreateOrder(r)
    <3>1. handler'[r] = [handler[r] EXCEPT !.pc = "succeeding"] /\ handler[r] \in Working
      BY <1>1, <2>1, BusyTyped, PlaceTyped DEF CreateOrder
    <3>2. handler'[r].proposal = handler[r].proposal
      BY <3>1 DEF Working
    <3>3. \E o \in orders' : o.proposal = handler[r].proposal
      <4> DEFINE o == [proposal |-> handler[r].proposal, by |-> r,
                       evidence |-> handler[r].item.evidence,
                       price |-> handler[r].item.price, loaded |-> handler[r].loaded]
      <4>1. o \in orders'
        BY <2>1 DEF CreateOrder
      <4>2. o.proposal = handler[r].proposal
        OBVIOUS
      <4> HIDE DEF o
      <4> QED
        BY <4>1, <4>2
    <3> QED
      BY <3>2, <3>3 DEF HasOrder
  <2>2. CASE Approve(r) \/ OrderRefused(r)
    <3>1. PICK pc \in {"executing", "failing"} : handler' = [handler EXCEPT ![r].pc = pc]
      BY <2>2 DEF Approve, OrderRefused
    <3>2. handler'[r] = [handler[r] EXCEPT !.pc = pc] /\ handler[r] \in Working
      BY <1>1, <3>1, BusyTyped, PlaceTyped
    <3>3. handler'[r].pc = pc
      BY <3>2 DEF Working
    <3> QED
      BY <3>3
  <2>3. CASE ReadSource(r)
    <3>1. handler[r] \in Working /\ handler[r].pc = "revalidating"
      BY <1>1, <2>3, BusyTyped DEF ReadSource
    <3>2. handler'[r].pc = "revalidating"
      BY <2>3, <3>1 DEF ReadSource, TypeOK, Working
    <3> QED
      BY <3>2
  <2>4. CASE Finish(r)
    <3>1. handler'[r] = Done
      BY <2>4, FinishTyped
    <3> QED
      BY <3>1 DEF Done
  <2>5. CreateOrder(r) \/ Approve(r) \/ OrderRefused(r) \/ ReadSource(r) \/ Finish(r)
    BY DEF Handle, Reject, Refuse, RecordResult, ResultDropped
  <2> QED
    BY <2>1, <2>2, <2>3, <2>4, <2>5
<1>6. SuccessHasOrder'
  <2> SUFFICES ASSUME NEW p \in Proposal, proposal'[p].state = "succeeded" PROVE HasOrder(p)'
    BY DEF SuccessHasOrder, HasOrder
  <2>1. CASE proposal'[p] = proposal[p]
    BY <1>2, <2>1 DEF OrdersInv, SuccessHasOrder, HasOrder
  <2>2. CASE proposal'[p] # proposal[p]
    <3>1. PICK state, bump : Store(r, state, bump) /\ (state = "succeeded" => handler[r].pc = "succeeding")
      BY <2>2 DEF Handle, Reject, Refuse, ReadSource, Approve, CreateOrder, OrderRefused,
                  RecordResult, ResultDropped
    <3>2. p = handler[r].proposal /\ proposal'[p].state = state
      BY <2>2, <3>1 DEF Store, TypeOK
    <3> QED
      BY <1>2, <3>1, <3>2 DEF OrdersInv
  <2> QED
    BY <2>1, <2>2
<1>7. \A s \in Request : handler'[s].pc = "succeeding" => HasOrder(handler[s].proposal)'
  <2> SUFFICES ASSUME NEW s \in Request, s # r, handler'[s].pc = "succeeding"
               PROVE  HasOrder(handler[s].proposal)'
    BY <1>5
  <2>1. handler'[s] = handler[s]
    BY <1>3
  <2>2. HasOrder(handler[s].proposal)
    BY <2>1 DEF OrdersInv
  <2> QED
    BY <1>2, <2>1, <2>2 DEF HasOrder
<1> QED
  BY <1>4, <1>6, <1>7 DEF OrdersInv

LEMMA OtherOrders ==
    ASSUME TypeOK, OrdersInv,
           World \/ \E r \in Request, p \in Proposal :
                       Load(r, p, "rejecting") \/ Load(r, p, "revalidating")
    PROVE  OrdersInv'
<1>1. orders' = orders
  BY DEF World, UpdateSource, MoveCost, Draft, Expire, Restart, Load
<1>2. \A p \in Proposal : proposal'[p].state = "succeeded" => proposal'[p] = proposal[p]
  BY DEF World, UpdateSource, MoveCost, Draft, Expire, Restart, Load, TypeOK, Undrafted, Lost
<1>3. \A s \in Request : handler'[s].pc = "succeeding" =>
          handler[s].pc = "succeeding" /\ handler'[s].proposal = handler[s].proposal
  <2>1. CASE World
    BY <2>1 DEF World, UpdateSource, MoveCost, Draft, Expire, Restart, TypeOK, Waiting, Done
  <2>2. ASSUME NEW r \in Request, NEW p \in Proposal, NEW pc \in {"rejecting", "revalidating"},
               Load(r, p, pc), NEW s \in Request, handler'[s].pc = "succeeding"
        PROVE  handler[s].pc = "succeeding" /\ handler'[s].proposal = handler[s].proposal
    <3>1. s # r
      BY <2>2 DEF Load
    <3>2. CASE s \in InFlight(p)
      <4>1. handler[s] \in Working /\ handler'[s] = [handler[s] EXCEPT !.alone = FALSE]
        BY <2>2, <3>1, <3>2 DEF Load, InFlight, TypeOK
      <4>2. handler'[s].pc = handler[s].pc /\ handler'[s].proposal = handler[s].proposal
        BY <4>1 DEF Working
      <4> QED
        BY <2>2, <4>2
    <3>3. CASE s \notin InFlight(p)
      BY <2>2, <3>1, <3>3 DEF Load
    <3> QED
      BY <3>2, <3>3
  <2> QED
    BY <2>1, <2>2
<1> QED
  BY <1>1, <1>2, <1>3 DEF OrdersInv, OneOrderPerProposal, SuccessHasOrder, HasOrder

LEMMA OrdersCorrect == Spec => []OrdersInv
<1>1. Init => OrdersInv
  BY DEF Init, OrdersInv, OneOrderPerProposal, SuccessHasOrder, Waiting, Undrafted
<1>2. TypeOK /\ OrdersInv /\ [Next]_vars => OrdersInv'
  <2> SUFFICES ASSUME TypeOK, OrdersInv, [Next]_vars PROVE OrdersInv'
    OBVIOUS
  <2>1. CASE UNCHANGED vars
    BY <2>1 DEF vars, OrdersInv, OneOrderPerProposal, SuccessHasOrder, HasOrder
  <2>2. CASE Next
    BY <2>2, OtherOrders, HandleOrders DEF Next
  <2> QED
    BY <2>1, <2>2
<1> QED
  BY <1>1, <1>2, TypeCorrect, PTL DEF Spec

\* However many approvals of a proposal run at once, and whatever restarts come in
\* between, at most one of them creates its purchase order.
THEOREM ApprovingTwiceOrdersOnce == Spec => []OneOrderPerProposal
<1>1. OrdersInv => OneOrderPerProposal
  BY DEF OrdersInv
<1> QED
  BY <1>1, OrdersCorrect, PTL

\* Whoever recorded a proposal as succeeded, over whatever was stored, its order
\* exists.
THEOREM SuccessIsReal == Spec => []SuccessHasOrder
<1>1. OrdersInv => SuccessHasOrder
  BY DEF OrdersInv
<1> QED
  BY <1>1, OrdersCorrect, PTL

-----------------------------------------------------------------------------
(* The lifecycle, as long as handlers do not meet. *)

\* A handler that has met no other one knows how its proposal stands.
KnowsItem(r) ==
    LET p == handler[r].proposal IN
    /\ handler[r].pc \in {"rejecting", "revalidating"} => proposal[p] = handler[r].item
    /\ handler[r].pc \in {"executing", "succeeding", "failing"} => proposal[p].state = "executing"

Alone(r) == Busy(r) /\ handler[r].alone

AloneInv ==
    \A r \in Request : Alone(r) => InFlight(handler[r].proposal) = {r} /\ KnowsItem(r)

\* What a handler's step does to its proposal.
LEMMA HandleMoves ==
    ASSUME TypeOK, NEW r \in Request, Handle(r)
    PROVE  /\ Busy(r)
           /\ \A q \in Request \ {r} : handler'[q] = handler[q]
           /\ \A p \in Proposal : p # handler[r].proposal => proposal'[p] = proposal[p]
           /\ \/ handler'[r] = Done
              \/ /\ Busy(r)' /\ handler'[r].proposal = handler[r].proposal
                 /\ handler'[r].item = handler[r].item /\ handler'[r].alone = handler[r].alone
<1>1. Busy(r)
  <2>1. handler[r].pc \in {"rejecting", "revalidating", "executing", "succeeding", "failing"}
    BY DEF Handle, Reject, Refuse, Revalidated, ReadSource, Approve, CreateOrder, OrderRefused,
           RecordResult, ResultDropped
  <2> QED
    BY <2>1, BusyTyped
<1>2. \A q \in Request \ {r} : handler'[q] = handler[q]
  BY DEF Handle, Reject, Refuse, ReadSource, Approve, CreateOrder, OrderRefused, RecordResult,
         ResultDropped, Finish, TypeOK
<1>3. \A p \in Proposal : p # handler[r].proposal => proposal'[p] = proposal[p]
  BY DEF Handle, Reject, Refuse, ReadSource, Approve, CreateOrder, OrderRefused, RecordResult,
         ResultDropped, Store, TypeOK
<1>4. \/ handler'[r] = Done
      \/ /\ Busy(r)' /\ handler'[r].proposal = handler[r].proposal
         /\ handler'[r].item = handler[r].item /\ handler'[r].alone = handler[r].alone
  <2>1. handler[r] \in Working
    BY <1>1, BusyTyped
  <2>2. CASE Finish(r)
    BY <2>2, FinishTyped
  <2>3. ASSUME NEW pc \in {"executing", "succeeding", "failing"}, handler' = [handler EXCEPT ![r].pc = pc]
        PROVE  /\ Busy(r)' /\ handler'[r].proposal = handler[r].proposal
               /\ handler'[r].item = handler[r].item /\ handler'[r].alone = handler[r].alone
    <3>1. handler'[r] = [handler[r] EXCEPT !.pc = pc]
      BY <2>1, <2>3, <1>1, PlaceTyped
    <3>2. handler'[r].pc = pc /\ handler'[r].proposal = handler[r].proposal
          /\ handler'[r].item = handler[r].item /\ handler'[r].alone = handler[r].alone
      BY <2>1, <3>1 DEF Working
    <3> QED
      BY <3>2 DEF Busy, Waiting, Done
  <2>4. CASE ReadSource(r)
    <3>1. handler'[r].pc = "revalidating" /\ handler'[r].proposal = handler[r].proposal
          /\ handler'[r].item = handler[r].item /\ handler'[r].alone = handler[r].alone
      BY <2>1, <2>4 DEF ReadSource, TypeOK, Working
    <3> QED
      BY <3>1 DEF Busy, Waiting, Done
  <2>5. Reject(r) \/ Refuse(r) \/ RecordResult(r) \/ ResultDropped(r) => Finish(r)
    BY Zenon DEF Reject, Refuse, RecordResult, ResultDropped
  <2>6. Approve(r) \/ CreateOrder(r) \/ OrderRefused(r)
          => \E pc \in {"executing", "succeeding", "failing"} : handler' = [handler EXCEPT ![r].pc = pc]
    BY DEF Approve, CreateOrder, OrderRefused
  <2> QED
    BY <2>2, <2>3, <2>4, <2>5, <2>6 DEF Handle
<1> QED
  BY <1>1, <1>2, <1>3, <1>4

\* A step that stores something, and the proposal before and after it.
LEMMA StoredAs ==
    ASSUME TypeOK, NEW r \in Request, Busy(r), NEW state, NEW bump, Store(r, state, bump)
    PROVE  proposal'[handler[r].proposal].state = state
BY BusyTyped DEF Store, TypeOK

\* A handler on its own moves its proposal along the lifecycle, and knows where to.
LEMMA AloneHandle ==
    ASSUME TypeOK, NEW r \in Request, Alone(r), KnowsItem(r), Handle(r)
    PROVE  /\ handler'[r] = Done \/ KnowsItem(r)'
           /\ LET p == handler[r].proposal IN
                proposal'[p] = proposal[p] \/ <<proposal[p].state, proposal'[p].state>> \in Lifecycle
<1> DEFINE p == handler[r].proposal
           Moved == proposal'[p] = proposal[p] \/ <<proposal[p].state, proposal'[p].state>> \in Lifecycle
<1>1. Busy(r) /\ handler[r] \in Working
  BY BusyTyped DEF Alone
<1>2. ASSUME NEW pc, handler' = [handler EXCEPT ![r].pc = pc]
      PROVE  handler'[r].pc = pc /\ handler'[r].proposal = p /\ handler'[r].item = handler[r].item
  <2>1. handler'[r] = [handler[r] EXCEPT !.pc = pc]
    BY <1>1, <1>2, PlaceTyped
  <2> QED
    BY <1>1, <2>1 DEF Working
<1>3. CASE Reject(r)
  <2>1. proposal[p].state = "awaiting_review" /\ proposal'[p].state = "rejected"
    BY <1>1, <1>3, StoredAs DEF Reject, Reviewable, KnowsItem
  <2>2. handler'[r] = Done
    BY <1>3, FinishTyped DEF Reject
  <2> QED
    BY <2>1, <2>2 DEF Lifecycle
<1>4. CASE Refuse(r) \/ ResultDropped(r)
  BY <1>4, FinishTyped DEF Refuse, ResultDropped
<1>5. CASE ReadSource(r)
  <2>1. handler'[r].pc = "revalidating" /\ handler'[r].proposal = p
        /\ handler'[r].item = handler[r].item
    BY <1>1, <1>5 DEF ReadSource, TypeOK, Working
  <2>2. proposal' = proposal /\ proposal[p] = handler[r].item
    BY <1>5 DEF ReadSource, KnowsItem
  <2> QED
    BY <2>1, <2>2 DEF KnowsItem
<1>6. CASE Approve(r)
  <2>1. proposal[p].state = "awaiting_review" /\ proposal'[p].state = "executing"
    BY <1>1, <1>6, StoredAs DEF Approve, Revalidated, Reviewable, KnowsItem
  <2>2. handler'[r].pc = "executing" /\ handler'[r].proposal = p
    BY <1>2, <1>6 DEF Approve
  <2> QED
    BY <2>1, <2>2 DEF Lifecycle, KnowsItem
<1>7. CASE CreateOrder(r) \/ OrderRefused(r)
  <2>1. proposal' = proposal /\ proposal[p].state = "executing"
    BY <1>7 DEF CreateOrder, OrderRefused, KnowsItem
  <2>2. handler'[r].pc \in {"succeeding", "failing"} /\ handler'[r].proposal = p
    BY <1>2, <1>7 DEF CreateOrder, OrderRefused
  <2> QED
    BY <2>1, <2>2 DEF KnowsItem
<1>8. CASE RecordResult(r)
  <2>1. proposal[p].state = "executing" /\ proposal'[p].state \in {"succeeded", "failed"}
    BY <1>1, <1>8, StoredAs DEF RecordResult, KnowsItem
  <2>2. handler'[r] = Done
    BY <1>8, FinishTyped DEF RecordResult
  <2> QED
    BY <2>1, <2>2 DEF Lifecycle
<1> QED
  BY <1>3, <1>4, <1>5, <1>6, <1>7, <1>8 DEF Handle

LEMMA InFlightIs ==
    \A p : InFlight(p) = {r \in Request : Busy(r) /\ handler[r].proposal = p}
BY DEF InFlight, Busy

LEMMA AloneStep ==
    ASSUME TypeOK, AloneInv, [Next]_vars
    PROVE  AloneInv'
<1> SUFFICES ASSUME NEW s \in Request, Alone(s)'
             PROVE  /\ \A q \in Request : Busy(q)' /\ handler'[q].proposal = handler'[s].proposal => q = s
                    /\ KnowsItem(s)'
  <2>1. \A s \in Request : Alone(s)' => s \in {r \in Request : Busy(r)' /\ handler'[r].proposal = handler'[s].proposal}
    BY DEF Alone
  <2>2. \A p : InFlight(p)' = {r \in Request : Busy(r)' /\ handler'[r].proposal = p}
    BY DEF InFlight, Busy
  <2> QED
    BY <2>1, <2>2 DEF AloneInv
<1>1. \A r \in Request : Alone(r) =>
         /\ KnowsItem(r)
         /\ \A q \in Request : Busy(q) /\ handler[q].proposal = handler[r].proposal => q = r
  BY InFlightIs DEF AloneInv
<1>2. CASE UNCHANGED <<proposal, handler>>
  BY <1>1, <1>2 DEF Alone, Busy, KnowsItem
<1>3. ASSUME NEW p \in Proposal, Draft(p)
      PROVE  /\ \A q \in Request : Busy(q)' /\ handler'[q].proposal = handler'[s].proposal => q = s
             /\ KnowsItem(s)'
  <2>1. UNCHANGED handler /\ Alone(s) /\ handler[s] \in Working
    BY <1>3, BusyTyped DEF Draft, Alone, Busy
  <2>2. KnowsItem(s)
    BY <1>1, <2>1
  <2>3. proposal[handler[s].proposal] # Undrafted
    BY <2>1, <2>2 DEF KnowsItem, Working, Item, Undrafted
  <2>4. handler[s].proposal \in Proposal /\ proposal'[handler[s].proposal] = proposal[handler[s].proposal]
    BY <1>3, <2>1, <2>3 DEF Draft, TypeOK, Working
  <2> QED
    BY <1>1, <2>1, <2>2, <2>4 DEF KnowsItem, Busy
<1>4. CASE Restart
  BY <1>4 DEF Restart, Alone, Busy
<1>5. ASSUME NEW r \in Request, NEW p \in Proposal, NEW pc \in {"rejecting", "revalidating"}, Load(r, p, pc)
      PROVE  /\ \A q \in Request : Busy(q)' /\ handler'[q].proposal = handler'[s].proposal => q = s
             /\ KnowsItem(s)'
  <2>1. /\ handler[r] = Waiting /\ UNCHANGED proposal
        /\ handler'[r] = [pc |-> pc, proposal |-> p, item |-> proposal[p], live |-> <<>>,
                          loaded |-> [versions |-> version, cost |-> cost], alone |-> InFlight(p) = {}]
    BY <1>5 DEF Load
  <2>2. \A q \in InFlight(p) : q # r /\ handler'[q] = [handler[q] EXCEPT !.alone = FALSE]
    BY <1>5 DEF Load, InFlight
  <2>3. \A q \in Request : q # r /\ q \notin InFlight(p) => handler'[q] = handler[q]
    BY <1>5 DEF Load
  <2>4. ASSUME NEW q \in InFlight(p) PROVE handler[q] \in Working /\ handler'[q].alone = FALSE
    <3>1. handler[q] \in Working
      BY BusyTyped, InFlightIs
    <3>2. handler'[q] = [handler[q] EXCEPT !.alone = FALSE]
      BY <2>2
    <3> QED
      BY <3>1, <3>2 DEF Working
  <2>5. s \notin InFlight(p)
    BY <2>4 DEF Alone
  <2>6. CASE s = r
    <3>1. InFlight(p) = {} /\ handler'[s].proposal = p
      <4>1. handler'[s].alone = (InFlight(p) = {}) /\ handler'[s].proposal = p
        BY <2>1, <2>6
      <4>2. handler'[s].alone
        BY DEF Alone
      <4> QED
        BY <4>1, <4>2, Zenon
    <3>2. \A q \in Request : Busy(q)' /\ handler'[q].proposal = p => q = s
      BY <2>3, <2>6, <3>1, InFlightIs DEF Busy
    <3>3. KnowsItem(s)'
      BY <2>1, <2>6 DEF KnowsItem
    <3> QED
      BY <3>1, <3>2, <3>3
  <2>7. CASE s # r
    <3>1. handler'[s] = handler[s] /\ Alone(s)
      BY <2>3, <2>5, <2>7 DEF Alone, Busy
    <3>2. KnowsItem(s)'
      BY <1>1, <2>1, <3>1 DEF KnowsItem
    <3>3. handler[s].proposal # p
      BY <2>5, <3>1, InFlightIs DEF Alone
    <3>4. ASSUME NEW q \in Request, Busy(q)', handler'[q].proposal = handler[s].proposal PROVE q = s
      <4>1. q # r
        BY <2>1, <3>3, <3>4
      <4>2. q \notin InFlight(p)
        <5>1. q \in InFlight(p) => handler'[q].proposal = handler[q].proposal
          BY <2>2, <2>4 DEF Working
        <5> QED
          BY <3>3, <3>4, <5>1, InFlightIs
      <4> QED
        BY <1>1, <2>3, <3>1, <3>4, <4>1, <4>2 DEF Busy
    <3> QED
      BY <3>1, <3>2, <3>4
  <2> QED
    BY <2>6, <2>7
<1>6. ASSUME NEW r \in Request, Handle(r)
      PROVE  /\ \A q \in Request : Busy(q)' /\ handler'[q].proposal = handler'[s].proposal => q = s
             /\ KnowsItem(s)'
  <2>1. /\ Busy(r) /\ \A q \in Request \ {r} : handler'[q] = handler[q]
        /\ \A p \in Proposal : p # handler[r].proposal => proposal'[p] = proposal[p]
        /\ \/ handler'[r] = Done
           \/ /\ Busy(r)' /\ handler'[r].proposal = handler[r].proposal
              /\ handler'[r].item = handler[r].item /\ handler'[r].alone = handler[r].alone
    BY <1>6, HandleMoves
  <2>2. \A q \in Request : Busy(q)' => Busy(q) /\ handler'[q].proposal = handler[q].proposal
    BY <2>1 DEF Busy
  <2>3. Alone(s) /\ handler'[s].proposal = handler[s].proposal
    BY <2>1, <2>2 DEF Alone, Busy
  <2>4. \A q \in Request : Busy(q)' /\ handler'[q].proposal = handler'[s].proposal => q = s
    BY <1>1, <2>2, <2>3
  <2>5. KnowsItem(s)'
    <3>1. CASE s = r
      <4>1. handler'[r] # Done
        BY <3>1 DEF Alone, Busy
      <4> QED
        BY <1>1, <1>6, <2>3, <3>1, <4>1, AloneHandle
    <3>2. CASE s # r
      <4>1. handler[s].proposal # handler[r].proposal /\ handler[s].proposal \in Proposal
        BY <1>1, <2>1, <2>3, <3>2, BusyTyped DEF Alone
      <4>2. handler'[s] = handler[s] /\ proposal'[handler[s].proposal] = proposal[handler[s].proposal]
        BY <2>1, <3>2, <4>1
      <4> QED
        BY <1>1, <2>3, <4>2 DEF KnowsItem
    <3> QED
      BY <3>1, <3>2
  <2> QED
    BY <2>4, <2>5
<1>7. World => UNCHANGED <<proposal, handler>> \/ Restart \/ \E p \in Proposal : Draft(p)
  BY DEF World, UpdateSource, MoveCost, Expire
<1>8. UNCHANGED vars => UNCHANGED <<proposal, handler>>
  BY DEF vars
<1> QED
  BY <1>2, <1>3, <1>4, <1>5, <1>6, <1>7, <1>8 DEF Next

\* The step of a request that has its proposal to itself, as LifecycleWhenAlone has it.
AlongLifecycle ==
    \A r \in Request :
        (handler[r] \notin {Waiting, Done} /\ handler[r].alone) =>
            LET p == handler[r].proposal IN
              proposal'[p] \notin {proposal[p], Lost} =>
                  <<proposal[p].state, proposal'[p].state>> \in Lifecycle

LEMMA LifecycleStep ==
    ASSUME TypeOK, AloneInv, [Next]_vars
    PROVE  AlongLifecycle
<1> SUFFICES ASSUME NEW s \in Request, Alone(s), proposal'[handler[s].proposal] # proposal[handler[s].proposal],
                    proposal'[handler[s].proposal] # Lost
             PROVE  <<proposal[handler[s].proposal].state, proposal'[handler[s].proposal].state>> \in Lifecycle
  BY DEF AlongLifecycle, Alone, Busy
<1>1. /\ KnowsItem(s) /\ handler[s] \in Working /\ handler[s].proposal \in Proposal
      /\ \A q \in Request : Busy(q) /\ handler[q].proposal = handler[s].proposal => q = s
  BY InFlightIs, BusyTyped DEF AloneInv, Alone
<1>2. proposal[handler[s].proposal] # Undrafted
  BY <1>1 DEF KnowsItem, Working, Item, Undrafted
<1>3. ASSUME NEW r \in Request, Handle(r)
      PROVE  <<proposal[handler[s].proposal].state, proposal'[handler[s].proposal].state>> \in Lifecycle
  <2>1. Busy(r) /\ handler[r].proposal = handler[s].proposal
    BY <1>1, <1>3, HandleMoves
  <2> QED
    BY <1>1, <1>3, <2>1, AloneHandle
<1>4. ~World
  BY <1>1, <1>2 DEF World, UpdateSource, MoveCost, Draft, Expire, Restart, TypeOK
<1>5. \A r, p, pc : ~Load(r, p, pc)
  BY DEF Load
<1>6. ~ UNCHANGED vars
  BY DEF vars
<1> QED
  BY <1>3, <1>4, <1>5, <1>6 DEF Next

\* A request that meets no other one on its proposal moves it along the lifecycle of
\* ActionProposal only, whatever requests on other proposals, drafts, expiries and
\* restarts come in between.
THEOREM LifecycleKept == Spec => LifecycleWhenAlone
<1>1. Init => AloneInv
  BY DEF Init, AloneInv, Alone, Busy
<1>2. TypeOK /\ AloneInv /\ [Next]_vars => AloneInv'
  BY AloneStep
<1>3. TypeOK /\ AloneInv /\ [Next]_vars => [AlongLifecycle]_vars
  BY LifecycleStep
<1>4. [][AlongLifecycle]_vars => LifecycleWhenAlone
  BY PTL DEF LifecycleWhenAlone, AlongLifecycle
<1> QED
  BY <1>1, <1>2, <1>3, <1>4, TypeCorrect, PTL DEF Spec

=============================================================================
