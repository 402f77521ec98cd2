---------------------------- MODULE ProposalReview ----------------------------
(***************************************************************************)
(* AI purchase proposals: built by proposals/builder.py, held in the       *)
(* process by ProposalStore, approved and rejected by the handlers of      *)
(* api/routes/proposals.py, executed by proposals/executor.py through      *)
(* PostgresOperationsStore.create_order.  The handlers are plain functions *)
(* that the server runs on a thread each: what one of them loaded may have *)
(* changed by the time it stores its own version of it, and the store's    *)
(* update compares nothing.                                                *)
(*                                                                         *)
(* Permissions and tenants are left out: every request here may do what it *)
(* asks and is of the proposal's organization.                             *)
(***************************************************************************)
EXTENDS Naturals, Sequences

CONSTANTS
    Proposal,      \* proposal ids
    Request,       \* approve and reject requests
    Source,        \* the records an approval reads again, in the order it reads them
    MaxVersion     \* bound on the changes of each record and of the recorded cost

ASSUME SourceAssumption == Source \in Seq(STRING) /\ MaxVersion \in Nat \ {0}

VARIABLES
    version,       \* the live version of each source: product, supplier, warehouse
    cost,          \* how often the recorded unit cost of the product has moved
    expired,       \* proposals whose thirty minutes are over
    proposal,      \* ProposalStore._items
    orders,        \* purchase orders that executions have committed
    handler        \* each request's place in its handler and what it has read

vars == <<version, cost, expired, proposal, orders, handler>>

Versions == [DOMAIN Source -> 1..MaxVersion]

\* Statuses of an id the store does not hold: not drafted yet, or lost with the process.
Undrafted == [state |-> "undrafted"]
Lost == [state |-> "lost"]

Item == [state : {"awaiting_review", "rejected", "executing", "succeeded", "failed"},
         version : Nat, evidence : Versions, price : 0..MaxVersion]

Order == [proposal : Proposal, by : Request, evidence : Versions, price : 0..MaxVersion,
          loaded : [versions : Versions, cost : 0..MaxVersion]]

\* What a handler keeps: the proposal's id, the item it loaded, the source
\* versions it has read again, and (history) the world when it loaded the item and
\* whether it has been the only one at work on the proposal since.
Waiting == [pc |-> "waiting"]
Done == [pc |-> "done"]
Working == [pc : {"rejecting", "revalidating", "executing", "succeeding", "failing"},
            proposal : Proposal, item : Item, live : Seq(1..MaxVersion),
            loaded : [versions : Versions, cost : 0..MaxVersion], alone : BOOLEAN]

InFlight(p) == {r \in Request : handler[r] \notin {Waiting, Done} /\ handler[r].proposal = p}

-----------------------------------------------------------------------------
(* The world the proposals are about. *)

\* A catalogue command changes a product, supplier or warehouse.
UpdateSource(i) ==
    /\ version[i] < MaxVersion
    /\ version' = [version EXCEPT ![i] = @ + 1]
    /\ UNCHANGED <<cost, expired, proposal, orders, handler>>

\* A costed posting moves the average unit cost of the product's positions.
MoveCost ==
    /\ cost < MaxVersion
    /\ cost' = cost + 1
    /\ UNCHANGED <<version, expired, proposal, orders, handler>>

\* PROPOSAL_TTL passes.
Expire(p) ==
    /\ p \notin expired
    /\ proposal[p] # Undrafted
    /\ expired' = expired \cup {p}
    /\ UNCHANGED <<version, cost, proposal, orders, handler>>

\* Mutant: the proposal is stored in state draft.
DraftUnreviewed(p) ==
    /\ proposal[p] = Undrafted
    /\ proposal' = [proposal EXCEPT ![p] =
          [state |-> "draft", version |-> 1, evidence |-> version, price |-> cost]]
    /\ UNCHANGED <<version, cost, expired, orders, handler>>

\* build_purchase_proposal and ProposalStore.add: the price is the recorded cost,
\* the evidence is the versions of the sources.
Draft(p) ==
    /\ proposal[p] = Undrafted
    /\ proposal' = [proposal EXCEPT ![p] =
          [state |-> "awaiting_review", version |-> 1, evidence |-> version, price |-> cost]]
    /\ UNCHANGED <<version, cost, expired, orders, handler>>

\* The process ends: its proposals and its handlers are gone, the orders are not.
Restart ==
    /\ proposal' = [p \in Proposal |-> IF proposal[p] = Undrafted THEN Undrafted ELSE Lost]
    /\ handler' = [r \in Request |-> IF handler[r] = Waiting THEN Waiting ELSE Done]
    /\ UNCHANGED <<version, cost, expired, orders>>

-----------------------------------------------------------------------------
(* Handlers. *)

InStore(p) == proposal[p] \notin {Undrafted, Lost}

Load(r, p, pc) ==
    /\ handler[r] = Waiting
    /\ InStore(p)
    /\ handler' = [x \in Request |->
          IF x = r
            THEN [pc |-> pc, proposal |-> p, item |-> proposal[p], live |-> <<>>,
                  loaded |-> [versions |-> version, cost |-> cost],
                  alone |-> InFlight(p) = {}]
            ELSE IF x \in InFlight(p) THEN [handler[x] EXCEPT !.alone = FALSE] ELSE handler[x]]
    /\ UNCHANGED <<version, cost, expired, proposal, orders>>

\* Mutant: only the time is looked at, not the state.
ReviewableInTime(p, item) == p \notin expired

\* ActionProposal.transition refuses a target the state does not allow, and any
\* target but EXPIRED once the time is over.
Reviewable(p, item) == item.state = "awaiting_review" /\ p \notin expired

\* ProposalStore.update writes the handler's own copy over whatever is stored.
Store(r, state, bump) ==
    LET item == [state |-> state, version |-> handler[r].item.version + bump,
                 evidence |-> handler[r].item.evidence, price |-> handler[r].item.price]
    IN  proposal' = [proposal EXCEPT ![handler[r].proposal] = item]

Finish(r) == handler' = [handler EXCEPT ![r] = Done]

Reject(r) ==
    /\ handler[r].pc = "rejecting"
    /\ Reviewable(handler[r].proposal, handler[r].item)
    /\ Store(r, "rejected", 1)
    /\ Finish(r)
    /\ UNCHANGED <<version, cost, expired, orders>>

\* current_source_versions reads the sources one kind after the other.
ReadSource(r) ==
    /\ handler[r].pc = "revalidating"
    /\ Len(handler[r].live) < Len(Source)
    /\ handler' = [handler EXCEPT ![r].live = Append(@, version[Len(@) + 1])]
    /\ UNCHANGED <<version, cost, expired, proposal, orders>>

Revalidated(r) == handler[r].pc = "revalidating" /\ Len(handler[r].live) = Len(Source)

\* Mutant: the versions are read again and not compared.
EvidenceIgnored(r) == TRUE

EvidenceHolds(r) == \A i \in DOMAIN Source : handler[r].live[i] = handler[r].item.evidence[i]

\* AWAITING_REVIEW to APPROVED to EXECUTING, stored in one update.
Approve(r) ==
    /\ Revalidated(r)
    /\ Reviewable(handler[r].proposal, handler[r].item)
    /\ EvidenceHolds(r)
    /\ Store(r, "executing", 2)
    /\ handler' = [handler EXCEPT ![r].pc = "executing"]
    /\ UNCHANGED <<version, cost, expired, orders>>

\* A handler that may not go on answers 409 or 412 and changes nothing.
Refuse(r) ==
    /\ \/ handler[r].pc = "rejecting" /\ ~Reviewable(handler[r].proposal, handler[r].item)
       \/ /\ Revalidated(r)
          /\ ~(Reviewable(handler[r].proposal, handler[r].item) /\ EvidenceHolds(r))
    /\ Finish(r)
    /\ UNCHANGED <<version, cost, expired, proposal, orders>>

\* Mutant: every execution uses a key of its own.
KeyAlwaysFree(p) == TRUE

\* create_order claims the key proposal:<id>, which is free until one execution
\* of the proposal has committed.
KeyFree(p) == \A o \in orders : o.proposal # p

CreateOrder(r) ==
    /\ handler[r].pc = "executing"
    /\ KeyFree(handler[r].proposal)
    /\ orders' = orders \cup {[proposal |-> handler[r].proposal, by |-> r,
                               evidence |-> handler[r].item.evidence,
                               price |-> handler[r].item.price,
                               loaded |-> handler[r].loaded]}
    /\ handler' = [handler EXCEPT ![r].pc = "succeeding"]
    /\ UNCHANGED <<version, cost, expired, proposal>>

\* The key was claimed with another created_at, the supplier is gone, the database
\* cannot be reached: create_order raises and has written nothing.  A conflict of
\* versions alone would be passed on with the proposal executing; neither store
\* raises one there.
OrderRefused(r) ==
    /\ handler[r].pc = "executing"
    /\ handler' = [handler EXCEPT ![r].pc = "failing"]
    /\ UNCHANGED <<version, cost, expired, proposal, orders>>

\* Mutant: a success is recorded before the order exists.
RecordOptimistic(r) ==
    /\ handler[r].pc \in {"succeeding", "failing"}
    /\ handler[r].proposal \notin expired
    /\ Store(r, "succeeded", 3)
    /\ Finish(r)
    /\ UNCHANGED <<version, cost, expired, orders>>

\* Mutant: a failed execution is not recorded.
RecordSuccessOnly(r) ==
    /\ handler[r].pc \in {"succeeding", "failing"}
    /\ handler[r].proposal \notin expired
    /\ IF handler[r].pc = "succeeding" THEN Store(r, "succeeded", 3) ELSE UNCHANGED proposal
    /\ Finish(r)
    /\ UNCHANGED <<version, cost, expired, orders>>

\* EXECUTING to SUCCEEDED or FAILED, unless the time has run out meanwhile.
RecordResult(r) ==
    /\ handler[r].pc \in {"succeeding", "failing"}
    /\ handler[r].proposal \notin expired
    /\ Store(r, IF handler[r].pc = "succeeding" THEN "succeeded" ELSE "failed", 3)
    /\ Finish(r)
    /\ UNCHANGED <<version, cost, expired, orders>>

\* The transition raises "proposal has expired": the result is not stored.
ResultDropped(r) ==
    /\ handler[r].pc \in {"succeeding", "failing"}
    /\ handler[r].proposal \in expired
    /\ Finish(r)
    /\ UNCHANGED <<version, cost, expired, proposal, orders>>

-----------------------------------------------------------------------------

Init ==
    /\ version = [i \in DOMAIN Source |-> 1]
    /\ cost = 0
    /\ expired = {}
    /\ proposal = [p \in Proposal |-> Undrafted]
    /\ orders = {}
    /\ handler = [r \in Request |-> Waiting]

Handle(r) ==
    \/ Reject(r) \/ Refuse(r)
    \/ ReadSource(r) \/ Approve(r)
    \/ CreateOrder(r) \/ OrderRefused(r)
    \/ RecordResult(r) \/ ResultDropped(r)

World ==
    \/ \E i \in DOMAIN Source : UpdateSource(i)
    \/ MoveCost
    \/ \E p \in Proposal : Draft(p) \/ Expire(p)
    \/ Restart

Next ==
    \/ World
    \/ \E r \in Request : \/ \E p \in Proposal : Load(r, p, "rejecting") \/ Load(r, p, "revalidating")
                          \/ Handle(r)

Spec == Init /\ [][Next]_vars

\* A request that has been accepted has a thread that runs it to its end.
FairSpec == Spec /\ \A r \in Request : WF_vars(Handle(r))

-----------------------------------------------------------------------------
(* Properties. *)

TypeOK ==
    /\ version \in Versions
    /\ cost \in 0..MaxVersion
    /\ expired \subseteq Proposal
    /\ proposal \in [Proposal -> Item \cup {Undrafted, Lost}]
    /\ orders \subseteq Order
    /\ handler \in [Request -> Working \cup {Waiting, Done}]

\* proposals/executor.py: "approving twice cannot create two purchase orders",
\* even when both approvals run at once or the process restarts in between.
OneOrderPerProposal == \A o1, o2 \in orders : o1.proposal = o2.proposal => o1 = o2

\* An order is created only on evidence that still held when its approval came
\* in, although the sources are read one by one while they change.
OrderedOnLiveEvidence == \A o \in orders : o.loaded.versions = o.evidence

\* A proposal recorded as succeeded has its order, whoever recorded it.
SuccessHasOrder ==
    \A p \in Proposal : proposal[p].state = "succeeded" => \E o \in orders : o.proposal = p

\* A request that meets no other one on its proposal moves it along the lifecycle
\* of ALLOWED_TRANSITIONS only (APPROVED and EXECUTING are stored together).
Lifecycle == {<<"awaiting_review", "rejected">>, <<"awaiting_review", "executing">>,
              <<"executing", "succeeded">>, <<"executing", "failed">>}

LifecycleWhenAlone ==
    [][\A r \in Request :
          (handler[r] \notin {Waiting, Done} /\ handler[r].alone) =>
              LET p == handler[r].proposal IN
                proposal'[p] \notin {proposal[p], Lost} =>
                    <<proposal[p].state, proposal'[p].state>> \in Lifecycle]_vars

\* An execution comes to an end that is on record, unless the proposal expires
\* meanwhile or the process is restarted.
ExecutionResolved ==
    \A p \in Proposal :
        proposal[p].state = "executing" ~>
            proposal[p].state # "executing" \/ p \in expired

\* tests/test_proposals_flow.py: a rejected proposal never executes.
RejectedNeverOrdered ==
    \A o \in orders : proposal[o.proposal].state # "rejected"

=============================================================================
