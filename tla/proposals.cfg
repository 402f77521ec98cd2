\* One proposal, two concurrent reviewers, every record changing once.
CONSTANTS
    Proposal = {p1}
    Request = {r1, r2}
    Source <- MCSource
    MaxVersion = 2
SPECIFICATION FairSpec
INVARIANTS
    TypeOK
    OneOrderPerProposal
    OrderedOnLiveEvidence
    SuccessHasOrder
PROPERTIES
    LifecycleWhenAlone
    ExecutionResolved
\* When the requests are answered and nothing changes any more, all is quiet.
CHECK_DEADLOCK FALSE
