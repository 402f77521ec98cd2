\* An approval and a rejection at once.
CONSTANTS
    Proposal = {p1}
    Request = {r1, r2}
    Source <- MCSource
    MaxVersion = 1
SYMMETRY RequestSymmetry
SPECIFICATION Spec
INVARIANT RejectedNeverOrdered
CHECK_DEADLOCK FALSE
