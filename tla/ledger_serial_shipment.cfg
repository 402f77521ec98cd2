\* A serial unit, reserved and shipped against an order line.
CONSTANTS
    east = east
    west = west
    tag = tag
    NoPosition = NoPosition
    Position = {east, west, tag}
    Sellable = {east, tag}
    Serial = {tag}
    Key = {k1, k2, k3, k4}
    Quantity = {1, 2}
    Route <- MCRoute
    IssuedAs <- MCIssuedAsUntracked
SYMMETRY KeySymmetry
SPECIFICATION Spec
INVARIANT OnHandReconciled
