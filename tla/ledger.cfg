\* Four commands over one stock key in each of two warehouses and a serial position.
CONSTANTS
    east = east
    west = west
    tag = tag
    NoPosition = NoPosition
    Position = {east, west, tag}
    Sellable = {east, tag}
    Serial = {tag}
    Key = {k1, k2, k3, k4}
    Quantity = {1, 2}
    Route <- MCRoute
    IssuedAs <- MCIssuedAsReserved
SYMMETRY KeySymmetry
SPECIFICATION Spec
INVARIANTS
    TypeOK
    ReservedReconciled
    OnHandReconciled
    InTransitCleared
    NoOversell
    NoLostUpdate
PROPERTIES
    ReservationEndsOnce
    ReferenceRules
