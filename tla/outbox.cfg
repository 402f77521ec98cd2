\* Three events, two workers, two faults.
CONSTANTS
    Event = {e1, e2, e3}
    Worker = {w1, w2}
    MaxFaults = 2
SPECIFICATION Spec
INVARIANTS
    TypeOK
    DuplicatesOnlyAfterRollback
PROPERTIES
    AtLeastOnceDelivery
CHECK_DEADLOCK FALSE
