\* One task and three events, commands and any disturbances, with a second identity
\* and an operator who synchronizes.
CONSTANTS
    Task = {t1}
    Identity = {alice, bob}
    Owner = alice
    Nobody = Nobody
    TasksOf <- TogetherTasksOf
    NotCached = NotCached
    Others = {"assigned"}
    MaxCommands = 3
    MaxEvents = 3
SPECIFICATION DiligentSpec
INVARIANTS
    TypeOK
    ReplayedInOrder
    HeldBehindBlocked
    LeavesWhenSettled
    DiscardedStaysOut
    ClearedBeforeEntry
PROPERTIES
    Drains
\* With all commands recorded and settled nothing need happen any more.
CHECK_DEADLOCK FALSE
