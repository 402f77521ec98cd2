\* Two commands, the second recorded offline while the first is being sent.
CONSTANTS
    Task = {t1}
    Identity = {alice}
    Owner = alice
    Nobody = Nobody
    TasksOf <- TogetherTasksOf
    NotCached = NotCached
    Others = {"assigned", "cancelled"}
    MaxCommands = 2
    MaxEvents = 3
SPECIFICATION FairSpec
PROPERTIES
    SynchronizedOnReturn
\* With all commands recorded and settled nothing need happen any more.
CHECK_DEADLOCK FALSE
