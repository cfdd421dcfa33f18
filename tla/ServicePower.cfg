\* Two controllers on an Intel or an AMD bus, or an I2C provider.
CONSTANTS
    PowerDeadline = 1
    InterpreterDeadline = 1
    AckDeadline = 2
    Controllers = 2
    Buses = {"Intel", "AMD", "I2C"}
SPECIFICATION LiveSpec
INVARIANTS
    TypeOK
    HostAllOrNothing
    AsleepLetsGo
    RunningNeedsBus
    PendingIsPolled
    AnswerIsComing
    IdentityFirst
    ProbesMeetLiveBus
PROPERTIES
    MemoryRestored
    StartupSettles
    WakeAnswered
