CONSTANTS
    Threads = {t1, t2}
    LoopThread = loop
    PipeCapacity = 2
    MaxFunctors = 4
    PipeWaker = TRUE
SPECIFICATION Spec
INVARIANTS
    TypeOK
    NoLostWakeup
    RunsInOrder
PROPERTIES
    EveryFunctorRuns
    WakesDrain
    ImplementsTaskQueue
