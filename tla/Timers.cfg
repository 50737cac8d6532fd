SPECIFICATION Spec
CONSTANTS
    MaxTimers = 4
    PerMilli = 2
    PerSecond = 4
    IntMax = 15
    Start = 45
    End = 52
    Delays = {1}
    Times <- MCTimes
    Intervals = {1}
INVARIANTS TypeOK HeapOrdered NextTimeIsTop WakesForTimer
PROPERTIES TimersRun ImplementsTimerService
CHECK_DEADLOCK FALSE
