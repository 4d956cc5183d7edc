SPECIFICATION Spec
CONSTANTS
    Wakeup = wakeup
    Events = {wakeup, listen, debug}
    Persistent = {wakeup, debug}
    Disposable = {listen, debug}
    Timers = {t1, t2}
    Threads = {p}
    Fds = {1, 2, 3}
    WakeupFd = 2
    MAX_FD_EVENTS = 2
    Delays = {0, 1}
    NULL = NULL
    MaxTime = 2
    PipeSize = 1
    MaxFaults = 1
SYMMETRY Symmetry
CHECK_DEADLOCK FALSE
INVARIANTS TypeOK WatchConsistent OneShot ListIntegrity TimersInOrder NoLostWakeup
