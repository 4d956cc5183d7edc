SPECIFICATION FairSpec
CONSTANTS
    Wakeup = wakeup
    Events = {wakeup, listen, commands}
    Persistent = {wakeup, commands}
    Disposable = {}
    Timers = {t1}
    Threads = {p}
    Fds = {1, 2, 3}
    WakeupFd = 2
    MAX_FD_EVENTS = 3
    Delays = {1}
    NULL = NULL
    MaxTime = 2
    PipeSize = 1
    MaxFaults = 1
CHECK_DEADLOCK FALSE
PROPERTIES TimerFires ReadyServed
