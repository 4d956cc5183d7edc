------------------------------ MODULE RilEvent ------------------------------
(***************************************************************************)
(* The event loop of libril (libril/ril_event.cpp) together with the        *)
(* thread that runs it (eventLoop in libril/ril.cpp) and the wakeup pipe    *)
(* through which other threads interrupt its select().                      *)
(*                                                                          *)
(* The loop thread copies readFds and looks at the head of timer_list       *)
(* without holding listMutex, sleeps in select(), then moves the expired    *)
(* timers and the ready events to pending_list and runs their callbacks.    *)
(* Other threads add events and timers at any time and write one byte to    *)
(* the pipe afterwards.                                                     *)
(*                                                                          *)
(* listMutex is held in the program counters "readies" (loop thread) and    *)
(* "nfds" (other threads); every other locked body is a single step.        *)
(***************************************************************************)
EXTENDS Integers, Sequences, FiniteSets

CONSTANTS
    Events,         \* the struct ril_event objects used as file descriptor watches
    Wakeup,         \* s_wakeupfd_event, one of Events
    Persistent,     \* the events set up with persist = true
    Disposable,     \* the events that another event's callback may delete (none in ril.cpp)
    Timers,         \* the struct ril_event objects used as timers
    Threads,        \* the threads other than the loop thread
    Fds,            \* file descriptor numbers
    WakeupFd,       \* s_fdWakeupRead
    MAX_FD_EVENTS,  \* slots of watch_table
    Delays,         \* the relative timeouts passed to ril_timer_add
    NULL,
    MaxTime,        \* bound: the clock stops here
    PipeSize,       \* bytes the wakeup pipe holds before a writer blocks
    MaxFaults       \* bound: failing system calls in a behaviour

ASSUME EventsAssumption == Wakeup \in Events /\ Wakeup \in Persistent /\ Persistent \subseteq Events
ASSUME DisposableAssumption == Disposable \subseteq Events \ {Wakeup}
ASSUME DisjointAssumption == Events \cap Timers = {} /\ NULL \notin Events \cup Timers
ASSUME FdsAssumption == Fds \subseteq Nat /\ IsFiniteSet(Fds) /\ WakeupFd \in Fds
ASSUME BoundsAssumption ==
    /\ MAX_FD_EVENTS \in Nat \ {0}
    /\ PipeSize \in Nat \ {0}
    /\ MaxTime \in Nat
    /\ MaxFaults \in Nat
    /\ Delays \subseteq Nat

VARIABLES
    watch_table,    \* slot -> event or NULL
    index,          \* the slot an event believes it has, -1 if none
    fd,             \* the descriptor of an event, -1 before ril_event_set
    readFds, nfds,  \* the set handed to select() and its first argument
    timer_list,     \* timers in the order of their timeout
    timeout,        \* absolute expiry of a timer
    pending_list,   \* what this turn of the loop still has to call
    pc,             \* program counter of the loop thread
    rfds, n, i,     \* locals of ril_event_loop and processReadReadies
    tev, tv,        \* head seen by calcNextTimeout; the wait it computed (-1: none)
    cb,             \* event whose callback is running
    pipe,           \* bytes in the wakeup pipe, -1 before pipe()
    tpc, tadd,      \* program counter of the other threads, event being added
    now, ready, faults

tableVars == <<watch_table, index, fd, readFds, nfds>>
timerVars == <<timer_list, timeout>>
loopVars  == <<pc, rfds, n, i, tev, tv, cb>>
threadVars == <<tpc, tadd>>
envVars   == <<now, ready, faults>>
vars == <<tableVars, timerVars, pending_list, loopVars, pipe, threadVars, envVars>>

Slots == 0 .. MAX_FD_EVENTS - 1
Labels == {"pipe", "copy", "calc", "enter", "select", "timeouts", "readies",
           "fire", "cb", "exited", "returned"}

-----------------------------------------------------------------------------
(* Observers. *)

Watched(ev) == index[ev] # -1
InPending(ev) == \E k \in 1 .. Len(pending_list) : pending_list[k] = ev
Armed(t) == \E k \in 1 .. Len(timer_list) : timer_list[k] = t

\* listMutex is free.
Unlocked == pc # "readies" /\ \A t \in Threads : tpc[t] # "nfds"
\* The daemon runs: threads other than the loop can take steps.
Alive == pc # "exited"
\* select() reports the pipe's read end while it holds a byte.
Readable(f) == IF f = WakeupFd THEN pipe > 0 ELSE f \in ready

-----------------------------------------------------------------------------
(* ril_event.cpp: the watch table. *)

\* Slip: nfds becomes the highest descriptor, not one more.
removeWatch_NfdsOffByOne(ev, s) ==
    LET left == {watch_table[j] : j \in Slots \ {s}} \ {NULL}
        high == {0} \cup {fd[e] : e \in left}
    IN  /\ watch_table' = [watch_table EXCEPT ![s] = NULL]
        /\ index' = [index EXCEPT ![ev] = -1]
        /\ readFds' = readFds \ {fd[ev]}
        /\ IF fd[ev] + 1 = nfds
             THEN \E m \in high : (\A f \in high : f <= m) /\ nfds' = m
             ELSE nfds' = nfds
        /\ fd' = fd

\* removeWatch on a table where slot s holds ev.  nfds is only recomputed
\* when the largest descriptor goes away, and never falls below 1 then.
removeWatch(ev, s) ==
    LET left == {watch_table[j] : j \in Slots \ {s}} \ {NULL}
        high == {0} \cup {fd[e] : e \in left}
    IN  /\ watch_table' = [watch_table EXCEPT ![s] = NULL]
        /\ index' = [index EXCEPT ![ev] = -1]
        /\ readFds' = readFds \ {fd[ev]}
        /\ IF fd[ev] + 1 = nfds
             THEN \E m \in high : (\A f \in high : f <= m) /\ nfds' = m + 1
             ELSE nfds' = nfds
        /\ fd' = fd

\* The slot ril_event_add takes: the first empty one.
FirstFree(s) == watch_table[s] = NULL /\ \A j \in Slots : j < s => watch_table[j] # NULL
TableFull == \A s \in Slots : watch_table[s] # NULL

\* The part of ril_event_add up to FD_SET; the last statement of the body,
\* "if (ev->fd >= nfds) nfds = ev->fd+1", is RaiseNfds.
takeSlot(ev, s) ==
    /\ FirstFree(s)
    /\ watch_table' = [watch_table EXCEPT ![s] = ev]
    /\ index' = [index EXCEPT ![ev] = s]
    /\ readFds' = readFds \cup {fd[ev]}

RaiseNfds(ev) == nfds' = IF fd[ev] >= nfds THEN fd[ev] + 1 ELSE nfds

\* ril_event_add on the loop thread.  A full table drops the event silently.
ril_event_add(ev) ==
    \/ \E s \in Slots : takeSlot(ev, s) /\ RaiseNfds(ev) /\ fd' = fd
    \/ TableFull /\ UNCHANGED tableVars

\* ril_event_set; memset and the assignment reset the index.
ril_event_set(ev, f) ==
    /\ fd' = [fd EXCEPT ![ev] = f]
    /\ index' = [index EXCEPT ![ev] = -1]
    /\ UNCHANGED <<watch_table, readFds, nfds>>

\* ril_event_del.  It returns early for an event without a slot; an event
\* that is already in pending_list stays there.
ril_event_del(ev) ==
    \/ index[ev] \in Slots /\ removeWatch(ev, index[ev])
    \/ index[ev] \notin Slots /\ UNCHANGED tableVars

\* Slip: the sorted insertion is missing.
ril_timer_add_AtTail(t, delay) ==
    /\ timer_list' = Append(timer_list, t)
    /\ timeout' = [timeout EXCEPT ![t] = now + delay]

\* ril_timer_add: the new timer goes in front of the first timer whose
\* timeout is not smaller, so it overtakes timers of the same timeout.
ril_timer_add(t, delay) ==
    LET at == now + delay IN
    \E k \in 0 .. Len(timer_list) :
        /\ \A j \in 1 .. k : timeout[timer_list[j]] < at
        /\ k < Len(timer_list) => ~(timeout[timer_list[k + 1]] < at)
        /\ timer_list' = [j \in 1 .. Len(timer_list) + 1 |->
                            IF j <= k THEN timer_list[j]
                            ELSE IF j = k + 1 THEN t ELSE timer_list[j - 1]]
        /\ timeout' = [timeout EXCEPT ![t] = at]

-----------------------------------------------------------------------------
(* How the program uses the interface.  An event object is set up or added   *)
(* only while it is in no list, and deleted by its own callback unless it is *)
(* Disposable; a timer object is a fresh allocation, freed by its own        *)
(* callback (userTimerCallback).                                             *)

Free(ev) == ~Watched(ev) /\ ~InPending(ev) /\ \A t \in Threads : tadd[t] # ev
CanSet(ev, f) == /\ Free(ev) /\ ev # Wakeup /\ f # WakeupFd
                 /\ \A e \in Events \ {ev} : fd[e] # f
CanAdd(ev) == Free(ev) /\ ev # Wakeup /\ fd[ev] # -1
CanDel(ev) == ev # Wakeup /\ (cb = ev \/ ev \in Disposable)
CanStart(t, delay) == ~Armed(t) /\ ~InPending(t) /\ cb # t /\ now + delay < MaxTime

-----------------------------------------------------------------------------
(* The threads other than the loop thread. *)

\* A descriptor is opened and its event set up (RIL_register).
ThreadEventSet(t, ev, f) ==
    /\ Alive /\ tpc[t] = "idle" /\ CanSet(ev, f) /\ cb # ev
    /\ ril_event_set(ev, f)
    /\ UNCHANGED <<timerVars, pending_list, loopVars, pipe, threadVars, envVars>>

\* rilEventAddWakeup, first half of ril_event_add: the mutex stays held.
ThreadEventAdd(t, ev) ==
    /\ Alive /\ Unlocked /\ tpc[t] = "idle" /\ CanAdd(ev) /\ cb # ev
    /\ \/ /\ \E s \in Slots : takeSlot(ev, s)
          /\ tpc' = [tpc EXCEPT ![t] = "nfds"]
          /\ tadd' = [tadd EXCEPT ![t] = ev]
          /\ UNCHANGED <<fd, nfds>>
       \/ /\ TableFull
          /\ tpc' = [tpc EXCEPT ![t] = "trigger"]
          /\ UNCHANGED <<tableVars, tadd>>
    /\ UNCHANGED <<timerVars, pending_list, loopVars, pipe, envVars>>

\* The rest of ril_event_add; the mutex is released.
ThreadEventAdded(t) ==
    /\ Alive /\ tpc[t] = "nfds"
    /\ RaiseNfds(tadd[t])
    /\ tpc' = [tpc EXCEPT ![t] = "trigger"]
    /\ tadd' = [tadd EXCEPT ![t] = NULL]
    /\ UNCHANGED <<watch_table, index, fd, readFds, timerVars, pending_list,
                   loopVars, pipe, envVars>>

\* Slip: internalRequestTimedCallback forgets triggerEvLoop.
ThreadTimerAdd_Silent(t, tm, delay) ==
    /\ Alive /\ Unlocked /\ tpc[t] = "idle" /\ CanStart(tm, delay)
    /\ ril_timer_add(tm, delay)
    /\ UNCHANGED <<tableVars, pending_list, loopVars, pipe, threadVars, envVars>>

\* internalRequestTimedCallback up to triggerEvLoop.
ThreadTimerAdd(t, tm, delay) ==
    /\ Alive /\ Unlocked /\ tpc[t] = "idle" /\ CanStart(tm, delay)
    /\ ril_timer_add(tm, delay)
    /\ tpc' = [tpc EXCEPT ![t] = "trigger"]
    /\ UNCHANGED <<tableVars, pending_list, loopVars, pipe, tadd, envVars>>

\* triggerEvLoop.  Before pipe() the byte goes to descriptor 0; the write
\* blocks while the pipe is full.
triggerEvLoop(t) ==
    /\ Alive /\ tpc[t] = "trigger" /\ pipe < PipeSize
    /\ pipe' = IF pipe = -1 THEN -1 ELSE pipe + 1
    /\ tpc' = [tpc EXCEPT ![t] = "idle"]
    /\ UNCHANGED <<tableVars, timerVars, pending_list, loopVars, tadd, envVars>>

-----------------------------------------------------------------------------
(* The loop thread. *)

\* eventLoop after the startup handshake: pipe() and the wakeup event.
OpenPipe ==
    /\ pc = "pipe" /\ Unlocked
    /\ pipe' = 0
    /\ LET ev == Wakeup IN
       \/ \E s \in Slots :
             /\ FirstFree(s)
             /\ watch_table' = [watch_table EXCEPT ![s] = ev]
             /\ index' = [index EXCEPT ![ev] = s]
             /\ readFds' = readFds \cup {WakeupFd}
             /\ nfds' = IF WakeupFd >= nfds THEN WakeupFd + 1 ELSE nfds
       \/ TableFull /\ UNCHANGED <<watch_table, index, readFds, nfds>>
    /\ fd' = [fd EXCEPT ![Wakeup] = WakeupFd]
    /\ pc' = "copy"
    /\ UNCHANGED <<timerVars, pending_list, rfds, n, i, tev, tv, cb, threadVars, envVars>>

\* eventLoop returns when pipe() fails: the daemon stays without a loop.
OpenPipeFails ==
    /\ pc = "pipe" /\ faults < MaxFaults
    /\ pc' = "returned"
    /\ faults' = faults + 1
    /\ UNCHANGED <<tableVars, timerVars, pending_list, rfds, n, i, tev, tv, cb,
                   pipe, threadVars, now, ready>>

\* memcpy(&rfds, &readFds), without the mutex.
CopyReadFds ==
    /\ pc = "copy"
    /\ rfds' = readFds
    /\ pc' = "calc"
    /\ UNCHANGED <<tableVars, timerVars, pending_list, n, i, tev, tv, cb, pipe,
                   threadVars, envVars>>

\* Slip: an expired timer is not told apart, the difference is used as it is.
calcNextTimeout_NoClamp ==
    /\ pc = "calc"
    /\ IF timer_list = <<>>
         THEN tev' = NULL /\ tv' = -1
         ELSE tev' = Head(timer_list) /\ tv' = timeout[Head(timer_list)] - now
    /\ pc' = "enter"
    /\ UNCHANGED <<tableVars, timerVars, pending_list, rfds, n, i, cb, pipe,
                   threadVars, envVars>>

\* Slip: an expired timer is treated like no timer.
calcNextTimeout_ExpiredBlocks ==
    /\ pc = "calc"
    /\ IF timer_list = <<>> \/ ~(timeout[Head(timer_list)] > now)
         THEN tev' = NULL /\ tv' = -1
         ELSE tev' = Head(timer_list) /\ tv' = timeout[Head(timer_list)] - now
    /\ pc' = "enter"
    /\ UNCHANGED <<tableVars, timerVars, pending_list, rfds, n, i, cb, pipe,
                   threadVars, envVars>>

\* calcNextTimeout, without the mutex; ptv = NULL is tv = -1.
calcNextTimeout ==
    /\ pc = "calc"
    /\ IF timer_list = <<>>
         THEN tev' = NULL /\ tv' = -1
         ELSE LET at == timeout[Head(timer_list)] IN
              /\ tev' = Head(timer_list)
              /\ tv' = IF at > now THEN at - now ELSE 0
    /\ pc' = "enter"
    /\ UNCHANGED <<tableVars, timerVars, pending_list, rfds, n, i, cb, pipe,
                   threadVars, envVars>>

\* nfds is read and select() entered; it watches the descriptors below nfds
\* and counts its own timeout from here.
EnterSelect ==
    /\ pc = "enter"
    /\ rfds' = {f \in rfds : f < nfds}
    /\ tv' = IF tv = -1 THEN -1 ELSE now + tv
    /\ pc' = "select"
    /\ UNCHANGED <<tableVars, timerVars, pending_list, n, i, tev, cb, pipe,
                   threadVars, envVars>>

\* select() returns the readable descriptors, or none at its timeout.  The
\* bounded clock's last instant stands for every later one.
SelectReturns ==
    /\ pc = "select"
    /\ LET hit == {f \in rfds : Readable(f)} IN
       /\ hit # {} \/ (tv # -1 /\ (now >= tv \/ now = MaxTime))
       /\ rfds' = hit
       /\ n' = Cardinality(hit)
    /\ tev' = NULL /\ tv' = -1
    /\ pc' = "timeouts"
    /\ UNCHANGED <<tableVars, timerVars, pending_list, i, cb, pipe, threadVars, envVars>>

\* EINTR: start over, without looking at the timers.
SelectInterrupted ==
    /\ pc = "select" /\ faults < MaxFaults
    /\ pc' = "copy"
    /\ rfds' = {} /\ tev' = NULL /\ tv' = -1
    /\ faults' = faults + 1
    /\ UNCHANGED <<tableVars, timerVars, pending_list, n, i, cb, pipe, threadVars, now, ready>>

\* Any other error: ril_event_loop returns and eventLoop kills the process.
SelectFails ==
    /\ pc = "select" /\ faults < MaxFaults
    /\ pc' = "exited"
    /\ faults' = faults + 1
    /\ UNCHANGED <<tableVars, timerVars, pending_list, rfds, n, i, tev, tv, cb, pipe,
                   threadVars, now, ready>>

\* processTimeouts: the timers before the first one that has not expired.
Expired(t) == now > timeout[t]
\* Slip: removeFromList is missing.
processTimeouts_NoRemove ==
    /\ pc = "timeouts" /\ Unlocked
    /\ \E k \in 0 .. Len(timer_list) :
         /\ \A j \in 1 .. k : Expired(timer_list[j])
         /\ k < Len(timer_list) => ~Expired(timer_list[k + 1])
         /\ pending_list' = pending_list \o SubSeq(timer_list, 1, k)
    /\ pc' = "readies" /\ i' = 0
    /\ UNCHANGED <<tableVars, timerVars, rfds, n, tev, tv, cb, pipe, threadVars, envVars>>

processTimeouts ==
    /\ pc = "timeouts" /\ Unlocked
    /\ \E k \in 0 .. Len(timer_list) :
         /\ \A j \in 1 .. k : Expired(timer_list[j])
         /\ k < Len(timer_list) => ~Expired(timer_list[k + 1])
         /\ timer_list' = SubSeq(timer_list, k + 1, Len(timer_list))
         /\ pending_list' = pending_list \o SubSeq(timer_list, 1, k)
    /\ pc' = "readies" /\ i' = 0
    /\ UNCHANGED <<tableVars, timeout, rfds, n, tev, tv, cb, pipe, threadVars, envVars>>

\* Slip: a non-persistent event stays in the table.
processReadReadies_KeepWatch ==
    /\ pc = "readies" /\ i < MAX_FD_EVENTS /\ n > 0
    /\ LET rev == watch_table[i] IN
       IF rev # NULL /\ fd[rev] \in rfds
         THEN pending_list' = Append(pending_list, rev) /\ n' = n - 1
         ELSE UNCHANGED <<pending_list, n>>
    /\ i' = i + 1
    /\ UNCHANGED <<tableVars, timerVars, pc, rfds, tev, tv, cb, pipe, threadVars, envVars>>

\* Slip: an event that leaves the table is not queued.
processReadReadies_DropsOneShot ==
    /\ pc = "readies" /\ i < MAX_FD_EVENTS /\ n > 0
    /\ LET rev == watch_table[i] IN
       IF rev # NULL /\ fd[rev] \in rfds
         THEN /\ n' = n - 1
              /\ IF rev \in Persistent
                   THEN pending_list' = Append(pending_list, rev) /\ UNCHANGED tableVars
                   ELSE pending_list' = pending_list /\ removeWatch(rev, i)
         ELSE UNCHANGED <<tableVars, pending_list, n>>
    /\ i' = i + 1
    /\ UNCHANGED <<timerVars, pc, rfds, tev, tv, cb, pipe, threadVars, envVars>>

\* One turn of the loop of processReadReadies: slot i is looked at.
processReadReadies ==
    /\ pc = "readies" /\ i < MAX_FD_EVENTS /\ n > 0
    /\ LET rev == watch_table[i] IN
       IF rev # NULL /\ fd[rev] \in rfds
         THEN /\ pending_list' = Append(pending_list, rev)
              /\ n' = n - 1
              /\ IF rev \in Persistent THEN UNCHANGED tableVars ELSE removeWatch(rev, i)
         ELSE UNCHANGED <<tableVars, pending_list, n>>
    /\ i' = i + 1
    /\ UNCHANGED <<timerVars, pc, rfds, tev, tv, cb, pipe, threadVars, envVars>>

\* The loop of processReadReadies ends; the mutex is released.
ReadiesDone ==
    /\ pc = "readies" /\ (i = MAX_FD_EVENTS \/ n = 0)
    /\ pc' = "fire"
    /\ rfds' = {} /\ n' = 0 /\ i' = 0
    /\ UNCHANGED <<tableVars, timerVars, pending_list, tev, tv, cb, pipe, threadVars, envVars>>

\* firePending takes the first pending event off the list and calls it.
firePending ==
    /\ pc = "fire" /\ pending_list # <<>>
    /\ cb' = Head(pending_list)
    /\ pending_list' = Tail(pending_list)
    /\ pc' = "cb"
    /\ UNCHANGED <<tableVars, timerVars, rfds, n, i, tev, tv, pipe, threadVars, envVars>>

\* Nothing is left: next turn of ril_event_loop.
FireDone ==
    /\ pc = "fire" /\ pending_list = <<>>
    /\ pc' = "copy"
    /\ UNCHANGED <<tableVars, timerVars, pending_list, rfds, n, i, tev, tv, cb, pipe,
                   threadVars, envVars>>

-----------------------------------------------------------------------------
(* What a callback does.  It runs on the loop thread, where triggerEvLoop    *)
(* writes nothing.                                                           *)

InCallback == pc = "cb" /\ cb # Wakeup

CallbackEventSet(ev, f) ==
    /\ InCallback /\ CanSet(ev, f)
    /\ ril_event_set(ev, f)
    /\ UNCHANGED <<timerVars, pending_list, loopVars, pipe, threadVars, envVars>>

CallbackEventAdd(ev) ==
    /\ InCallback /\ Unlocked /\ CanAdd(ev)
    /\ ril_event_add(ev)
    /\ UNCHANGED <<timerVars, pending_list, loopVars, pipe, threadVars, envVars>>

CallbackEventDel(ev) ==
    /\ InCallback /\ Unlocked /\ CanDel(ev)
    /\ ril_event_del(ev)
    /\ UNCHANGED <<timerVars, pending_list, loopVars, pipe, threadVars, envVars>>

CallbackTimerAdd(tm, delay) ==
    /\ InCallback /\ Unlocked /\ CanStart(tm, delay)
    /\ ril_timer_add(tm, delay)
    /\ UNCHANGED <<tableVars, pending_list, loopVars, pipe, threadVars, envVars>>

\* The callback of a descriptor may have read everything there was, or not.
CallbackReturns ==
    /\ InCallback
    /\ \/ ready' = ready
       \/ cb \in Events /\ ready' = ready \ {fd[cb]}
    /\ cb' = NULL /\ pc' = "fire"
    /\ UNCHANGED <<tableVars, timerVars, pending_list, rfds, n, i, tev, tv, pipe,
                   threadVars, now, faults>>

\* processWakeupCallback drains the pipe.
processWakeupCallback ==
    /\ pc = "cb" /\ cb = Wakeup
    /\ pipe' = 0
    /\ cb' = NULL /\ pc' = "fire"
    /\ UNCHANGED <<tableVars, timerVars, pending_list, rfds, n, i, tev, tv,
                   threadVars, envVars>>

-----------------------------------------------------------------------------
(* The environment: time, data on descriptors, and the init process, which   *)
(* starts the killed daemon again.                                           *)

Tick == now < MaxTime /\ now' = now + 1
        /\ UNCHANGED <<tableVars, timerVars, pending_list, loopVars, pipe, threadVars,
                       ready, faults>>

Arrive(f) == /\ f # WakeupFd /\ f \notin ready /\ ready' = ready \cup {f}
             /\ UNCHANGED <<tableVars, timerVars, pending_list, loopVars, pipe,
                            threadVars, now, faults>>

\* The state eventLoop leaves after ril_event_init, when s_started is
\* broadcast and other threads may use the interface.
Init ==
    /\ watch_table = [s \in Slots |-> NULL]
    /\ index = [ev \in Events |-> -1]
    /\ fd = [ev \in Events |-> -1]
    /\ readFds = {} /\ nfds = 0
    /\ timer_list = <<>> /\ timeout = [t \in Timers |-> 0]
    /\ pending_list = <<>>
    /\ pc = "pipe" /\ rfds = {} /\ n = 0 /\ i = 0
    /\ tev = NULL /\ tv = -1 /\ cb = NULL
    /\ pipe = -1
    /\ tpc = [t \in Threads |-> "idle"] /\ tadd = [t \in Threads |-> NULL]
    /\ now = 0 /\ ready = {} /\ faults = 0

\* kill(0, SIGKILL) took every thread along; the new process starts empty.
Restart ==
    /\ pc = "exited"
    /\ watch_table' = [s \in Slots |-> NULL]
    /\ index' = [ev \in Events |-> -1]
    /\ fd' = [ev \in Events |-> -1]
    /\ readFds' = {} /\ nfds' = 0
    /\ timer_list' = <<>> /\ timeout' = [t \in Timers |-> 0]
    /\ pending_list' = <<>>
    /\ pc' = "pipe" /\ rfds' = {} /\ n' = 0 /\ i' = 0
    /\ tev' = NULL /\ tv' = -1 /\ cb' = NULL
    /\ pipe' = -1
    /\ tpc' = [t \in Threads |-> "idle"] /\ tadd' = [t \in Threads |-> NULL]
    /\ ready' = {} /\ UNCHANGED <<now, faults>>

LoopStep ==
    \/ OpenPipe \/ CopyReadFds \/ calcNextTimeout \/ EnterSelect
    \/ processTimeouts \/ processReadReadies \/ ReadiesDone
    \/ firePending \/ FireDone
    \/ CallbackReturns \/ processWakeupCallback
    \/ Restart

Callback ==
    \/ \E ev \in Events, f \in Fds : CallbackEventSet(ev, f)
    \/ \E ev \in Events : CallbackEventAdd(ev) \/ CallbackEventDel(ev)
    \/ \E tm \in Timers, d \in Delays : CallbackTimerAdd(tm, d)

ThreadCall(t) ==
    \/ \E ev \in Events, f \in Fds : ThreadEventSet(t, ev, f)
    \/ \E ev \in Events : ThreadEventAdd(t, ev)
    \/ \E tm \in Timers, d \in Delays : ThreadTimerAdd(t, tm, d)

ThreadStep(t) == ThreadEventAdded(t) \/ triggerEvLoop(t)

Fault == OpenPipeFails \/ SelectInterrupted \/ SelectFails

Next ==
    \/ LoopStep \/ SelectReturns \/ Callback
    \/ \E t \in Threads : ThreadCall(t) \/ ThreadStep(t)
    \/ Fault \/ Tick
    \/ \E f \in Fds : Arrive(f)

Spec == Init /\ [][Next]_vars

-----------------------------------------------------------------------------
(* Fairness.  The loop thread and the threads between a call and its write   *)
(* keep running, select() returns once it has a reason to, and time passes.  *)
(* Nobody is obliged to make calls, and no system call is obliged to fail.   *)

Fairness ==
    /\ WF_vars(LoopStep)
    /\ WF_vars(SelectReturns)
    /\ WF_vars(Tick)
    /\ \A t \in Threads : WF_vars(ThreadStep(t))

FairSpec == Spec /\ Fairness

-----------------------------------------------------------------------------
(* Properties. *)

\* The variables have their types: in particular the wait computed by
\* calcNextTimeout is never negative, whatever the clock did in between.
TypeOK ==
    /\ watch_table \in [Slots -> Events \cup {NULL}]
    /\ index \in [Events -> Slots \cup {-1}]
    /\ fd \in [Events -> Fds \cup {-1}]
    /\ readFds \subseteq Fds /\ nfds \in Nat
    /\ timer_list \in Seq(Timers) /\ timeout \in [Timers -> Nat]
    /\ pending_list \in Seq(Events \cup Timers)
    /\ pc \in Labels
    /\ rfds \subseteq Fds /\ n \in Nat /\ i \in 0 .. MAX_FD_EVENTS
    /\ tev \in Timers \cup {NULL} /\ tv \in Nat \cup {-1}
    /\ cb \in Events \cup Timers \cup {NULL}
    /\ pipe \in -1 .. PipeSize
    /\ tpc \in [Threads -> {"idle", "nfds", "trigger"}]
    /\ tadd \in [Threads -> Events \cup {NULL}]
    /\ now \in Nat /\ ready \subseteq Fds /\ faults \in Nat

\* watch_table, ev->index, readFds and nfds always tell the same story, with
\* callbacks and other threads adding and deleting events in any order: a slot
\* and its event point at each other, readFds holds exactly the watched
\* descriptors, and nfds is above all of them except one whose ril_event_add
\* has not yet reached its last statement.
WatchConsistent ==
    /\ \A s \in Slots : watch_table[s] # NULL => index[watch_table[s]] = s
    /\ \A ev \in Events : Watched(ev) => index[ev] \in Slots /\ watch_table[index[ev]] = ev
    /\ readFds = {fd[ev] : ev \in {e \in Events : Watched(e)}}
    /\ \A ev \in Events : Watched(ev) => \/ fd[ev] < nfds
                                          \/ \E t \in Threads : tadd[t] = ev

\* A non-persistent event that is waiting for its callback is not watched any
\* more: one ril_event_add of s_listen_event yields one accept.
OneShot == \A ev \in Events \ Persistent : InPending(ev) => ~Watched(ev)

\* The intrusive lists stay well formed: an event object is in at most one
\* of timer_list and pending_list, and at most once.  addToList on an object
\* that is already linked would corrupt both lists.
Distinct(seq) == \A j, k \in 1 .. Len(seq) : j # k => seq[j] # seq[k]
ListIntegrity ==
    /\ Distinct(timer_list) /\ Distinct(pending_list)
    /\ \A t \in Timers : ~(Armed(t) /\ InPending(t))

\* Timers are called in the order of their timeouts and never early: the timers
\* in pending_list have expired, in order, and none of them is later than a timer
\* that is still armed, also when callbacks and threads add timers meanwhile.
TimersInOrder ==
    /\ \A j, k \in 1 .. Len(timer_list) :
          j < k => timeout[timer_list[j]] <= timeout[timer_list[k]]
    /\ \A j, k \in 1 .. Len(pending_list) :
          j < k /\ pending_list[j] \in Timers /\ pending_list[k] \in Timers
            => timeout[pending_list[j]] <= timeout[pending_list[k]]
    /\ \A t \in Timers : InPending(t) => /\ timeout[t] < now
                                         /\ \A u \in Timers : Armed(u) => timeout[t] <= timeout[u]

\* Somebody is about to interrupt select(): a byte is in the pipe, or a thread
\* has changed the lists and not yet written its byte.
Doorbell == pipe > 0 \/ \E t \in Threads : tpc[t] # "idle"

\* No wakeup is lost although the loop thread reads readFds, timer_list and
\* nfds without the mutex: whenever it is on its way into select() or sleeping
\* there, the pipe is among the descriptors select() looks at and, unless the
\* pipe is about to interrupt it, so is every watched descriptor, and the wait
\* was computed from a timer no later than the first one in timer_list.  (A full
\* watch_table drops events silently; the claim is for a loop whose own
\* s_wakeupfd_event found a slot.)
NoLostWakeup ==
    pc \in {"calc", "enter", "select"} /\ Watched(Wakeup) =>
        /\ WakeupFd \in rfds
        /\ \/ Doorbell
           \/ /\ \A ev \in Events : Watched(ev) => fd[ev] \in rfds
              /\ pc # "calc" /\ timer_list # <<>> =>
                   tev # NULL /\ tv # -1 /\ timeout[tev] <= timeout[Head(timer_list)]

Down == pc \in {"exited", "returned"}

\* A timer that was added is called eventually, unless the loop ends.
TimerFires == \A t \in Timers : Armed(t) ~> (cb = t \/ Down)

\* Data on a watched descriptor is served eventually: the event's own callback
\* runs, unless the loop ends.  A one-shot event leaves the table when it is
\* queued, so that it is not enough that it is not watched any more.  (An event
\* that another callback may delete can lose its turn and is left out.)
ReadyServed ==
    \A ev \in Events \ Disposable :
        (Watched(ev) /\ Readable(fd[ev])) ~> (cb = ev \/ Down)

=============================================================================
