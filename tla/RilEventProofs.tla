--------------------------- MODULE RilEventProofs ---------------------------
(* Proofs about RilEvent, for any table size, any set of events, timers,      *)
(* descriptors and threads: the watch table stays consistent, the intrusive   *)
(* lists stay well formed, timers stay in order and no wakeup is lost.        *)
EXTENDS RilEvent, FiniteSetTheorems, SequenceTheorems, TLAPS

\* A thread in the middle of ril_event_add has its event, which is not the
\* wakeup event and has a descriptor; it excludes processReadReadies.
Adding ==
    /\ \A t \in Threads : tadd[t] # NULL => tpc[t] = "nfds"
    /\ \A t \in Threads : tpc[t] = "nfds" => /\ tadd[t] \in Events \ {Wakeup}
                                             /\ fd[tadd[t]] \in Fds
    /\ pc = "readies" => \A t \in Threads : tpc[t] # "nfds"

\* Every watched event has a descriptor, and no two events have the same one;
\* the pipe belongs to the wakeup event.
FdsOwned ==
    /\ \A ev \in Events : Watched(ev) => fd[ev] \in Fds
    /\ \A e1, e2 \in Events : e1 # e2 /\ fd[e1] # -1 => fd[e1] # fd[e2]
    /\ fd[Wakeup] \in {-1, WakeupFd}
    /\ \A ev \in Events \ {Wakeup} : fd[ev] # WakeupFd

\* The wakeup event is watched only after pipe().
PipeOpen ==
    /\ pc = "pipe" => ~Watched(Wakeup)
    /\ Watched(Wakeup) => pipe >= 0

\* pending_list is empty before the timeouts are processed, and the scan of the
\* table has only queued events of the slots it has passed.
Scanned ==
    /\ pc \in {"pipe", "copy", "calc", "enter", "select", "timeouts"} => pending_list = <<>>
    /\ pc = "readies" => \A ev \in Events : InPending(ev) /\ Watched(ev) => index[ev] < i

IInv ==
    /\ TypeOK /\ Adding /\ FdsOwned /\ PipeOpen /\ Scanned
    /\ WatchConsistent /\ OneShot /\ ListIntegrity /\ TimersInOrder /\ NoLostWakeup

-----------------------------------------------------------------------------
(* Sequences. *)

\* Inserting an element after position k of a sequence gives a sequence.
LEMMA InsertFacts ==
    ASSUME NEW S, NEW s \in Seq(S), NEW e \in S, NEW k \in 0 .. Len(s), NEW r,
           r = [j \in 1 .. Len(s) + 1 |-> IF j <= k THEN s[j]
                                          ELSE IF j = k + 1 THEN e ELSE s[j - 1]]
    PROVE  r \in Seq(S) /\ Len(r) = Len(s) + 1
<1>1. Len(s) \in Nat
  OBVIOUS
<1>2. \A j \in 1 .. Len(s) + 1 : r[j] \in S
  BY <1>1
<1>3. r \in [1 .. Len(s) + 1 -> S]
  BY <1>1, <1>2
<1> QED
  BY <1>1, <1>3, SeqDef

\* Cutting a sequence after position k.
LEMMA CutFacts ==
    ASSUME NEW S, NEW s \in Seq(S), NEW k \in 0 .. Len(s)
    PROVE  /\ SubSeq(s, 1, k) \in Seq(S) /\ Len(SubSeq(s, 1, k)) = k
           /\ \A j \in 1 .. k : SubSeq(s, 1, k)[j] = s[j]
           /\ SubSeq(s, k + 1, Len(s)) \in Seq(S) /\ Len(SubSeq(s, k + 1, Len(s))) = Len(s) - k
           /\ \A j \in 1 .. Len(s) - k : SubSeq(s, k + 1, Len(s))[j] = s[k + j]
BY SubSeqProperties

-----------------------------------------------------------------------------
(* Frames: what keeps a part of the invariant when its variables do not       *)
(* change.                                                                    *)

\* Adding does not depend on the lists or the clock.
LEMMA KeepAdding == Adding /\ UNCHANGED <<tpc, tadd, fd>> /\ (pc' = "readies" => pc = "readies") => Adding'
BY DEF Adding

\* FdsOwned speaks of index and fd only.
LEMMA KeepFds == FdsOwned /\ UNCHANGED <<index, fd>> => FdsOwned'
BY DEF FdsOwned, Watched

\* WatchConsistent speaks of the table and of the adds in progress.
LEMMA KeepWatch == WatchConsistent /\ UNCHANGED <<tableVars, tadd>> => WatchConsistent'
BY DEF WatchConsistent, Watched, tableVars

\* OneShot speaks of index and pending_list.
LEMMA KeepOneShot == OneShot /\ UNCHANGED <<index, pending_list>> => OneShot'
BY DEF OneShot, Watched, InPending

\* ListIntegrity speaks of the two lists.
LEMMA KeepLists == ListIntegrity /\ UNCHANGED <<timer_list, pending_list>> => ListIntegrity'
BY DEF ListIntegrity, Distinct, Armed, InPending

\* TimersInOrder survives the passing of time.
LEMMA KeepTimers ==
    TypeOK /\ TimersInOrder /\ UNCHANGED <<timer_list, pending_list, timeout>> /\ now' \in {now, now + 1}
        => TimersInOrder'
<1> SUFFICES ASSUME TypeOK, TimersInOrder, UNCHANGED <<timer_list, pending_list, timeout>>,
                    now' \in {now, now + 1}
             PROVE  TimersInOrder'
  OBVIOUS
<1>1. now \in Nat /\ now <= now' /\ timeout \in [Timers -> Nat]
  BY DEF TypeOK
<1>2. \A t \in Timers : InPending(t)' => timeout'[t] < now'
  BY <1>1 DEF TimersInOrder, InPending
<1>3. \A t \in Timers : InPending(t)' => \A u \in Timers : Armed(u)' => timeout'[t] <= timeout'[u]
  BY DEF TimersInOrder, InPending, Armed
<1> QED
  BY <1>2, <1>3 DEF TimersInOrder

\* NoLostWakeup says nothing outside the way into select().
LEMMA KeepAwake == pc' \notin {"calc", "enter", "select"} => NoLostWakeup'
BY DEF NoLostWakeup

-----------------------------------------------------------------------------
(* Types. *)

\* removeWatch keeps the types of the table.
LEMMA RemoveWatchType ==
    ASSUME TypeOK, NEW ev \in Events, NEW s \in Slots, removeWatch(ev, s)
    PROVE  /\ watch_table' \in [Slots -> Events \cup {NULL}]
           /\ index' \in [Events -> Slots \cup {-1}] /\ fd' = fd
           /\ readFds' \subseteq Fds /\ nfds' \in Nat
<1> USE FdsAssumption DEF TypeOK, removeWatch
<1>1. nfds' \in Nat
  <2> DEFINE left == {watch_table[j] : j \in Slots \ {s}} \ {NULL}
             high == {0} \cup {fd[e] : e \in left}
  <2>1. ASSUME NEW m \in high, \A f \in high : f <= m PROVE m + 1 \in Nat
    <3>1. m = 0 \/ \E e \in left : m = fd[e]
      BY DEF left
    <3>2. \A e \in left : fd[e] \in Fds \cup {-1}
      BY DEF left
    <3>3. m \in Int /\ 0 <= m
      BY <2>1, <3>1, <3>2
    <3> QED
      BY <3>3
  <2> QED
    BY <2>1
<1>2. watch_table' \in [Slots -> Events \cup {NULL}]
  OBVIOUS
<1>3. index' \in [Events -> Slots \cup {-1}]
  OBVIOUS
<1> QED
  BY <1>1, <1>2, <1>3

\* Descriptors are integers.
LEMMA FdInt == ASSUME TypeOK, NEW ev \in Events PROVE fd[ev] \in Int
<1>1. fd[ev] \in Fds \/ fd[ev] = -1
  BY DEF TypeOK
<1>2. CASE fd[ev] \in Fds
  <2>1. fd[ev] \in Nat
    BY <1>2, FdsAssumption, Zenon
  <2> QED
    BY <2>1
<1>3. CASE fd[ev] = -1
  BY <1>3
<1> QED
  BY <1>1, <1>2, <1>3

\* takeSlot keeps the types of the table.
LEMMA TakeSlotType ==
    ASSUME TypeOK, NEW ev \in Events, NEW s \in Slots, takeSlot(ev, s), fd[ev] \in Fds
    PROVE  /\ watch_table' \in [Slots -> Events \cup {NULL}]
           /\ index' \in [Events -> Slots \cup {-1}]
           /\ readFds' \subseteq Fds
<1>1. watch_table' \in [Slots -> Events \cup {NULL}]
  BY DEF TypeOK, takeSlot
<1>2. index' \in [Events -> Slots \cup {-1}]
  BY DEF TypeOK, takeSlot
<1>3. readFds' \subseteq Fds
  BY DEF TypeOK, takeSlot
<1> QED
  BY <1>1, <1>2, <1>3

\* The variables have their types initially.
LEMMA InitTypeOK == Init => TypeOK
BY BoundsAssumption, FdsAssumption DEF Init, TypeOK, Slots, Labels

\* The calls on the table keep the types.
LEMMA TableTypeOK ==
    ASSUME TypeOK, Adding, NEW t, NEW ev \in Events, NEW f \in Fds,
           \/ t \in Threads /\ (ThreadEventSet(t, ev, f) \/ ThreadEventAdd(t, ev) \/ ThreadEventAdded(t))
           \/ CallbackEventSet(ev, f) \/ CallbackEventAdd(ev) \/ CallbackEventDel(ev)
    PROVE  TypeOK'
<1> USE EventsAssumption, FdsAssumption, BoundsAssumption
<1>1. CASE ThreadEventSet(t, ev, f)
  BY <1>1 DEF TypeOK, ThreadEventSet, ril_event_set, timerVars, loopVars, threadVars, envVars
<1>2. CASE CallbackEventSet(ev, f)
  BY <1>2 DEF TypeOK, CallbackEventSet, ril_event_set, timerVars, loopVars, threadVars, envVars
<1>3. CASE t \in Threads /\ ThreadEventAdd(t, ev)
  <2>1. fd[ev] \in Fds
    BY <1>3 DEF TypeOK, ThreadEventAdd, CanAdd
  <2>2. /\ watch_table' \in [Slots -> Events \cup {NULL}] /\ index' \in [Events -> Slots \cup {-1}]
        /\ readFds' \subseteq Fds
    <3>1. CASE \E s \in Slots : takeSlot(ev, s)
      BY <3>1, <2>1, TakeSlotType
    <3>2. CASE UNCHANGED tableVars
      BY <3>2 DEF TypeOK, tableVars
    <3> QED
      BY <1>3, <3>1, <3>2 DEF ThreadEventAdd
  <2>3. tpc' \in [Threads -> {"idle", "nfds", "trigger"}] /\ tadd' \in [Threads -> Events \cup {NULL}]
    BY <1>3 DEF TypeOK, ThreadEventAdd
  <2>4. UNCHANGED <<fd, nfds>>
    BY <1>3 DEF ThreadEventAdd, tableVars
  <2> QED
    BY <1>3, <2>2, <2>3, <2>4 DEF TypeOK, ThreadEventAdd, timerVars, loopVars, envVars
<1>4. CASE t \in Threads /\ ThreadEventAdded(t)
  <2>1. fd[tadd[t]] \in Nat
    BY <1>4 DEF Adding, ThreadEventAdded
  <2> QED
    BY <1>4, <2>1 DEF TypeOK, ThreadEventAdded, RaiseNfds, timerVars, loopVars, envVars
<1>5. CASE CallbackEventAdd(ev)
  <2>1. fd[ev] \in Fds
    BY <1>5 DEF TypeOK, CallbackEventAdd, CanAdd
  <2>2. /\ readFds' \subseteq Fds /\ nfds' \in Nat /\ fd' = fd
        /\ watch_table' \in [Slots -> Events \cup {NULL}] /\ index' \in [Events -> Slots \cup {-1}]
    <3>1. ASSUME NEW s \in Slots, takeSlot(ev, s), RaiseNfds(ev), fd' = fd
          PROVE  /\ readFds' \subseteq Fds /\ nfds' \in Nat /\ fd' = fd
                 /\ watch_table' \in [Slots -> Events \cup {NULL}] /\ index' \in [Events -> Slots \cup {-1}]
      <4>0. fd[ev] \in Nat /\ nfds \in Nat
        BY <2>1 DEF TypeOK
      <4>1. nfds' \in Nat
        BY <3>1, <4>0 DEF RaiseNfds
      <4> QED
        BY <3>1, <2>1, <4>1, TakeSlotType
    <3>2. CASE UNCHANGED tableVars
      BY <3>2 DEF TypeOK, tableVars
    <3> QED
      BY <1>5, <3>1, <3>2 DEF CallbackEventAdd, ril_event_add
  <2> QED
    BY <1>5, <2>2 DEF TypeOK, CallbackEventAdd, timerVars, loopVars, threadVars, envVars
<1>6. CASE CallbackEventDel(ev)
  <2>1. /\ watch_table' \in [Slots -> Events \cup {NULL}]
        /\ index' \in [Events -> Slots \cup {-1}] /\ fd' = fd
        /\ readFds' \subseteq Fds /\ nfds' \in Nat
    <3>1. CASE index[ev] \in Slots /\ removeWatch(ev, index[ev])
      BY <3>1, RemoveWatchType
    <3>2. CASE UNCHANGED tableVars
      BY <3>2 DEF TypeOK, tableVars
    <3> QED
      BY <1>6, <3>1, <3>2 DEF CallbackEventDel, ril_event_del
  <2> QED
    BY <1>6, <2>1 DEF TypeOK, CallbackEventDel, timerVars, loopVars, threadVars, envVars
<1> QED
  BY <1>1, <1>2, <1>3, <1>4, <1>5, <1>6

\* ril_timer_add keeps the types.
LEMMA TimerTypeOK ==
    ASSUME TypeOK, NEW t, NEW tm \in Timers, NEW d \in Delays,
           (t \in Threads /\ ThreadTimerAdd(t, tm, d)) \/ CallbackTimerAdd(tm, d)
    PROVE  TypeOK'
<1> USE BoundsAssumption
<1>1. ril_timer_add(tm, d)
  BY DEF ThreadTimerAdd, CallbackTimerAdd
<1>2. timer_list' \in Seq(Timers)
  BY <1>1, InsertFacts DEF TypeOK, ril_timer_add
<1>3. timeout' \in [Timers -> Nat]
  BY <1>1 DEF TypeOK, ril_timer_add
<1>4. tpc' \in [Threads -> {"idle", "nfds", "trigger"}]
  BY DEF TypeOK, ThreadTimerAdd, CallbackTimerAdd, threadVars
<1>5. UNCHANGED <<tableVars, pending_list, loopVars, pipe, tadd, envVars>>
  BY DEF ThreadTimerAdd, CallbackTimerAdd, threadVars
<1> QED
  BY <1>2, <1>3, <1>4, <1>5 DEF TypeOK, tableVars, loopVars, envVars

\* The steps of the loop thread, the faults and the environment keep the types.
LEMMA LoopTypeOK ==
    ASSUME TypeOK, LoopStep \/ SelectReturns \/ Fault \/ Tick \/ \E f \in Fds : Arrive(f)
    PROVE  TypeOK'
<1> USE EventsAssumption, FdsAssumption, BoundsAssumption
<1>1. CASE OpenPipe
  <2>1. /\ index' \in [Events -> Slots \cup {-1}] /\ watch_table' \in [Slots -> Events \cup {NULL}]
        /\ readFds' \subseteq Fds /\ nfds' \in Nat
    <3>1. ASSUME NEW s \in Slots,
                 watch_table' = [watch_table EXCEPT ![s] = Wakeup], index' = [index EXCEPT ![Wakeup] = s],
                 readFds' = readFds \cup {WakeupFd},
                 nfds' = IF WakeupFd >= nfds THEN WakeupFd + 1 ELSE nfds
          PROVE  /\ index' \in [Events -> Slots \cup {-1}] /\ watch_table' \in [Slots -> Events \cup {NULL}]
                 /\ readFds' \subseteq Fds /\ nfds' \in Nat
      <4>1. watch_table' \in [Slots -> Events \cup {NULL}]
        BY <3>1 DEF TypeOK
      <4>2. index' \in [Events -> Slots \cup {-1}]
        BY <3>1 DEF TypeOK
      <4>3. readFds' \subseteq Fds
        BY <3>1 DEF TypeOK
      <4>4. nfds' \in Nat
        BY <3>1 DEF TypeOK
      <4> QED
        BY <4>1, <4>2, <4>3, <4>4
    <3>2. CASE UNCHANGED <<watch_table, index, readFds, nfds>>
      BY <3>2 DEF TypeOK
    <3> QED
      BY <1>1, <3>1, <3>2 DEF OpenPipe
  <2>3. fd' \in [Events -> Fds \cup {-1}] /\ pipe' \in -1 .. PipeSize /\ pc' \in Labels
    BY <1>1 DEF TypeOK, OpenPipe, Labels
  <2> QED
    BY <1>1, <2>1, <2>3 DEF TypeOK, OpenPipe, timerVars, threadVars, envVars
<1>2. CASE CopyReadFds
  BY <1>2 DEF TypeOK, CopyReadFds, Labels, tableVars, timerVars, threadVars, envVars
<1>3. CASE calcNextTimeout
  <2>1. tev' \in Timers \cup {NULL} /\ tv' \in Nat \cup {-1}
    BY <1>3 DEF TypeOK, calcNextTimeout
  <2> QED
    BY <1>3, <2>1 DEF TypeOK, calcNextTimeout, Labels, tableVars, timerVars, threadVars, envVars
<1>4. CASE EnterSelect
  <2>1. rfds' \subseteq Fds
    BY <1>4 DEF TypeOK, EnterSelect
  <2>2. tv' \in Nat \cup {-1}
    BY <1>4 DEF TypeOK, EnterSelect
  <2> QED
    BY <1>4, <2>1, <2>2 DEF TypeOK, EnterSelect, Labels, tableVars, timerVars, threadVars, envVars
<1>5. CASE SelectReturns
  <2>1. IsFiniteSet({f \in rfds : Readable(f)})
    BY FS_Subset DEF TypeOK
  <2>2. n' \in Nat /\ rfds' \subseteq Fds
    BY <1>5, <2>1, FS_CardinalityType DEF TypeOK, SelectReturns
  <2> QED
    BY <1>5, <2>2 DEF TypeOK, SelectReturns, Labels, tableVars, timerVars, threadVars, envVars
<1>6. CASE processTimeouts
  <2>1. timer_list' \in Seq(Timers)
    <3>1. PICK k \in 0 .. Len(timer_list) : timer_list' = SubSeq(timer_list, k + 1, Len(timer_list))
      BY <1>6 DEF processTimeouts
    <3>2. timer_list \in Seq(Timers)
      BY DEF TypeOK
    <3> QED
      BY <3>1, <3>2, CutFacts
  <2>2. pending_list' \in Seq(Events \cup Timers)
    <3>1. PICK k \in 0 .. Len(timer_list) : pending_list' = pending_list \o SubSeq(timer_list, 1, k)
      BY <1>6 DEF processTimeouts
    <3>2. SubSeq(timer_list, 1, k) \in Seq(Timers)
      BY CutFacts DEF TypeOK
    <3>3. SubSeq(timer_list, 1, k) \in Seq(Events \cup Timers)
      BY <3>2, SeqMonotonic
    <3>4. pending_list \in Seq(Events \cup Timers)
      BY DEF TypeOK
    <3> QED
      BY <3>1, <3>3, <3>4, ConcatProperties
  <2> QED
    BY <1>6, <2>1, <2>2 DEF TypeOK, processTimeouts, Labels, tableVars, threadVars, envVars
<1>7. CASE processReadReadies
  <2> DEFINE rev == watch_table[i]
  <2>1. i \in Slots /\ i' \in 0 .. MAX_FD_EVENTS /\ n \in Nat /\ n > 0 /\ n - 1 \in Nat
    BY <1>7 DEF TypeOK, processReadReadies, Slots
  <2>2. /\ watch_table' \in [Slots -> Events \cup {NULL}]
        /\ index' \in [Events -> Slots \cup {-1}] /\ fd' = fd
        /\ readFds' \subseteq Fds /\ nfds' \in Nat
    <3>1. CASE rev # NULL /\ removeWatch(rev, i)
      <4>1. rev \in Events
        BY <2>1, <3>1 DEF TypeOK
      <4> QED
        BY <3>1, <4>1, <2>1, RemoveWatchType
    <3>2. CASE UNCHANGED tableVars
      BY <3>2 DEF TypeOK, tableVars
    <3> QED
      BY <1>7, <3>1, <3>2 DEF processReadReadies
  <2>3. n' \in Nat
    BY <1>7, <2>1 DEF processReadReadies
  <2>4. pending_list' \in Seq(Events \cup Timers)
    <3>1. pending_list' = pending_list \/ (rev \in Events /\ pending_list' = Append(pending_list, rev))
      BY <1>7, <2>1 DEF TypeOK, processReadReadies
    <3>2. pending_list \in Seq(Events \cup Timers)
      BY DEF TypeOK
    <3> QED
      BY <3>1, <3>2, AppendProperties
  <2> QED
    BY <1>7, <2>1, <2>2, <2>3, <2>4 DEF TypeOK, processReadReadies, timerVars, threadVars, envVars
<1>8. CASE ReadiesDone
  BY <1>8 DEF TypeOK, ReadiesDone, Labels, tableVars, timerVars, threadVars, envVars
<1>9. CASE firePending
  <2>1. cb' \in Events \cup Timers /\ pending_list' \in Seq(Events \cup Timers)
    BY <1>9, HeadTailProperties DEF TypeOK, firePending
  <2> QED
    BY <1>9, <2>1 DEF TypeOK, firePending, Labels, tableVars, timerVars, threadVars, envVars
<1>10. CASE FireDone
  BY <1>10 DEF TypeOK, FireDone, Labels, tableVars, timerVars, threadVars, envVars
<1>11. CASE CallbackReturns
  <2>1. ready' \subseteq Fds
    BY <1>11 DEF TypeOK, CallbackReturns
  <2> QED
    BY <1>11, <2>1 DEF TypeOK, CallbackReturns, Labels, tableVars, timerVars, threadVars
<1>12. CASE processWakeupCallback
  BY <1>12 DEF TypeOK, processWakeupCallback, Labels, tableVars, timerVars, threadVars, envVars
<1>13. CASE Restart
  BY <1>13 DEF TypeOK, Restart, Labels, Slots
<1>14. CASE Fault
  <2>1. CASE OpenPipeFails
    BY <2>1 DEF TypeOK, OpenPipeFails, Labels, tableVars, timerVars, threadVars
  <2>2. CASE SelectInterrupted
    BY <2>2 DEF TypeOK, SelectInterrupted, Labels, tableVars, timerVars, threadVars
  <2>3. CASE SelectFails
    BY <2>3 DEF TypeOK, SelectFails, Labels, tableVars, timerVars, threadVars
  <2> QED
    BY <1>14, <2>1, <2>2, <2>3 DEF Fault
<1>15. CASE Tick
  BY <1>15 DEF TypeOK, Tick, tableVars, timerVars, loopVars, threadVars
<1>16. ASSUME NEW f \in Fds, Arrive(f) PROVE TypeOK'
  BY <1>16 DEF TypeOK, Arrive, tableVars, timerVars, loopVars, threadVars
<1> QED
  BY <1>1, <1>2, <1>3, <1>4, <1>5, <1>6, <1>7, <1>8, <1>9, <1>10, <1>11, <1>12, <1>13, <1>14,
     <1>15, <1>16 DEF LoopStep

\* So does triggerEvLoop.
LEMMA TriggerTypeOK == ASSUME TypeOK, NEW t \in Threads, triggerEvLoop(t) PROVE TypeOK'
<1>1. pipe' \in -1 .. PipeSize /\ tpc' \in [Threads -> {"idle", "nfds", "trigger"}]
  BY BoundsAssumption DEF TypeOK, triggerEvLoop
<1> QED
  BY <1>1 DEF TypeOK, triggerEvLoop, tableVars, timerVars, loopVars, envVars

-----------------------------------------------------------------------------
(* The watch table. *)

\* removeWatch keeps the table consistent when no thread is in the middle of
\* ril_event_add.  That no other event has the descriptor is what makes
\* FD_CLR right, and that the largest one is recomputed what makes nfds right.
LEMMA RemoveWatchKeeps ==
    ASSUME TypeOK, FdsOwned, WatchConsistent, \A t \in Threads : tadd[t] = NULL,
           NEW ev \in Events, NEW s \in Slots, index[ev] = s, removeWatch(ev, s)
    PROVE  WatchConsistent' /\ FdsOwned'
<1> USE FdsAssumption, DisjointAssumption
<1>1. /\ watch_table' = [watch_table EXCEPT ![s] = NULL]
      /\ index' = [index EXCEPT ![ev] = -1] /\ readFds' = readFds \ {fd[ev]} /\ fd' = fd
  BY DEF removeWatch
<1>2. \A e \in Events : index'[e] = IF e = ev THEN -1 ELSE index[e]
  BY <1>1 DEF TypeOK
<1>3. \A r \in Slots : watch_table'[r] = IF r = s THEN NULL ELSE watch_table[r]
  BY <1>1 DEF TypeOK
<1>4. s # -1 /\ watch_table[s] = ev
  BY BoundsAssumption DEF Slots, WatchConsistent, Watched
<1>5. \A r \in Slots : watch_table'[r] # NULL => index'[watch_table'[r]] = r
  <2> TAKE r \in Slots
  <2> HAVE watch_table'[r] # NULL
  <2>1. r # s /\ watch_table'[r] = watch_table[r] /\ watch_table[r] \in Events
    BY <1>3 DEF TypeOK
  <2>2. index[watch_table[r]] = r
    BY <2>1 DEF WatchConsistent
  <2> QED
    BY <1>2, <2>1, <2>2
<1>6. \A e \in Events : Watched(e)' => index'[e] \in Slots /\ watch_table'[index'[e]] = e
  BY <1>2, <1>3 DEF WatchConsistent, Watched
<1>7. readFds' = {fd'[e] : e \in {d \in Events : Watched(d)'}}
  <2>1. \A e \in Events : Watched(e)' <=> Watched(e) /\ e # ev
    BY <1>2, <1>4 DEF Watched
  <2>2. \A e \in Events : Watched(e) /\ e # ev => fd[e] # fd[ev]
    BY FdsAssumption DEF FdsOwned
  <2>3. readFds = {fd[e] : e \in {d \in Events : Watched(d)}}
    BY DEF WatchConsistent
  <2> QED
    BY <1>1, <2>1, <2>2, <2>3
<1>8. \A e \in Events : Watched(e)' => fd'[e] < nfds' \/ \E t \in Threads : tadd'[t] = e
  <2> TAKE e \in Events
  <2> HAVE Watched(e)'
  <2>1. e # ev /\ Watched(e) /\ index[e] \in Slots \ {s} /\ watch_table[index[e]] = e
    BY <1>2, <1>4 DEF WatchConsistent, Watched
  <2>2. fd[e] < nfds
    BY <2>1 DEF WatchConsistent
  <2>3. ASSUME fd[ev] + 1 = nfds PROVE fd[e] < nfds'
    <3> DEFINE left == {watch_table[j] : j \in Slots \ {s}} \ {NULL}
               high == {0} \cup {fd[x] : x \in left}
    <3>1. PICK m \in high : (\A f \in high : f <= m) /\ nfds' = m + 1
      BY <2>3 DEF removeWatch
    <3>2. e \in left
      BY <2>1
    <3>3. fd[e] <= m
      BY <3>1, <3>2
    <3>4. fd[e] \in Int /\ m \in Int
      <4>1. \A x \in left : x \in Events
        BY DEF TypeOK
      <4>2. \A x \in Events : fd[x] \in Int
        BY DEF TypeOK
      <4> QED
        BY <4>1, <4>2
    <3> QED
      BY <3>1, <3>3, <3>4
  <2>4. fd[ev] + 1 # nfds => nfds' = nfds
    BY DEF removeWatch
  <2> QED
    BY <1>1, <2>2, <2>3, <2>4
<1>9. FdsOwned'
  BY <1>1, <1>2 DEF FdsOwned, Watched
<1> QED
  BY <1>5, <1>6, <1>7, <1>8, <1>9 DEF WatchConsistent

\* Taking a slot for an event that has none keeps the table consistent, once
\* nfds covers the new descriptor or the adding thread is recorded.
LEMMA TakeSlotKeeps ==
    ASSUME TypeOK, WatchConsistent, NEW ev \in Events, NEW s \in Slots, ~Watched(ev),
           watch_table[s] = NULL, watch_table' = [watch_table EXCEPT ![s] = ev],
           index' = [index EXCEPT ![ev] = s],
           readFds' = readFds \cup {fd'[ev]}, \A e \in Events \ {ev} : fd'[e] = fd[e],
           nfds' \in Nat, nfds <= nfds', fd'[ev] < nfds' \/ \E t \in Threads : tadd'[t] = ev,
           \A t \in Threads : tadd[t] # NULL => tadd'[t] = tadd[t]
    PROVE  WatchConsistent'
<1> USE FdsAssumption, DisjointAssumption
<1>2. \A e \in Events : index'[e] = IF e = ev THEN s ELSE index[e]
  BY DEF TypeOK
<1>3. \A r \in Slots : watch_table'[r] = IF r = s THEN ev ELSE watch_table[r]
  BY DEF TypeOK
<1>4. s # -1
  BY BoundsAssumption DEF Slots
<1>5. \A r \in Slots : watch_table'[r] # NULL => index'[watch_table'[r]] = r
  <2> TAKE r \in Slots
  <2> HAVE watch_table'[r] # NULL
  <2>1. CASE r = s
    BY <2>1, <1>2, <1>3
  <2>2. CASE r # s
    <3>1. watch_table'[r] = watch_table[r] /\ watch_table[r] \in Events
      BY <2>2, <1>3 DEF TypeOK
    <3>2. index[watch_table[r]] = r /\ r # -1
      BY <3>1, BoundsAssumption DEF WatchConsistent, Slots
    <3>3. watch_table[r] # ev
      BY <3>2 DEF Watched
    <3> QED
      BY <1>2, <3>1, <3>2, <3>3
  <2> QED
    BY <2>1, <2>2
<1>6. \A e \in Events : Watched(e)' => index'[e] \in Slots /\ watch_table'[index'[e]] = e
  BY <1>2, <1>3 DEF WatchConsistent, Watched
<1>7. readFds' = {fd'[e] : e \in {d \in Events : Watched(d)'}}
  <2>1. \A e \in Events : Watched(e)' <=> Watched(e) \/ e = ev
    BY <1>2, <1>4 DEF Watched
  <2>2. readFds = {fd[e] : e \in {d \in Events : Watched(d)}}
    BY DEF WatchConsistent
  <2> QED
    BY <2>1, <2>2
<1>8. \A e \in Events : Watched(e)' => fd'[e] < nfds' \/ \E t \in Threads : tadd'[t] = e
  <2> TAKE e \in Events
  <2> HAVE Watched(e)'
  <2>1. CASE e # ev
    <3>1. fd[e] < nfds \/ \E t \in Threads : tadd[t] = e
      BY <1>2, <2>1 DEF WatchConsistent, Watched
    <3>2. fd'[e] = fd[e]
      BY <2>1
    <3>3. ASSUME NEW t \in Threads, tadd[t] = e PROVE tadd'[t] = e
      BY <3>3
    <3>4. fd[e] \in Int
      BY FdInt
    <3>5. nfds \in Nat
      BY DEF TypeOK
    <3> QED
      BY <3>1, <3>2, <3>3, <3>4, <3>5
  <2> QED
    BY <2>1
<1> QED
  BY <1>5, <1>6, <1>7, <1>8 DEF WatchConsistent

-----------------------------------------------------------------------------
(* Every step keeps the inductive invariant: one lemma per kind of step. *)

\* ril_event_set touches an event that is in no list.
LEMMA SetKeeps ==
    ASSUME IInv, TypeOK', NEW ev \in Events, NEW f \in Fds, CanSet(ev, f), ril_event_set(ev, f),
           UNCHANGED <<timerVars, pending_list, loopVars, pipe, threadVars, envVars>>
    PROVE  IInv'
<1> USE EventsAssumption, FdsAssumption DEF IInv, timerVars, loopVars, threadVars, envVars
<1>1. index' = index
  BY DEF CanSet, Free, Watched, ril_event_set, TypeOK
<1>2. \A e \in Events : fd'[e] = IF e = ev THEN f ELSE fd[e]
  BY DEF ril_event_set, TypeOK
<1>3. ~Watched(ev) /\ ev # Wakeup /\ f # WakeupFd /\ \A t \in Threads : tadd[t] # ev
  BY DEF CanSet, Free
<1>4. Adding'
  BY <1>2 DEF Adding
<1>5. FdsOwned'
  BY <1>1, <1>2, <1>3 DEF FdsOwned, Watched, CanSet
<1>6. PipeOpen' /\ Scanned' /\ OneShot'
  BY <1>1 DEF PipeOpen, Scanned, OneShot, Watched, InPending
<1>7. WatchConsistent'
  <2>1. \A e \in Events : Watched(e)' <=> Watched(e)
    BY <1>1 DEF Watched
  <2>2. \A e \in Events : Watched(e) => fd'[e] = fd[e]
    BY <1>2, <1>3
  <2>3. {fd'[e] : e \in {d \in Events : Watched(d)'}} = {fd[e] : e \in {d \in Events : Watched(d)}}
    BY <2>1, <2>2
  <2>4. UNCHANGED <<watch_table, readFds, nfds>>
    BY DEF ril_event_set
  <2> QED
    BY <1>1, <2>1, <2>2, <2>3, <2>4 DEF WatchConsistent
<1>8. ListIntegrity' /\ TimersInOrder'
  BY KeepLists, KeepTimers
<1>9. NoLostWakeup'
  BY <1>1, <1>2, <1>3 DEF NoLostWakeup, Watched, Doorbell
<1> QED
  BY <1>4, <1>5, <1>6, <1>7, <1>8, <1>9

\* ril_event_add on another thread, up to FD_SET.  From here on the doorbell
\* is about to ring.
LEMMA ThreadAddKeeps ==
    ASSUME IInv, TypeOK', NEW t \in Threads, NEW ev \in Events, ThreadEventAdd(t, ev)
    PROVE  IInv'
<1> USE EventsAssumption, FdsAssumption, DisjointAssumption DEF IInv
<1>1. /\ Unlocked /\ tpc[t] = "idle" /\ ~Watched(ev) /\ ~InPending(ev) /\ ev # Wakeup /\ fd[ev] \in Fds
      /\ UNCHANGED <<fd, nfds, timer_list, timeout, pending_list, pc, rfds, i, tev, tv, pipe, now>>
  BY DEF ThreadEventAdd, CanAdd, Free, TypeOK, tableVars, timerVars, loopVars, envVars
<1>2. tpc' \in [Threads -> {"idle", "nfds", "trigger"}] /\ tpc'[t] # "idle"
  BY DEF ThreadEventAdd, TypeOK
<1>3. /\ \A e \in Events \ {ev} : index'[e] = index[e]
      /\ index'[ev] # index[ev] => pc # "readies"
  BY <1>1 DEF ThreadEventAdd, takeSlot, TypeOK, tableVars, Unlocked
<1>4. ListIntegrity' /\ TimersInOrder'
  BY <1>1, KeepLists, KeepTimers
<1>5. Adding'
  <2>1. CASE tpc' = [tpc EXCEPT ![t] = "nfds"] /\ tadd' = [tadd EXCEPT ![t] = ev]
    BY <2>1, <1>1 DEF Adding, Unlocked, TypeOK
  <2>2. CASE tpc' = [tpc EXCEPT ![t] = "trigger"] /\ tadd' = tadd
    BY <2>2, <1>1 DEF Adding, Unlocked, TypeOK
  <2> QED
    BY <2>1, <2>2 DEF ThreadEventAdd
<1>6. FdsOwned'
  BY <1>1, <1>3 DEF FdsOwned, Watched
<1>7. PipeOpen' /\ OneShot'
  BY <1>1, <1>3 DEF PipeOpen, OneShot, Watched, InPending
<1>8. Scanned'
  BY <1>1, <1>3 DEF Scanned, Watched, InPending
<1>9. WatchConsistent'
  <2>1. CASE tadd' = [tadd EXCEPT ![t] = ev] /\ \E s \in Slots : takeSlot(ev, s)
    <3>1. PICK s \in Slots : takeSlot(ev, s)
      BY <2>1
    <3>2. tadd[t] = NULL /\ tadd'[t] = ev /\ \A u \in Threads : tadd[u] # NULL => tadd'[u] = tadd[u]
      BY <1>1, <2>1 DEF Adding, TypeOK
    <3>3. nfds' \in Nat /\ nfds <= nfds'
      BY <1>1 DEF TypeOK
    <3> QED
      BY <1>1, <3>1, <3>2, <3>3, TakeSlotKeeps DEF takeSlot, FirstFree
  <2>2. CASE UNCHANGED <<tableVars, tadd>>
    BY <2>2, KeepWatch
  <2> QED
    BY <2>1, <2>2 DEF ThreadEventAdd
<1>10. NoLostWakeup'
  BY <1>1, <1>2, <1>3 DEF NoLostWakeup, Watched, Doorbell
<1> QED
  BY <1>4, <1>5, <1>6, <1>7, <1>8, <1>9, <1>10

\* The rest of ril_event_add on another thread.
LEMMA ThreadAddedKeeps ==
    ASSUME IInv, TypeOK', NEW t \in Threads, ThreadEventAdded(t)
    PROVE  IInv'
<1> USE EventsAssumption, FdsAssumption, DisjointAssumption DEF IInv
<1>1. /\ tpc[t] = "nfds" /\ tadd[t] \in Events \ {Wakeup} /\ fd[tadd[t]] \in Nat /\ nfds \in Nat
      /\ UNCHANGED <<watch_table, index, fd, readFds, timer_list, timeout, pending_list, pc, rfds, i,
                     tev, tv, pipe, now>>
  BY DEF ThreadEventAdded, Adding, TypeOK, timerVars, loopVars, envVars
<1>2. \A u \in Threads : /\ tpc'[u] = IF u = t THEN "trigger" ELSE tpc[u]
                         /\ tadd'[u] = IF u = t THEN NULL ELSE tadd[u]
  BY DEF ThreadEventAdded, TypeOK
<1>3. nfds <= nfds' /\ fd[tadd[t]] < nfds'
  BY <1>1 DEF ThreadEventAdded, RaiseNfds
<1>4. Adding'
  BY <1>1, <1>2 DEF Adding
<1>5. FdsOwned' /\ PipeOpen' /\ Scanned' /\ OneShot' /\ ListIntegrity' /\ TimersInOrder'
  BY <1>1, KeepFds, KeepOneShot, KeepLists, KeepTimers DEF PipeOpen, Scanned, Watched, InPending
<1>6. WatchConsistent'
  <2>1. \A e \in Events : Watched(e)' => fd'[e] < nfds' \/ \E u \in Threads : tadd'[u] = e
    <3> TAKE e \in Events
    <3> HAVE Watched(e)'
    <3>1. fd[e] < nfds \/ \E u \in Threads : tadd[u] = e
      BY <1>1 DEF WatchConsistent, Watched
    <3>2. fd[e] \in Int
      BY FdInt
    <3>3. nfds' \in Nat
      BY DEF TypeOK
    <3> QED
      BY <1>1, <1>2, <1>3, <3>1, <3>2, <3>3
  <2> QED
    BY <1>1, <2>1 DEF WatchConsistent, Watched
<1>7. NoLostWakeup'
  BY <1>1, <1>2 DEF NoLostWakeup, Watched, Doorbell
<1> QED
  BY <1>4, <1>5, <1>6, <1>7

\* ril_event_add in a callback.
LEMMA CallbackAddKeeps ==
    ASSUME IInv, TypeOK', NEW ev \in Events, CallbackEventAdd(ev)
    PROVE  IInv'
<1> USE EventsAssumption, FdsAssumption, DisjointAssumption DEF IInv
<1>1. /\ pc = "cb" /\ ~Watched(ev) /\ ~InPending(ev) /\ ev # Wakeup /\ fd[ev] \in Fds
      /\ UNCHANGED <<fd, timer_list, timeout, pending_list, pc, pipe, tpc, tadd, now>>
  BY DEF CallbackEventAdd, InCallback, ril_event_add, CanAdd, Free, TypeOK, tableVars, timerVars,
         loopVars, threadVars, envVars
<1>2. \A e \in Events \ {ev} : index'[e] = index[e]
  BY DEF CallbackEventAdd, ril_event_add, takeSlot, TypeOK, tableVars
<1>3. Adding' /\ ListIntegrity' /\ TimersInOrder' /\ NoLostWakeup'
  BY <1>1, KeepAdding, KeepLists, KeepTimers, KeepAwake
<1>4. FdsOwned'
  BY <1>1, <1>2 DEF FdsOwned, Watched
<1>5. PipeOpen' /\ OneShot' /\ Scanned'
  BY <1>1, <1>2 DEF PipeOpen, OneShot, Scanned, Watched, InPending
<1>6. WatchConsistent'
  <2>1. ASSUME NEW s \in Slots, takeSlot(ev, s), RaiseNfds(ev) PROVE WatchConsistent'
    <3>1. fd[ev] \in Nat /\ nfds \in Nat
      BY <1>1 DEF TypeOK
    <3>2. nfds' \in Nat /\ nfds <= nfds' /\ fd[ev] < nfds'
      BY <2>1, <3>1 DEF RaiseNfds
    <3> QED
      BY <1>1, <2>1, <3>2, TakeSlotKeeps DEF takeSlot, FirstFree
  <2>2. CASE UNCHANGED tableVars
    BY <1>1, <2>2, KeepWatch
  <2> QED
    BY <2>1, <2>2 DEF CallbackEventAdd, ril_event_add
<1> QED
  BY <1>3, <1>4, <1>5, <1>6

\* ril_event_del in a callback.
LEMMA CallbackDelKeeps ==
    ASSUME IInv, TypeOK', NEW ev \in Events, CallbackEventDel(ev)
    PROVE  IInv'
<1> USE EventsAssumption, FdsAssumption, DisjointAssumption DEF IInv
<1>1. /\ pc = "cb" /\ Unlocked
      /\ UNCHANGED <<fd, timer_list, timeout, pending_list, pc, pipe, tpc, tadd, now>>
  BY DEF CallbackEventDel, InCallback, ril_event_del, removeWatch, tableVars, timerVars,
         loopVars, threadVars, envVars
<1>2. \A e \in Events : index'[e] \in {index[e], -1}
  BY DEF CallbackEventDel, ril_event_del, removeWatch, TypeOK, tableVars
<1>3. Adding' /\ ListIntegrity' /\ TimersInOrder' /\ NoLostWakeup'
  BY <1>1, KeepAdding, KeepLists, KeepTimers, KeepAwake
<1>4. PipeOpen' /\ OneShot' /\ Scanned'
  BY <1>1, <1>2 DEF PipeOpen, OneShot, Scanned, Watched, InPending
<1>5. WatchConsistent' /\ FdsOwned'
  <2>1. CASE index[ev] \in Slots /\ removeWatch(ev, index[ev])
    <3>1. \A t \in Threads : tadd[t] = NULL
      BY <1>1 DEF Unlocked, Adding
    <3>2. tadd' = tadd
      BY <1>1
    <3> QED
      BY <2>1, <3>1, <3>2, RemoveWatchKeeps
  <2>2. CASE UNCHANGED tableVars
    BY <1>1, <2>2, KeepWatch, KeepFds DEF tableVars
  <2> QED
    BY <2>1, <2>2 DEF CallbackEventDel, ril_event_del
<1> QED
  BY <1>3, <1>4, <1>5

\* pipe() and the wakeup event.
LEMMA OpenPipeKeeps == ASSUME IInv, TypeOK', OpenPipe PROVE IInv'
<1> USE EventsAssumption, FdsAssumption, DisjointAssumption DEF IInv
<1>1. /\ pc = "pipe" /\ pc' = "copy" /\ pipe' = 0 /\ ~Watched(Wakeup) /\ pending_list = <<>>
      /\ UNCHANGED <<timer_list, timeout, pending_list, tpc, tadd, now>>
  BY DEF OpenPipe, PipeOpen, Scanned, timerVars, threadVars, envVars
<1>2. \A e \in Events : fd'[e] = IF e = Wakeup THEN WakeupFd ELSE fd[e]
  BY DEF OpenPipe, TypeOK
<1>3. \A e \in Events \ {Wakeup} : index'[e] = index[e]
  BY DEF OpenPipe, TypeOK
<1>4. Adding'
  BY <1>1, <1>2 DEF Adding
<1>5. FdsOwned'
  BY <1>2, <1>3 DEF FdsOwned, Watched
<1>6. PipeOpen' /\ Scanned' /\ NoLostWakeup' /\ ListIntegrity' /\ TimersInOrder'
  BY <1>1, KeepAwake, KeepLists, KeepTimers DEF PipeOpen, Scanned
<1>7. OneShot'
  BY <1>1 DEF OneShot, InPending, TypeOK
<1>8. WatchConsistent'
  <2>1. ASSUME NEW s \in Slots, watch_table[s] = NULL,
               watch_table' = [watch_table EXCEPT ![s] = Wakeup], index' = [index EXCEPT ![Wakeup] = s],
               readFds' = readFds \cup {WakeupFd},
               nfds' = IF WakeupFd >= nfds THEN WakeupFd + 1 ELSE nfds
        PROVE  WatchConsistent'
    <3>1. nfds' \in Nat /\ nfds <= nfds' /\ WakeupFd < nfds'
      BY <2>1 DEF TypeOK
    <3>2. fd'[Wakeup] = WakeupFd /\ \A e \in Events \ {Wakeup} : fd'[e] = fd[e]
      BY <1>2
    <3> QED
      BY <1>1, <2>1, <3>1, <3>2, TakeSlotKeeps
  <2>2. CASE UNCHANGED <<watch_table, index, readFds, nfds>>
    <3>1. \A e \in Events : Watched(e) => fd'[e] = fd[e]
      BY <1>1, <1>2
    <3>2. \A e \in Events : Watched(e)' <=> Watched(e)
      BY <2>2 DEF Watched
    <3>3. {fd'[e] : e \in {d \in Events : Watched(d)'}} = {fd[e] : e \in {d \in Events : Watched(d)}}
      BY <3>1, <3>2
    <3> QED
      BY <1>1, <2>2, <3>1, <3>2, <3>3 DEF WatchConsistent
  <2> QED
    BY <2>1, <2>2 DEF OpenPipe, FirstFree
<1> QED
  BY <1>4, <1>5, <1>6, <1>7, <1>8

\* processReadReadies looks at slot i.  The events it has queued have smaller
\* slots or none, so the one in slot i is queued for the first time.
LEMMA ReadReadiesKeeps == ASSUME IInv, TypeOK', processReadReadies PROVE IInv'
<1> USE EventsAssumption, FdsAssumption, DisjointAssumption DEF IInv
<1> DEFINE rev == watch_table[i]
<1>1. /\ pc = "readies" /\ pc' = "readies" /\ i \in Slots /\ i' = i + 1
      /\ UNCHANGED <<fd, timer_list, timeout, pipe, tpc, tadd, now>>
      /\ \A t \in Threads : tadd[t] = NULL
  <2>1. i \in Slots
    BY BoundsAssumption DEF processReadReadies, TypeOK, Slots
  <2>2. fd' = fd
    BY DEF processReadReadies, removeWatch, tableVars
  <2>3. \A t \in Threads : tadd[t] = NULL
    BY DEF processReadReadies, Adding
  <2> QED
    BY <2>1, <2>2, <2>3 DEF processReadReadies, timerVars, threadVars, envVars
<1>2. Adding' /\ NoLostWakeup'
  BY <1>1, KeepAdding, KeepAwake
<1>3. CASE UNCHANGED <<tableVars, pending_list>>
  <2>1. FdsOwned' /\ WatchConsistent' /\ OneShot' /\ ListIntegrity' /\ TimersInOrder'
    BY <1>1, <1>3, KeepFds, KeepWatch, KeepOneShot, KeepLists, KeepTimers DEF tableVars
  <2>2. PipeOpen'
    BY <1>1, <1>3 DEF PipeOpen, Watched, tableVars
  <2>3. Scanned'
    <3>1. ASSUME NEW ev \in Events, InPending(ev)', Watched(ev)' PROVE index'[ev] < i'
      <4>1. index' = index /\ index[ev] < i
        BY <1>1, <1>3, <3>1 DEF Scanned, InPending, Watched, tableVars
      <4>2. index[ev] \in Int /\ i \in Int
        BY <1>1, BoundsAssumption DEF TypeOK, Slots
      <4> QED
        BY <1>1, <4>1, <4>2
    <3> QED
      BY <1>1, <3>1 DEF Scanned
  <2> QED
    BY <1>2, <2>1, <2>2, <2>3
<1>4. CASE rev # NULL /\ pending_list' = Append(pending_list, rev)
  <2>1. rev \in Events /\ index[rev] = i /\ Watched(rev)
    BY <1>1, <1>4, BoundsAssumption DEF TypeOK, WatchConsistent, Watched, Slots
  <2>2. ~InPending(rev)
    <3>1. i \in Int
      BY <1>1, BoundsAssumption DEF Slots
    <3> QED
      BY <1>1, <2>1, <3>1 DEF Scanned
  <2>3. /\ Len(pending_list) \in Nat /\ Len(pending_list') = Len(pending_list) + 1
        /\ \A k \in 1 .. Len(pending_list) : pending_list'[k] = pending_list[k]
        /\ pending_list'[Len(pending_list) + 1] = rev
    <3>1. pending_list \in Seq(Events \cup Timers)
      BY DEF TypeOK
    <3> HIDE DEF rev, IInv
    <3> QED
      BY <1>4, <2>1, <3>1, AppendProperties
  <2>4. \A x \in Events \cup Timers : InPending(x)' <=> InPending(x) \/ x = rev
    BY <2>3 DEF InPending
  <2>5. WatchConsistent' /\ FdsOwned'
    <3>1. CASE removeWatch(rev, i)
      BY <1>1, <2>1, <3>1, RemoveWatchKeeps
    <3>2. CASE UNCHANGED tableVars
      BY <1>1, <3>2, KeepWatch, KeepFds DEF tableVars
    <3> QED
      BY <1>1, <1>4, <3>1, <3>2 DEF processReadReadies
  <2>6. /\ \A e \in Events \ {rev} : index'[e] = index[e]
        /\ index'[rev] \in {i, -1} /\ (rev \notin Persistent => index'[rev] = -1)
    <3>1. index \in [Events -> Slots \cup {-1}]
      BY DEF TypeOK
    <3>2. CASE removeWatch(rev, i)
      BY <2>1, <3>1, <3>2 DEF removeWatch
    <3>3. CASE rev \in Persistent /\ index' = index
      BY <2>1, <3>3
    <3>4. fd[rev] \in rfds
      <4>1. pending_list' # pending_list
        <5>1. Len(pending_list') # Len(pending_list)
          BY <2>3
        <5> QED
          BY <5>1
      <4> QED
        BY <4>1 DEF processReadReadies
    <3> QED
      BY <1>4, <3>2, <3>3, <3>4 DEF processReadReadies, tableVars
  <2>7. PipeOpen'
    BY <1>1, <2>1, <2>6 DEF PipeOpen, Watched
  <2>8. Scanned'
    <3>1. ASSUME NEW ev \in Events, InPending(ev)', Watched(ev)' PROVE index'[ev] < i'
      <4>1. index[ev] \in Int /\ i \in Int /\ i' = i + 1
        BY <1>1, BoundsAssumption DEF TypeOK, Slots
      <4>2. CASE ev = rev
        BY <2>6, <3>1, <4>1, <4>2 DEF Watched
      <4>3. CASE ev # rev
        <5>1. index[ev] < i
          BY <1>1, <2>4, <2>6, <3>1, <4>3 DEF Scanned, Watched
        <5> QED
          BY <2>6, <4>1, <4>3, <5>1
      <4> QED
        BY <4>2, <4>3
    <3> QED
      BY <1>1, <3>1 DEF Scanned
  <2>9. OneShot'
    BY <2>1, <2>4, <2>6 DEF OneShot, Watched
  <2>10. ListIntegrity'
    <3>1. Distinct(pending_list)'
      BY <2>2, <2>3 DEF ListIntegrity, Distinct, InPending
    <3>2. Distinct(timer_list)'
      BY <1>1 DEF ListIntegrity, Distinct
    <3>3. \A x \in Timers : ~(Armed(x)' /\ InPending(x)')
      BY <1>1, <2>1, <2>4 DEF ListIntegrity, Armed
    <3> QED
      BY <3>1, <3>2, <3>3 DEF ListIntegrity
  <2>11. TimersInOrder'
    <3>1. rev \notin Timers
      BY <2>1
    <3>2. \A j, k \in 1 .. Len(pending_list') :
             j < k /\ pending_list'[j] \in Timers /\ pending_list'[k] \in Timers
               => timeout'[pending_list'[j]] <= timeout'[pending_list'[k]]
      BY <1>1, <2>3, <3>1 DEF TimersInOrder
    <3>3. \A t \in Timers : InPending(t)' => /\ timeout'[t] < now'
                                             /\ \A u \in Timers : Armed(u)' => timeout'[t] <= timeout'[u]
      BY <1>1, <2>4, <3>1 DEF TimersInOrder, Armed
    <3> QED
      BY <1>1, <3>2, <3>3 DEF TimersInOrder
  <2> QED
    BY <1>2, <2>5, <2>7, <2>8, <2>9, <2>10, <2>11
<1> QED
  BY <1>3, <1>4 DEF processReadReadies, tableVars

\* processTimeouts moves a prefix of timer_list to the empty pending_list.
LEMMA TimeoutsKeeps == ASSUME IInv, TypeOK', processTimeouts PROVE IInv'
<1> USE DisjointAssumption DEF IInv
<1>1. /\ pc = "timeouts" /\ Unlocked /\ pc' = "readies" /\ i' = 0 /\ pending_list = <<>>
      /\ UNCHANGED <<tableVars, timeout, pipe, tpc, tadd, now>>
  BY DEF processTimeouts, Scanned, threadVars, envVars
<1>2. /\ timer_list \in Seq(Timers) /\ timeout \in [Timers -> Nat] /\ now \in Nat
      /\ Len(timer_list) \in Nat
  BY SMTT(30) DEF TypeOK
<1>3. PICK k \in 0 .. Len(timer_list) :
         /\ \A j \in 1 .. k : Expired(timer_list[j])
         /\ timer_list' = SubSeq(timer_list, k + 1, Len(timer_list))
         /\ pending_list' = pending_list \o SubSeq(timer_list, 1, k)
  BY DEF processTimeouts
<1>4. /\ Len(timer_list') = Len(timer_list) - k
      /\ \A j \in 1 .. Len(timer_list) - k : timer_list'[j] = timer_list[k + j]
  BY <1>2, <1>3, CutFacts
<1>5. /\ Len(pending_list') = k
      /\ \A j \in 1 .. k : pending_list'[j] = timer_list[j]
  <2>1. SubSeq(timer_list, 1, k) \in Seq(Timers)
    BY <1>2, CutFacts
  <2>2. pending_list' = SubSeq(timer_list, 1, k)
    BY <1>1, <1>3, <2>1, ConcatEmptySeq
  <2> QED
    BY <1>2, <2>2, CutFacts
<1>6. \A j \in 1 .. Len(timer_list) : timer_list[j] \in Timers
  BY <1>2
<1>7. Adding'
  BY <1>1 DEF Adding, Unlocked, tableVars
<1>8. FdsOwned' /\ WatchConsistent' /\ NoLostWakeup' /\ PipeOpen'
  BY <1>1, KeepFds, KeepWatch, KeepAwake DEF PipeOpen, Watched, tableVars
<1>9. \A ev \in Events : ~InPending(ev)'
  BY <1>2, <1>5, <1>6 DEF InPending
<1>10. Scanned' /\ OneShot'
  BY <1>1, <1>9 DEF Scanned, OneShot
<1>11. ListIntegrity'
  <2>1. Distinct(timer_list)
    BY DEF ListIntegrity
  <2>2. Distinct(timer_list)'
    <3>1. ASSUME NEW j \in 1 .. Len(timer_list'), NEW m \in 1 .. Len(timer_list'), j # m
          PROVE  timer_list'[j] # timer_list'[m]
      <4>1. /\ k + j \in 1 .. Len(timer_list) /\ k + m \in 1 .. Len(timer_list) /\ k + j # k + m
            /\ j \in 1 .. Len(timer_list) - k /\ m \in 1 .. Len(timer_list) - k
        BY <1>2, <1>4, <3>1
      <4>2. timer_list[k + j] # timer_list[k + m]
        BY <2>1, <4>1 DEF Distinct
      <4> QED
        BY <1>4, <4>1, <4>2
    <3> QED
      BY <3>1 DEF Distinct
  <2>3. Distinct(pending_list)'
    BY <1>2, <1>5, <2>1 DEF Distinct
  <2>4. ASSUME NEW t \in Timers, Armed(t)', InPending(t)' PROVE FALSE
    <3>1. PICK j \in 1 .. Len(timer_list) - k : timer_list[k + j] = t
      BY <1>2, <1>4, <2>4 DEF Armed
    <3>2. PICK m \in 1 .. k : timer_list[m] = t
      BY <1>2, <1>5, <2>4 DEF InPending
    <3>3. k + j \in 1 .. Len(timer_list) /\ m \in 1 .. Len(timer_list) /\ k + j # m
      BY <1>2
    <3> QED
      BY <2>1, <3>1, <3>2, <3>3 DEF Distinct
  <2> QED
    BY <2>2, <2>3, <2>4 DEF ListIntegrity
<1>12. TimersInOrder'
  <2>1. \A j, m \in 1 .. Len(timer_list) : j < m => timeout[timer_list[j]] <= timeout[timer_list[m]]
    BY DEF TimersInOrder
  <2>2. \A j, m \in 1 .. Len(timer_list') : j < m => timeout'[timer_list'[j]] <= timeout'[timer_list'[m]]
    <3> TAKE j, m \in 1 .. Len(timer_list')
    <3> HAVE j < m
    <3>1. /\ k + j \in 1 .. Len(timer_list) /\ k + m \in 1 .. Len(timer_list) /\ k + j < k + m
          /\ j \in 1 .. Len(timer_list) - k /\ m \in 1 .. Len(timer_list) - k
      BY <1>2, <1>4
    <3>2. timeout[timer_list[k + j]] <= timeout[timer_list[k + m]]
      BY <2>1, <3>1
    <3> QED
      BY <1>1, <1>4, <3>1, <3>2
  <2>3. \A j, m \in 1 .. Len(pending_list') : j < m => timeout'[pending_list'[j]] <= timeout'[pending_list'[m]]
    BY SMTT(30), <1>1, <1>2, <1>5, <2>1
  <2>4. ASSUME NEW t \in Timers, InPending(t)'
        PROVE  timeout'[t] < now' /\ \A u \in Timers : Armed(u)' => timeout'[t] <= timeout'[u]
    <3>1. PICK m \in 1 .. k : timer_list[m] = t
      BY <1>2, <1>5, <2>4 DEF InPending
    <3>2. timeout'[t] < now'
      BY <1>1, <1>2, <1>3, <3>1 DEF Expired
    <3>3. ASSUME NEW u \in Timers, Armed(u)' PROVE timeout'[t] <= timeout'[u]
      <4>1. PICK j \in 1 .. Len(timer_list) - k : timer_list[k + j] = u
        BY <1>2, <1>4, <3>3 DEF Armed
      <4>2. k + j \in 1 .. Len(timer_list) /\ m \in 1 .. Len(timer_list) /\ m < k + j
        BY <1>2
      <4> QED
        BY <1>1, <2>1, <3>1, <4>1, <4>2
    <3> QED
      BY <3>2, <3>3
  <2> QED
    BY <2>2, <2>3, <2>4 DEF TimersInOrder
<1> QED
  BY <1>7, <1>8, <1>10, <1>11, <1>12

\* ril_timer_add inserts a timer that is in no list in front of the first one
\* that is not earlier.
LEMMA TimerAddLists ==
    ASSUME IInv, NEW tm \in Timers, NEW d \in Delays, ~Armed(tm), ~InPending(tm),
           ril_timer_add(tm, d), UNCHANGED <<pending_list, now>>
    PROVE  ListIntegrity' /\ TimersInOrder'
<1> USE BoundsAssumption DEF IInv
<1>1. /\ timer_list \in Seq(Timers) /\ timeout \in [Timers -> Nat] /\ now \in Nat
      /\ Len(timer_list) \in Nat /\ now + d \in Nat /\ now <= now + d
      /\ pending_list \in Seq(Events \cup Timers)
  BY DEF TypeOK
<1>2. PICK k \in 0 .. Len(timer_list) :
        /\ \A j \in 1 .. k : timeout[timer_list[j]] < now + d
        /\ k < Len(timer_list) => ~(timeout[timer_list[k + 1]] < now + d)
        /\ timer_list' = [j \in 1 .. Len(timer_list) + 1 |->
                            IF j <= k THEN timer_list[j]
                            ELSE IF j = k + 1 THEN tm ELSE timer_list[j - 1]]
        /\ timeout' = [timeout EXCEPT ![tm] = now + d]
  BY DEF ril_timer_add
<1>3. Len(timer_list') = Len(timer_list) + 1
  BY <1>1, <1>2, InsertFacts
<1>4. ASSUME NEW j \in 1 .. Len(timer_list')
      PROVE  \/ j <= k /\ j \in 1 .. Len(timer_list) /\ timer_list'[j] = timer_list[j]
             \/ j = k + 1 /\ timer_list'[j] = tm
             \/ j > k + 1 /\ j - 1 \in 1 .. Len(timer_list) /\ timer_list'[j] = timer_list[j - 1]
  <2>1. j \in 1 .. Len(timer_list) + 1
    BY <1>3
  <2>2. CASE j <= k
    BY <1>1, <1>2, <2>1, <2>2
  <2>3. CASE j = k + 1
    BY <1>1, <1>2, <2>1, <2>3
  <2>4. CASE j > k + 1
    BY <1>1, <1>2, <2>1, <2>4
  <2> QED
    BY <1>1, <2>1, <2>2, <2>3, <2>4
<1>5. \A j \in 1 .. Len(timer_list) : /\ timer_list[j] \in Timers /\ timer_list[j] # tm
                                      /\ timeout'[timer_list[j]] = timeout[timer_list[j]]
  BY <1>1, <1>2 DEF Armed
<1>6. timeout'[tm] = now + d
  BY <1>1, <1>2
<1>7. \A t \in Timers : Armed(t)' => t = tm \/ Armed(t)
  BY <1>4 DEF Armed
<1>8. \A t \in Timers : InPending(t)' <=> InPending(t)
  BY DEF InPending
<1>9. ListIntegrity'
  <2>1. Distinct(timer_list)
    BY DEF ListIntegrity
  <2>2. Distinct(timer_list)'
    <3>1. ASSUME NEW j \in 1 .. Len(timer_list'), NEW m \in 1 .. Len(timer_list'), j # m
          PROVE  timer_list'[j] # timer_list'[m]
      <4>1. j \in Int /\ m \in Int
        OBVIOUS
      \* An element of the new list is the new timer or comes from position q.
      <4>2. \/ j = k + 1 /\ timer_list'[j] = tm
            \/ \E q \in 1 .. Len(timer_list) :
                  timer_list'[j] = timer_list[q] /\ ((j <= k /\ q = j) \/ (j > k + 1 /\ q = j - 1))
        BY <1>4, Zenon
      <4>3. \/ m = k + 1 /\ timer_list'[m] = tm
            \/ \E q \in 1 .. Len(timer_list) :
                  timer_list'[m] = timer_list[q] /\ ((m <= k /\ q = m) \/ (m > k + 1 /\ q = m - 1))
        BY <1>4, Zenon
      <4>4. CASE j = k + 1 /\ timer_list'[j] = tm
        BY <1>5, <3>1, <4>3, <4>4
      <4>5. CASE m = k + 1 /\ timer_list'[m] = tm
        BY <1>5, <3>1, <4>2, <4>5
      <4>6. ASSUME NEW q \in 1 .. Len(timer_list), timer_list'[j] = timer_list[q],
                   (j <= k /\ q = j) \/ (j > k + 1 /\ q = j - 1),
                   NEW r \in 1 .. Len(timer_list), timer_list'[m] = timer_list[r],
                   (m <= k /\ r = m) \/ (m > k + 1 /\ r = m - 1)
            PROVE  timer_list'[j] # timer_list'[m]
        <5>1. q # r
          BY <1>1, <3>1, <4>1, <4>6
        <5> QED
          BY <2>1, <4>6, <5>1 DEF Distinct
      <4> QED
        BY <4>2, <4>3, <4>4, <4>5, <4>6
    <3> QED
      BY <3>1 DEF Distinct
  <2>3. Distinct(pending_list)'
    BY DEF ListIntegrity, Distinct
  <2> QED
    BY <1>7, <1>8, <2>2, <2>3 DEF ListIntegrity
<1>10. TimersInOrder'
  <2>1. \A j, m \in 1 .. Len(timer_list) : j < m => timeout[timer_list[j]] <= timeout[timer_list[m]]
    BY DEF TimersInOrder
  <2>2. \A m \in k + 1 .. Len(timer_list) : now + d <= timeout[timer_list[m]]
    <3> TAKE m \in k + 1 .. Len(timer_list)
    <3>1. k + 1 \in 1 .. Len(timer_list) /\ m \in 1 .. Len(timer_list) /\ (k + 1 = m \/ k + 1 < m)
      BY <1>1
    <3>2. timeout[timer_list[k + 1]] \in Nat /\ timeout[timer_list[m]] \in Nat
      BY <1>1, <1>5, <3>1
    <3>3. now + d <= timeout[timer_list[k + 1]]
      BY <1>1, <1>2, <3>1, <3>2
    <3>4. timeout[timer_list[k + 1]] <= timeout[timer_list[m]]
      BY <2>1, <3>1, <3>2
    <3> QED
      BY <1>1, <3>2, <3>3, <3>4
  <2>3. \A j \in 1 .. k : timeout[timer_list[j]] <= now + d
    BY SMTT(30), <1>1, <1>2, <1>5
  <2>4. ASSUME NEW j \in 1 .. Len(timer_list'), NEW m \in 1 .. Len(timer_list'), j < m
        PROVE  timeout'[timer_list'[j]] <= timeout'[timer_list'[m]]
    <3>1. j \in Int /\ m \in Int
      OBVIOUS
    <3>2. CASE m <= k
      <4>1. /\ j \in 1 .. Len(timer_list) /\ timer_list'[j] = timer_list[j]
            /\ m \in 1 .. Len(timer_list) /\ timer_list'[m] = timer_list[m]
        <5>1. /\ k \in Int /\ ~(m = k + 1) /\ ~(m > k + 1)
              /\ ~(j = k + 1) /\ ~(j > k + 1)
          BY <1>1, <2>4, <3>1, <3>2
        <5> QED
          BY <1>4, <5>1
      <4> QED
        BY <1>5, <2>1, <2>4, <4>1
    <3>3. CASE m = k + 1
      <4>1. timer_list'[m] = tm /\ j \in 1 .. k
        <5>1. k \in Int /\ ~(m <= k) /\ ~(m > k + 1) /\ j \in 1 .. k
          BY <1>1, <2>4, <3>1, <3>3
        <5> QED
          BY <1>4, <5>1
      <4>2. timer_list'[j] = timer_list[j] /\ j \in 1 .. Len(timer_list)
        <5>1. k \in Int /\ ~(j = k + 1) /\ ~(j > k + 1)
          BY <1>1, <3>1, <4>1
        <5> QED
          BY <1>4, <5>1
      <4> QED
        BY <1>5, <1>6, <2>3, <4>1, <4>2
    <3>4. CASE m > k + 1
      <4>1. /\ m - 1 \in 1 .. Len(timer_list) /\ timer_list'[m] = timer_list[m - 1]
            /\ m - 1 \in k + 1 .. Len(timer_list)
        <5>1. k \in Int /\ ~(m <= k) /\ ~(m = k + 1)
          BY <1>1, <3>1, <3>4
        <5>2. m - 1 \in 1 .. Len(timer_list) /\ timer_list'[m] = timer_list[m - 1]
          BY <1>4, <5>1
        <5> QED
          BY <1>1, <3>1, <3>4, <5>2
      <4>2. CASE j <= k
        <5>1. j \in 1 .. Len(timer_list) /\ timer_list'[j] = timer_list[j] /\ j < m - 1
          <6>1. k \in Int /\ ~(j = k + 1) /\ ~(j > k + 1) /\ j < m - 1
            BY <1>1, <3>1, <3>4, <4>2
          <6> QED
            BY <1>4, <6>1
        <5>2. timeout[timer_list[j]] <= timeout[timer_list[m - 1]]
          BY <2>1, <4>1, <5>1
        <5> QED
          BY <1>5, <4>1, <5>1, <5>2
      <4>3. CASE j = k + 1
        <5>1. timer_list'[j] = tm
          <6>1. k \in Int /\ ~(j <= k) /\ ~(j > k + 1)
            BY <1>1, <3>1, <4>3
          <6> QED
            BY <1>4, <6>1
        <5> QED
          BY <1>5, <1>6, <2>2, <4>1, <5>1
      <4>4. CASE j > k + 1
        <5>1. j - 1 \in 1 .. Len(timer_list) /\ timer_list'[j] = timer_list[j - 1] /\ j - 1 < m - 1
          <6>1. k \in Int /\ ~(j = k + 1) /\ ~(j <= k) /\ j - 1 < m - 1
            BY <1>1, <2>4, <3>1, <4>4
          <6> QED
            BY <1>4, <6>1
        <5>2. timeout[timer_list[j - 1]] <= timeout[timer_list[m - 1]]
          BY <2>1, <4>1, <5>1
        <5> QED
          BY <1>5, <4>1, <5>1, <5>2
      <4> QED
        BY <1>1, <3>1, <4>2, <4>3, <4>4
    <3> QED
      BY <1>1, <3>1, <3>2, <3>3, <3>4
  <2>5. \A j \in 1 .. Len(pending_list) : pending_list[j] \in Timers =>
            pending_list[j] # tm /\ timeout'[pending_list[j]] = timeout[pending_list[j]]
    BY <1>1, <1>2 DEF InPending
  <2>6. \A j, m \in 1 .. Len(pending_list') :
          j < m /\ pending_list'[j] \in Timers /\ pending_list'[m] \in Timers
            => timeout'[pending_list'[j]] <= timeout'[pending_list'[m]]
    BY <2>5 DEF TimersInOrder
  <2>7. ASSUME NEW t \in Timers, InPending(t)'
        PROVE  timeout'[t] < now' /\ \A u \in Timers : Armed(u)' => timeout'[t] <= timeout'[u]
    <3>1. InPending(t) /\ t # tm /\ timeout'[t] = timeout[t] /\ timeout[t] \in Nat
      BY <1>1, <1>2, <1>8, <2>7
    <3>2. timeout[t] < now
      BY <3>1 DEF TimersInOrder
    <3>3. ASSUME NEW u \in Timers, Armed(u)' PROVE timeout'[t] <= timeout'[u]
      <4>1. CASE u = tm
        BY <1>1, <1>6, <3>1, <3>2, <4>1
      <4>2. CASE u # tm
        <5>1. Armed(u) /\ timeout'[u] = timeout[u]
          BY <1>1, <1>2, <1>7, <3>3, <4>2
        <5> QED
          BY <3>1, <5>1 DEF TimersInOrder
      <4> QED
        BY <4>1, <4>2
    <3> QED
      BY <3>1, <3>2, <3>3
  <2> QED
    BY <2>4, <2>6, <2>7 DEF TimersInOrder
<1> QED
  BY <1>9, <1>10

\* ril_timer_add on another thread or in a callback.
LEMMA TimerAddKeeps ==
    ASSUME IInv, TypeOK', NEW t, NEW tm \in Timers, NEW d \in Delays,
           (t \in Threads /\ ThreadTimerAdd(t, tm, d)) \/ CallbackTimerAdd(tm, d)
    PROVE  IInv'
<1> USE EventsAssumption DEF IInv
<1>1. /\ ril_timer_add(tm, d) /\ ~Armed(tm) /\ ~InPending(tm)
      /\ UNCHANGED <<tableVars, pending_list, pc, rfds, i, tev, tv, pipe, tadd, now>>
  BY DEF ThreadTimerAdd, CallbackTimerAdd, CanStart, loopVars, threadVars, envVars
<1>2. ListIntegrity' /\ TimersInOrder'
  BY <1>1, TimerAddLists
<1>3. FdsOwned' /\ WatchConsistent' /\ OneShot' /\ PipeOpen' /\ Scanned'
  BY <1>1, KeepFds, KeepWatch, KeepOneShot DEF PipeOpen, Scanned, Watched, InPending, tableVars
<1>4. CASE t \in Threads /\ ThreadTimerAdd(t, tm, d)
  <2>1. \A u \in Threads : tpc'[u] = IF u = t THEN "trigger" ELSE tpc[u]
    BY <1>4 DEF ThreadTimerAdd, TypeOK
  <2>2. tpc[t] = "idle"
    BY <1>4 DEF ThreadTimerAdd
  <2>3. Adding'
    BY <1>1, <1>4, <2>1, <2>2 DEF Adding, tableVars
  <2>4. Doorbell'
    BY <1>4, <2>1 DEF Doorbell
  <2>5. NoLostWakeup'
    BY <1>1, <2>4 DEF NoLostWakeup, Watched, tableVars
  <2> QED
    BY <1>2, <1>3, <2>3, <2>5
<1>5. CASE CallbackTimerAdd(tm, d)
  <2>1. pc = "cb" /\ tpc' = tpc
    BY <1>5 DEF CallbackTimerAdd, InCallback, threadVars
  <2>2. Adding' /\ NoLostWakeup'
    BY <1>1, <2>1, KeepAdding, KeepAwake DEF tableVars
  <2> QED
    BY <1>2, <1>3, <2>2
<1> QED
  BY <1>4, <1>5

\* The byte in the pipe takes over from the thread that was about to write it.
LEMMA TriggerKeeps == ASSUME IInv, TypeOK', NEW t \in Threads, triggerEvLoop(t) PROVE IInv'
<1> USE EventsAssumption DEF IInv
<1>1. /\ tpc[t] = "trigger"
      /\ UNCHANGED <<tableVars, timer_list, timeout, pending_list, pc, rfds, i, tev, tv, tadd, now>>
      /\ pipe' = IF pipe = -1 THEN -1 ELSE pipe + 1
  BY DEF triggerEvLoop, timerVars, loopVars, envVars
<1>2. \A u \in Threads : tpc'[u] = IF u = t THEN "idle" ELSE tpc[u]
  BY DEF triggerEvLoop, TypeOK
<1>3. pipe \in Int /\ (pipe >= 0 => pipe' > 0)
  BY <1>1, BoundsAssumption DEF TypeOK
<1>4. Adding'
  BY <1>1, <1>2 DEF Adding, tableVars
<1>5. FdsOwned' /\ WatchConsistent' /\ OneShot' /\ ListIntegrity' /\ TimersInOrder' /\ Scanned'
  BY <1>1, KeepFds, KeepWatch, KeepOneShot, KeepLists, KeepTimers
     DEF Scanned, Watched, InPending, tableVars
<1>6. PipeOpen'
  <2>1. pipe >= 0 => pipe' >= 0
    BY <1>1, <1>3
  <2> QED
    BY <1>1, <2>1 DEF PipeOpen, Watched, tableVars
<1>7. NoLostWakeup'
  <2>1. Watched(Wakeup)' => pipe' > 0
    BY <1>1, <1>3 DEF PipeOpen, Watched, tableVars
  <2> QED
    BY <1>1, <2>1 DEF NoLostWakeup, Watched, Doorbell, tableVars
<1> QED
  BY <1>4, <1>5, <1>6, <1>7

\* firePending takes the first event off pending_list.
LEMMA FireKeeps == ASSUME IInv, TypeOK', firePending PROVE IInv'
<1> USE DEF IInv
<1>1. /\ pc = "fire" /\ pc' = "cb" /\ pending_list # <<>> /\ pending_list' = Tail(pending_list)
      /\ UNCHANGED <<tableVars, timer_list, timeout, pipe, tpc, tadd, now>>
  BY DEF firePending, timerVars, threadVars, envVars
<1>2. /\ pending_list \in Seq(Events \cup Timers) /\ Len(pending_list) \in Nat
      /\ Len(pending_list') = Len(pending_list) - 1
      /\ \A j \in 1 .. Len(pending_list') : pending_list'[j] = pending_list[j + 1]
  <2>1. pending_list \in Seq(Events \cup Timers)
    BY DEF TypeOK
  <2> QED
    BY <1>1, <2>1, HeadTailProperties
<1>3. \A x : InPending(x)' => InPending(x)
  <2> TAKE x
  <2> HAVE InPending(x)'
  <2>1. PICK j \in 1 .. Len(pending_list') : pending_list'[j] = x
    BY DEF InPending
  <2>2. j + 1 \in 1 .. Len(pending_list) /\ pending_list[j + 1] = x
    BY <1>2, <2>1
  <2> QED
    BY <2>2 DEF InPending
<1>4. Adding' /\ NoLostWakeup' /\ FdsOwned' /\ WatchConsistent' /\ PipeOpen'
  BY <1>1, KeepAdding, KeepAwake, KeepFds, KeepWatch DEF PipeOpen, Watched, tableVars
<1>5. OneShot' /\ Scanned'
  BY <1>1, <1>3 DEF OneShot, Scanned, Watched, tableVars
<1>6. \A j \in 1 .. Len(pending_list') : j + 1 \in 1 .. Len(pending_list)
  BY <1>2
<1>7. ListIntegrity'
  <2>1. Distinct(timer_list)'
    BY <1>1 DEF ListIntegrity, Distinct
  <2>2. Distinct(pending_list)'
    BY <1>2, <1>6 DEF ListIntegrity, Distinct
  <2>3. \A t \in Timers : ~(Armed(t)' /\ InPending(t)')
    BY <1>1, <1>3 DEF ListIntegrity, Armed
  <2> QED
    BY <2>1, <2>2, <2>3 DEF ListIntegrity
<1>8. TimersInOrder'
  <2>1. \A j, k \in 1 .. Len(pending_list') :
          j < k /\ pending_list'[j] \in Timers /\ pending_list'[k] \in Timers
            => timeout'[pending_list'[j]] <= timeout'[pending_list'[k]]
    BY <1>1, <1>2, <1>6 DEF TimersInOrder
  <2> QED
    BY <1>1, <1>3, <2>1 DEF TimersInOrder, Armed
<1> QED
  BY <1>4, <1>5, <1>7, <1>8

\* A step that leaves the table, the lists and the threads alone keeps
\* everything but, perhaps, NoLostWakeup.
LEMMA QuietKeeps ==
    ASSUME IInv, TypeOK',
           UNCHANGED <<tableVars, timer_list, timeout, pending_list, tpc, tadd>>,
           now' \in {now, now + 1}, pipe' \in {pipe, 0},
           pc' = "pipe" => pc = "pipe", pc' = "readies" => pc = "readies" /\ i' = i,
           pc' \in {"pipe", "copy", "calc", "enter", "select", "timeouts"} => pending_list = <<>>,
           NoLostWakeup'
    PROVE  IInv'
<1> USE DEF IInv
<1>1. Adding' /\ FdsOwned' /\ WatchConsistent' /\ OneShot' /\ ListIntegrity' /\ TimersInOrder'
  BY KeepAdding, KeepFds, KeepWatch, KeepOneShot, KeepLists, KeepTimers DEF tableVars
<1>2. PipeOpen'
  BY DEF PipeOpen, Watched, tableVars
<1>3. Scanned'
  BY DEF Scanned, Watched, InPending, tableVars
<1> QED
  BY <1>1, <1>2, <1>3

\* The way of the loop thread into select() and out of it, and the environment.
LEMMA LoopKeeps ==
    ASSUME IInv, TypeOK',
           \/ CopyReadFds \/ calcNextTimeout \/ EnterSelect \/ SelectReturns \/ ReadiesDone \/ FireDone
           \/ CallbackReturns \/ processWakeupCallback \/ Fault \/ Tick \/ \E f \in Fds : Arrive(f)
           \/ UNCHANGED vars
    PROVE  IInv'
<1> USE EventsAssumption, FdsAssumption, DisjointAssumption DEF IInv
<1>0. pc \in {"pipe", "copy", "calc", "enter", "select", "timeouts"} => pending_list = <<>>
  BY DEF Scanned
<1>1. CASE CopyReadFds
  <2>1. /\ pc = "copy" /\ pc' = "calc" /\ rfds' = readFds /\ UNCHANGED <<i, pipe, now>>
        /\ UNCHANGED <<tableVars, timer_list, timeout, pending_list, tpc, tadd>>
    BY <1>1 DEF CopyReadFds, timerVars, threadVars, envVars
  <2>2. \A ev \in Events : Watched(ev) => fd[ev] \in readFds
    BY DEF WatchConsistent
  <2>3. Watched(Wakeup) => fd[Wakeup] = WakeupFd
    BY DEF FdsOwned
  <2>4. NoLostWakeup'
    BY <2>1, <2>2, <2>3 DEF NoLostWakeup, Watched, Doorbell, tableVars
  <2> QED
    BY <1>0, <2>1, <2>4, QuietKeeps
<1>2. CASE calcNextTimeout
  <2>1. /\ pc = "calc" /\ pc' = "enter" /\ UNCHANGED <<rfds, i, pipe, now>>
        /\ UNCHANGED <<tableVars, timer_list, timeout, pending_list, tpc, tadd>>
    BY <1>2 DEF calcNextTimeout, timerVars, threadVars, envVars
  <2>2. ASSUME timer_list # <<>>
        PROVE  tev' # NULL /\ tv' # -1 /\ timeout[tev'] <= timeout[Head(timer_list)]
    <3>1. Head(timer_list) \in Timers
      BY <2>2, HeadTailProperties DEF TypeOK
    <3>2. timeout[Head(timer_list)] \in Nat /\ now \in Nat
      BY <3>1 DEF TypeOK
    <3>3. tev' = Head(timer_list)
      BY <1>2, <2>2 DEF calcNextTimeout
    <3>4. tv' = IF timeout[Head(timer_list)] > now THEN timeout[Head(timer_list)] - now ELSE 0
      BY <1>2, <2>2 DEF calcNextTimeout
    <3>5. tv' # -1
      BY <3>2, <3>4
    <3> QED
      BY <3>1, <3>2, <3>3, <3>5
  <2>3. NoLostWakeup'
    BY <2>1, <2>2 DEF NoLostWakeup, Watched, Doorbell, tableVars
  <2> QED
    BY <1>0, <2>1, <2>3, QuietKeeps
<1>3. CASE EnterSelect
  <2>1. /\ pc = "enter" /\ pc' = "select" /\ UNCHANGED <<tev, i, pipe, now>>
        /\ UNCHANGED <<tableVars, timer_list, timeout, pending_list, tpc, tadd>>
        /\ rfds' = {f \in rfds : f < nfds}
    BY <1>3 DEF EnterSelect, timerVars, threadVars, envVars
  <2>2. tv # -1 => tv' # -1
    BY <1>3 DEF EnterSelect, TypeOK
  <2>3. ASSUME NEW ev \in Events, Watched(ev), ~Doorbell \/ ev = Wakeup PROVE fd[ev] < nfds
    <3>1. ASSUME NEW t \in Threads, tadd[t] = ev PROVE FALSE
      BY <2>3, <3>1 DEF Adding, Doorbell
    <3> QED
      BY <2>3, <3>1 DEF WatchConsistent
  <2>4. Watched(Wakeup) => fd[Wakeup] = WakeupFd
    BY DEF FdsOwned
  <2>5. NoLostWakeup'
    <3>1. SUFFICES ASSUME Watched(Wakeup) PROVE NoLostWakeup'
      BY <2>1 DEF NoLostWakeup, Watched, tableVars
    <3>2. WakeupFd \in rfds'
      BY <2>1, <2>3, <2>4, <3>1 DEF NoLostWakeup
    <3>3. CASE Doorbell
      BY <2>1, <3>2, <3>3 DEF NoLostWakeup, Doorbell
    <3>4. CASE ~Doorbell
      <4>1. \A ev \in Events : Watched(ev) => fd[ev] \in rfds'
        BY <2>1, <2>3, <3>1, <3>4 DEF NoLostWakeup
      <4>2. timer_list # <<>> => tev # NULL /\ tv # -1 /\ timeout[tev] <= timeout[Head(timer_list)]
        BY <2>1, <3>1, <3>4 DEF NoLostWakeup
      <4> QED
        BY <2>1, <2>2, <3>2, <4>1, <4>2 DEF NoLostWakeup, Watched, tableVars
    <3> QED
      BY <3>3, <3>4
  <2> QED
    BY <1>0, <2>1, <2>5, QuietKeeps
<1>4. CASE SelectReturns \/ ReadiesDone \/ FireDone \/ CallbackReturns \/ Fault
  <2>1. /\ UNCHANGED <<tableVars, timer_list, timeout, pending_list, tpc, tadd, pipe, now>>
        /\ pc' \in {"timeouts", "fire", "copy", "exited", "returned"}
        /\ pc' \in {"copy", "timeouts"} => pc = "select" \/ pending_list = <<>>
    BY <1>4 DEF SelectReturns, ReadiesDone, FireDone, CallbackReturns, Fault, OpenPipeFails,
                SelectInterrupted, SelectFails, timerVars, threadVars, envVars
  <2> QED
    BY <1>0, <2>1, KeepAwake, QuietKeeps
<1>5. CASE processWakeupCallback
  <2>1. /\ UNCHANGED <<tableVars, timer_list, timeout, pending_list, tpc, tadd, now>>
        /\ pc' = "fire" /\ pipe' = 0
    BY <1>5 DEF processWakeupCallback, timerVars, threadVars, envVars
  <2> QED
    BY <2>1, KeepAwake, QuietKeeps
<1>6. CASE Tick \/ (\E f \in Fds : Arrive(f)) \/ UNCHANGED vars
  <2>1. /\ UNCHANGED <<tableVars, timer_list, timeout, pending_list, tpc, tadd, pipe>>
        /\ UNCHANGED <<pc, rfds, i, tev, tv>> /\ now' \in {now, now + 1}
    BY <1>6 DEF Tick, Arrive, vars, timerVars, loopVars, threadVars, envVars
  <2>2. NoLostWakeup'
    BY <2>1 DEF NoLostWakeup, Watched, Doorbell, tableVars
  <2> QED
    BY <1>0, <2>1, <2>2, QuietKeeps
<1> QED
  BY <1>1, <1>2, <1>3, <1>4, <1>5, <1>6

\* The empty state of a new process satisfies the invariant.
LEMMA InitIInv == Init => IInv
<1> SUFFICES ASSUME Init PROVE IInv
  OBVIOUS
<1> USE EventsAssumption, FdsAssumption
<1>1. TypeOK
  BY InitTypeOK
<1>2. Adding /\ FdsOwned /\ PipeOpen /\ Scanned
  BY DEF Init, Adding, FdsOwned, PipeOpen, Scanned, Watched
<1>3. WatchConsistent
  <2>1. \A ev \in Events : ~Watched(ev)
    BY DEF Init, Watched
  <2> QED
    BY <2>1 DEF Init, WatchConsistent
<1>4. OneShot /\ ListIntegrity /\ TimersInOrder /\ NoLostWakeup
  BY DEF Init, OneShot, ListIntegrity, TimersInOrder, NoLostWakeup, Distinct, Armed, InPending, Watched
<1> QED
  BY <1>1, <1>2, <1>3, <1>4 DEF IInv

\* So does the state after a restart.
LEMMA RestartKeeps == ASSUME TypeOK', Restart PROVE IInv'
<1> USE EventsAssumption, FdsAssumption
<1>1. Adding' /\ FdsOwned' /\ PipeOpen' /\ Scanned'
  BY DEF Restart, Adding, FdsOwned, PipeOpen, Scanned, Watched
<1>2. WatchConsistent'
  <2>1. \A ev \in Events : ~Watched(ev)'
    BY DEF Restart, Watched
  <2> QED
    BY <2>1 DEF Restart, WatchConsistent
<1>3. OneShot' /\ ListIntegrity' /\ TimersInOrder' /\ NoLostWakeup'
  BY DEF Restart, OneShot, ListIntegrity, TimersInOrder, NoLostWakeup, Distinct, Armed, InPending, Watched
<1> QED
  BY <1>1, <1>2, <1>3 DEF IInv

-----------------------------------------------------------------------------
(* The theorems. *)

\* Every step of the event loop keeps the inductive invariant.
LEMMA NextIInv == IInv /\ [Next]_vars => IInv'
<1> SUFFICES ASSUME IInv, [Next]_vars PROVE IInv'
  OBVIOUS
<1>0. TypeOK /\ Adding
  BY DEF IInv
<1>1. ASSUME NEW t \in Threads, ThreadCall(t) PROVE IInv'
  <2>1. ASSUME NEW ev \in Events, NEW f \in Fds, ThreadEventSet(t, ev, f) PROVE IInv'
    BY <1>0, <2>1, TableTypeOK, SetKeeps DEF ThreadEventSet
  <2>2. ASSUME NEW ev \in Events, ThreadEventAdd(t, ev) PROVE IInv'
    BY <1>0, <2>2, TableTypeOK, ThreadAddKeeps, FdsAssumption
  <2>3. ASSUME NEW tm \in Timers, NEW d \in Delays, ThreadTimerAdd(t, tm, d) PROVE IInv'
    BY <1>0, <2>3, TimerTypeOK, TimerAddKeeps
  <2> QED
    BY <1>1, <2>1, <2>2, <2>3 DEF ThreadCall
<1>2. ASSUME NEW t \in Threads, ThreadStep(t) PROVE IInv'
  <2>1. CASE ThreadEventAdded(t)
    BY <1>0, <2>1, TableTypeOK, ThreadAddedKeeps, FdsAssumption, EventsAssumption
  <2>2. CASE triggerEvLoop(t)
    BY <1>0, <2>2, TriggerTypeOK, TriggerKeeps
  <2> QED
    BY <1>2, <2>1, <2>2 DEF ThreadStep
<1>3. CASE LoopStep \/ SelectReturns \/ Fault \/ Tick \/ \E f \in Fds : Arrive(f)
  <2>1. TypeOK'
    BY <1>0, <1>3, LoopTypeOK
  <2> QED
    BY <1>3, <2>1, OpenPipeKeeps, TimeoutsKeeps, ReadReadiesKeeps, FireKeeps, RestartKeeps, LoopKeeps
       DEF LoopStep
<1>5. CASE Callback
  <2>1. ASSUME NEW ev \in Events, NEW f \in Fds, CallbackEventSet(ev, f) PROVE IInv'
    BY <1>0, <2>1, TableTypeOK, SetKeeps DEF CallbackEventSet
  <2>2. ASSUME NEW ev \in Events, CallbackEventAdd(ev) PROVE IInv'
    BY <1>0, <2>2, TableTypeOK, CallbackAddKeeps, FdsAssumption
  <2>3. ASSUME NEW ev \in Events, CallbackEventDel(ev) PROVE IInv'
    BY <1>0, <2>3, TableTypeOK, CallbackDelKeeps, FdsAssumption
  <2>4. ASSUME NEW tm \in Timers, NEW d \in Delays, CallbackTimerAdd(tm, d) PROVE IInv'
    BY <1>0, <2>4, TimerTypeOK, TimerAddKeeps
  <2> QED
    BY <1>5, <2>1, <2>2, <2>3, <2>4 DEF Callback
<1>4. CASE UNCHANGED vars
  <2>1. TypeOK'
    BY <1>0, <1>4 DEF TypeOK, vars, tableVars, timerVars, loopVars, threadVars, envVars
  <2> QED
    BY <1>4, <2>1, LoopKeeps
<1> QED
  BY <1>1, <1>2, <1>3, <1>4, <1>5 DEF Next

\* The inductive invariant holds in every reachable state.
THEOREM Invariance == Spec => []IInv
BY InitIInv, NextIInv, PTL DEF Spec

\* The variables of ril_event.cpp have their types, for every size of the table.
THEOREM TypeCorrect == Spec => []TypeOK
BY Invariance, PTL DEF IInv

\* watch_table, index, readFds and nfds always agree (ril_event_add, removeWatch).
THEOREM TableConsistent == Spec => []WatchConsistent
BY Invariance, PTL DEF IInv

\* An event without persist is not watched while its callback is due
\* (processReadReadies).
THEOREM NonPersistentOnce == Spec => []OneShot
BY Invariance, PTL DEF IInv

\* No event object is ever linked twice (addToList, removeFromList).
THEOREM ListsWellFormed == Spec => []ListIntegrity
BY Invariance, PTL DEF IInv

\* Timers are called in order and never early (ril_timer_add, processTimeouts).
THEOREM TimersOrdered == Spec => []TimersInOrder
BY Invariance, PTL DEF IInv

\* ril_event_loop never goes to sleep on stale copies of readFds, nfds or
\* timer_list without a byte in the pipe, or on its way there, to wake it.
THEOREM WakeupsArrive == Spec => []NoLostWakeup
BY Invariance, PTL DEF IInv
=============================================================================
