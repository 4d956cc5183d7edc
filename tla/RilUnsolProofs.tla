--------------------------- MODULE RilUnsolProofs ---------------------------
(* Proofs about RilUnsol: the wake lock is never leaked and no timer object   *)
(* is freed twice, for any number of threads, messages and connections.       *)
EXTENDS RilUnsol, TLAPS

\* The loop thread holds an address while it frees it, and a thread that is about
\* to write through its pointer has one; only messages that hold the lock get there.
\* A thread inside processRadioState is inside a message that holds the lock, and
\* is not between two calls.
Pointers ==
    /\ pc[Loop] = "free" => ptr[Loop] \in Addr
    /\ \A t \in Threads : pc[t] = "mark" => ptr[t] \in Addr
    /\ \A t \in Threads : pc[t] \in {"radio", "process", "store", "cancel", "mark", "schedule"} => Timed(t)
    /\ \A t \in Threads : step[t] # "none" =>
          kind[t] = "wake" /\ pc[t] \in {"marshal", "process", "send", "store", "cancel", "mark",
                                        "schedule", "assign"}

IInv == TypeOK /\ Pointers /\ TimersLive /\ LockHasTimer

\* NULL is no address, and the loop thread and the vendors are the threads.
LEMMA AddrFacts ==
    /\ NULL \notin Addr /\ Addr \subseteq Nat
    /\ Loop \in Threads /\ Vendors \subseteq Threads
BY BoundsAssumption DEF NULL, Addr, Threads

\* Append extends a sequence over a set by one of its elements.
LEMMA AppendType == ASSUME NEW S, NEW s \in Seq(S), NEW e \in S PROVE Append(s, e) \in Seq(S)
OBVIOUS

\* Steps that leave the translation of the radio state alone keep its types.
LEMMA RadioKept == RadioTypes /\ UNCHANGED radioVars => RadioTypes'
BY DEF RadioTypes, radioVars

\* Steps that leave the heap and the pointers alone, and do not bring the loop thread
\* to a free(), keep TimersLive.
LEMMA TimersKept ==
    ASSUME TimersLive, UNCHANGED <<ptr, info, armed>>, pc'[Loop] = "free" => pc[Loop] = "free"
    PROVE  TimersLive'
BY DEF TimersLive

\* Initially nothing is armed and the lock is free.
LEMMA InitIInv == Init => IInv
<1> SUFFICES ASSUME Init PROVE IInv
  OBVIOUS
<1>1. TypeOK
  <2>1. RadioTypes
    <3>1. radioState \in 0 .. 10 /\ UNAVAILABLE \in 0 .. 10
      BY RadioAssumption DEF Init, UNAVAILABLE
    <3>2. owed \in BOOLEAN
      BY DEF Init
    <3>3. /\ newState \in [Threads -> 0 .. 10] /\ step \in [Threads -> {"none", "tech", "source", "sim", "done"}]
          /\ data \in [Threads -> {-1, 0, UMTS, OneXRTT}]
      BY <3>1 DEF Init
    <3> QED
      BY <3>1, <3>2, <3>3 DEF Init, RadioTypes
  <2> QED
    BY <2>1, AddrFacts, BoundsAssumption DEF Init, TypeOK, Places
<1>2. Pointers
  BY AddrFacts DEF Init, Pointers, Timed
<1>3. TimersLive
  BY AddrFacts DEF Init, TimersLive
<1>4. LockHasTimer
  BY DEF Init, LockHasTimer
<1> QED
  BY <1>1, <1>2, <1>3, <1>4 DEF IInv

\* Every step keeps the inductive invariant.  TimersLive is what makes
\* LockHasTimer survive free(): the object that is freed is not an armed timer.
LEMMA NextIInv == IInv /\ [Next]_vars => IInv'
<1> SUFFICES ASSUME IInv, [Next]_vars PROVE IInv'
  OBVIOUS
<1> USE AddrFacts, BoundsAssumption, KindsAssumption, RadioAssumption, RadioKept
<1> USE DEF Places, UMTS, OneXRTT, UNAVAILABLE, radioVars, Caller
<1>1. ASSUME NEW t \in Vendors, NEW k \in Kinds, VendorRaises(t, k) PROVE IInv'
  <2>1. TypeOK'
    <3>1. RadioTypes'
      BY <1>1 DEF IInv, TypeOK, RadioTypes, VendorRaises
    <3>2. stamp' \in [Threads -> 0 .. MaxMessages] /\ messages' \in 0 .. MaxMessages
      BY <1>1 DEF IInv, TypeOK, VendorRaises
    <3> QED
      BY <1>1, <3>1, <3>2 DEF IInv, TypeOK, VendorRaises, begin, Goto, heapVars, nitzVars, connVars
  <2>2. Pointers' /\ TimersLive'
    BY ZenonT(30), <1>1 DEF IInv, TypeOK, Pointers, Timed, TimersLive, VendorRaises, begin, Goto, heapVars
  <2>3. LockHasTimer'
    BY <1>1 DEF IInv, TypeOK, LockHasTimer, Scheduling, Timed, VendorRaises, begin, Goto, heapVars
  <2> QED
    BY <2>1, <2>2, <2>3 DEF IInv
<1>2. ASSUME NEW t \in Threads, Marshal(t) PROVE IInv'
  <2>1. TypeOK'
    <3>1. RadioTypes'
      <4>1. RadioTypes
        BY DEF IInv, TypeOK
      <4>2. UNCHANGED <<radioState, newState, voiceRadioTech, cdmaSubscriptionSource, simRuimStatus, step, owed>>
        BY <1>2 DEF Marshal
      <4>3. \/ data' = data
            \/ data' = [data EXCEPT ![t] = IF step[t] = "source" THEN voiceRadioTech ELSE 0]
        BY <1>2 DEF Marshal
      <4>4. data' \in [Threads -> {-1, 0, UMTS, OneXRTT}]
        BY <4>1, <4>3 DEF RadioTypes
      <4> QED
        BY <4>1, <4>2, <4>4 DEF RadioTypes
    <3> QED
      BY <1>2, <3>1 DEF IInv, TypeOK, Marshal, Goto, heapVars, nitzVars, connVars
  <2>4. /\ UNCHANGED <<kind, ptr, info, armed, step>> /\ pc[t] = "marshal"
        /\ \/ pc' = [pc EXCEPT ![t] = "radio"] /\ kind[t] = "radio"
           \/ pc' = [pc EXCEPT ![t] = "send"]
           \/ pc' = [pc EXCEPT ![t] = "idle"] /\ step[t] = "none"
    BY <1>2 DEF Marshal, Goto, heapVars
  <2>5. pc \in [Threads -> Places] /\ Pointers /\ TimersLive
    BY DEF IInv, TypeOK
  <2>6. TimersLive'
    BY <2>4, <2>5, TimersKept
  <2>7. Pointers'
    <3>1. CASE pc' = [pc EXCEPT ![t] = "radio"] /\ kind[t] = "radio"
      BY <3>1, <2>4, <2>5 DEF Pointers, Timed
    <3>2. CASE pc' = [pc EXCEPT ![t] = "send"]
      BY <3>2, <2>4, <2>5 DEF Pointers, Timed
    <3>3. CASE pc' = [pc EXCEPT ![t] = "idle"] /\ step[t] = "none"
      BY <3>3, <2>4, <2>5 DEF Pointers, Timed
    <3> QED
      BY <2>4, <3>1, <3>2, <3>3
  <2>2. Pointers' /\ TimersLive'
    BY <2>6, <2>7
  <2>3. LockHasTimer'
    BY <1>2 DEF IInv, TypeOK, LockHasTimer, Scheduling, Timed, Marshal, Goto, heapVars
  <2> QED
    BY <2>1, <2>2, <2>3 DEF IInv
<1>3. ASSUME NEW t \in Threads, Send(t) PROVE IInv'
  <2>1. TypeOK'
    <3>3. missed' \subseteq 0 .. MaxMessages
      <4>1. missed' = missed \/ missed' = missed \cup {stamp[t]}
        BY <1>3 DEF Send
      <4>2. stamp[t] \in 0 .. MaxMessages /\ missed \subseteq 0 .. MaxMessages
        BY DEF IInv, TypeOK
      <4> QED
        BY <4>1, <4>2, Zenon
    <3>2. pc' \in [Threads -> Places]
      BY ZenonT(30), <1>3 DEF IInv, TypeOK, Send, Goto
    <3>4. RadioTypes'
      <4>1. owed' \in BOOLEAN
        BY <1>3, Zenon DEF Send
      <4>2. data' \in [Threads -> {-1, 0, UMTS, OneXRTT}]
        BY <1>3 DEF IInv, TypeOK, RadioTypes, Send
      <4> QED
        BY <1>3, <4>1, <4>2 DEF IInv, TypeOK, RadioTypes, Send
    <3> QED
      BY <1>3, <3>2, <3>3, <3>4 DEF IInv, TypeOK, Send, heapVars, connVars
  <2>2. Pointers' /\ TimersLive'
    BY <1>3 DEF IInv, TypeOK, Pointers, Timed, TimersLive, Send, Goto, heapVars
  <2>3. LockHasTimer'
    BY <1>3 DEF IInv, TypeOK, LockHasTimer, Scheduling, Timed, Send, Goto, heapVars
  <2> QED
    BY <2>1, <2>2, <2>3 DEF IInv
<1>4. ASSUME NEW t \in Threads, StoreNITZ(t) PROVE IInv'
  <2>1. TypeOK'
    BY <1>4 DEF IInv, TypeOK, StoreNITZ, Goto, heapVars, connVars
  <2>2. Pointers' /\ TimersLive'
    BY <1>4 DEF IInv, TypeOK, Pointers, Timed, TimersLive, StoreNITZ, Goto, heapVars
  <2>3. LockHasTimer'
    BY <1>4 DEF IInv, TypeOK, LockHasTimer, Scheduling, Timed, StoreNITZ, Goto, heapVars
  <2> QED
    BY <2>1, <2>2, <2>3 DEF IInv
<1>5. ASSUME NEW t \in Threads, CancelPrevious(t) PROVE IInv'
  <2>1. TypeOK'
    BY <1>5 DEF IInv, TypeOK, CancelPrevious, Goto, heapVars, nitzVars, connVars
  <2>2. Pointers' /\ TimersLive'
    BY <1>5 DEF IInv, TypeOK, Pointers, Timed, TimersLive, CancelPrevious, Goto, heapVars
  <2>3. LockHasTimer'
    BY <1>5 DEF IInv, TypeOK, LockHasTimer, Scheduling, Timed, CancelPrevious, Goto, heapVars
  <2> QED
    BY <2>1, <2>2, <2>3 DEF IInv
<1>6. ASSUME NEW t \in Threads, MarkCancelled(t) PROVE IInv'
  <2>1. TypeOK'
    BY <1>6 DEF IInv, TypeOK, MarkCancelled, Goto, nitzVars, connVars
  <2>2. Pointers' /\ TimersLive'
    BY <1>6 DEF IInv, TypeOK, Pointers, Timed, TimersLive, MarkCancelled, Goto
  <2>3. LockHasTimer'
    \* The thread that marks is itself about to schedule, unless its message is quiet.
    <3>1. Timed(t) => Scheduling(t)'
      BY <1>6 DEF IInv, TypeOK, Scheduling, Timed, MarkCancelled, Goto
    <3>2. Timed(t)
      BY <1>6 DEF IInv, Pointers, MarkCancelled
    <3> QED
      BY <3>1, <3>2 DEF LockHasTimer
  <2> QED
    BY <2>1, <2>2, <2>3 DEF IInv
<1>7. ASSUME NEW t \in Threads, internalRequestTimedCallback(t) PROVE IInv'
  <2>1. TypeOK'
    <3>1. /\ info' \in [Addr -> {-1, 0, 1}] /\ brk' \in Addr \cup {0}
          /\ ptr' \in [Threads -> Addr \cup {NULL}]
      BY <1>7 DEF IInv, TypeOK, internalRequestTimedCallback
    <3>2. armed' \in Seq(Addr)
      BY <1>7 DEF IInv, TypeOK, internalRequestTimedCallback
    <3>3. pc' \in [Threads -> Places]
      BY <1>7 DEF IInv, TypeOK, internalRequestTimedCallback, Goto
    <3> QED
      BY <1>7, <3>1, <3>2, <3>3 DEF IInv, TypeOK, internalRequestTimedCallback, nitzVars, connVars
  <2>2. Pointers' /\ TimersLive'
    BY <1>7 DEF IInv, TypeOK, Pointers, Timed, TimersLive, internalRequestTimedCallback, Goto
  <2>3. LockHasTimer'
    <3>1. armed'[Len(armed')] \in Addr /\ info'[armed'[Len(armed')]] = 0 /\ Len(armed') \in 1 .. Len(armed')
      BY <1>7 DEF IInv, TypeOK, internalRequestTimedCallback
    <3> QED
      BY <3>1 DEF LockHasTimer
  <2> QED
    BY <2>1, <2>2, <2>3 DEF IInv
<1>8. ASSUME NEW t \in Threads, AssignLast(t) PROVE IInv'
  <2>1. TypeOK'
    BY <1>8 DEF IInv, TypeOK, AssignLast, Goto, nitzVars, connVars
  <2>2. Pointers' /\ TimersLive'
    BY <1>8 DEF IInv, TypeOK, Pointers, Timed, TimersLive, AssignLast, Goto
  <2>3. LockHasTimer'
    BY <1>8 DEF IInv, TypeOK, LockHasTimer, Scheduling, Timed, AssignLast, Goto
  <2> QED
    BY <2>1, <2>2, <2>3 DEF IInv
<1>9. CASE wakeTimeoutCallback
  <2>1. TypeOK'
    BY <1>9 DEF IInv, TypeOK, wakeTimeoutCallback, Goto, nitzVars, connVars
  <2>2. Pointers' /\ TimersLive'
    BY <1>9 DEF IInv, TypeOK, Pointers, Timed, TimersLive, wakeTimeoutCallback, Goto
  <2>3. LockHasTimer'
    <3>1. SUFFICES ASSUME wakelock' = "held" PROVE LockHasTimer'
      BY DEF LockHasTimer
    <3>2. wakelock = "held" /\ info[Head(armed)] # 0
      BY <1>9, <3>1 DEF IInv, TypeOK, wakeTimeoutCallback
    <3>3. ASSUME NEW t \in Threads, Scheduling(t) PROVE Scheduling(t)'
      BY <1>9, <3>3 DEF IInv, TypeOK, Scheduling, Timed, wakeTimeoutCallback, Goto
    <3>4. ASSUME NEW k \in 1 .. Len(armed), info[armed[k]] = 0
          PROVE  \E j \in 1 .. Len(armed') : info'[armed'[j]] = 0
      <4>1. k # 1 /\ armed' = Tail(armed) /\ info' = info /\ armed \in Seq(Addr) /\ armed # <<>>
        BY <1>9, <3>2, <3>4 DEF IInv, TypeOK, wakeTimeoutCallback
      <4>2. k - 1 \in 1 .. Len(armed') /\ armed'[k - 1] = armed[k]
        BY <4>1
      <4> QED
        BY <3>4, <4>1, <4>2
    <3> QED
      BY <3>2, <3>3, <3>4 DEF IInv, LockHasTimer
  <2> QED
    BY <2>1, <2>2, <2>3 DEF IInv
<1>10. CASE userTimerCallback
  <2>1. TypeOK'
    BY <1>10 DEF IInv, TypeOK, userTimerCallback, Goto, nitzVars, connVars
  <2>2. Pointers' /\ TimersLive'
    BY <1>10 DEF IInv, TypeOK, Pointers, Timed, TimersLive, userTimerCallback, Goto
  <2>3. LockHasTimer'
    BY <1>10 DEF IInv, TypeOK, LockHasTimer, TimersLive, Pointers, Scheduling, Timed, userTimerCallback, Goto
  <2> QED
    BY <2>1, <2>2, <2>3 DEF IInv
<1>11. CASE ClientConnects
  BY <1>11 DEF IInv, TypeOK, Pointers, TimersLive, LockHasTimer, Scheduling, Timed, ClientConnects,
              Goto, heapVars, nitzVars
<1>12. CASE Greet
  <2>1. TypeOK'
    BY <1>12 DEF IInv, TypeOK, Greet, begin, Goto, heapVars, nitzVars
  <2>2. Pointers' /\ TimersLive'
    BY <1>12 DEF IInv, TypeOK, Pointers, Timed, TimersLive, Greet, begin, Goto, heapVars
  <2>3. LockHasTimer'
    BY <1>12 DEF IInv, TypeOK, LockHasTimer, Scheduling, Timed, Greet, begin, Goto, heapVars
  <2> QED
    BY <2>1, <2>2, <2>3 DEF IInv
<1>13. CASE FlushNITZ
  <2>1. TypeOK'
    <3>3. missed' \subseteq 0 .. MaxMessages
      BY <1>13, Zenon DEF IInv, TypeOK, FlushNITZ
    <3>2. pc' \in [Threads -> Places]
      BY <1>13 DEF IInv, TypeOK, FlushNITZ, Goto
    <3> QED
      BY <1>13, <3>2, <3>3 DEF IInv, TypeOK, FlushNITZ, heapVars, connVars
  <2>4. /\ UNCHANGED <<kind, ptr, info, armed, step>> /\ pc[Loop] = "greet"
        /\ pc' = [pc EXCEPT ![Loop] = "idle"] \/ pc' = [pc EXCEPT ![Loop] = "clear"]
    BY <1>13 DEF FlushNITZ, Goto, heapVars
  <2>5. pc \in [Threads -> Places] /\ Pointers /\ TimersLive
    BY DEF IInv, TypeOK
  <2>6. TimersLive'
    BY <2>4, <2>5, TimersKept
  <2>7. Pointers'
    <3>1. CASE pc' = [pc EXCEPT ![Loop] = "idle"]
      BY <3>1, <2>4, <2>5 DEF Pointers, Timed
    <3>2. CASE pc' = [pc EXCEPT ![Loop] = "clear"]
      BY <3>2, <2>4, <2>5 DEF Pointers, Timed
    <3> QED
      BY <2>4, <3>1, <3>2
  <2>2. Pointers' /\ TimersLive'
    BY <2>6, <2>7
  <2>3. LockHasTimer'
    BY <1>13 DEF IInv, TypeOK, LockHasTimer, Scheduling, Timed, FlushNITZ, Goto, heapVars
  <2> QED
    BY <2>1, <2>2, <2>3 DEF IInv
<1>14. CASE ClearNITZ
  BY <1>14 DEF IInv, TypeOK, Pointers, TimersLive, LockHasTimer, Scheduling, Timed, ClearNITZ,
              Goto, heapVars, connVars
<1>15. CASE ClientGone
  <2>1. RadioTypes'
    BY <1>15 DEF IInv, TypeOK, RadioTypes, ClientGone
  <2> QED
    BY <1>15, <2>1 DEF IInv, TypeOK, Pointers, TimersLive, LockHasTimer, Scheduling, Timed, ClientGone,
                       threadVars, heapVars, nitzVars
<1>16. ASSUME NEW t \in Threads, onStateRequest(t) PROVE IInv'
  <2>1. TypeOK'
    <3>1. RadioTypes'
      <4>1. RadioTypes /\ t \in Threads
        BY DEF IInv, TypeOK
      <4>2. CASE radioState \in 2 .. 9
        <5>1. newState' \in [Threads -> 0 .. 10]
          BY <1>16, <4>1, <4>2 DEF RadioTypes, onStateRequest
        <5>2. step' \in [Threads -> {"none", "tech", "source", "sim", "done"}]
          BY <1>16, <4>1, <4>2 DEF RadioTypes, onStateRequest
        <5> QED
          BY <1>16, <4>1, <5>1, <5>2 DEF RadioTypes, onStateRequest
      <4>3. CASE radioState \notin 2 .. 9
        BY <1>16, <4>1, <4>3 DEF RadioTypes, onStateRequest
      <4> QED
        BY <4>2, <4>3
    <3> QED
      BY <1>16, <3>1 DEF IInv, TypeOK, onStateRequest, Goto, heapVars, nitzVars, connVars
  <2>4. /\ UNCHANGED <<ptr, info, armed>> /\ pc[t] = "radio" /\ kind' = [kind EXCEPT ![t] = "wake"]
        /\ \/ pc' = [pc EXCEPT ![t] = "process"] /\ step' = [step EXCEPT ![t] = "tech"]
           \/ pc' = [pc EXCEPT ![t] = "send"] /\ step' = step
    BY <1>16 DEF onStateRequest, Goto, heapVars
  <2>5. step \in [Threads -> {"none", "tech", "source", "sim", "done"}]
    BY DEF IInv, TypeOK, RadioTypes
  <2>8. /\ pc \in [Threads -> Places] /\ Pointers /\ TimersLive
        /\ kind \in [Threads -> Kinds \cup {"quiet", "wake", "radio"}]
    BY DEF IInv, TypeOK
  <2>6. TimersLive'
    BY <2>4, <2>8, TimersKept
  <2>7. Pointers'
    <3>1. CASE pc' = [pc EXCEPT ![t] = "process"] /\ step' = [step EXCEPT ![t] = "tech"]
      BY <3>1, <2>4, <2>5, <2>8 DEF Pointers, Timed
    <3>2. CASE pc' = [pc EXCEPT ![t] = "send"] /\ step' = step
      BY <3>2, <2>4, <2>5, <2>8 DEF Pointers, Timed
    <3> QED
      BY <2>4, <3>1, <3>2
  <2>2. Pointers' /\ TimersLive'
    BY <2>6, <2>7
  <2>3. LockHasTimer'
    BY <1>16 DEF IInv, TypeOK, LockHasTimer, Scheduling, Timed, onStateRequest, Goto, heapVars
  <2> QED
    BY <2>1, <2>2, <2>3 DEF IInv
<1>17. ASSUME NEW t \in Threads, processRadioState(t) PROVE IInv'
  <2>1. TypeOK'
    <3>1. decodeVoiceRadioTechnology(newState[t]) \in {-1, UMTS, OneXRTT}
      BY DEF decodeVoiceRadioTechnology
    <3>2. decodeCdmaSubscriptionSource(newState[t]) \in {-1, 0, 1}
      BY DEF decodeCdmaSubscriptionSource
    <3>3. decodeSimStatus(newState[t]) \in {-1, 3, 4, 6, 7}
      BY DEF decodeSimStatus
    <3>4. /\ voiceRadioTech' \in {-1, UMTS, OneXRTT} /\ cdmaSubscriptionSource' \in {-1, 0, 1}
          /\ simRuimStatus' \in {-1, 3, 4, 6, 7}
      BY <1>17, <3>1, <3>2, <3>3 DEF IInv, TypeOK, RadioTypes, processRadioState
    <3>5. /\ step' \in [Threads -> {"none", "tech", "source", "sim", "done"}]
          /\ pc' \in [Threads -> Places] /\ wakelock' \in {"free", "held"}
      BY ZenonT(30), <1>17 DEF IInv, TypeOK, RadioTypes, processRadioState, raiseIf, Goto
    <3>6. owed' \in BOOLEAN
      <4>1. owed \in BOOLEAN
        BY DEF IInv, TypeOK, RadioTypes
      <4> QED
        BY <1>17, <4>1, Zenon DEF processRadioState
    <3>7. newState' \in [Threads -> 0 .. 10]
      BY <1>17 DEF IInv, TypeOK, RadioTypes, processRadioState
    <3>8. radioState' = radioState /\ data' = data
      BY <1>17 DEF processRadioState
    <3>9. RadioTypes'
      BY <3>4, <3>5, <3>6, <3>7, <3>8 DEF IInv, TypeOK, RadioTypes
    <3> QED
      BY <1>17, <3>5, <3>9 DEF IInv, TypeOK, processRadioState, heapVars, nitzVars, connVars
  <2>4. /\ UNCHANGED <<kind, ptr, info, armed>>
        /\ step[t] # "none" /\ pc[t] = "process"
        /\ \E p \in {"marshal", "process", "send"} : pc' = [pc EXCEPT ![t] = p]
        /\ \E q \in {"none", "source", "sim", "done"} :
              step' = [step EXCEPT ![t] = q]
    BY <1>17 DEF processRadioState, raiseIf, Goto, heapVars
  <2>2. Pointers' /\ TimersLive'
    BY <2>4 DEF IInv, TypeOK, Pointers, Timed, TimersLive
  <2>3. LockHasTimer'
    \* The thread itself is on its way to a timer, before and after.
    <3>1. Scheduling(t)'
      BY <2>4 DEF IInv, TypeOK, Pointers, Scheduling, Timed
    <3> QED
      BY <3>1 DEF LockHasTimer
  <2> QED
    BY <2>1, <2>2, <2>3 DEF IInv
<1>18. CASE dispatchVoiceRadioTech
  <2>1. decodeVoiceRadioTechnology(radioState) \in {-1, UMTS, OneXRTT}
    BY DEF decodeVoiceRadioTechnology
  <2>2. RadioTypes'
    BY <1>18, <2>1 DEF IInv, TypeOK, RadioTypes, dispatchVoiceRadioTech
  <2> QED
    BY <1>18, <2>2 DEF IInv, TypeOK, Pointers, TimersLive, LockHasTimer, Scheduling, Timed,
                      dispatchVoiceRadioTech, threadVars, heapVars, nitzVars, connVars
<1>19. CASE dispatchCdmaSubscriptionSource
  <2>1. decodeCdmaSubscriptionSource(radioState) \in {-1, 0, 1}
    BY DEF decodeCdmaSubscriptionSource
  <2>2. RadioTypes'
    BY <1>19, <2>1 DEF IInv, TypeOK, RadioTypes, dispatchCdmaSubscriptionSource
  <2> QED
    BY <1>19, <2>2 DEF IInv, TypeOK, Pointers, TimersLive, LockHasTimer, Scheduling, Timed,
                      dispatchCdmaSubscriptionSource, threadVars, heapVars, nitzVars, connVars
<1>20. CASE UNCHANGED vars
  BY <1>20 DEF IInv, TypeOK, Pointers, TimersLive, LockHasTimer, Scheduling, Timed, vars,
              threadVars, heapVars, nitzVars, connVars
<1> QED
  BY <1>1, <1>2, <1>3, <1>4, <1>5, <1>6, <1>7, <1>8, <1>9, <1>10, <1>11, <1>12, <1>13, <1>14,
     <1>15, <1>16, <1>17, <1>18, <1>19, <1>20 DEF Next, UnsolStep, LoopStep

\* The inductive invariant holds in every reachable state.
THEOREM Invariance == Spec => []IInv
BY InitIInv, NextIInv, PTL DEF Spec

\* The variables of RilUnsol have their types.
THEOREM TypeCorrect == Spec => []TypeOK
BY Invariance, PTL DEF IInv

\* RIL_onUnsolicitedResponse and userTimerCallback never leave the wake lock
\* held without a timer that releases it, whatever the number of threads.
THEOREM LockNeverLeaked == Spec => []LockHasTimer
BY Invariance, PTL DEF IInv

\* userTimerCallback frees every UserCallbackInfo once, and never one that is
\* still in timer_list.
THEOREM TimersFreedOnce == Spec => []TimersLive
BY Invariance, PTL DEF IInv

=============================================================================
