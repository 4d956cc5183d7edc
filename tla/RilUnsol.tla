------------------------------ MODULE RilUnsol ------------------------------
(***************************************************************************)
(* RIL_onUnsolicitedResponse (libril/ril.cpp): the wake lock that every      *)
(* WAKE_PARTIAL message grabs, the timer that releases it, the copy of the   *)
(* last NITZ time kept for a client that is not connected, and the           *)
(* translation of old radio states, which raises messages of its own from    *)
(* inside the function.                                                      *)
(*                                                                          *)
(* Vendor threads and the loop thread run it concurrently.  Neither          *)
(* s_last_wake_timeout_info nor s_lastNITZTimeData nor the statics of the    *)
(* radio state are protected by a mutex, and the UserCallbackInfo objects    *)
(* that s_last_wake_timeout_info points to are freed by the timer callback   *)
(* and handed out again by malloc.                                           *)
(***************************************************************************)
EXTENDS Integers, Sequences, FiniteSets

CONSTANTS
    Vendors, Loop,  \* the threads
    Kinds,          \* message classes vendor threads raise
    RadioStates,    \* RIL_RadioState values the vendor library changes to
    MaxMessages,    \* bound: messages raised by vendor threads
    MaxRadio,       \* bound: how many of them, the first ones, may change the radio state
    MaxConnects     \* bound: connections of the client

ASSUME ThreadsAssumption == Loop \notin Vendors
ASSUME KindsAssumption == Kinds \subseteq {"wake", "nitz", "quiet", "radio"}
ASSUME RadioAssumption == RadioStates \subseteq 0 .. 10
ASSUME BoundsAssumption == MaxMessages \in Nat /\ MaxRadio \in Nat /\ MaxConnects \in Nat

VARIABLES
    wakelock,       \* the kernel's wake lock ANDROID_WAKE_LOCK_NAME, "held" or "free"; not counted
    pc, kind, ptr,  \* per thread: place, class of the message, pointer local
    stamp,          \* per thread: which NITZ message it carries
    info,           \* heap: userParam of a UserCallbackInfo (0 or 1), -1 if freed
    brk,            \* heap: addresses handed out so far
    armed,          \* the wake timers in timer_list, first to fire first
    s_last_wake_timeout_info,
    s_lastNITZTimeData,     \* stamp of the stored message, 0 for NULL
    connection,     \* "open" while a client is connected (s_fdCommand >= 0)
    greet,          \* messages onNewCommandConnect still has to raise
    missed,         \* history: NITZ messages whose send failed, not yet delivered
    radioState,     \* the vendor library's radio state, s_callbacks.onStateRequest()
    voiceRadioTech, cdmaSubscriptionSource, simRuimStatus,
    step, newState, \* per thread: place in processRadioState ("none": not in it) and its argument
    data,           \* per thread: the voice technology in the parcel, 0 for another payload
    owed,           \* history: voiceRadioTech changed under this client, which was not told its value since
    messages, connects

heapVars == <<info, brk, armed, s_last_wake_timeout_info>>
nitzVars == <<s_lastNITZTimeData, missed>>
connVars == <<connection, greet, connects>>
radioVars == <<radioState, voiceRadioTech, cdmaSubscriptionSource, simRuimStatus, step, newState,
               data, owed>>
threadVars == <<pc, kind, ptr, stamp>>
vars == <<wakelock, threadVars, heapVars, nitzVars, connVars, radioVars, messages>>

Threads == Vendors \cup {Loop}
NULL == 0
\* One UserCallbackInfo per message is enough heap; a radio state raises up to three more.
Addr == 1 .. 4 * MaxMessages + 5 * MaxConnects
Goto(t, label) == pc' = [pc EXCEPT ![t] = label]
Timed(t) == kind[t] # "quiet"
\* Where RIL_onUnsolicitedResponse returns to.
Caller(t) == IF step[t] # "none" THEN "process" ELSE IF t = Loop THEN "greet" ELSE "idle"

-----------------------------------------------------------------------------
(* RIL_onUnsolicitedResponse on thread t, from the grab to the return. *)

\* The wake lock is taken first.
begin(t, k) ==
    /\ kind' = [kind EXCEPT ![t] = k]
    /\ wakelock' = IF k = "quiet" THEN wakelock ELSE "held"
    /\ Goto(t, "marshal")

VendorRaises(t, k) ==
    /\ t \in Vendors /\ pc[t] = "idle" /\ messages < MaxMessages
    /\ k = "radio" => messages < MaxRadio
    /\ begin(t, k)
    /\ messages' = messages + 1
    /\ stamp' = [stamp EXCEPT ![t] = IF k = "nitz" THEN messages + 1 ELSE 0]
    /\ IF k = "radio" THEN radioState' \in RadioStates ELSE UNCHANGED radioState
    /\ UNCHANGED <<ptr, heapVars, nitzVars, connVars, voiceRadioTech, cdmaSubscriptionSource,
                   simRuimStatus, step, newState, data, owed>>

\* The payload is written to the parcel, that of RIL_UNSOL_VOICE_RADIO_TECH_CHANGED
\* from the static; a payload of the vendor may be refused and the lock is released.
Marshal(t) ==
    /\ pc[t] = "marshal"
    /\ \/ /\ Goto(t, IF kind[t] = "radio" THEN "radio" ELSE "send")
          /\ data' = [data EXCEPT ![t] = IF step[t] = "source" THEN voiceRadioTech ELSE 0]
          /\ UNCHANGED wakelock
       \/ /\ t \in Vendors /\ kind[t] # "radio" /\ step[t] = "none"
          /\ Goto(t, "idle")
          /\ wakelock' = IF Timed(t) THEN "free" ELSE wakelock
          /\ UNCHANGED data
    /\ UNCHANGED <<kind, ptr, stamp, heapVars, nitzVars, connVars, messages, radioState,
                   voiceRadioTech, cdmaSubscriptionSource, simRuimStatus, step, newState, owed>>

-----------------------------------------------------------------------------
(* The translation of the radio states of old vendor libraries: 2 to 4 with a SIM, *)
(* 5 to 7 with a RUIM, 8 and 9 without either; 0 is off, 1 unavailable, 10 on.     *)

UNAVAILABLE == 1
UMTS == 3
OneXRTT == 6
decodeVoiceRadioTechnology(s) == IF s \in 2 .. 4 THEN UMTS ELSE IF s \in 5 .. 9 THEN OneXRTT ELSE -1
decodeCdmaSubscriptionSource(s) == IF s \in 2 .. 7 THEN 0 ELSE IF s \in {8, 9} THEN 1 ELSE -1
decodeSimStatus(s) == IF s \in {3, 4, 6, 7} THEN s ELSE -1
is3gpp2(tech) == tech = OneXRTT

\* processRadioState is called with the state of this moment; only old ones are decoded.
onStateRequest(t) ==
    /\ pc[t] = "radio"
    /\ kind' = [kind EXCEPT ![t] = "wake"]
    /\ \/ /\ radioState \in 2 .. 9
          /\ newState' = [newState EXCEPT ![t] = radioState]
          /\ step' = [step EXCEPT ![t] = "tech"]
          /\ Goto(t, "process")
       \/ /\ radioState \notin 2 .. 9
          /\ Goto(t, "send")
          /\ UNCHANGED <<step, newState>>
    /\ UNCHANGED <<wakelock, ptr, stamp, heapVars, nitzVars, connVars, messages, radioState,
                   voiceRadioTech, cdmaSubscriptionSource, simRuimStatus, data, owed>>

\* A change raises a message from inside the raising of the first one.
raiseIf(t, changed, next) ==
    /\ step' = [step EXCEPT ![t] = next]
    /\ wakelock' = IF changed THEN "held" ELSE wakelock
    /\ Goto(t, IF changed THEN "marshal" ELSE "process")

\* Slip: the statics are assigned before they are compared, so that no change is seen.
processRadioState_Silent(t) ==
    /\ pc[t] = "process"
    /\ \/ /\ step[t] = "tech"
          /\ voiceRadioTech' = decodeVoiceRadioTechnology(newState[t])
          /\ owed' = (owed \/ (voiceRadioTech' # voiceRadioTech /\ connection = "open"))
          /\ raiseIf(t, FALSE, "source")
          /\ UNCHANGED <<cdmaSubscriptionSource, simRuimStatus>>
       \/ /\ step[t] = "source"
          /\ raiseIf(t, FALSE, "sim")
          /\ UNCHANGED <<voiceRadioTech, cdmaSubscriptionSource, simRuimStatus, owed>>
       \/ /\ step[t] = "sim"
          /\ step' = [step EXCEPT ![t] = "none"]
          /\ Goto(t, "send")
          /\ UNCHANGED <<wakelock, voiceRadioTech, cdmaSubscriptionSource, simRuimStatus, owed>>
    /\ UNCHANGED <<kind, ptr, stamp, heapVars, nitzVars, connVars, messages, radioState, newState,
                   data>>

\* Test and assignment of a static are one step: a thread in between would only make
\* this one raise a message more.
processRadioState(t) ==
    /\ pc[t] = "process"
    /\ LET s == newState[t]
           tech == decodeVoiceRadioTechnology(s)
       IN \/ /\ step[t] = "tech"
             /\ voiceRadioTech' = tech
             /\ owed' = (owed \/ (tech # voiceRadioTech /\ connection = "open"))
             /\ raiseIf(t, tech # voiceRadioTech, "source")
             /\ UNCHANGED <<cdmaSubscriptionSource, simRuimStatus>>
          \/ /\ step[t] = "source"
             /\ cdmaSubscriptionSource' = IF is3gpp2(tech) THEN decodeCdmaSubscriptionSource(s)
                                          ELSE cdmaSubscriptionSource
             /\ raiseIf(t, cdmaSubscriptionSource' # cdmaSubscriptionSource, "sim")
             /\ UNCHANGED <<voiceRadioTech, simRuimStatus, owed>>
          \/ /\ step[t] = "sim"
             /\ simRuimStatus' = decodeSimStatus(s)
             /\ raiseIf(t, simRuimStatus' # simRuimStatus, "done")
             /\ UNCHANGED <<voiceRadioTech, cdmaSubscriptionSource, owed>>
          \/ /\ step[t] = "done"
             /\ step' = [step EXCEPT ![t] = "none"]
             /\ Goto(t, "send")
             /\ UNCHANGED <<wakelock, voiceRadioTech, cdmaSubscriptionSource, simRuimStatus, owed>>
    /\ newState' = IF step[t] = "done" THEN [newState EXCEPT ![t] = UNAVAILABLE] ELSE newState
    /\ UNCHANGED <<kind, ptr, stamp, heapVars, nitzVars, connVars, messages, radioState, data>>

-----------------------------------------------------------------------------
(* RIL_onUnsolicitedResponse from the send on. *)

\* sendResponse; without a client it fails and the message is lost, which matters for
\* NITZ only.
Send(t) ==
    /\ pc[t] = "send"
    /\ owed' = (owed /\ ~(connection = "open" /\ data[t] = voiceRadioTech))
    /\ data' = [data EXCEPT ![t] = 0]
    /\ LET next == IF Timed(t) THEN "cancel" ELSE Caller(t) IN
       \/ /\ kind[t] # "nitz" /\ Goto(t, next) /\ UNCHANGED missed
       \/ /\ kind[t] = "nitz" /\ connection = "open"
          /\ Goto(t, next) /\ UNCHANGED missed
       \/ /\ kind[t] = "nitz" /\ connection = "closed"
          /\ missed' = missed \cup {stamp[t]}
          /\ Goto(t, "store")
    /\ UNCHANGED <<wakelock, kind, ptr, stamp, heapVars, s_lastNITZTimeData, connVars, messages,
                   radioState, voiceRadioTech, cdmaSubscriptionSource, simRuimStatus, step, newState>>

\* Slip: the failed send returns without going on to the timer.
StoreNITZ_Returns(t) ==
    /\ pc[t] = "store"
    /\ s_lastNITZTimeData' = stamp[t]
    /\ missed' = {stamp[t]}
    /\ Goto(t, "idle")
    /\ UNCHANGED <<wakelock, kind, ptr, stamp, heapVars, connVars, messages, radioVars>>

\* The old copy is freed and the new one stored.
StoreNITZ(t) ==
    /\ pc[t] = "store"
    /\ s_lastNITZTimeData' = stamp[t]
    /\ missed' = {stamp[t]}
    /\ Goto(t, "cancel")
    /\ UNCHANGED <<wakelock, kind, ptr, stamp, heapVars, connVars, messages, radioVars>>

\* "Cancel the previous request": the pointer is read ...
CancelPrevious(t) ==
    /\ pc[t] = "cancel"
    /\ ptr' = [ptr EXCEPT ![t] = s_last_wake_timeout_info]
    /\ Goto(t, IF s_last_wake_timeout_info = NULL THEN "schedule" ELSE "mark")
    /\ UNCHANGED <<wakelock, kind, stamp, heapVars, nitzVars, connVars, messages, radioVars>>

\* ... and written through.  The object may have been freed in between, or
\* belong to another timer by now.
MarkCancelled(t) ==
    /\ pc[t] = "mark"
    /\ info' = [info EXCEPT ![ptr[t]] = IF @ = -1 THEN -1 ELSE 1]
    /\ Goto(t, "schedule")
    /\ UNCHANGED <<wakelock, kind, ptr, stamp, brk, armed, s_last_wake_timeout_info, nitzVars,
                   connVars, messages, radioVars>>

\* internalRequestTimedCallback(wakeTimeoutCallback, NULL, 1s).  malloc returns any
\* freed address or a fresh one; those that no pointer refers to are alike.
dangling(a) == a = s_last_wake_timeout_info \/ \E t \in Threads : ptr[t] = a
internalRequestTimedCallback(t) ==
    /\ pc[t] = "schedule"
    /\ \E a \in Addr :
          /\ info[a] = -1
          /\ dangling(a) \/ a = brk + 1
          /\ info' = [info EXCEPT ![a] = 0]
          /\ brk' = IF a > brk THEN a ELSE brk
          /\ armed' = Append(armed, a)
          /\ ptr' = [ptr EXCEPT ![t] = a]
    /\ Goto(t, "assign")
    /\ UNCHANGED <<wakelock, kind, stamp, s_last_wake_timeout_info, nitzVars, connVars, messages, radioVars>>

\* Its result is assigned and the function returns.
AssignLast(t) ==
    /\ pc[t] = "assign"
    /\ s_last_wake_timeout_info' = ptr[t]
    /\ ptr' = [ptr EXCEPT ![t] = NULL]
    /\ Goto(t, Caller(t))
    /\ UNCHANGED <<wakelock, kind, stamp, info, brk, armed, nitzVars, connVars, messages, radioVars>>

-----------------------------------------------------------------------------
(* The loop thread. *)

\* Slip: the timer stays in timer_list, to be called again.
wakeTimeoutCallback_Persists ==
    /\ pc[Loop] = "idle" /\ armed # <<>>
    /\ wakelock' = IF info[Head(armed)] = 0 THEN "free" ELSE wakelock
    /\ ptr' = [ptr EXCEPT ![Loop] = Head(armed)]
    /\ Goto(Loop, "free")
    /\ UNCHANGED <<kind, stamp, heapVars, nitzVars, connVars, messages, radioVars>>

\* Slip: the test of the parameter is inverted.
wakeTimeoutCallback_Inverted ==
    /\ pc[Loop] = "idle" /\ armed # <<>>
    /\ wakelock' = IF info[Head(armed)] = 1 THEN "free" ELSE wakelock
    /\ armed' = Tail(armed)
    /\ ptr' = [ptr EXCEPT ![Loop] = Head(armed)]
    /\ Goto(Loop, "free")
    /\ UNCHANGED <<kind, stamp, info, brk, s_last_wake_timeout_info, nitzVars, connVars, messages, radioVars>>

\* userTimerCallback, first part: wakeTimeoutCallback releases the lock
\* unless the timer was cancelled.
wakeTimeoutCallback ==
    /\ pc[Loop] = "idle" /\ armed # <<>>
    /\ wakelock' = IF info[Head(armed)] = 0 THEN "free" ELSE wakelock
    /\ armed' = Tail(armed)
    /\ ptr' = [ptr EXCEPT ![Loop] = Head(armed)]
    /\ Goto(Loop, "free")
    /\ UNCHANGED <<kind, stamp, info, brk, s_last_wake_timeout_info, nitzVars, connVars, messages, radioVars>>

\* userTimerCallback, second part: the pointer is cleared if it is still this
\* timer's, and the object freed.
userTimerCallback ==
    /\ pc[Loop] = "free"
    /\ s_last_wake_timeout_info' =
          IF s_last_wake_timeout_info = ptr[Loop] THEN NULL ELSE s_last_wake_timeout_info
    /\ info' = [info EXCEPT ![ptr[Loop]] = -1]
    /\ ptr' = [ptr EXCEPT ![Loop] = NULL]
    /\ Goto(Loop, "idle")
    /\ UNCHANGED <<wakelock, kind, stamp, brk, armed, nitzVars, connVars, messages, radioVars>>

\* listenCallback accepts a client and calls onNewCommandConnect.
ClientConnects ==
    /\ pc[Loop] = "idle" /\ connection = "closed" /\ connects < MaxConnects
    /\ connection' = "open" /\ greet' = 2 /\ connects' = connects + 1
    /\ Goto(Loop, "greet")
    /\ UNCHANGED <<wakelock, kind, ptr, stamp, heapVars, nitzVars, messages, radioVars>>

\* Slip: one message too many is raised.
Greet_OneMore ==
    /\ pc[Loop] = "greet" /\ greet >= 0
    /\ greet' = greet - 1
    /\ begin(Loop, "wake")
    /\ UNCHANGED <<ptr, stamp, heapVars, nitzVars, connection, connects, messages, radioVars>>

\* RIL_UNSOL_RIL_CONNECTED, then RIL_UNSOL_RESPONSE_RADIO_STATE_CHANGED.
Greet ==
    /\ pc[Loop] = "greet" /\ greet > 0
    /\ greet' = greet - 1
    /\ begin(Loop, IF greet = 2 THEN "wake" ELSE "radio")
    /\ UNCHANGED <<ptr, stamp, heapVars, nitzVars, connection, connects, messages, radioVars>>

\* "Send last NITZ time data, in case it was missed"; the result of the send
\* is not looked at.
FlushNITZ ==
    /\ pc[Loop] = "greet" /\ greet = 0
    /\ \/ /\ s_lastNITZTimeData = 0
          /\ Goto(Loop, "idle")
          /\ UNCHANGED missed
       \/ /\ s_lastNITZTimeData # 0
          /\ missed' = missed \ {s_lastNITZTimeData}
          /\ Goto(Loop, "clear")
    /\ UNCHANGED <<wakelock, kind, ptr, stamp, heapVars, s_lastNITZTimeData, connVars, messages, radioVars>>

ClearNITZ ==
    /\ pc[Loop] = "clear"
    /\ s_lastNITZTimeData' = 0
    /\ Goto(Loop, "idle")
    /\ UNCHANGED <<wakelock, kind, ptr, stamp, heapVars, missed, connVars, messages, radioVars>>

\* The client asks for the voice technology or the subscription source, and the radio is
\* not one that answers itself (on): both are decoded from the state of this moment
\* and stored.  The answer tells the client, unless the radio is off or unavailable:
\* then -1 is stored and the client gets an error.
dispatchVoiceRadioTech ==
    /\ pc[Loop] = "idle" /\ connection = "open" /\ radioState # 10
    /\ voiceRadioTech' = decodeVoiceRadioTechnology(radioState)
    /\ owed' = (owed /\ decodeVoiceRadioTechnology(radioState) = -1)
    /\ UNCHANGED <<wakelock, threadVars, heapVars, nitzVars, connVars, messages, radioState,
                   cdmaSubscriptionSource, simRuimStatus, step, newState, data>>

dispatchCdmaSubscriptionSource ==
    /\ pc[Loop] = "idle" /\ connection = "open" /\ radioState # 10
    /\ cdmaSubscriptionSource' = decodeCdmaSubscriptionSource(radioState)
    /\ UNCHANGED <<wakelock, threadVars, heapVars, nitzVars, connVars, messages, radioState,
                   voiceRadioTech, simRuimStatus, step, newState, data, owed>>

\* processCommandsCallback sees the end of the stream.
ClientGone ==
    /\ pc[Loop] = "idle" /\ connection = "open"
    /\ connection' = "closed"
    /\ owed' = FALSE
    /\ UNCHANGED <<wakelock, threadVars, heapVars, nitzVars, greet, connects, messages, radioState,
                   voiceRadioTech, cdmaSubscriptionSource, simRuimStatus, step, newState, data>>

-----------------------------------------------------------------------------
Init ==
    /\ wakelock = "free"
    /\ pc = [t \in Threads |-> "idle"] /\ kind = [t \in Threads |-> "quiet"]
    /\ ptr = [t \in Threads |-> NULL] /\ stamp = [t \in Threads |-> 0]
    /\ info = [a \in Addr |-> -1] /\ brk = 0 /\ armed = <<>> /\ s_last_wake_timeout_info = NULL
    /\ s_lastNITZTimeData = 0 /\ missed = {}
    /\ connection = "closed" /\ greet = 0
    /\ radioState \in RadioStates \cup {UNAVAILABLE}
    /\ voiceRadioTech = -1 /\ cdmaSubscriptionSource = -1 /\ simRuimStatus = -1
    /\ step = [t \in Threads |-> "none"] /\ newState = [t \in Threads |-> UNAVAILABLE]
    /\ data = [t \in Threads |-> 0] /\ owed = FALSE
    /\ messages = 0 /\ connects = 0

UnsolStep(t) ==
    \/ Marshal(t) \/ onStateRequest(t) \/ processRadioState(t) \/ Send(t) \/ StoreNITZ(t)
    \/ CancelPrevious(t) \/ MarkCancelled(t) \/ internalRequestTimedCallback(t) \/ AssignLast(t)

LoopStep == wakeTimeoutCallback \/ userTimerCallback \/ Greet \/ FlushNITZ \/ ClearNITZ

Next ==
    \/ \E t \in Threads : UnsolStep(t)
    \/ LoopStep
    \/ \E t \in Vendors, k \in Kinds : VendorRaises(t, k)
    \/ ClientConnects \/ ClientGone \/ dispatchVoiceRadioTech \/ dispatchCdmaSubscriptionSource

Spec == Init /\ [][Next]_vars

\* Every thread that is inside a call goes on, and timers fire.  Vendors need
\* not raise messages, clients need not connect or leave.
Fairness == WF_vars(LoopStep) /\ \A t \in Threads : WF_vars(UnsolStep(t))

FairSpec == Spec /\ Fairness

-----------------------------------------------------------------------------
(* Properties. *)

Places == {"idle", "marshal", "radio", "process", "send", "store", "cancel", "mark", "schedule",
           "assign", "free", "greet", "clear"}

RadioTypes ==
    /\ radioState \in 0 .. 10 /\ newState \in [Threads -> 0 .. 10]
    /\ voiceRadioTech \in {-1, UMTS, OneXRTT} /\ cdmaSubscriptionSource \in {-1, 0, 1}
    /\ simRuimStatus \in {-1, 3, 4, 6, 7}
    /\ step \in [Threads -> {"none", "tech", "source", "sim", "done"}]
    /\ data \in [Threads -> {-1, 0, UMTS, OneXRTT}] /\ owed \in BOOLEAN

\* The variables have their types.
TypeOK ==
    /\ wakelock \in {"free", "held"} /\ connection \in {"open", "closed"}
    /\ pc \in [Threads -> Places]
    /\ kind \in [Threads -> Kinds \cup {"quiet", "wake", "radio"}]
    /\ ptr \in [Threads -> Addr \cup {NULL}] /\ stamp \in [Threads -> 0 .. MaxMessages]
    /\ info \in [Addr -> {-1, 0, 1}] /\ armed \in Seq(Addr) /\ brk \in Addr \cup {0}
    /\ s_last_wake_timeout_info \in Addr \cup {NULL}
    /\ s_lastNITZTimeData \in 0 .. MaxMessages
    /\ missed \subseteq 0 .. MaxMessages
    /\ RadioTypes
    /\ greet \in 0 .. 2 /\ messages \in 0 .. MaxMessages /\ connects \in 0 .. MaxConnects

\* Threads on their way to scheduling a timer of their own.
Scheduling(t) == pc[t] \in {"marshal", "radio", "process", "send", "store", "cancel", "mark", "schedule"} /\ Timed(t)

\* The wake lock is never leaked: while it is held, some wake timer that has not
\* been cancelled is armed, or a thread is about to arm one or to release the lock,
\* however the unlocked cancellations of several threads interleave with timers
\* that fire and with addresses that malloc hands out again.
LockHasTimer ==
    wakelock = "held" =>
                \/ \E k \in 1 .. Len(armed) : info[armed[k]] = 0
                \/ \E t \in Threads : Scheduling(t)

\* A UserCallbackInfo is freed exactly once, by its own callback: armed timers
\* are live, armed once, and none is the one being freed.
TimersLive ==
    /\ \A k \in 1 .. Len(armed) : info[armed[k]] # -1
    /\ \A j, k \in 1 .. Len(armed) : j # k => armed[j] # armed[k]
    /\ pc[Loop] = "free" =>
          /\ info[ptr[Loop]] # -1
          /\ \A k \in 1 .. Len(armed) : armed[k] # ptr[Loop]

\* Once vendors fall silent the phone can sleep: a held lock is released.
LockReleased == wakelock = "held" ~> wakelock = "free"

\* "Every time there is a change in Radio State check to see if voice radio tech
\* changes and notify telephony": a change made while a client is connected is told to
\* that client while it stays, whatever threads change the radio state at the same time:
\* the value stored last is sent by one of them or given in an answer, or no technology
\* is stored any more because the client asked with the radio off and got an error.  A
\* change made without a client is not owed to the next one: its message is lost, and as
\* the static is equal then the greeting does not raise it again.
TechAnnounced == owed ~> (~owed \/ voiceRadioTech = -1)

\* "if the upstream client isn't connected, keep a copy of the last NITZ response
\* ... around so we can deliver it when it is connected": while a client stays
\* connected, a missed NITZ message is delivered or replaced by a later one.
MissedNITZDelivered ==
    \A m \in 1 .. MaxMessages :
        (m \in missed /\ connection = "open") ~> (m \notin missed \/ connection = "closed")
=============================================================================
