----------------------------- MODULE RilDaemon -----------------------------
(***************************************************************************)
(* The command channel of the RIL daemon (libril/ril.cpp): the listening    *)
(* socket and the one command connection, the debug socket, the list of     *)
(* pending requests, and the responses that vendor threads write to the     *)
(* command socket while the loop thread accepts, reads and closes it.       *)
(*                                                                          *)
(* Descriptors are numbers that the kernel hands out again after close(),   *)
(* RequestInfo objects are heap addresses that calloc hands out again after *)
(* free().  The event loop is reduced to what its users see: each turn      *)
(* calls the ready events in the order of their slots (see RilEvent).       *)
(***************************************************************************)
EXTENDS Integers, Sequences, FiniteSets

CONSTANTS
    Clients,        \* connections to the command socket, one after the other
    Phones,         \* the ones whose peer runs as PHONE_PROCESS
    Sessions,       \* connections to the debug socket
    Vendors,        \* threads of the vendor library
    Loop,           \* the event loop thread
    Addr,           \* heap addresses for RequestInfo objects
    FdNums,         \* descriptor numbers for accepted connections
    NONE,
    MaxRequests,    \* bound: requests sent by clients
    MaxUnsol,       \* bound: unsolicited responses raised by vendor threads
    MaxFaults,      \* bound: failing accept(), recv() and read() calls
    DebugOptions    \* the options a debug session may send

ASSUME SetsAssumption ==
    /\ Phones \subseteq Clients /\ Clients \cap Sessions = {} /\ Loop \notin Vendors
    /\ FdNums \subseteq Nat
ASSUME NoneAssumption ==
    /\ NONE \notin Addr \cup Clients \cup Sessions \cup {"listen", "commands", "debug"}
    /\ NONE \notin [req : 0 .. MaxRequests, local : BOOLEAN, cancelled : BOOLEAN]
ASSUME BoundsAssumption == {MaxRequests, MaxUnsol, MaxFaults} \subseteq Nat
ASSUME OptionsAssumption == DebugOptions \subseteq {"local", "poweroff", "unsol", "radioon", "invalid"}

VARIABLES
    watch_table,        \* slot -> "listen", "commands", "debug" or NONE
    pending_list,       \* events of this turn of the loop that remain to be called
    pc,                 \* where the loop thread is
    s_fdCommand,        \* the command connection, -1 if there is none
    commands_fd,        \* descriptor in s_commands_event
    acceptFD,           \* local of debugCallback
    greet,              \* messages onNewCommandConnect still has to send
    registered,         \* progress of RIL_register: 0, 1 (listening), 2 (done)
    file,               \* kernel: what a descriptor number refers to
    client, session,    \* kernel: state of the peers
    inbox,              \* requests sent by a client and not yet read
    stream,             \* what was written to a peer
    info,               \* heap: the RequestInfo at an address
    s_pendingRequests,  \* list of addresses, newest first
    held,               \* tokens the vendor library has not completed yet
    todo,               \* completions the loop thread makes inside a dispatch
    worker,             \* per thread: the send or completion in progress
    cancelledReqs,      \* history: requests that onCommandsSocketClosed flagged
    sender,             \* history: the client that sent a request
    requests, unsols, faults    \* counters

loopVars == <<pending_list, pc, acceptFD, greet, registered>>
connVars == <<watch_table, s_fdCommand, commands_fd>>
kernelVars == <<file, client, session, inbox, stream>>
reqVars == <<info, s_pendingRequests, held, todo, cancelledReqs, sender, requests>>
vars == <<loopVars, connVars, kernelVars, reqVars, worker, unsols, faults>>

Threads == Vendors \cup {Loop}
Peers == Clients \cup Sessions
Slots == 0 .. 2
Requests == 1 .. MaxRequests
Idle == [st |-> "idle", addr |-> NONE, msg |-> 0, fd |-> -1]
\* Messages that are not responses to a client's request.
Local == 0
Unsol == -1
Greeting == -2
Errors == -3

InTable(ev) == \E s \in Slots : watch_table[s] = ev
Open(f) == f \in FdNums /\ file[f] # NONE
LoopIdle == worker[Loop] = Idle
Running == pc # "exited"

\* ril_event_add and ril_event_del (RilEvent).
eventAdd(table, ev) ==
    IF \E s \in Slots : table[s] = NONE
      THEN [table EXCEPT ![CHOOSE s \in Slots : /\ table[s] = NONE
                                               /\ \A r \in Slots : r < s => table[r] # NONE] = ev]
      ELSE table
eventDel(table, ev) == [s \in Slots |-> IF table[s] = ev THEN NONE ELSE table[s]]

\* close() on a number that is not open only fails.
closed(f) == IF f \in FdNums THEN [file EXCEPT ![f] = NONE] ELSE file
\* accept() returns the lowest free number.
LowestFree(f) == ~Open(f) /\ \A g \in FdNums : g < f => Open(g)

-----------------------------------------------------------------------------
(* RIL_register, on the main thread. *)

RegisterListen ==
    /\ Running /\ registered = 0
    /\ watch_table' = eventAdd(watch_table, "listen")
    /\ registered' = 1
    /\ UNCHANGED <<pending_list, pc, acceptFD, greet, s_fdCommand, commands_fd,
                   kernelVars, reqVars, worker, unsols, faults>>

RegisterDebug ==
    /\ Running /\ registered = 1
    /\ watch_table' = eventAdd(watch_table, "debug")
    /\ registered' = 2
    /\ UNCHANGED <<pending_list, pc, acceptFD, greet, s_fdCommand, commands_fd,
                   kernelVars, reqVars, worker, unsols, faults>>

-----------------------------------------------------------------------------
(* One turn of ril_event_loop. *)

\* A descriptor of a peer is readable when there is data or end of stream.
PeerReadable(p) ==
    \/ p \in Clients /\ (inbox[p] # <<>> \/ client[p] = "gone")
    \/ p \in Sessions /\ session[p] = "gone"
EventReady(ev) ==
    \/ ev = "listen" /\ \E c \in Clients : client[c] = "waiting"
    \/ ev = "debug" /\ \E d \in Sessions : session[d] = "waiting"
    \/ ev = "commands" /\ Open(commands_fd) /\ PeerReadable(file[commands_fd])

\* What slot s adds to pending_list.
ready(s) == IF EventReady(watch_table[s]) THEN <<watch_table[s]>> ELSE <<>>

SelectFailing == InTable("commands") /\ ~Open(commands_fd)

\* Slip: s_listen_event stays in the table when it is ready.
Poll_Persistent ==
    /\ pc = "poll" /\ ~SelectFailing
    /\ \E s \in Slots : EventReady(watch_table[s])
    /\ pending_list' = ready(0) \o ready(1) \o ready(2)
    /\ watch_table' = watch_table
    /\ pc' = "fire"
    /\ UNCHANGED <<acceptFD, greet, registered, s_fdCommand, commands_fd, kernelVars,
                   reqVars, worker, unsols, faults>>

\* select() and processReadReadies; s_listen_event is not persistent.
Poll ==
    /\ pc = "poll" /\ ~SelectFailing
    /\ \E s \in Slots : EventReady(watch_table[s])
    /\ pending_list' = ready(0) \o ready(1) \o ready(2)
    /\ watch_table' = IF EventReady("listen") THEN eventDel(watch_table, "listen") ELSE watch_table
    /\ pc' = "fire"
    /\ UNCHANGED <<acceptFD, greet, registered, s_fdCommand, commands_fd, kernelVars,
                   reqVars, worker, unsols, faults>>

\* EBADF: the loop returns and the process kills itself.
PollFails ==
    /\ pc = "poll" /\ SelectFailing
    /\ pc' = "exited"
    /\ UNCHANGED <<pending_list, acceptFD, greet, registered, connVars, kernelVars,
                   reqVars, worker, unsols, faults>>

firePending ==
    /\ pc = "fire"
    /\ \/ /\ pending_list # <<>>
          /\ pc' = Head(pending_list) /\ pending_list' = Tail(pending_list)
       \/ /\ pending_list = <<>>
          /\ pc' = "poll" /\ UNCHANGED pending_list
    /\ UNCHANGED <<acceptFD, greet, registered, connVars, kernelVars, reqVars, worker,
                   unsols, faults>>

-----------------------------------------------------------------------------
(* Writing to the command socket: sendResponseRaw and blockingWrite.  A      *)
(* thread goes through "send" (read s_fdCommand), "lock" (take s_writeMutex  *)
(* and write the header) and "body".                                         *)

StartSend(t, msg, a) == worker' = [worker EXCEPT ![t] = [st |-> "send", addr |-> a, msg |-> msg, fd |-> -1]]

\* The end of a send: the mutex is free again and RIL_onRequestComplete frees
\* its RequestInfo.
Finish(t) ==
    /\ worker' = [worker EXCEPT ![t] = Idle]
    /\ info' = IF worker[t].addr = NONE THEN info ELSE [info EXCEPT ![worker[t].addr] = NONE]

\* sendResponseRaw up to the mutex: without a connection the message is dropped,
\* and so is a response larger than MAX_COMMAND_BYTES.  (s_fdCommand is read
\* twice; either order of the reads drops the message or captures it.)
CaptureFd(t) ==
    /\ Running /\ worker[t].st = "send"
    /\ \/ /\ s_fdCommand < 0 \/ worker[t].msg \in Requests
          /\ Finish(t)
       \/ /\ s_fdCommand >= 0
          /\ worker' = [worker EXCEPT ![t].st = "lock", ![t].fd = s_fdCommand]
          /\ UNCHANGED info
    /\ UNCHANGED <<loopVars, connVars, kernelVars, s_pendingRequests, held, todo,
                   cancelledReqs, sender, requests, unsols, faults>>

Writable(f) == Open(f) /\ (file[f] \in Clients => client[file[f]] # "gone")
                       /\ (file[f] \in Sessions => session[file[f]] # "gone")

\* blockingWrite: a failed write closes the descriptor and nothing else.
writeTo(t, part) ==
    LET f == worker[t].fd IN
    \/ /\ Writable(f)
       /\ stream' = [stream EXCEPT ![file[f]] = Append(@, <<part, worker[t].msg, t>>)]
       /\ UNCHANGED file
    \/ /\ ~Writable(f)
       /\ file' = closed(f)
       /\ UNCHANGED stream

\* Slip: s_writeMutex is not taken.
WriteHeader_Unlocked(t) ==
    /\ Running /\ worker[t].st = "lock"
    /\ writeTo(t, "header")
    /\ IF Writable(worker[t].fd)
         THEN worker' = [worker EXCEPT ![t].st = "body"] /\ UNCHANGED info
         ELSE Finish(t)
    /\ UNCHANGED <<loopVars, connVars, client, session, inbox, s_pendingRequests, held,
                   todo, cancelledReqs, sender, requests, unsols, faults>>

WriteHeader(t) ==
    /\ Running /\ worker[t].st = "lock"
    /\ \A u \in Threads : worker[u].st # "body"
    /\ writeTo(t, "header")
    /\ IF Writable(worker[t].fd)
         THEN worker' = [worker EXCEPT ![t].st = "body"] /\ UNCHANGED info
         ELSE Finish(t)
    /\ UNCHANGED <<loopVars, connVars, client, session, inbox, s_pendingRequests, held,
                   todo, cancelledReqs, sender, requests, unsols, faults>>

\* Slip: blockingWrite restarts from the top of the buffer after a short write.
WriteBody_Rewrites(t) ==
    /\ Running /\ worker[t].st = "body"
    /\ LET f == worker[t].fd
           again == <<"body", worker[t].msg, t>>
       IN \/ /\ Writable(f)
             /\ stream' = [stream EXCEPT ![file[f]] = @ \o <<again, again>>]
             /\ UNCHANGED file
          \/ /\ ~Writable(f)
             /\ writeTo(t, "body")
    /\ Finish(t)
    /\ UNCHANGED <<loopVars, connVars, client, session, inbox, s_pendingRequests, held,
                   todo, cancelledReqs, sender, requests, unsols, faults>>

WriteBody(t) ==
    /\ Running /\ worker[t].st = "body"
    /\ writeTo(t, "body")
    /\ Finish(t)
    /\ UNCHANGED <<loopVars, connVars, client, session, inbox, s_pendingRequests, held,
                   todo, cancelledReqs, sender, requests, unsols, faults>>

-----------------------------------------------------------------------------
(* Requests. *)

\* calloc and the push on s_pendingRequests, for a request numbered r.
\* The bound on live requests is the number of addresses.
newRequest(a, r, isLocal) ==
    /\ info[a] = NONE
    /\ info' = [info EXCEPT ![a] = [req |-> r, local |-> isLocal, cancelled |-> FALSE]]
    /\ s_pendingRequests' = <<a>> \o s_pendingRequests

\* *ppCur = (*ppCur)->p_next for the element that is a.
unlink(list, a) ==
    LET k == CHOOSE k \in 1 .. Len(list) : list[k] = a
    IN [i \in 1 .. Len(list) - 1 |-> list[IF i < k THEN i ELSE i + 1]]

\* Slip: the request is found and not unlinked.
checkAndDequeueRequestInfo_KeepLinked(t, a) ==
    IF \E k \in 1 .. Len(s_pendingRequests) : s_pendingRequests[k] = a
      THEN /\ UNCHANGED s_pendingRequests
           /\ worker' = [worker EXCEPT ![t] = [Idle EXCEPT !.st = "dequeued", !.addr = a]]
      ELSE UNCHANGED <<s_pendingRequests, worker>>

\* RIL_onRequestComplete up to the cancellation test: an address that is not
\* in the list is an invalid token; otherwise it is unlinked under the mutex.
checkAndDequeueRequestInfo(t, a) ==
    IF \E k \in 1 .. Len(s_pendingRequests) : s_pendingRequests[k] = a
      THEN /\ s_pendingRequests' = unlink(s_pendingRequests, a)
           /\ worker' = [worker EXCEPT ![t] = [Idle EXCEPT !.st = "dequeued", !.addr = a]]
      ELSE UNCHANGED <<s_pendingRequests, worker>>

\* A vendor thread completes a token it was given.
VendorCompletes(t, a) ==
    /\ Running /\ t \in Vendors /\ worker[t] = Idle /\ a \in held
    /\ held' = held \ {a}
    /\ checkAndDequeueRequestInfo(t, a)
    /\ UNCHANGED <<loopVars, connVars, kernelVars, info, todo, cancelledReqs, sender, requests,
                   unsols, faults>>

\* Slip: local requests are answered like any other.
RIL_onRequestComplete_IgnoresLocal(t) ==
    /\ Running /\ worker[t].st = "dequeued"
    /\ LET pRI == info[worker[t].addr] IN
       \/ /\ pRI.cancelled
          /\ Finish(t)
       \/ /\ ~pRI.cancelled
          /\ StartSend(t, pRI.req, worker[t].addr)
          /\ UNCHANGED info
    /\ UNCHANGED <<loopVars, connVars, kernelVars, s_pendingRequests, held, todo,
                   cancelledReqs, sender, requests, unsols, faults>>

\* The rest of RIL_onRequestComplete; local and cancelled are read without
\* the mutex.
RIL_onRequestComplete(t) ==
    /\ Running /\ worker[t].st = "dequeued"
    /\ LET pRI == info[worker[t].addr] IN
       \/ /\ pRI.local \/ pRI.cancelled
          /\ Finish(t)
       \/ /\ ~pRI.local /\ ~pRI.cancelled
          /\ StartSend(t, pRI.req, worker[t].addr)
          /\ UNCHANGED info
    /\ UNCHANGED <<loopVars, connVars, kernelVars, s_pendingRequests, held, todo,
                   cancelledReqs, sender, requests, unsols, faults>>

\* Completions on the loop thread, inside the dispatch of the request.
DispatcherCompletes ==
    /\ pc \in {"commands", "debugnext", "debugend"} /\ LoopIdle /\ todo # <<>>
    /\ todo' = Tail(todo)
    /\ checkAndDequeueRequestInfo(Loop, Head(todo))
    /\ UNCHANGED <<loopVars, connVars, kernelVars, info, held, cancelledReqs, sender, requests,
                   unsols, faults>>

\* RIL_onUnsolicitedResponse on a vendor thread.
VendorUnsolicited(t) ==
    /\ Running /\ t \in Vendors /\ worker[t] = Idle /\ unsols < MaxUnsol
    /\ unsols' = unsols + 1
    /\ StartSend(t, Unsol, NONE)
    /\ UNCHANGED <<loopVars, connVars, kernelVars, reqVars, faults>>

\* Slip: the flag is not written.
markCancelled_Nothing ==
    LET listed == {s_pendingRequests[k] : k \in 1 .. Len(s_pendingRequests)} IN
    /\ info' = info
    /\ cancelledReqs' = cancelledReqs \cup ({info[a].req : a \in listed} \ {Local})

\* onCommandsSocketClosed.
markCancelled ==
    LET listed == {s_pendingRequests[k] : k \in 1 .. Len(s_pendingRequests)} IN
    /\ info' = [a \in Addr |-> IF a \in listed THEN [info[a] EXCEPT !.cancelled = TRUE] ELSE info[a]]
    /\ cancelledReqs' = cancelledReqs \cup ({info[a].req : a \in listed} \ {Local})

-----------------------------------------------------------------------------
(* listenCallback *)

ListenAccept ==
    /\ pc = "listen"
    /\ \E c \in Clients, f \in FdNums :
          /\ client[c] = "waiting" /\ LowestFree(f)
          /\ file' = [file EXCEPT ![f] = c]
          /\ client' = [client EXCEPT ![c] = "open"]
          /\ s_fdCommand' = f
    /\ pc' = "check"
    /\ UNCHANGED <<pending_list, acceptFD, greet, registered, watch_table, commands_fd,
                   session, inbox, stream, reqVars, worker, unsols, faults>>

\* Slip: the error path does not add s_listen_event again.
ListenAcceptFails_Deaf ==
    /\ pc = "listen"
    /\ \/ (\A f \in FdNums : Open(f)) /\ UNCHANGED faults
       \/ faults < MaxFaults /\ faults' = faults + 1
    /\ s_fdCommand' = -1
    /\ UNCHANGED watch_table
    /\ pc' = "fire"
    /\ UNCHANGED <<pending_list, acceptFD, greet, registered, commands_fd, kernelVars,
                   reqVars, worker, unsols>>

\* accept() fails, for want of a descriptor or otherwise.
ListenAcceptFails ==
    /\ pc = "listen"
    /\ \/ (\A f \in FdNums : Open(f)) /\ UNCHANGED faults
       \/ faults < MaxFaults /\ faults' = faults + 1
    /\ s_fdCommand' = -1
    /\ watch_table' = eventAdd(watch_table, "listen")
    /\ pc' = "fire"
    /\ UNCHANGED <<pending_list, acceptFD, greet, registered, commands_fd, kernelVars,
                   reqVars, worker, unsols>>

\* The peer is the phone process: s_commands_event is set up and added.
ListenPhone ==
    /\ pc = "check" /\ Open(s_fdCommand) /\ file[s_fdCommand] \in Phones
    /\ commands_fd' = s_fdCommand
    /\ watch_table' = eventAdd(watch_table, "commands")
    /\ greet' = 2
    /\ pc' = "greet"
    /\ UNCHANGED <<pending_list, acceptFD, registered, s_fdCommand, kernelVars, reqVars,
                   worker, unsols, faults>>

ListenOther ==
    /\ pc = "check" /\ ~(Open(s_fdCommand) /\ file[s_fdCommand] \in Phones)
    /\ file' = closed(s_fdCommand)
    /\ s_fdCommand' = -1
    /\ markCancelled
    /\ watch_table' = eventAdd(watch_table, "listen")
    /\ pc' = "fire"
    /\ UNCHANGED <<pending_list, acceptFD, greet, registered, commands_fd, client, session,
                   inbox, stream, s_pendingRequests, held, todo, sender, requests, worker,
                   unsols, faults>>

\* Slip: one message too many.
onNewCommandConnect_OneMore ==
    /\ pc = "greet" /\ LoopIdle
    /\ \/ /\ greet >= 0 /\ greet' = greet - 1
          /\ StartSend(Loop, Greeting, NONE)
          /\ UNCHANGED pc
       \/ greet = 0 /\ pc' = "fire" /\ UNCHANGED <<greet, worker>>
    /\ UNCHANGED <<pending_list, acceptFD, registered, connVars, kernelVars, reqVars,
                   unsols, faults>>

\* RIL_UNSOL_RIL_CONNECTED and RIL_UNSOL_RESPONSE_RADIO_STATE_CHANGED.
onNewCommandConnect ==
    /\ pc = "greet" /\ LoopIdle
    /\ \/ /\ greet > 0 /\ greet' = greet - 1
          /\ StartSend(Loop, Greeting, NONE)
          /\ UNCHANGED pc
       \/ greet = 0 /\ pc' = "fire" /\ UNCHANGED <<greet, worker>>
    /\ UNCHANGED <<pending_list, acceptFD, registered, connVars, kernelVars, reqVars,
                   unsols, faults>>

-----------------------------------------------------------------------------
(* processCommandsCallback *)

\* assert(fd == s_fdCommand) holds; otherwise the process aborts.
AssertCommandFd == commands_fd = s_fdCommand
CanRead == pc = "commands" /\ AssertCommandFd /\ LoopIdle /\ todo = <<>>
ReadPeer == IF Open(commands_fd) THEN file[commands_fd] ELSE NONE

CommandsAbort ==
    /\ pc = "commands" /\ ~AssertCommandFd
    /\ pc' = "exited"
    /\ UNCHANGED <<pending_list, acceptFD, greet, registered, connVars, kernelVars,
                   reqVars, worker, unsols, faults>>

\* What becomes of a request once its RequestInfo is in the list: the vendor
\* library keeps the token; or completes it inside onRequest; or the block is
\* invalid and invalidCommandBlock only logs; or dispatchVoiceRadioTech and
\* dispatchCdmaSubscriptionSource answer from the radio state, twice when the
\* radio is off or unavailable (there is no return after the first answer).
dispatch(a) ==
    \/ held' = held \cup {a} /\ UNCHANGED todo
    \/ todo' = Append(todo, a) /\ UNCHANGED held
    \/ UNCHANGED <<held, todo>>
    \/ todo' = todo \o <<a, a>> /\ UNCHANGED held

\* processCommandBuffer on the next record: a block too short for a request and
\* a token, an unsupported request code, or a request.
processCommandBuffer ==
    /\ CanRead /\ ReadPeer \in Clients
    /\ inbox[ReadPeer] # <<>>
    /\ inbox' = [inbox EXCEPT ![ReadPeer] = Tail(@)]
    /\ \/ UNCHANGED <<info, s_pendingRequests, held, todo, worker>>
       \/ /\ StartSend(Loop, Errors, NONE)
          /\ UNCHANGED <<info, s_pendingRequests, held, todo>>
       \/ \E a \in Addr :
            /\ newRequest(a, Head(inbox[ReadPeer]), FALSE)
            /\ dispatch(a)
            /\ UNCHANGED worker
    /\ UNCHANGED <<loopVars, connVars, file, client, session, stream, cancelledReqs,
                   sender, requests, unsols, faults>>

\* EAGAIN: nothing more to read.
CommandsDrained ==
    /\ CanRead /\ ReadPeer # NONE /\ ~PeerReadable(ReadPeer)
    /\ pc' = "fire"
    /\ UNCHANGED <<pending_list, acceptFD, greet, registered, connVars, kernelVars,
                   reqVars, worker, unsols, faults>>

\* Slip: the daemon does not listen again.
CommandsClosed_Deaf ==
    /\ CanRead
    /\ \/ ReadPeer = NONE /\ UNCHANGED faults
       \/ /\ ReadPeer # NONE /\ PeerReadable(ReadPeer) /\ (ReadPeer \in Clients => inbox[ReadPeer] = <<>>)
          /\ UNCHANGED faults
       \/ ReadPeer # NONE /\ PeerReadable(ReadPeer) /\ faults < MaxFaults /\ faults' = faults + 1
    /\ file' = closed(s_fdCommand)
    /\ s_fdCommand' = -1
    /\ watch_table' = eventDel(watch_table, "commands")
    /\ pc' = "cancel"
    /\ UNCHANGED <<pending_list, acceptFD, greet, registered, commands_fd, client, session,
                   inbox, stream, reqVars, worker, unsols>>

\* End of stream or an error (the descriptor was closed by blockingWrite, the
\* peer reset the connection, a record is too long): the connection is closed
\* and the daemon listens again.
CommandsClosed ==
    /\ CanRead
    /\ \/ ReadPeer = NONE /\ UNCHANGED faults
       \/ /\ ReadPeer # NONE /\ PeerReadable(ReadPeer) /\ (ReadPeer \in Clients => inbox[ReadPeer] = <<>>)
          /\ UNCHANGED faults
       \/ ReadPeer # NONE /\ PeerReadable(ReadPeer) /\ faults < MaxFaults /\ faults' = faults + 1
    /\ file' = closed(s_fdCommand)
    /\ s_fdCommand' = -1
    /\ watch_table' = eventAdd(eventDel(watch_table, "commands"), "listen")
    /\ pc' = "cancel"
    /\ UNCHANGED <<pending_list, acceptFD, greet, registered, commands_fd, client, session,
                   inbox, stream, reqVars, worker, unsols>>

onCommandsSocketClosed ==
    /\ pc = "cancel"
    /\ markCancelled
    /\ pc' = "fire"
    /\ UNCHANGED <<pending_list, acceptFD, greet, registered, connVars, kernelVars,
                   s_pendingRequests, held, todo, sender, requests, worker, unsols, faults>>

-----------------------------------------------------------------------------
(* debugCallback *)

DebugAccept ==
    /\ pc = "debug"
    /\ \E d \in Sessions, f \in FdNums :
          /\ session[d] = "waiting" /\ LowestFree(f)
          /\ file' = [file EXCEPT ![f] = d]
          /\ session' = [session EXCEPT ![d] = "open"]
          /\ acceptFD' = f
    /\ pc' = "debugcmd"
    /\ UNCHANGED <<pending_list, greet, registered, connVars, client, inbox, stream,
                   reqVars, worker, unsols, faults>>

\* accept() fails, or recv() does and the descriptor stays open.
DebugFails ==
    /\ \/ /\ pc = "debug"
          /\ \/ (\A f \in FdNums : Open(f)) /\ UNCHANGED faults
             \/ faults < MaxFaults /\ faults' = faults + 1
       \/ pc = "debugcmd" /\ faults < MaxFaults /\ faults' = faults + 1
    /\ acceptFD' = -1
    /\ pc' = "fire"
    /\ UNCHANGED <<pending_list, greet, registered, connVars, kernelVars, reqVars,
                   worker, unsols>>

issueLocalRequest(a) ==
    /\ newRequest(a, Local, TRUE)
    /\ \/ held' = held \cup {a} /\ UNCHANGED todo
       \/ todo' = Append(todo, a) /\ UNCHANGED held

\* The switch of debugCallback.  "poweroff" closes the command socket and
\* leaves s_commands_event watched; "radioon" issues a second local request.
DebugOption ==
    /\ pc = "debugcmd"
    /\ \/ /\ "local" \in DebugOptions
          /\ \E a \in Addr : issueLocalRequest(a)
          /\ pc' = "debugend"
          /\ UNCHANGED <<s_fdCommand, file, worker>>
       \/ /\ "radioon" \in DebugOptions
          /\ \E a \in Addr : issueLocalRequest(a) /\ \E b \in Addr \ {a} : info[b] = NONE
          /\ pc' = "debugnext"
          /\ UNCHANGED <<s_fdCommand, file, worker>>
       \/ /\ "poweroff" \in DebugOptions
          /\ \E a \in Addr : issueLocalRequest(a)
          /\ file' = closed(s_fdCommand)
          /\ s_fdCommand' = -1
          /\ pc' = "debugend"
          /\ UNCHANGED worker
       \/ /\ "unsol" \in DebugOptions
          /\ StartSend(Loop, Unsol, NONE)
          /\ pc' = "debugend"
          /\ UNCHANGED <<info, s_pendingRequests, held, todo, s_fdCommand, file>>
       \/ /\ "invalid" \in DebugOptions
          /\ pc' = "debugend"
          /\ UNCHANGED <<info, s_pendingRequests, held, todo, s_fdCommand, file, worker>>
    /\ UNCHANGED <<pending_list, acceptFD, greet, registered, watch_table, commands_fd, client,
                   session, inbox, stream, cancelledReqs, sender, requests, unsols, faults>>

DebugSecondRequest ==
    /\ pc = "debugnext" /\ LoopIdle /\ todo = <<>>
    /\ \E a \in Addr : issueLocalRequest(a)
    /\ pc' = "debugend"
    /\ UNCHANGED <<pending_list, acceptFD, greet, registered, connVars, kernelVars,
                   cancelledReqs, sender, requests, worker, unsols, faults>>

DebugEnd ==
    /\ pc = "debugend" /\ LoopIdle /\ todo = <<>>
    /\ file' = closed(acceptFD)
    /\ acceptFD' = -1
    /\ pc' = "fire"
    /\ UNCHANGED <<pending_list, greet, registered, connVars, client, session, inbox,
                   stream, reqVars, worker, unsols, faults>>

-----------------------------------------------------------------------------
(* The peers, and the restart of the killed process. *)

ClientConnects(c) ==
    /\ Running /\ registered > 0 /\ client[c] = "idle"
    /\ client' = [client EXCEPT ![c] = "waiting"]
    /\ UNCHANGED <<loopVars, connVars, file, session, inbox, stream, reqVars, worker,
                   unsols, faults>>

ClientSends(c) ==
    /\ client[c] = "open" /\ requests < MaxRequests
    /\ inbox' = [inbox EXCEPT ![c] = Append(@, requests + 1)]
    /\ requests' = requests + 1
    /\ sender' = [sender EXCEPT ![requests + 1] = c]
    /\ UNCHANGED <<loopVars, connVars, file, client, session, stream, info,
                   s_pendingRequests, held, todo, cancelledReqs, worker, unsols, faults>>

ClientCloses(c) ==
    /\ client[c] = "open"
    /\ client' = [client EXCEPT ![c] = "gone"]
    /\ UNCHANGED <<loopVars, connVars, file, session, inbox, stream, reqVars, worker,
                   unsols, faults>>

SessionConnects(d) ==
    /\ Running /\ registered = 2 /\ session[d] = "idle"
    /\ session' = [session EXCEPT ![d] = "waiting"]
    /\ UNCHANGED <<loopVars, connVars, file, client, inbox, stream, reqVars, worker,
                   unsols, faults>>

SessionCloses(d) ==
    /\ session[d] = "open"
    /\ session' = [session EXCEPT ![d] = "gone"]
    /\ UNCHANGED <<loopVars, connVars, file, client, inbox, stream, reqVars, worker,
                   unsols, faults>>

\* The kernel closes everything; init starts the service again.
Restart ==
    /\ pc = "exited"
    /\ watch_table' = [s \in Slots |-> NONE] /\ pending_list' = <<>> /\ pc' = "poll"
    /\ s_fdCommand' = -1 /\ commands_fd' = -1 /\ acceptFD' = -1
    /\ greet' = 0 /\ registered' = 0
    /\ file' = [f \in FdNums |-> NONE]
    /\ client' = [c \in Clients |-> IF client[c] = "idle" THEN "idle" ELSE "gone"]
    /\ session' = [d \in Sessions |-> IF session[d] = "idle" THEN "idle" ELSE "gone"]
    /\ inbox' = [c \in Clients |-> <<>>]
    /\ info' = [a \in Addr |-> NONE] /\ s_pendingRequests' = <<>>
    /\ held' = {} /\ todo' = <<>>
    /\ worker' = [t \in Threads |-> Idle]
    /\ UNCHANGED <<stream, cancelledReqs, sender, requests, unsols, faults>>

-----------------------------------------------------------------------------
Init ==
    /\ watch_table = [s \in Slots |-> NONE] /\ pending_list = <<>> /\ pc = "poll"
    /\ s_fdCommand = -1 /\ commands_fd = -1 /\ acceptFD = -1
    /\ greet = 0 /\ registered = 0
    /\ file = [f \in FdNums |-> NONE]
    /\ client = [c \in Clients |-> "idle"] /\ session = [d \in Sessions |-> "idle"]
    /\ inbox = [c \in Clients |-> <<>>] /\ stream = [p \in Peers |-> <<>>]
    /\ info = [a \in Addr |-> NONE] /\ s_pendingRequests = <<>>
    /\ held = {} /\ todo = <<>>
    /\ worker = [t \in Threads |-> Idle]
    /\ cancelledReqs = {} /\ sender = [r \in Requests |-> NONE] /\ requests = 0 /\ unsols = 0 /\ faults = 0

LoopStep ==
    \/ Poll \/ PollFails \/ firePending
    \/ ListenAccept \/ ListenAcceptFails \/ ListenPhone \/ ListenOther \/ onNewCommandConnect
    \/ CommandsAbort \/ processCommandBuffer \/ CommandsDrained \/ CommandsClosed
    \/ onCommandsSocketClosed
    \/ DebugAccept \/ DebugFails \/ DebugOption \/ DebugSecondRequest \/ DebugEnd
    \/ DispatcherCompletes \/ Restart

RegisterStep == RegisterListen \/ RegisterDebug

SendStep(t) == CaptureFd(t) \/ WriteHeader(t) \/ WriteBody(t) \/ RIL_onRequestComplete(t)

VendorCall(t) == VendorUnsolicited(t) \/ \E a \in Addr : VendorCompletes(t, a)

PeerStep ==
    \/ \E c \in Clients : ClientConnects(c) \/ ClientSends(c) \/ ClientCloses(c)
    \/ \E d \in Sessions : SessionConnects(d) \/ SessionCloses(d)

Next ==
    \/ LoopStep \/ RegisterStep \/ PeerStep
    \/ \E t \in Threads : SendStep(t) \/ VendorCall(t)

Spec == Init /\ [][Next]_vars

-----------------------------------------------------------------------------
(* Fairness: every thread keeps running; vendor threads need not make calls, *)
(* peers need not do anything.                                               *)
Fairness ==
    /\ WF_vars(LoopStep) /\ WF_vars(RegisterStep)
    /\ \A t \in Threads : WF_vars(SendStep(t))

FairSpec == Spec /\ Fairness

-----------------------------------------------------------------------------
(* Properties. *)

Statuses == {"idle", "waiting", "open", "gone"}
Messages == Requests \cup {Local, Unsol, Greeting, Errors}

\* The variables have their types.
TypeOK ==
    /\ watch_table \in [Slots -> {"listen", "commands", "debug", NONE}]
    /\ pending_list \in Seq({"listen", "commands", "debug"})
    /\ pc \in {"poll", "fire", "listen", "check", "greet", "commands", "cancel", "debug",
               "debugcmd", "debugnext", "debugend", "exited"}
    /\ {s_fdCommand, commands_fd, acceptFD} \subseteq FdNums \cup {-1}
    /\ greet \in 0 .. 2 /\ registered \in 0 .. 2
    /\ file \in [FdNums -> Peers \cup {NONE}]
    /\ client \in [Clients -> Statuses] /\ session \in [Sessions -> Statuses]
    /\ inbox \in [Clients -> Seq(Requests)]
    /\ stream \in [Peers -> Seq({"header", "body"} \X Messages \X Threads)]
    /\ info \in [Addr -> [req : Requests \cup {Local}, local : BOOLEAN, cancelled : BOOLEAN] \cup {NONE}]
    /\ s_pendingRequests \in Seq(Addr) /\ held \subseteq Addr /\ todo \in Seq(Addr)
    /\ worker \in [Threads -> [st : {"idle", "dequeued", "send", "lock", "body"},
                               addr : Addr \cup {NONE}, msg : Messages,
                               fd : FdNums \cup {-1}]]
    /\ cancelledReqs \subseteq Requests /\ sender \in [Requests -> Clients \cup {NONE}]
    /\ requests \in 0 .. MaxRequests /\ unsols \in 0 .. MaxUnsol /\ faults \in 0 .. MaxFaults

\* The list of pending requests never holds freed memory, and no RequestInfo is
\* used after free or freed twice: listed addresses are live and listed once, and
\* a thread that is completing a request owns a live address that is not in the
\* list and that no other thread completes.  This covers the second completion in
\* dispatchVoiceRadioTech, whose token is already freed.
PendingIntegrity ==
    /\ \A j, k \in 1 .. Len(s_pendingRequests) :
          j # k => s_pendingRequests[j] # s_pendingRequests[k]
    /\ \A k \in 1 .. Len(s_pendingRequests) : info[s_pendingRequests[k]] # NONE
    /\ \A t \in Threads : worker[t].addr # NONE =>
          /\ info[worker[t].addr] # NONE
          /\ \A k \in 1 .. Len(s_pendingRequests) : s_pendingRequests[k] # worker[t].addr
          /\ \A u \in Threads \ {t} : worker[u].addr # worker[t].addr

\* The responses to request r that reached a peer.
Answers(r) == UNION {{<<p, k>> : k \in {k \in DOMAIN stream[p] : stream[p][k][1] = "body"
                                                              /\ stream[p][k][2] = r}}
                     : p \in Peers}

\* A request is answered at most once, over all connections and whoever
\* completes it, although RequestInfo addresses are reused.
AtMostOneResponse == \A r \in Requests : Cardinality(Answers(r)) <= 1

\* What onCommandsSocketClosed is for.  While no connection is served, every
\* request of a client that is still in s_pendingRequests is flagged, so that the
\* next connection starts with none of its predecessor's requests in the list;
\* and a flagged request is never answered, on any connection.  This says nothing
\* of a request that a thread takes off the list before it is flagged, between
\* the close and the marking or after blockingWrite has closed the socket: it may
\* be answered to the wrong peer (OwnResponsesOnly).
CancelledSilent ==
    /\ ~InTable("commands") /\ pc # "cancel" =>
          \A k \in 1 .. Len(s_pendingRequests) :
             info[s_pendingRequests[k]].local \/ info[s_pendingRequests[k]].cancelled
    /\ \A r \in cancelledReqs : Answers(r) = {}

\* issueLocalRequest, "ensuring that the response is not sent back up to the
\* command process": no peer receives the response to a local request.
LocalSilent == \A p \in Peers : \A k \in 1 .. Len(stream[p]) : stream[p][k][2] # Local

\* Outside callbacks the daemon either listens or serves one connection, never
\* both and never neither: every error path arms exactly one of the two events
\* again ("non-persistent so we can accept only one connection at a time"), and
\* listenCallback always finds s_fdCommand < 0, as it asserts.
OneConnection ==
    /\ pc = "poll" /\ registered > 0 => (InTable("listen") <=> ~InTable("commands"))
    /\ InTable("listen") => s_fdCommand = -1 \/ pc \in {"listen", "check"}
    /\ pc = "listen" => s_fdCommand = -1
    /\ \A r, s \in Slots : r # s /\ watch_table[r] # NONE => watch_table[r] # watch_table[s]

\* The contract of the event loop: an event is set up or added only while it is
\* neither watched nor waiting to be called.
EventDiscipline ==
    /\ pc \in {"listen", "check"} =>
          \A ev \in {"listen", "commands"} :
             ~InTable(ev) /\ \A k \in 1 .. Len(pending_list) : pending_list[k] # ev
    /\ \A j, k \in 1 .. Len(pending_list) : j # k => pending_list[j] # pending_list[k]
    /\ pc = "commands" => \A k \in 1 .. Len(pending_list) : pending_list[k] = "debug"

\* s_writeMutex keeps messages whole: whatever follows a header on a
\* connection is the body of that message, written by the same thread.
FramesWhole ==
    \A p \in Peers : \A k \in 1 .. Len(stream[p]) - 1 :
        stream[p][k][1] = "header" => stream[p][k + 1] = <<"body", stream[p][k][2], stream[p][k][3]>>

\* After its client has gone the daemon comes back to listening, be it through
\* end of stream, a failed write or the restart of the process.
ListensAgain ==
    (Open(s_fdCommand) /\ file[s_fdCommand] \in Clients /\ client[file[s_fdCommand]] = "gone")
        ~> InTable("listen")

\* The comment in onCommandsSocketClosed, "mark pending requests as "cancelled"
\* so we dont report responses": no client is sent the response to a request
\* that came over an earlier connection.
OwnResponsesOnly ==
    \A c \in Clients : \A k \in 1 .. Len(stream[c]) :
        stream[c][k][2] \in Requests => sender[stream[c][k][2]] = c
=============================================================================
