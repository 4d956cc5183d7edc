--------------------------- MODULE RilDaemonProofs ---------------------------
(* Proofs about the command channel, for any number of clients, debug           *)
(* sessions, vendor threads, requests and descriptors.  The invariant has four  *)
(* parts, each about a different piece of the daemon and each resting on the    *)
(* ones before it: the RequestInfo objects (HeapInv), the events of the loop    *)
(* (EventInv), the bytes on the sockets (FrameInv) and the requests of the      *)
(* clients (AnswerInv).                                                         *)
EXTENDS RilDaemon, FiniteSetTheorems, TLAPS

-----------------------------------------------------------------------------
(* The invariant. *)

Listed(a) == \E k \in 1 .. Len(s_pendingRequests) : s_pendingRequests[k] = a
Sending(t) == worker[t].st \in {"send", "lock", "body"}

\* The loop thread sends only inside the callbacks that wait for it.
LoopQuiet == pc \notin {"greet", "commands", "debugnext", "debugend", "exited"} => LoopIdle

\* A thread between unlinking a request and answering it has its address; the flag
\* local is set exactly on the requests no client sent, and those are not answered.
HeapInv ==
    /\ LoopQuiet /\ PendingIntegrity
    /\ \A t \in Threads : worker[t].st = "dequeued" => worker[t].addr # NONE
    /\ \A a \in Addr : info[a] # NONE => (info[a].local <=> info[a].req = Local)
    /\ \A t \in Threads : Sending(t) => worker[t].msg # Local

Events == {"listen", "commands", "debug"}
In(table, ev) == \E s \in Slots : table[s] = ev
TableDistinct(table) == \A r, s \in Slots : r # s /\ table[r] # NONE => table[r] # table[s]
Has(list, x) == \E k \in 1 .. Len(list) : list[k] = x
AllDiffer(list) == \A j, k \in 1 .. Len(list) : j # k => list[j] # list[k]

Watched(ev) == In(watch_table, ev)
Waits(ev) == Has(pending_list, ev)
InDebug == pc \in {"debug", "debugcmd", "debugnext", "debugend"}

\* There is one of: the listen event in the table, the listen event waiting to be
\* called, listenCallback running up to its decision, the commands event in the table.
\* The commands event stays in the table while it waits or runs.
EventInv ==
    /\ TableDistinct(watch_table) /\ AllDiffer(pending_list)
    /\ registered = 0 => /\ \A ev \in Events : ~Watched(ev) /\ ~Waits(ev)
                         /\ pc \in {"poll", "exited"} /\ s_fdCommand = -1
    /\ registered < 2 => ~Watched("debug") /\ ~Waits("debug") /\ ~InDebug
    /\ pc = "poll" => \A ev \in Events : ~Waits(ev)
    /\ registered > 0 => Watched("listen") \/ Watched("commands") \/ Waits("listen") \/ pc \in {"listen", "check"}
    /\ Watched("listen") => ~Watched("commands") /\ ~Waits("listen") /\ pc \notin {"listen", "check"}
    /\ Watched("commands") => ~Waits("listen") /\ pc \notin {"listen", "check"}
    /\ Waits("listen") => pc \notin {"listen", "check"}
    /\ Waits("commands") \/ pc = "commands" => Watched("commands")
    /\ Waits("commands") => pc # "commands"
    /\ Watched("listen") \/ Waits("listen") \/ pc = "listen" => s_fdCommand = -1

Status(p) == IF p \in Clients THEN client[p] ELSE session[p]
\* Nothing more can be written to p.
Dead(p) == Status(p) = "gone" \/ \A f \in FdNums : file[f] # p

EndsInHeader(p) == stream[p] # <<>> /\ stream[p][Len(stream[p])][1] = "header"

\* Thread t has written the header at the end of the stream of p and will write the body.
InProgress(t, p) ==
    /\ worker[t].st = "body" /\ worker[t].fd \in FdNums /\ file[worker[t].fd] = p
    /\ stream[p][Len(stream[p])] = <<"header", worker[t].msg, t>>

OneWriter == \A t, u \in Threads : worker[t].st = "body" /\ worker[u].st = "body" => t = u
OneDescriptor == \A f, g \in FdNums : file[f] # NONE /\ file[f] = file[g] => f = g
FreshPeers == \A p \in Peers : Status(p) \in {"idle", "waiting"} =>
                  stream[p] = <<>> /\ \A f \in FdNums : file[f] # p
HeadersFollowed == \A p \in Peers : EndsInHeader(p) => Dead(p) \/ \E t \in Threads : InProgress(t, p)

\* A peer is accepted once and has one descriptor; a header at the end of its stream
\* is being completed by the holder of s_writeMutex or will never be followed.
FrameInv == OneWriter /\ OneDescriptor /\ FreshPeers /\ HeadersFollowed /\ FramesWhole /\ LocalSilent

Queued(r) == \E c \in Clients : \E k \in 1 .. Len(inbox[c]) : inbox[c][k] = r
Answered(r) == \E p \in Peers : \E k \in 1 .. Len(stream[p]) :
                  stream[p][k][1] = "body" /\ stream[p][k][2] = r
Owned(r) == \E a \in Addr : info[a] # NONE /\ info[a].req = r

Issued == \A r \in Requests : Queued(r) \/ Owned(r) \/ Answered(r) \/ r \in cancelledReqs => r <= requests
QueuedOnce ==
    \A c, d \in Clients : \A j \in 1 .. Len(inbox[c]), k \in 1 .. Len(inbox[d]) :
        inbox[c][j] = inbox[d][k] => c = d /\ j = k
QueuedOnly == \A r \in Requests : Queued(r) => ~Owned(r) /\ ~Answered(r) /\ r \notin cancelledReqs
OwnedOnce ==
    \A a, b \in Addr :
        info[a] # NONE /\ info[b] # NONE /\ info[a].req = info[b].req /\ info[a].req # Local => a = b
OwnedUnanswered == \A r \in Requests : Owned(r) => ~Answered(r)
SendersOwn ==
    \A t \in Threads : Sending(t) /\ worker[t].msg \in Requests =>
        /\ worker[t].addr # NONE /\ info[worker[t].addr].req = worker[t].msg
        /\ worker[t].msg \notin cancelledReqs
CancelMarked == \A a \in Addr : info[a] # NONE /\ info[a].req \in cancelledReqs => info[a].cancelled
CancelUnanswered == \A r \in cancelledReqs : ~Answered(r)
AnsweredOnce ==
    \A p, q \in Peers : \A j \in 1 .. Len(stream[p]), k \in 1 .. Len(stream[q]) :
        /\ stream[p][j][1] = "body" /\ stream[q][k][1] = "body"
        /\ stream[p][j][2] = stream[q][k][2] /\ stream[p][j][2] \in Requests
        => p = q /\ j = k

\* A request is in one place: in the socket, in one RequestInfo, or done with.
AnswerInv ==
    /\ Issued /\ QueuedOnce /\ QueuedOnly /\ OwnedOnce /\ OwnedUnanswered
    /\ SendersOwn /\ CancelMarked /\ CancelUnanswered /\ AnsweredOnce

IInv == TypeOK /\ HeapInv /\ EventInv /\ FrameInv /\ AnswerInv

-----------------------------------------------------------------------------
(* What a step does to the RequestInfo objects, their list and the threads. *)

Same == UNCHANGED <<info, s_pendingRequests, worker>>

BeginSend(t) ==
    /\ worker[t] = Idle
    /\ \E m \in {Unsol, Greeting, Errors} : StartSend(t, m, NONE)
    /\ UNCHANGED <<info, s_pendingRequests>>

Enqueue(a) ==
    /\ \/ newRequest(a, Local, TRUE)
       \/ \E r \in Requests : newRequest(a, r, FALSE)
    /\ UNCHANGED worker

Dequeue(t, a) ==
    /\ worker[t] = Idle /\ Listed(a)
    /\ s_pendingRequests' = unlink(s_pendingRequests, a)
    /\ worker' = [worker EXCEPT ![t] = [Idle EXCEPT !.st = "dequeued", !.addr = a]]
    /\ UNCHANGED info

BeginAnswer(t) ==
    /\ worker[t].st = "dequeued"
    /\ ~info[worker[t].addr].local /\ ~info[worker[t].addr].cancelled
    /\ StartSend(t, info[worker[t].addr].req, worker[t].addr)
    /\ UNCHANGED <<info, s_pendingRequests>>

Capture(t) ==
    /\ worker[t].st = "send" /\ s_fdCommand >= 0
    /\ worker' = [worker EXCEPT ![t].st = "lock", ![t].fd = s_fdCommand]
    /\ UNCHANGED <<info, s_pendingRequests>>

TakeMutex(t) ==
    /\ worker[t].st = "lock"
    /\ worker' = [worker EXCEPT ![t].st = "body"]
    /\ UNCHANGED <<info, s_pendingRequests>>

Release(t) == worker[t].st # "idle" /\ Finish(t) /\ UNCHANGED s_pendingRequests

Cancel == markCancelled /\ UNCHANGED <<s_pendingRequests, worker>>

Reset ==
    /\ info' = [a \in Addr |-> NONE] /\ s_pendingRequests' = <<>>
    /\ worker' = [t \in Threads |-> Idle]

ThreadStep ==
    \/ Same \/ Cancel \/ Reset
    \/ \E a \in Addr : Enqueue(a)
    \/ \E t \in Threads : \/ BeginSend(t) \/ BeginAnswer(t) \/ Capture(t) \/ TakeMutex(t) \/ Release(t)
                          \/ \E a \in Addr : Dequeue(t, a)

LEMMA CompletionIsThreadStep ==
    ASSUME NEW t \in Threads, NEW a \in Addr, worker[t] = Idle, UNCHANGED info,
           checkAndDequeueRequestInfo(t, a)
    PROVE  ThreadStep
BY DEF checkAndDequeueRequestInfo, Listed, ThreadStep, Same, Dequeue

\* Every action is one of these steps.
LEMMA LoopIsThreadStep ==
    ASSUME TypeOK, LoopQuiet, LoopStep
    PROVE  ThreadStep
<1> USE DEF Threads
<1>1. CASE Poll \/ PollFails \/ firePending \/ ListenAccept \/ ListenAcceptFails \/ ListenPhone
  BY <1>1 DEF Poll, PollFails, firePending, ListenAccept, ListenAcceptFails, ListenPhone, reqVars,
              ThreadStep, Same
<1>2. CASE CommandsAbort \/ CommandsDrained \/ CommandsClosed \/ DebugAccept \/ DebugFails \/ DebugEnd
  BY <1>2 DEF CommandsAbort, CommandsDrained, CommandsClosed, DebugAccept, DebugFails, DebugEnd, reqVars,
              ThreadStep, Same
<1>3. CASE ListenOther \/ onCommandsSocketClosed
  BY <1>3 DEF ListenOther, onCommandsSocketClosed, ThreadStep, Cancel
<1>4. CASE onNewCommandConnect
  <2>1. CASE StartSend(Loop, Greeting, NONE)
    BY <1>4, <2>1 DEF onNewCommandConnect, LoopIdle, reqVars, ThreadStep, BeginSend
  <2>2. CASE UNCHANGED worker
    BY <1>4, <2>2 DEF onNewCommandConnect, reqVars, ThreadStep, Same
  <2> QED
    BY <1>4, <2>1, <2>2 DEF onNewCommandConnect
<1>5. CASE processCommandBuffer
  <2>1. CASE UNCHANGED <<info, s_pendingRequests, held, todo, worker>>
    BY <2>1 DEF ThreadStep, Same
  <2>2. CASE StartSend(Loop, Errors, NONE) /\ UNCHANGED <<info, s_pendingRequests, held, todo>>
    BY <1>5, <2>2 DEF processCommandBuffer, CanRead, LoopIdle, ThreadStep, BeginSend
  <2>3. CASE \E a \in Addr : newRequest(a, Head(inbox[ReadPeer]), FALSE) /\ UNCHANGED worker
    <3>1. inbox[ReadPeer] \in Seq(Requests) /\ inbox[ReadPeer] # <<>>
      BY <1>5 DEF processCommandBuffer, TypeOK
    <3>2. Head(inbox[ReadPeer]) \in Requests
      BY <3>1
    <3> QED
      BY <2>3, <3>2 DEF ThreadStep, Enqueue
  <2> QED
    BY <1>5, <2>1, <2>2, <2>3 DEF processCommandBuffer
<1>6. CASE DebugOption
  <2>1. LoopIdle
    BY <1>6 DEF DebugOption, LoopQuiet
  <2>2. CASE StartSend(Loop, Unsol, NONE) /\ UNCHANGED <<info, s_pendingRequests>>
    BY <2>1, <2>2 DEF LoopIdle, ThreadStep, BeginSend
  <2>3. CASE UNCHANGED <<info, s_pendingRequests, worker>>
    BY <2>3 DEF ThreadStep, Same
  <2>4. CASE (\E a \in Addr : issueLocalRequest(a)) /\ UNCHANGED worker
    BY <2>4 DEF ThreadStep, Enqueue, issueLocalRequest
  <2> QED
    BY <1>6, <2>2, <2>3, <2>4 DEF DebugOption
<1>7. CASE DebugSecondRequest
  BY <1>7 DEF DebugSecondRequest, issueLocalRequest, ThreadStep, Enqueue
<1>8. CASE DispatcherCompletes
  <2>1. todo \in Seq(Addr) /\ todo # <<>>
    BY <1>8 DEF DispatcherCompletes, TypeOK
  <2>2. Head(todo) \in Addr
    BY <2>1
  <2> QED
    BY <1>8, <2>2, CompletionIsThreadStep DEF DispatcherCompletes, LoopIdle
<1>9. CASE Restart
  BY <1>9 DEF Restart, ThreadStep, Reset
<1> QED
  BY <1>1, <1>2, <1>3, <1>4, <1>5, <1>6, <1>7, <1>8, <1>9 DEF LoopStep

LEMMA SendIsThreadStep ==
    ASSUME NEW t \in Threads, SendStep(t)
    PROVE  ThreadStep
<1>1. CASE CaptureFd(t)
  <2>1. CASE Finish(t)
    BY <1>1, <2>1 DEF CaptureFd, ThreadStep, Release
  <2>2. CASE worker' = [worker EXCEPT ![t].st = "lock", ![t].fd = s_fdCommand] /\ UNCHANGED info /\ s_fdCommand >= 0
    BY <1>1, <2>2 DEF CaptureFd, ThreadStep, Capture
  <2> QED
    BY <1>1, <2>1, <2>2 DEF CaptureFd
<1>2. CASE WriteHeader(t)
  BY <1>2 DEF WriteHeader, ThreadStep, Release, TakeMutex
<1>3. CASE WriteBody(t)
  BY <1>3 DEF WriteBody, ThreadStep, Release
<1>4. CASE RIL_onRequestComplete(t)
  <2>1. CASE Finish(t)
    BY <1>4, <2>1 DEF RIL_onRequestComplete, ThreadStep, Release
  <2>2. CASE ~Finish(t)
    BY <1>4, <2>2 DEF RIL_onRequestComplete, ThreadStep, BeginAnswer
  <2> QED
    BY <2>1, <2>2
<1> QED
  BY <1>1, <1>2, <1>3, <1>4 DEF SendStep

LEMMA NextIsThreadStep ==
    ASSUME TypeOK, LoopQuiet, [Next]_vars
    PROVE  ThreadStep
<1>1. CASE RegisterStep \/ PeerStep \/ UNCHANGED vars
  BY <1>1 DEF RegisterStep, RegisterListen, RegisterDebug, PeerStep, ClientConnects, ClientSends,
              ClientCloses, SessionConnects, SessionCloses, vars, reqVars, ThreadStep, Same
<1>2. ASSUME NEW t \in Threads, VendorCall(t) PROVE ThreadStep
  <2>1. CASE VendorUnsolicited(t)
    BY <2>1 DEF VendorUnsolicited, reqVars, ThreadStep, BeginSend
  <2>2. ASSUME NEW a \in Addr, VendorCompletes(t, a) PROVE ThreadStep
    BY <2>2, CompletionIsThreadStep DEF VendorCompletes
  <2> QED
    BY <1>2, <2>1, <2>2 DEF VendorCall
<1> QED
  BY <1>1, <1>2, LoopIsThreadStep, SendIsThreadStep DEF Next

-----------------------------------------------------------------------------
(* The effect of each of these steps, thread by thread and address by address. *)

Infos == [req : Requests \cup {Local}, local : BOOLEAN, cancelled : BOOLEAN]
Works == [st : {"idle", "dequeued", "send", "lock", "body"}, addr : Addr \cup {NONE},
          msg : Messages, fd : FdNums \cup {-1}]

HeapTypes ==
    /\ info \in [Addr -> Infos \cup {NONE}] /\ s_pendingRequests \in Seq(Addr)
    /\ worker \in [Threads -> Works]

LEMMA NoneIsNothing == NONE \notin Addr /\ NONE \notin Infos /\ NONE \notin Peers
BY NoneAssumption, BoundsAssumption DEF Infos, Requests, Local, Peers

\* The parts of PendingIntegrity.
Distinct == \A j, k \in 1 .. Len(s_pendingRequests) : j # k => s_pendingRequests[j] # s_pendingRequests[k]
ListedLive == \A a \in Addr : Listed(a) => info[a] # NONE
OwnersApart ==
    \A t \in Threads, a \in Addr : worker[t].addr = a =>
        /\ info[a] # NONE /\ ~Listed(a)
        /\ \A u \in Threads : u # t => worker[u].addr # a

LEMMA IntegrityParts ==
    ASSUME HeapTypes
    PROVE  PendingIntegrity <=> Distinct /\ ListedLive /\ OwnersApart
<1>1. \A t \in Threads : worker[t].addr \in Addr <=> worker[t].addr # NONE
  BY NoneIsNothing DEF HeapTypes, Works
<1>2. OwnersApart <=>
        \A t \in Threads : worker[t].addr # NONE =>
          /\ info[worker[t].addr] # NONE
          /\ \A k \in 1 .. Len(s_pendingRequests) : s_pendingRequests[k] # worker[t].addr
          /\ \A u \in Threads \ {t} : worker[u].addr # worker[t].addr
  BY <1>1 DEF OwnersApart, Listed
<1>3. ListedLive <=> \A k \in 1 .. Len(s_pendingRequests) : info[s_pendingRequests[k]] # NONE
  BY DEF HeapTypes, ListedLive, Listed
<1> QED
  BY <1>2, <1>3 DEF PendingIntegrity, Distinct

DequeuedOwns == \A t \in Threads : worker[t].st = "dequeued" => worker[t].addr # NONE
LocalMarked == \A a \in Addr : info[a] # NONE => (info[a].local <=> info[a].req = Local)
NoLocalSend == \A t \in Threads : Sending(t) => worker[t].msg # Local

HeapCore == HeapTypes /\ Distinct /\ ListedLive /\ OwnersApart /\ DequeuedOwns /\ LocalMarked /\ NoLocalSend

LEMMA IdleIsWork == Idle \in Works /\ Idle.st = "idle" /\ Idle.addr = NONE /\ Idle.msg = 0 /\ Idle.fd = -1
BY DEF Idle, Works, Messages, Local

\* Replacing the record of one thread.
LEMMA OneThread ==
    ASSUME worker \in [Threads -> Works], NEW t \in Threads, NEW w \in Works,
           worker' = [worker EXCEPT ![t] = w]
    PROVE  /\ worker' \in [Threads -> Works] /\ worker'[t] = w
           /\ \A u \in Threads : u # t => worker'[u] = worker[u]
OBVIOUS

LEMMA BeginSendEffect ==
    ASSUME HeapTypes, NEW t \in Threads, BeginSend(t)
    PROVE  /\ HeapTypes' /\ UNCHANGED <<info, s_pendingRequests>> /\ worker[t].st = "idle"
           /\ worker'[t].st = "send" /\ worker'[t].addr = NONE
           /\ worker'[t].msg \in {Unsol, Greeting, Errors}
           /\ \A u \in Threads : u # t => worker'[u] = worker[u]
<1>1. PICK m \in {Unsol, Greeting, Errors} : StartSend(t, m, NONE)
  BY DEF BeginSend
<1> DEFINE w == [st |-> "send", addr |-> NONE, msg |-> m, fd |-> -1]
<1>2. w \in Works /\ w.st = "send" /\ w.addr = NONE /\ w.msg = m
  BY DEF Works, Messages
<1>3. worker' = [worker EXCEPT ![t] = w]
  BY <1>1 DEF StartSend
<1> HIDE DEF w
<1>4. worker[t].st = "idle"
  BY IdleIsWork DEF BeginSend
<1> QED
  BY <1>2, <1>3, <1>4, OneThread DEF HeapTypes, BeginSend

LEMMA DequeueEffect ==
    ASSUME HeapTypes, NEW t \in Threads, NEW a \in Addr, Dequeue(t, a)
    PROVE  /\ HeapTypes' /\ UNCHANGED info /\ worker[t].st = "idle" /\ worker[t].addr = NONE
           /\ Listed(a)
           /\ worker'[t].st = "dequeued" /\ worker'[t].addr = a
           /\ \A u \in Threads : u # t => worker'[u] = worker[u]
           /\ \A b \in Addr : Listed(b)' => Listed(b)
           /\ Distinct => Distinct' /\ ~Listed(a)'
<1> DEFINE w == [Idle EXCEPT !.st = "dequeued", !.addr = a]
<1>1. w \in Works /\ w.st = "dequeued" /\ w.addr = a
  BY DEF Works, Messages, Idle, Local
<1>2. worker' = [worker EXCEPT ![t] = w]
  BY DEF Dequeue
<1> HIDE DEF w
<1>3. worker[t].st = "idle" /\ worker[t].addr = NONE
  BY IdleIsWork DEF Dequeue
<1> DEFINE s == s_pendingRequests
           k == CHOOSE i \in 1 .. Len(s) : s[i] = a
<1>4. k \in 1 .. Len(s) /\ s[k] = a /\ s \in Seq(Addr) /\ Len(s) \in Nat
  BY DEF Dequeue, Listed, HeapTypes
<1>5. s' = [i \in 1 .. Len(s) - 1 |-> s[IF i < k THEN i ELSE i + 1]]
  BY DEF Dequeue, unlink
<1> HIDE DEF s, k
<1>6. \A i \in 1 .. Len(s) - 1 : (IF i < k THEN i ELSE i + 1) \in 1 .. Len(s)
  BY <1>4
<1>7. s' \in Seq(Addr) /\ Len(s') = Len(s) - 1
  BY <1>4, <1>5, <1>6
<1>8. \A i \in 1 .. Len(s') : s'[i] = s[IF i < k THEN i ELSE i + 1]
  BY <1>5, <1>7
<1>9. \A b \in Addr : (\E i \in 1 .. Len(s') : s'[i] = b) => \E i \in 1 .. Len(s) : s[i] = b
  BY <1>6, <1>7, <1>8
<1>10. ASSUME \A i, j \in 1 .. Len(s) : i # j => s[i] # s[j]
       PROVE  /\ \A i, j \in 1 .. Len(s') : i # j => s'[i] # s'[j]
              /\ ~\E i \in 1 .. Len(s') : s'[i] = a
  <2>1. \A i, j \in 1 .. Len(s') : i # j =>
            (IF i < k THEN i ELSE i + 1) # (IF j < k THEN j ELSE j + 1)
    BY <1>4, <1>7
  <2>2. \A i, j \in 1 .. Len(s') : i # j => s'[i] # s'[j]
    BY <1>6, <1>7, <1>8, <1>10, <2>1
  <2>3. \A i \in 1 .. Len(s') : (IF i < k THEN i ELSE i + 1) # k
    BY <1>4, <1>7
  <2>4. \A i \in 1 .. Len(s') : s'[i] # a
    BY <1>4, <1>6, <1>7, <1>8, <1>10, <2>3
  <2> QED
    BY <2>2, <2>4
<1>11. HeapTypes'
  BY <1>1, <1>2, <1>7, OneThread DEF HeapTypes, Dequeue, s
<1>12. /\ \A b \in Addr : Listed(b)' => Listed(b)
       /\ Distinct => Distinct' /\ ~Listed(a)'
  BY <1>9, <1>10 DEF s, Listed, Distinct
<1> QED
  BY <1>1, <1>2, <1>3, <1>11, <1>12, OneThread DEF HeapTypes, Dequeue

LEMMA BeginAnswerEffect ==
    ASSUME HeapCore, NEW t \in Threads, BeginAnswer(t)
    PROVE  /\ HeapTypes' /\ UNCHANGED <<info, s_pendingRequests>>
           /\ worker[t].st = "dequeued" /\ worker[t].addr \in Addr /\ info[worker[t].addr] \in Infos
           /\ ~info[worker[t].addr].local /\ ~info[worker[t].addr].cancelled
           /\ worker'[t].st = "send" /\ worker'[t].addr = worker[t].addr
           /\ worker'[t].msg = info[worker[t].addr].req
           /\ \A u \in Threads : u # t => worker'[u] = worker[u]
<1> DEFINE a == worker[t].addr
           w == [st |-> "send", addr |-> a, msg |-> info[a].req, fd |-> -1]
<1>1. worker[t] \in Works /\ worker[t].st = "dequeued" /\ a # NONE
  BY DEF HeapCore, HeapTypes, DequeuedOwns, BeginAnswer
<1>2. a \in Addr /\ info[a] \in Infos
  BY <1>1 DEF HeapCore, HeapTypes, Works, OwnersApart
<1>3. w \in Works /\ w.st = "send" /\ w.addr = a /\ w.msg = info[a].req
  BY <1>2 DEF Works, Infos, Messages
<1>4. worker' = [worker EXCEPT ![t] = w]
  BY DEF BeginAnswer, StartSend
<1> HIDE DEF w
<1> QED
  BY <1>1, <1>2, <1>3, <1>4, OneThread DEF HeapCore, HeapTypes, BeginAnswer

LEMMA CaptureEffect ==
    ASSUME HeapTypes, s_fdCommand \in FdNums \cup {-1}, NEW t \in Threads, Capture(t)
    PROVE  /\ HeapTypes' /\ UNCHANGED <<info, s_pendingRequests>>
           /\ worker[t].st = "send" /\ worker'[t].st = "lock"
           /\ worker'[t].addr = worker[t].addr /\ worker'[t].msg = worker[t].msg
           /\ \A u \in Threads : u # t => worker'[u] = worker[u]
<1> DEFINE w == [worker[t] EXCEPT !.st = "lock", !.fd = s_fdCommand]
<1>1. worker[t] \in Works
  BY DEF HeapTypes
<1>2. w \in Works /\ w.st = "lock" /\ w.addr = worker[t].addr /\ w.msg = worker[t].msg
  BY <1>1 DEF Works
<1>3. worker' = [worker EXCEPT ![t] = w]
  BY DEF Capture, HeapTypes
<1> HIDE DEF w
<1> QED
  BY <1>2, <1>3, OneThread DEF HeapTypes, Capture

LEMMA TakeMutexEffect ==
    ASSUME HeapTypes, NEW t \in Threads, TakeMutex(t)
    PROVE  /\ HeapTypes' /\ UNCHANGED <<info, s_pendingRequests>>
           /\ worker[t].st = "lock" /\ worker'[t].st = "body"
           /\ worker'[t].addr = worker[t].addr /\ worker'[t].msg = worker[t].msg
           /\ worker'[t].fd = worker[t].fd
           /\ \A u \in Threads : u # t => worker'[u] = worker[u]
<1> DEFINE w == [worker[t] EXCEPT !.st = "body"]
<1>1. worker[t] \in Works
  BY DEF HeapTypes
<1>2. w \in Works /\ w.st = "body" /\ w.addr = worker[t].addr /\ w.msg = worker[t].msg /\ w.fd = worker[t].fd
  BY <1>1 DEF Works
<1>3. worker' = [worker EXCEPT ![t] = w]
  BY DEF TakeMutex, HeapTypes
<1> HIDE DEF w
<1> QED
  BY <1>2, <1>3, OneThread DEF HeapTypes, TakeMutex

LEMMA ReleaseEffect ==
    ASSUME HeapTypes, NEW t \in Threads, Release(t)
    PROVE  /\ HeapTypes' /\ UNCHANGED s_pendingRequests
           /\ worker'[t] = Idle
           /\ \A u \in Threads : u # t => worker'[u] = worker[u]
           /\ \A a \in Addr : info'[a] = (IF a = worker[t].addr THEN NONE ELSE info[a])
<1>1. worker' = [worker EXCEPT ![t] = Idle] /\ worker[t] \in Works
  BY DEF Release, Finish, HeapTypes
<1>2. worker[t].addr = NONE \/ worker[t].addr \in Addr
  BY <1>1 DEF Works
<1>3. /\ info' \in [Addr -> Infos \cup {NONE}]
      /\ \A a \in Addr : info'[a] = (IF a = worker[t].addr THEN NONE ELSE info[a])
  <2>1. CASE worker[t].addr = NONE
    BY <2>1, NoneIsNothing DEF Release, Finish, HeapTypes
  <2>2. CASE worker[t].addr \in Addr
    <3>1. info' = [info EXCEPT ![worker[t].addr] = NONE]
      BY <2>2, NoneIsNothing DEF Release, Finish
    <3> QED
      BY <2>2, <3>1 DEF HeapTypes
  <2> QED
    BY <1>2, <2>1, <2>2
<1> QED
  BY <1>1, <1>3, OneThread, IdleIsWork DEF HeapTypes, Release

LEMMA EnqueueEffect ==
    ASSUME HeapTypes, NEW a \in Addr, Enqueue(a)
    PROVE  /\ HeapTypes' /\ UNCHANGED worker
           /\ info[a] = NONE /\ info'[a] \in Infos /\ ~info'[a].cancelled
           /\ info'[a].local <=> info'[a].req = Local
           /\ \A b \in Addr : b # a => info'[b] = info[b]
           /\ \A b \in Addr : Listed(b)' <=> b = a \/ Listed(b)
           /\ Distinct /\ ~Listed(a) => Distinct'
<1>1. PICK r \in Requests \cup {Local}, isLocal \in BOOLEAN :
            newRequest(a, r, isLocal) /\ (isLocal <=> r = Local)
  <2>1. \A r \in Requests : r # Local
    BY DEF Requests, Local
  <2>2. CASE newRequest(a, Local, TRUE)
    BY <2>2
  <2>3. CASE \E r \in Requests : newRequest(a, r, FALSE)
    BY <2>1, <2>3
  <2> QED
    BY <2>2, <2>3 DEF Enqueue
<1> DEFINE i == [req |-> r, local |-> isLocal, cancelled |-> FALSE]
           s == s_pendingRequests
<1>2. i \in Infos /\ ~i.cancelled /\ (i.local <=> i.req = Local)
  BY <1>1 DEF Infos
<1>3. info' = [info EXCEPT ![a] = i] /\ info[a] = NONE
  BY <1>1 DEF newRequest
<1> HIDE DEF i
<1>4. /\ info' \in [Addr -> Infos \cup {NONE}] /\ info'[a] = i
      /\ \A b \in Addr : b # a => info'[b] = info[b]
  BY <1>2, <1>3 DEF HeapTypes
<1>5. s' = <<a>> \o s /\ s \in Seq(Addr)
  BY <1>1 DEF newRequest, HeapTypes
<1>6. s' \in Seq(Addr) /\ Len(s') = Len(s) + 1 /\ s'[1] = a /\ Len(s) \in Nat
      /\ \A k \in 1 .. Len(s) : s'[k + 1] = s[k]
  BY <1>5
<1> HIDE DEF s
<1>7. \A k \in 1 .. Len(s') : k = 1 \/ (k - 1 \in 1 .. Len(s) /\ s'[k] = s[k - 1])
  BY <1>6
<1>8. ASSUME NEW b \in Addr
      PROVE  (\E k \in 1 .. Len(s') : s'[k] = b) <=> b = a \/ \E k \in 1 .. Len(s) : s[k] = b
  <2>1. ASSUME NEW k \in 1 .. Len(s), s[k] = b PROVE \E j \in 1 .. Len(s') : s'[j] = b
    <3>1. k + 1 \in 1 .. Len(s') /\ s'[k + 1] = b
      BY <1>6, <2>1
    <3> QED
      BY <3>1
  <2>2. 1 \in 1 .. Len(s')
    BY <1>6
  <2> QED
    BY <1>6, <1>7, <2>1, <2>2
<1>9. ASSUME \A j, k \in 1 .. Len(s) : j # k => s[j] # s[k], ~\E k \in 1 .. Len(s) : s[k] = a
      PROVE  \A j, k \in 1 .. Len(s') : j # k => s'[j] # s'[k]
  <2> SUFFICES ASSUME NEW j \in 1 .. Len(s'), NEW k \in 1 .. Len(s'), j # k, s'[j] = s'[k]
               PROVE  FALSE
    OBVIOUS
  <2>1. CASE j = 1
    BY <1>6, <1>7, <1>9, <2>1
  <2>2. CASE k = 1
    BY <1>6, <1>7, <1>9, <2>2
  <2>3. CASE j # 1 /\ k # 1
    <3>1. j - 1 \in 1 .. Len(s) /\ k - 1 \in 1 .. Len(s) /\ j - 1 # k - 1 /\ s[j - 1] = s[k - 1]
      BY <1>6, <1>7, <2>3
    <3> QED
      BY <1>9, <3>1
  <2> QED
    BY <2>1, <2>2, <2>3
<1>10. \A b \in Addr : Listed(b)' <=> b = a \/ Listed(b)
  BY <1>8 DEF s, Listed
<1>11. Distinct /\ ~Listed(a) => Distinct'
  BY <1>9 DEF s, Listed, Distinct
<1>12. HeapTypes' /\ UNCHANGED worker
  BY <1>4, <1>6 DEF HeapTypes, Enqueue, s
<1> QED
  BY <1>2, <1>3, <1>4, <1>10, <1>11, <1>12

LEMMA CancelEffect ==
    ASSUME HeapTypes, ListedLive, Cancel
    PROVE  /\ HeapTypes' /\ UNCHANGED <<s_pendingRequests, worker>>
           /\ \A a \in Addr : Listed(a) =>
                 /\ info[a] \in Infos /\ info'[a] \in Infos /\ info'[a].cancelled
                 /\ info'[a].req = info[a].req /\ info'[a].local = info[a].local
           /\ \A a \in Addr : ~Listed(a) => info'[a] = info[a]
           /\ cancelledReqs' = cancelledReqs \cup ({info[a].req : a \in {b \in Addr : Listed(b)}} \ {Local})
<1> DEFINE listed == {s_pendingRequests[k] : k \in 1 .. Len(s_pendingRequests)}
<1>1. \A a : a \in listed <=> Listed(a)
  BY DEF Listed
<1>2. \A a \in listed : a \in Addr
  BY DEF HeapTypes
<1>3. /\ info' = [a \in Addr |-> IF a \in listed THEN [info[a] EXCEPT !.cancelled = TRUE] ELSE info[a]]
      /\ cancelledReqs' = cancelledReqs \cup ({info[a].req : a \in listed} \ {Local})
  BY DEF Cancel, markCancelled
<1>4. listed = {b \in Addr : Listed(b)}
  BY <1>1, <1>2
<1> HIDE DEF listed
<1>5. ASSUME NEW a \in Addr, Listed(a)
      PROVE  /\ info[a] \in Infos /\ info'[a] \in Infos /\ info'[a].cancelled
             /\ info'[a].req = info[a].req /\ info'[a].local = info[a].local
  <2>1. info[a] \in Infos
    BY <1>5 DEF ListedLive, HeapTypes
  <2>2. info'[a] = [info[a] EXCEPT !.cancelled = TRUE]
    BY <1>1, <1>3, <1>5
  <2> QED
    BY <2>1, <2>2 DEF Infos
<1>6. \A a \in Addr : ~Listed(a) => info'[a] = info[a]
  BY <1>1, <1>3
<1>7. info' \in [Addr -> Infos \cup {NONE}]
  BY <1>3, <1>5, <1>6 DEF HeapTypes
<1> QED
  BY <1>3, <1>4, <1>5, <1>6, <1>7 DEF HeapTypes, Cancel

-----------------------------------------------------------------------------
(* The RequestInfo objects. *)

\* A thread that lets go of no address and takes none.
LEMMA HeapKept ==
    ASSUME HeapCore, HeapTypes', UNCHANGED <<info, s_pendingRequests>>, NEW t \in Threads,
           worker'[t].addr \in {NONE, worker[t].addr}, worker'[t].st # "dequeued",
           Sending(t)' => worker'[t].msg # Local,
           \A u \in Threads : u # t => worker'[u] = worker[u]
    PROVE  HeapCore'
<1>1. Distinct' /\ ListedLive' /\ LocalMarked'
  BY DEF HeapCore, Distinct, ListedLive, Listed, LocalMarked
<1>2. OwnersApart'
  <2>1. \A u \in Threads, a \in Addr : worker'[u].addr = a => worker[u].addr = a
    BY NoneIsNothing
  <2>2. \A a : Listed(a)' <=> Listed(a)
    BY DEF Listed
  <2> QED
    BY <2>1, <2>2 DEF HeapCore, OwnersApart
<1>3. DequeuedOwns' /\ NoLocalSend'
  BY DEF HeapCore, DequeuedOwns, NoLocalSend, Sending
<1> QED
  BY <1>1, <1>2, <1>3 DEF HeapCore

LEMMA HeapRelease ==
    ASSUME HeapCore, NEW t \in Threads, Release(t)
    PROVE  HeapCore'
<1>1. /\ HeapTypes' /\ UNCHANGED s_pendingRequests
      /\ worker'[t] = Idle
      /\ \A u \in Threads : u # t => worker'[u] = worker[u]
      /\ \A a \in Addr : info'[a] = (IF a = worker[t].addr THEN NONE ELSE info[a])
  BY ReleaseEffect DEF HeapCore
<1>2. /\ worker \in [Threads -> Works] /\ worker[t].addr \in Addr \cup {NONE}
      /\ \A a \in Addr : Listed(a) => a # worker[t].addr
  BY NoneIsNothing DEF HeapCore, HeapTypes, OwnersApart, Works
<1>3. \A a : Listed(a)' <=> Listed(a)
  BY <1>1 DEF Listed
<1>4. Distinct' /\ ListedLive' /\ LocalMarked'
  BY <1>1, <1>2, <1>3 DEF HeapCore, Distinct, ListedLive, LocalMarked
<1>5. OwnersApart'
  <2>1. \A u \in Threads, a \in Addr : worker'[u].addr = a =>
            u # t /\ worker[u].addr = a /\ a # worker[t].addr
    BY <1>1, IdleIsWork, NoneIsNothing DEF HeapCore, OwnersApart
  <2> QED
    BY <1>1, <1>3, <2>1 DEF HeapCore, OwnersApart
<1>6. DequeuedOwns' /\ NoLocalSend'
  BY <1>1, IdleIsWork DEF HeapCore, DequeuedOwns, NoLocalSend, Sending
<1> QED
  BY <1>1, <1>4, <1>5, <1>6 DEF HeapCore

LEMMA HeapEnqueue ==
    ASSUME HeapCore, NEW a \in Addr, Enqueue(a)
    PROVE  HeapCore'
<1>1. /\ HeapTypes' /\ UNCHANGED worker
      /\ info[a] = NONE /\ info'[a] \in Infos
      /\ info'[a].local <=> info'[a].req = Local
      /\ \A b \in Addr : b # a => info'[b] = info[b]
      /\ \A b \in Addr : Listed(b)' <=> b = a \/ Listed(b)
      /\ Distinct /\ ~Listed(a) => Distinct'
  BY EnqueueEffect DEF HeapCore
<1>2. Distinct' /\ ListedLive' /\ LocalMarked'
  BY <1>1, NoneIsNothing DEF HeapCore, ListedLive, LocalMarked
<1>3. OwnersApart'
  BY <1>1 DEF HeapCore, OwnersApart
<1>4. DequeuedOwns' /\ NoLocalSend'
  BY <1>1 DEF HeapCore, DequeuedOwns, NoLocalSend, Sending
<1> QED
  BY <1>1, <1>2, <1>3, <1>4 DEF HeapCore

LEMMA HeapDequeue ==
    ASSUME HeapCore, NEW t \in Threads, NEW a \in Addr, Dequeue(t, a)
    PROVE  HeapCore'
<1>1. /\ HeapTypes' /\ UNCHANGED info /\ worker[t].st = "idle" /\ worker[t].addr = NONE
      /\ Listed(a)
      /\ worker'[t].st = "dequeued" /\ worker'[t].addr = a
      /\ \A u \in Threads : u # t => worker'[u] = worker[u]
      /\ \A b \in Addr : Listed(b)' => Listed(b)
      /\ Distinct' /\ ~Listed(a)'
  BY DequeueEffect DEF HeapCore
<1>2. ListedLive' /\ LocalMarked' /\ info[a] # NONE
  BY <1>1 DEF HeapCore, ListedLive, LocalMarked
<1>3. OwnersApart'
  <2> SUFFICES ASSUME NEW u \in Threads, NEW b \in Addr, worker'[u].addr = b
               PROVE  /\ info'[b] # NONE /\ ~Listed(b)'
                      /\ \A v \in Threads : v # u => worker'[v].addr # b
    BY DEF OwnersApart
  <2>1. \A v \in Threads : v # t => worker[v].addr # a
    BY <1>1 DEF HeapCore, OwnersApart
  <2>2. CASE u = t
    BY <1>1, <1>2, <2>1, <2>2
  <2>3. CASE u # t
    BY <1>1, <2>1, <2>3 DEF HeapCore, OwnersApart
  <2> QED
    BY <2>2, <2>3
<1>4. DequeuedOwns' /\ NoLocalSend'
  BY <1>1, NoneIsNothing DEF HeapCore, DequeuedOwns, NoLocalSend, Sending
<1> QED
  BY <1>1, <1>2, <1>3, <1>4 DEF HeapCore

LEMMA HeapCancel ==
    ASSUME HeapCore, Cancel
    PROVE  HeapCore'
<1>1. /\ HeapTypes' /\ UNCHANGED <<s_pendingRequests, worker>>
      /\ \A a \in Addr : Listed(a) =>
            /\ info[a] \in Infos /\ info'[a] \in Infos
            /\ info'[a].req = info[a].req /\ info'[a].local = info[a].local
      /\ \A a \in Addr : ~Listed(a) => info'[a] = info[a]
  BY CancelEffect DEF HeapCore
<1>2. \A a : Listed(a)' <=> Listed(a)
  BY <1>1 DEF Listed
<1>3. Distinct' /\ ListedLive' /\ LocalMarked'
  BY <1>1, <1>2, NoneIsNothing DEF HeapCore, Distinct, ListedLive, LocalMarked
<1>4. \A a \in Addr : info[a] # NONE => info'[a] # NONE
  BY <1>1, NoneIsNothing
<1>6. OwnersApart'
  BY <1>1, <1>2, <1>4 DEF HeapCore, OwnersApart
<1>7. DequeuedOwns' /\ NoLocalSend'
  BY <1>1 DEF HeapCore, DequeuedOwns, NoLocalSend, Sending
<1> QED
  BY <1>1, <1>3, <1>6, <1>7 DEF HeapCore

LEMMA HeapReset ==
    ASSUME Reset
    PROVE  HeapCore'
<1>1. Len(s_pendingRequests') = 0 /\ s_pendingRequests' \in Seq(Addr)
  BY DEF Reset
<1>2. \A t \in Threads : worker'[t] = Idle
  BY DEF Reset
<1>3. \A a \in Addr : info'[a] = NONE
  BY DEF Reset
<1>4. HeapTypes'
  BY <1>1, IdleIsWork DEF HeapTypes, Reset
<1>5. Distinct' /\ ListedLive' /\ LocalMarked'
  BY <1>1, <1>3 DEF Distinct, ListedLive, LocalMarked, Listed
<1>6. OwnersApart' /\ DequeuedOwns' /\ NoLocalSend'
  BY <1>2, IdleIsWork, NoneIsNothing DEF OwnersApart, DequeuedOwns, NoLocalSend, Sending
<1> QED
  BY <1>4, <1>5, <1>6 DEF HeapCore

LEMMA HeapSame ==
    ASSUME HeapCore, Same
    PROVE  HeapCore'
BY DEF Same, HeapCore, HeapTypes, Distinct, ListedLive, Listed, OwnersApart, DequeuedOwns, LocalMarked,
       NoLocalSend, Sending

LEMMA HeapStep ==
    ASSUME HeapCore, s_fdCommand \in FdNums \cup {-1}, ThreadStep
    PROVE  HeapCore'
<1>1. ASSUME NEW t \in Threads, BeginSend(t) PROVE HeapCore'
  <2>1. Local \notin {Unsol, Greeting, Errors}
    BY DEF Local, Unsol, Greeting, Errors
  <2> QED
    BY <1>1, <2>1, BeginSendEffect, HeapKept DEF HeapCore
<1>2. ASSUME NEW t \in Threads, BeginAnswer(t) PROVE HeapCore'
  <2>1. info[worker[t].addr].req # Local
    BY <1>2, BeginAnswerEffect, NoneIsNothing DEF HeapCore, LocalMarked
  <2> QED
    BY <1>2, <2>1, BeginAnswerEffect, HeapKept
<1>3. ASSUME NEW t \in Threads, Capture(t) PROVE HeapCore'
  <2>1. worker[t].msg # Local
    BY <1>3 DEF Capture, HeapCore, NoLocalSend, Sending
  <2> QED
    BY <1>3, <2>1, CaptureEffect, HeapKept DEF HeapCore
<1>4. ASSUME NEW t \in Threads, TakeMutex(t) PROVE HeapCore'
  <2>1. worker[t].msg # Local
    BY <1>4 DEF TakeMutex, HeapCore, NoLocalSend, Sending
  <2> QED
    BY <1>4, <2>1, TakeMutexEffect, HeapKept DEF HeapCore
<1> QED
  BY <1>1, <1>2, <1>3, <1>4, HeapRelease, HeapEnqueue, HeapDequeue, HeapCancel, HeapReset, HeapSame
     DEF ThreadStep

-----------------------------------------------------------------------------
(* The table and the list of the event loop. *)

LoopTypes ==
    /\ watch_table \in [Slots -> Events \cup {NONE}] /\ pending_list \in Seq(Events)
    /\ pc \in {"poll", "fire", "listen", "check", "greet", "commands", "cancel", "debug",
               "debugcmd", "debugnext", "debugend", "exited"}
    /\ s_fdCommand \in FdNums \cup {-1} /\ commands_fd \in FdNums \cup {-1}
    /\ acceptFD \in FdNums \cup {-1}
    /\ greet \in 0 .. 2 /\ registered \in 0 .. 2

LEMMA NoneIsNoEvent == NONE \notin Events
BY NoneAssumption DEF Events

\* ril_event_add takes the lowest free slot, if there is one.
LEMMA AddEffect ==
    ASSUME NEW table \in [Slots -> Events \cup {NONE}], NEW ev \in Events
    PROVE  /\ eventAdd(table, ev) \in [Slots -> Events \cup {NONE}]
           /\ In(table, NONE) =>
                 /\ In(eventAdd(table, ev), ev)
                 /\ \A e \in Events : e # ev => (In(eventAdd(table, ev), e) <=> In(table, e))
                 /\ TableDistinct(table) /\ ~In(table, ev) => TableDistinct(eventAdd(table, ev))
<1> DEFINE lowest(s) == table[s] = NONE /\ \A r \in Slots : r < s => table[r] # NONE
           free == CHOOSE s \in Slots : lowest(s)
           added == [table EXCEPT ![free] = ev]
<1>1. CASE ~In(table, NONE)
  BY <1>1 DEF eventAdd, In
<1>2. CASE In(table, NONE)
  <2>1. \E s \in Slots : lowest(s)
    <3>1. CASE table[0] = NONE
      BY <3>1 DEF Slots
    <3>2. CASE table[0] # NONE /\ table[1] = NONE
      BY <3>2 DEF Slots
    <3>3. CASE table[0] # NONE /\ table[1] # NONE
      BY <1>2, <3>3 DEF Slots, In
    <3> QED
      BY <3>1, <3>2, <3>3
  <2>2. free \in Slots /\ table[free] = NONE
    BY <2>1
  <2>3. eventAdd(table, ev) = added
    BY <1>2 DEF eventAdd, In
  <2> HIDE DEF free
  <2>4. added \in [Slots -> Events \cup {NONE}] /\ added[free] = ev
        /\ \A s \in Slots : s # free => added[s] = table[s]
    BY <2>2
  <2> HIDE DEF added
  <2>5. In(added, ev) /\ \A e \in Events : e # ev => (In(added, e) <=> In(table, e))
    BY <2>2, <2>4, NoneIsNoEvent DEF In
  <2>6. ASSUME TableDistinct(table), ~In(table, ev) PROVE TableDistinct(added)
    BY <2>2, <2>4, <2>6 DEF In, TableDistinct
  <2> QED
    BY <2>3, <2>4, <2>5, <2>6
<1> QED
  BY <1>1, <1>2

LEMMA DelEffect ==
    ASSUME NEW table \in [Slots -> Events \cup {NONE}], NEW ev \in Events
    PROVE  /\ eventDel(table, ev) \in [Slots -> Events \cup {NONE}]
           /\ ~In(eventDel(table, ev), ev)
           /\ \A e \in Events : e # ev => (In(eventDel(table, ev), e) <=> In(table, e))
           /\ TableDistinct(table) => TableDistinct(eventDel(table, ev))
           /\ In(table, NONE) \/ In(table, ev) => In(eventDel(table, ev), NONE)
<1> DEFINE left == eventDel(table, ev)
<1>1. left \in [Slots -> Events \cup {NONE}]
      /\ \A s \in Slots : left[s] = (IF table[s] = ev THEN NONE ELSE table[s])
  BY DEF eventDel
<1> HIDE DEF left
<1>2. ~In(left, ev) /\ \A e \in Events : e # ev => (In(left, e) <=> In(table, e))
  BY <1>1, NoneIsNoEvent DEF In
<1>3. TableDistinct(table) => TableDistinct(left)
  BY <1>1, NoneIsNoEvent DEF TableDistinct
<1>4. In(table, NONE) \/ In(table, ev) => In(left, NONE)
  BY <1>1, NoneIsNoEvent DEF In
<1> QED
  BY <1>1, <1>2, <1>3, <1>4 DEF left

\* Two of the three events leave a slot free.
LEMMA FreeSlot ==
    ASSUME NEW table \in [Slots -> Events \cup {NONE}], TableDistinct(table),
           ~In(table, "listen") \/ ~In(table, "commands") \/ ~In(table, "debug")
    PROVE  In(table, NONE)
<1> SUFFICES ASSUME table[0] # NONE, table[1] # NONE, table[2] # NONE PROVE FALSE
  BY DEF In, Slots
<1>1. table[0] # table[1] /\ table[0] # table[2] /\ table[1] # table[2]
  BY DEF TableDistinct, Slots
<1>2. table[0] \in Events /\ table[1] \in Events /\ table[2] \in Events
  BY DEF Slots
<1> QED
  BY <1>1, <1>2 DEF Events, In, Slots

LEMMA AppendEffect ==
    ASSUME NEW S, NEW list \in Seq(S), NEW e \in S
    PROVE  /\ list \o <<e>> \in Seq(S)
           /\ \A x : Has(list \o <<e>>, x) <=> Has(list, x) \/ x = e
           /\ AllDiffer(list) /\ ~Has(list, e) => AllDiffer(list \o <<e>>)
<1> DEFINE l == list \o <<e>>
<1>1. /\ l \in Seq(S) /\ Len(l) = Len(list) + 1 /\ Len(list) \in Nat /\ l[Len(list) + 1] = e
      /\ \A k \in 1 .. Len(list) : l[k] = list[k]
  OBVIOUS
<1> HIDE DEF l
<1>2. 1 .. Len(l) = (1 .. Len(list)) \cup {Len(list) + 1}
  BY <1>1
<1>3. \A x : Has(l, x) <=> Has(list, x) \/ x = e
  BY <1>1, <1>2 DEF Has
<1>4. AllDiffer(list) /\ ~Has(list, e) => AllDiffer(l)
  BY <1>1, <1>2 DEF Has, AllDiffer
<1> QED
  BY <1>1, <1>3, <1>4 DEF l

LEMMA EmptyEffect ==
    AllDiffer(<<>>) /\ (\A x : ~Has(<<>>, x)) /\ \A S : <<>> \in Seq(S)
<1>1. Len(<<>>) = 0 /\ \A S : <<>> \in Seq(S)
  OBVIOUS
<1> QED
  BY <1>1 DEF Has, AllDiffer

LEMMA NoneEffect ==
    ASSUME NEW S, NEW list \in Seq(S)
    PROVE  list \o <<>> = list
OBVIOUS

\* processReadReadies: the ready events of the table, each once.
LEMMA ReadyEffect ==
    ASSUME watch_table \in [Slots -> Events \cup {NONE}],
           NEW list, list = ready(0) \o ready(1) \o ready(2)
    PROVE  /\ list \in Seq(Events)
           /\ \A ev \in Events : Has(list, ev) <=> EventReady(ev) /\ In(watch_table, ev)
           /\ TableDistinct(watch_table) => AllDiffer(list)
<1> DEFINE e0 == watch_table[0]  e1 == watch_table[1]  e2 == watch_table[2]
           R(e) == EventReady(e)
<1>1. \A s \in Slots : R(watch_table[s]) => watch_table[s] \in Events
  BY DEF EventReady, Events
<1>2. (R(e0) => e0 \in Events) /\ (R(e1) => e1 \in Events) /\ (R(e2) => e2 \in Events)
  BY <1>1 DEF Slots
<1>3. TableDistinct(watch_table) => /\ R(e0) /\ R(e1) => e0 # e1
                                    /\ R(e0) /\ R(e2) => e0 # e2
                                    /\ R(e1) /\ R(e2) => e1 # e2
  BY <1>2, NoneIsNoEvent DEF TableDistinct, Slots
<1>4. \A ev : In(watch_table, ev) <=> ev \in {e0, e1, e2}
  BY DEF Slots, In
<1> DEFINE l0 == ready(0)  l1 == l0 \o ready(1)  l2 == l1 \o ready(2)
<1>5. /\ R(e0) => ready(0) = <<e0>>
      /\ R(e1) => ready(1) = <<e1>>
      /\ R(e2) => ready(2) = <<e2>>
      /\ ~R(e0) => ready(0) = <<>>
      /\ ~R(e1) => ready(1) = <<>>
      /\ ~R(e2) => ready(2) = <<>>
  BY DEF ready
<1> HIDE DEF R, e0, e1, e2
<1>6. l0 \in Seq(Events) /\ AllDiffer(l0) /\ \A x : Has(l0, x) <=> R(e0) /\ x = e0
  <2>1. CASE R(e0)
    BY <1>2, <1>5, <2>1 DEF Has, AllDiffer
  <2>2. CASE ~R(e0)
    <3>1. l0 = <<>>
      BY <1>5, <2>2
    <3> HIDE DEF l0
    <3> QED
      BY <2>2, <3>1, EmptyEffect
  <2> QED
    BY <2>1, <2>2
<1> HIDE DEF l0
<1>7. /\ l1 \in Seq(Events) /\ (TableDistinct(watch_table) => AllDiffer(l1))
      /\ \A x : Has(l1, x) <=> (R(e0) /\ x = e0) \/ (R(e1) /\ x = e1)
  <2>1. CASE R(e1)
    BY <1>2, <1>3, <1>5, <1>6, <2>1, AppendEffect
  <2>2. CASE ~R(e1)
    BY <1>5, <1>6, <2>2, NoneEffect
  <2> QED
    BY <2>1, <2>2
<1> HIDE DEF l1
<1>8. /\ l2 \in Seq(Events) /\ (TableDistinct(watch_table) => AllDiffer(l2))
      /\ \A x : Has(l2, x) <=> (R(e0) /\ x = e0) \/ (R(e1) /\ x = e1) \/ (R(e2) /\ x = e2)
  <2>1. CASE R(e2)
    BY <1>2, <1>3, <1>5, <1>7, <2>1, AppendEffect
  <2>2. CASE ~R(e2)
    BY <1>5, <1>7, <2>2, NoneEffect
  <2> QED
    BY <2>1, <2>2
<1>9. list = l2
  BY DEF l0, l1
<1> HIDE DEF l2
<1>10. \A ev \in Events : Has(list, ev) <=> R(ev) /\ In(watch_table, ev)
  <2> TAKE ev \in Events
  <2>1. In(watch_table, ev) <=> ev = e0 \/ ev = e1 \/ ev = e2
    BY <1>4
  <2>2. Has(list, ev) <=> (R(e0) /\ ev = e0) \/ (R(e1) /\ ev = e1) \/ (R(e2) /\ ev = e2)
    BY <1>8, <1>9
  <2>3. CASE ev = e0
    BY <2>1, <2>2, <2>3
  <2>4. CASE ev # e0 /\ ev = e1
    BY <2>1, <2>2, <2>4
  <2>5. CASE ev # e0 /\ ev # e1
    BY <2>1, <2>2, <2>5
  <2> QED
    BY <2>3, <2>4, <2>5
<1> QED
  BY <1>8, <1>9, <1>10 DEF R

\* firePending takes the first event.
LEMMA PopEffect ==
    ASSUME NEW S, NEW list \in Seq(S), list # <<>>
    PROVE  /\ Tail(list) \in Seq(S) /\ Head(list) \in S
           /\ \A x : Has(list, x) <=> x = Head(list) \/ Has(Tail(list), x)
           /\ AllDiffer(list) => AllDiffer(Tail(list)) /\ ~Has(Tail(list), Head(list))
<1> DEFINE l == Tail(list)  h == Head(list)
<1>1. /\ l \in Seq(S) /\ Len(list) = Len(l) + 1 /\ Len(l) \in Nat /\ h = list[1] /\ h \in S
      /\ \A k \in 1 .. Len(l) : l[k] = list[k + 1]
  OBVIOUS
<1> HIDE DEF l, h
<1>2. \A k \in 1 .. Len(list) : k = 1 \/ (k - 1 \in 1 .. Len(l) /\ list[k] = l[k - 1])
  BY <1>1
<1>3. \A k \in 1 .. Len(l) : k + 1 \in 1 .. Len(list) /\ k + 1 # 1
  BY <1>1
<1>4. 1 \in 1 .. Len(list)
  BY <1>1
<1>5. \A x : Has(list, x) <=> x = h \/ Has(l, x)
  BY <1>1, <1>2, <1>3, <1>4 DEF Has
<1>6. ASSUME AllDiffer(list) PROVE AllDiffer(l)
  <2>1. \A j, k \in 1 .. Len(l) : j # k => j + 1 # k + 1
    BY <1>1
  <2> QED
    BY <1>1, <1>3, <1>6, <2>1 DEF AllDiffer
<1>7. ASSUME AllDiffer(list) PROVE ~Has(l, h)
  BY <1>1, <1>3, <1>4, <1>7 DEF AllDiffer, Has
<1> QED
  BY <1>1, <1>5, <1>6, <1>7 DEF l, h

LEMMA EventNames ==
    /\ \A ev : ev \in Events <=> ev = "listen" \/ ev = "commands" \/ ev = "debug"
    /\ "listen" \in Events /\ "commands" \in Events /\ "debug" \in Events
BY DEF Events

\* A step that changes the place of the loop thread and perhaps closes the connection.
LEMMA EventMove ==
    ASSUME LoopTypes, EventInv, UNCHANGED <<watch_table, pending_list, registered>>,
           s_fdCommand' \in {s_fdCommand, -1},
           pc \notin {"poll", "listen", "check"}, pc' # "poll",
           pc' \in {"listen", "check", "commands"} => pc' = pc,
           InDebug' => InDebug, registered = 0 => pc' = "exited"
    PROVE  EventInv'
BY DEF EventInv, Watched, Waits, LoopTypes

LEMMA EventAddStep ==
    ASSUME LoopTypes, EventInv, NEW ev \in Events, ~Watched(ev), ~Watched("listen"),
           watch_table' = eventAdd(watch_table, ev)
    PROVE  /\ watch_table' \in [Slots -> Events \cup {NONE}] /\ TableDistinct(watch_table')
           /\ In(watch_table', ev) /\ \A e \in Events : e # ev => (In(watch_table', e) <=> Watched(e))
<1>1. In(watch_table, NONE)
  BY FreeSlot DEF LoopTypes, EventInv, Watched
<1> QED
  BY <1>1, AddEffect DEF LoopTypes, EventInv, Watched

LEMMA PollStep ==
    ASSUME LoopTypes, EventInv, Poll
    PROVE  LoopTypes' /\ EventInv'
<1>1. /\ pc = "poll" /\ pc' = "fire" /\ UNCHANGED <<acceptFD, greet, registered, s_fdCommand, commands_fd>>
      /\ pending_list' = ready(0) \o ready(1) \o ready(2)
      /\ watch_table' = IF EventReady("listen") THEN eventDel(watch_table, "listen") ELSE watch_table
  BY DEF Poll
<1>2. /\ pending_list' \in Seq(Events) /\ AllDiffer(pending_list')
      /\ \A ev \in Events : Has(pending_list', ev) <=> EventReady(ev) /\ Watched(ev)
  BY <1>1, ReadyEffect DEF LoopTypes, EventInv, Watched
<1>3. /\ watch_table' \in [Slots -> Events \cup {NONE}] /\ TableDistinct(watch_table')
      /\ In(watch_table', "listen") <=> ~EventReady("listen") /\ Watched("listen")
      /\ In(watch_table', "commands") <=> Watched("commands")
      /\ In(watch_table', "debug") <=> Watched("debug")
  BY <1>1, DelEffect, EventNames DEF LoopTypes, EventInv, Watched
<1>4. registered # 0
  <2>1. PICK s \in Slots : EventReady(watch_table[s])
    BY DEF Poll
  <2>2. watch_table[s] \in Events
    BY <2>1 DEF EventReady, Events
  <2> QED
    BY <2>2 DEF EventInv, Watched, In
<1>5. LoopTypes'
  BY <1>1, <1>2, <1>3 DEF LoopTypes
<1>6. /\ Waits("listen")' <=> EventReady("listen") /\ Watched("listen")
      /\ Waits("commands")' <=> EventReady("commands") /\ Watched("commands")
      /\ Waits("debug")' <=> EventReady("debug") /\ Watched("debug")
  BY <1>2, EventNames DEF Waits
<1>7. /\ Watched("listen")' <=> ~EventReady("listen") /\ Watched("listen")
      /\ Watched("commands")' <=> Watched("commands")
      /\ Watched("debug")' <=> Watched("debug")
  BY <1>3 DEF Watched
<1>8. pc = "poll" /\ pc' = "fire" /\ s_fdCommand' = s_fdCommand /\ registered' = registered /\ registered \in 0 .. 2
  BY <1>1 DEF LoopTypes
<1>9. TableDistinct(watch_table)' /\ AllDiffer(pending_list)'
  BY <1>2, <1>3
<1>10. ~Waits("listen") /\ (registered > 0 => Watched("listen") \/ Watched("commands"))
  BY <1>8, EventNames DEF EventInv
<1> QED
  BY <1>4, <1>5, <1>6, <1>7, <1>8, <1>9, <1>10 DEF EventInv, InDebug

LEMMA FireStep ==
    ASSUME LoopTypes, EventInv, firePending
    PROVE  LoopTypes' /\ EventInv'
<1>1. pc = "fire" /\ UNCHANGED <<acceptFD, greet, registered, watch_table, s_fdCommand, commands_fd>>
  BY DEF firePending, connVars
<1>2. CASE pending_list # <<>>
  <2>1. pc' = Head(pending_list) /\ pending_list' = Tail(pending_list)
    BY <1>2 DEF firePending
  <2>2. /\ pending_list' \in Seq(Events) /\ pc' \in Events /\ AllDiffer(pending_list')
        /\ ~Has(pending_list', pc') /\ \A x : Has(pending_list, x) <=> x = pc' \/ Has(pending_list', x)
    BY <1>2, <2>1, PopEffect DEF LoopTypes, EventInv
  <2>3. LoopTypes'
    BY <1>1, <2>2 DEF LoopTypes, Events
  <2>4. /\ Waits("listen") <=> pc' = "listen" \/ Waits("listen")'
        /\ Waits("commands") <=> pc' = "commands" \/ Waits("commands")'
        /\ Waits("debug") <=> pc' = "debug" \/ Waits("debug")'
        /\ pc' = "listen" => ~Waits("listen")'
        /\ pc' = "commands" => ~Waits("commands")'
        /\ pc' = "debug" => ~Waits("debug")'
    BY <2>2 DEF Waits
  <2>5. \A ev : Watched(ev)' <=> Watched(ev)
    BY <1>1 DEF Watched
  <2>6. registered # 0 /\ pc' \in Events /\ s_fdCommand' = s_fdCommand /\ registered' = registered
    BY <1>1, <2>2 DEF EventInv
  <2>7. TableDistinct(watch_table)' /\ AllDiffer(pending_list)'
    BY <1>1, <2>2 DEF EventInv
  <2> QED
    BY <1>1, <2>3, <2>4, <2>5, <2>6, <2>7 DEF EventInv, InDebug, Events
<1>3. CASE pending_list = <<>>
  <2>1. pc' = "poll" /\ UNCHANGED pending_list
    BY <1>3 DEF firePending
  <2>2. LoopTypes'
    BY <1>1, <2>1 DEF LoopTypes
  <2>3. \A ev : ~Has(pending_list, ev)
    BY <1>3, EmptyEffect
  <2> QED
    BY <1>1, <2>1, <2>2, <2>3 DEF EventInv, Watched, Waits, InDebug, LoopTypes
<1> QED
  BY <1>2, <1>3

\* The three ways out of listenCallback, and the end of a connection.
LEMMA ListenSteps ==
    ASSUME LoopTypes, EventInv, ListenAcceptFails \/ ListenPhone \/ ListenOther
    PROVE  LoopTypes' /\ EventInv'
<1>1. /\ pc \in {"listen", "check"} /\ UNCHANGED <<pending_list, registered, acceptFD>>
      /\ \/ /\ watch_table' = eventAdd(watch_table, "listen") /\ pc' = "fire" /\ s_fdCommand' = -1
            /\ UNCHANGED <<greet, commands_fd>>
         \/ /\ watch_table' = eventAdd(watch_table, "commands") /\ pc' = "greet" /\ greet' = 2
            /\ UNCHANGED s_fdCommand /\ commands_fd' = s_fdCommand
  BY DEF ListenAcceptFails, ListenPhone, ListenOther
<1>2. /\ ~Watched("listen") /\ ~Watched("commands") /\ ~Waits("listen") /\ ~Waits("commands")
      /\ registered > 0
  BY <1>1 DEF EventInv, LoopTypes
<1>3. \A ev : Waits(ev)' <=> Waits(ev)
  BY <1>1 DEF Waits
<1>4. AllDiffer(pending_list)' /\ pending_list' \in Seq(Events)
  BY <1>1 DEF EventInv, LoopTypes
<1>5. CASE /\ watch_table' = eventAdd(watch_table, "listen") /\ pc' = "fire" /\ s_fdCommand' = -1
           /\ UNCHANGED <<greet, commands_fd>>
  <2>1. /\ watch_table' \in [Slots -> Events \cup {NONE}] /\ TableDistinct(watch_table')
        /\ Watched("listen")' /\ ~Watched("commands")' /\ (Watched("debug")' <=> Watched("debug"))
    BY <1>2, <1>5, EventAddStep, EventNames DEF Watched
  <2>2. LoopTypes'
    BY <1>1, <1>4, <1>5, <2>1 DEF LoopTypes
  <2> QED
    BY <1>1, <1>2, <1>3, <1>4, <1>5, <2>1, <2>2 DEF EventInv, InDebug
<1>6. CASE /\ watch_table' = eventAdd(watch_table, "commands") /\ pc' = "greet" /\ greet' = 2
           /\ UNCHANGED s_fdCommand /\ commands_fd' = s_fdCommand
  <2>1. /\ watch_table' \in [Slots -> Events \cup {NONE}] /\ TableDistinct(watch_table')
        /\ Watched("commands")' /\ ~Watched("listen")' /\ (Watched("debug")' <=> Watched("debug"))
    BY <1>2, <1>6, EventAddStep, EventNames DEF Watched
  <2>2. LoopTypes'
    BY <1>1, <1>4, <1>6, <2>1 DEF LoopTypes
  <2> QED
    BY <1>1, <1>2, <1>3, <1>4, <1>6, <2>1, <2>2 DEF EventInv, InDebug
<1> QED
  BY <1>1, <1>5, <1>6

LEMMA CommandsClosedStep ==
    ASSUME LoopTypes, EventInv, CommandsClosed
    PROVE  LoopTypes' /\ EventInv'
<1>1. /\ pc = "commands" /\ pc' = "cancel" /\ s_fdCommand' = -1
      /\ UNCHANGED <<pending_list, registered, acceptFD, greet, commands_fd>>
      /\ watch_table' = eventAdd(eventDel(watch_table, "commands"), "listen")
  BY DEF CommandsClosed, CanRead
<1>2. /\ Watched("commands") /\ ~Watched("listen") /\ ~Waits("listen") /\ ~Waits("commands") /\ registered > 0
  BY <1>1, EventNames DEF EventInv, LoopTypes
<1> DEFINE left == eventDel(watch_table, "commands")
<1>3. /\ left \in [Slots -> Events \cup {NONE}] /\ TableDistinct(left) /\ In(left, NONE)
      /\ ~In(left, "commands") /\ ~In(left, "listen") /\ (In(left, "debug") <=> Watched("debug"))
  BY <1>2, DelEffect, EventNames DEF LoopTypes, EventInv, Watched
<1> HIDE DEF left
<1>4. watch_table' = eventAdd(left, "listen")
  BY <1>1 DEF left
<1>5. /\ watch_table' \in [Slots -> Events \cup {NONE}] /\ TableDistinct(watch_table')
      /\ Watched("listen")' /\ ~Watched("commands")' /\ (Watched("debug")' <=> Watched("debug"))
  BY <1>3, <1>4, AddEffect, EventNames DEF Watched
<1>6. \A ev : Waits(ev)' <=> Waits(ev)
  BY <1>1 DEF Waits
<1>7. AllDiffer(pending_list)' /\ pending_list' \in Seq(Events)
  BY <1>1 DEF EventInv, LoopTypes
<1>8. LoopTypes'
  BY <1>1, <1>5, <1>7 DEF LoopTypes
<1> QED
  BY <1>1, <1>2, <1>5, <1>6, <1>7, <1>8 DEF EventInv, InDebug

LEMMA RegisterSteps ==
    ASSUME LoopTypes, EventInv, RegisterStep
    PROVE  LoopTypes' /\ EventInv'
<1>1. pc # "exited" /\ UNCHANGED <<pending_list, pc, acceptFD, greet, s_fdCommand, commands_fd>>
  BY DEF RegisterStep, RegisterListen, RegisterDebug, Running
<1>2. \A ev : Waits(ev)' <=> Waits(ev)
  BY <1>1 DEF Waits
<1>3. AllDiffer(pending_list)' /\ pending_list' \in Seq(Events)
  BY <1>1 DEF EventInv, LoopTypes
<1>4. CASE RegisterListen
  <2>1. registered = 0 /\ registered' = 1 /\ watch_table' = eventAdd(watch_table, "listen")
    BY <1>4 DEF RegisterListen
  <2>2. /\ ~Watched("listen") /\ ~Watched("commands") /\ ~Watched("debug") /\ pc = "poll"
        /\ ~Waits("listen") /\ ~Waits("commands") /\ ~Waits("debug") /\ s_fdCommand = -1
    BY <1>1, <2>1, EventNames DEF EventInv
  <2>3. /\ watch_table' \in [Slots -> Events \cup {NONE}] /\ TableDistinct(watch_table')
        /\ Watched("listen")' /\ ~Watched("commands")' /\ ~Watched("debug")'
    BY <2>1, <2>2, EventAddStep, EventNames DEF Watched
  <2>4. LoopTypes'
    BY <1>1, <1>3, <2>1, <2>3 DEF LoopTypes
  <2> QED
    BY <1>1, <1>2, <1>3, <2>1, <2>2, <2>3, <2>4, EventNames DEF EventInv, InDebug
<1>5. CASE RegisterDebug
  <2>1. registered = 1 /\ registered' = 2 /\ watch_table' = eventAdd(watch_table, "debug")
    BY <1>5 DEF RegisterDebug
  <2>2. ~Watched("debug") /\ ~Waits("debug") /\ ~InDebug
    BY <2>1 DEF EventInv
  <2>3. /\ watch_table' \in [Slots -> Events \cup {NONE}] /\ TableDistinct(watch_table')
        /\ Watched("listen")' <=> Watched("listen")
        /\ Watched("commands")' <=> Watched("commands")
    <3>1. In(watch_table, NONE)
      BY <2>2, FreeSlot DEF LoopTypes, EventInv, Watched
    <3> QED
      BY <2>1, <2>2, <3>1, AddEffect, EventNames DEF LoopTypes, EventInv, Watched
  <2>4. LoopTypes'
    BY <1>1, <1>3, <2>1, <2>3 DEF LoopTypes
  <2> QED
    BY <1>1, <1>2, <1>3, <2>1, <2>2, <2>3, <2>4, EventNames DEF EventInv, InDebug
<1> QED
  BY <1>4, <1>5 DEF RegisterStep

LEMMA RestartStep ==
    ASSUME Restart
    PROVE  LoopTypes' /\ EventInv'
<1>1. /\ \A s \in Slots : watch_table'[s] = NONE
      /\ watch_table' \in [Slots -> Events \cup {NONE}]
  BY DEF Restart
<1>2. /\ pending_list' = <<>> /\ pc' = "poll" /\ s_fdCommand' = -1 /\ commands_fd' = -1
      /\ acceptFD' = -1 /\ greet' = 0 /\ registered' = 0
  BY DEF Restart
<1>3. TableDistinct(watch_table)' /\ \A ev \in Events : ~Watched(ev)'
  BY <1>1, NoneIsNoEvent DEF TableDistinct, Watched, In
<1>4. AllDiffer(pending_list)' /\ pending_list' \in Seq(Events) /\ \A ev \in Events : ~Waits(ev)'
  BY <1>2, EmptyEffect DEF Waits
<1>5. LoopTypes'
  BY <1>1, <1>2, <1>4 DEF LoopTypes
<1> QED
  BY <1>2, <1>3, <1>4, <1>5, EventNames DEF EventInv, InDebug

\* All the others.
LEMMA EventStep ==
    ASSUME LoopTypes, EventInv, [Next]_vars
    PROVE  LoopTypes' /\ EventInv'
<1>1. CASE UNCHANGED <<loopVars, connVars>>
  BY <1>1 DEF loopVars, connVars, LoopTypes, EventInv, Watched, Waits, InDebug
<1>2. CASE PollFails
  <2>1. UNCHANGED <<watch_table, pending_list, registered, s_fdCommand, commands_fd, acceptFD, greet>> /\ pc' = "exited" /\ pc = "poll"
    BY <1>2 DEF PollFails, connVars
  <2> QED
    BY <2>1 DEF LoopTypes, EventInv, Watched, Waits, InDebug
<1>3. CASE ListenAccept
  <2>1. /\ UNCHANGED <<watch_table, pending_list, registered, commands_fd, acceptFD, greet>>
        /\ pc' = "check" /\ pc = "listen" /\ s_fdCommand' \in FdNums
    BY <1>3 DEF ListenAccept
  <2> QED
    BY <2>1 DEF LoopTypes, EventInv, Watched, Waits, InDebug
<1>4. CASE onNewCommandConnect \/ CommandsAbort \/ CommandsDrained \/ onCommandsSocketClosed
  <2>1. /\ UNCHANGED <<watch_table, pending_list, registered, s_fdCommand, commands_fd, acceptFD>>
        /\ pc \in {"greet", "commands", "cancel"} /\ pc' \in {"fire", "exited", "greet"} /\ greet' \in 0 .. 2
    BY <1>4 DEF onNewCommandConnect, CommandsAbort, CommandsDrained, CanRead, onCommandsSocketClosed,
                connVars, LoopTypes
  <2>2. LoopTypes'
    BY <2>1 DEF LoopTypes
  <2>3. registered # 0
    BY <2>1 DEF EventInv
  <2> QED
    BY <2>1, <2>2, <2>3, EventMove DEF InDebug
<1>5. CASE DebugAccept \/ DebugFails \/ DebugOption \/ DebugSecondRequest \/ DebugEnd
  <2>1. /\ UNCHANGED <<watch_table, pending_list, registered, commands_fd, greet>>
        /\ InDebug /\ pc' \in {"fire", "debugcmd", "debugnext", "debugend"}
        /\ s_fdCommand' \in {s_fdCommand, -1} /\ acceptFD' \in FdNums \cup {-1}
    BY <1>5 DEF DebugAccept, DebugFails, DebugOption, DebugSecondRequest, DebugEnd, connVars, InDebug,
                LoopTypes
  <2>2. LoopTypes'
    BY <2>1 DEF LoopTypes
  <2>3. registered # 0 /\ pc \notin {"poll", "listen", "check"}
    BY <2>1 DEF EventInv, InDebug, LoopTypes
  <2> QED
    BY <2>1, <2>2, <2>3, EventMove
<1>6. ASSUME NEW t \in Threads, SendStep(t) \/ VendorCall(t)
      PROVE  UNCHANGED <<loopVars, connVars>>
  BY <1>6 DEF SendStep, VendorCall, CaptureFd, WriteHeader, WriteBody, RIL_onRequestComplete,
              VendorUnsolicited, VendorCompletes
<1>7. PeerStep \/ UNCHANGED vars \/ processCommandBuffer \/ DispatcherCompletes => UNCHANGED <<loopVars, connVars>>
  BY DEF PeerStep, ClientConnects, ClientSends, ClientCloses, SessionConnects, SessionCloses, vars,
         processCommandBuffer, DispatcherCompletes
<1> QED
  BY <1>1, <1>2, <1>3, <1>4, <1>5, <1>6, <1>7, PollStep, FireStep, ListenSteps, CommandsClosedStep,
     RegisterSteps, RestartStep DEF Next, LoopStep

\* The loop thread leaves a callback that sends only when it is idle again.
LEMMA QuietStep ==
    ASSUME worker \in [Threads -> Works], LoopQuiet, [Next]_vars
    PROVE  LoopQuiet'
<1> DEFINE Busy == {"greet", "commands", "debugnext", "debugend", "exited"}
<1>1. CASE UNCHANGED <<pc, worker>>
  BY <1>1 DEF LoopQuiet, LoopIdle
<1>2. CASE pc' \in Busy
  BY <1>2 DEF LoopQuiet
<1>3. CASE LoopIdle /\ UNCHANGED worker
  BY <1>3 DEF LoopQuiet, LoopIdle
<1>4. CASE pc \notin Busy /\ UNCHANGED worker
  BY <1>4 DEF LoopQuiet, LoopIdle
<1>5. ASSUME NEW t \in Threads, NEW w, worker' = [worker EXCEPT ![t] = w], UNCHANGED pc,
             t = Loop => worker[t] # Idle
      PROVE  LoopQuiet'
  <2>1. CASE t = Loop
    <3>1. pc \in Busy
      BY <1>5, <2>1 DEF LoopQuiet, LoopIdle
    <3> QED
      BY <1>2, <1>5, <3>1
  <2>2. CASE t # Loop
    <3>1. worker'[Loop] = worker[Loop]
      BY <1>5, <2>2 DEF Threads
    <3> QED
      BY <1>5, <3>1 DEF LoopQuiet, LoopIdle
  <2> QED
    BY <2>1, <2>2
<1>6. ASSUME NEW t \in Threads, SendStep(t) PROVE LoopQuiet'
  <2>1. UNCHANGED pc /\ \E w : worker' = [worker EXCEPT ![t] = w]
    BY <1>6 DEF SendStep, CaptureFd, WriteHeader, WriteBody, RIL_onRequestComplete, Finish, StartSend,
                loopVars
  <2>2. worker[t] # Idle
    BY <1>6, IdleIsWork DEF SendStep, CaptureFd, WriteHeader, WriteBody, RIL_onRequestComplete
  <2> QED
    BY <1>5, <2>1, <2>2
<1>7. ASSUME NEW t \in Threads, VendorCall(t) PROVE LoopQuiet'
  <2>1. UNCHANGED pc /\ t # Loop
    BY <1>7, SetsAssumption DEF VendorCall, VendorUnsolicited, VendorCompletes, loopVars
  <2>2. UNCHANGED worker \/ \E w : worker' = [worker EXCEPT ![t] = w]
    BY <1>7 DEF VendorCall, VendorUnsolicited, VendorCompletes, StartSend, checkAndDequeueRequestInfo
  <2> QED
    BY <1>1, <1>5, <2>1, <2>2
<1>8. CASE RegisterStep \/ PeerStep \/ UNCHANGED vars
  BY <1>1, <1>8 DEF RegisterStep, RegisterListen, RegisterDebug, PeerStep, ClientConnects, ClientSends,
                    ClientCloses, SessionConnects, SessionCloses, vars, loopVars
<1>9. CASE LoopStep
  <2>1. CASE Poll \/ firePending \/ ListenAccept \/ ListenAcceptFails \/ ListenOther
    BY <1>4, <2>1 DEF Poll, firePending, ListenAccept, ListenAcceptFails, ListenOther
  <2>2. CASE onCommandsSocketClosed \/ DebugAccept \/ DebugFails
    BY <1>4, <2>2 DEF onCommandsSocketClosed, DebugAccept, DebugFails
  <2>3. CASE PollFails \/ ListenPhone \/ CommandsAbort \/ DebugOption \/ DebugSecondRequest
    BY <1>2, <2>3 DEF PollFails, ListenPhone, CommandsAbort, DebugOption, DebugSecondRequest
  <2>4. CASE processCommandBuffer \/ DispatcherCompletes
    BY <1>2, <2>4 DEF processCommandBuffer, CanRead, DispatcherCompletes, loopVars
  <2>5. CASE CommandsDrained \/ CommandsClosed \/ DebugEnd
    BY <1>3, <2>5 DEF CommandsDrained, CommandsClosed, CanRead, DebugEnd
  <2>6. CASE onNewCommandConnect
    BY <1>2, <1>3, <2>6 DEF onNewCommandConnect
  <2>7. CASE Restart
    BY <2>7 DEF Restart, LoopQuiet, LoopIdle, Threads
  <2> QED
    BY <1>9, <2>1, <2>2, <2>3, <2>4, <2>5, <2>6, <2>7 DEF LoopStep
<1> QED
  BY <1>6, <1>7, <1>8, <1>9 DEF Next

-----------------------------------------------------------------------------
(* The sockets and their peers. *)

Frames == {"header", "body"} \X Messages \X Threads

KernelTypes ==
    /\ file \in [FdNums -> Peers \cup {NONE}]
    /\ client \in [Clients -> Statuses] /\ session \in [Sessions -> Statuses]
    /\ inbox \in [Clients -> Seq(Requests)] /\ stream \in [Peers -> Seq(Frames)]

CountTypes ==
    /\ held \subseteq Addr /\ todo \in Seq(Addr)
    /\ cancelledReqs \subseteq Requests /\ sender \in [Requests -> Clients \cup {NONE}]
    /\ requests \in 0 .. MaxRequests /\ unsols \in 0 .. MaxUnsol /\ faults \in 0 .. MaxFaults

LEMMA TypeParts == TypeOK <=> LoopTypes /\ KernelTypes /\ HeapTypes /\ CountTypes
BY DEF TypeOK, LoopTypes, KernelTypes, HeapTypes, CountTypes, Events, Frames, Infos, Works

\* What a step does to the descriptors and to the connections.
Moves ==
    /\ UNCHANGED file
    /\ \A p \in Peers : \/ Status(p)' \in {Status(p), "gone"}
                        \/ Status(p) = "idle" /\ Status(p)' = "waiting"
Closes(f) ==
    /\ \A g \in FdNums : file'[g] = (IF g = f THEN NONE ELSE file[g])
    /\ \A p \in Peers : Status(p)' = Status(p)
Accepts(p, f) ==
    /\ Status(p) = "waiting" /\ file[f] = NONE
    /\ file'[f] = p /\ \A g \in FdNums : g # f => file'[g] = file[g]
    /\ Status(p)' = "open" /\ \A q \in Peers : q # p => Status(q)' = Status(q)

LEMMA StatusTypes ==
    ASSUME KernelTypes
    PROVE  /\ \A c \in Clients : c \in Peers /\ c \notin Sessions /\ Status(c) = client[c]
           /\ \A d \in Sessions : d \in Peers /\ d \notin Clients /\ Status(d) = session[d]
           /\ \A p \in Peers : p \in Clients \/ p \in Sessions
BY SetsAssumption DEF Peers, Status

LEMMA SameSockets ==
    ASSUME UNCHANGED <<file, client, session>>
    PROVE  Moves
BY DEF Moves, Status

LEMMA CloseEffect ==
    ASSUME KernelTypes, NEW f \in FdNums \cup {-1}, file' = closed(f), UNCHANGED <<client, session>>
    PROVE  file' \in [FdNums -> Peers \cup {NONE}] /\ Closes(f)
<1>1. \A p \in Peers : Status(p)' = Status(p)
  BY DEF Status
<1>2. CASE f \in FdNums
  BY <1>1, <1>2 DEF KernelTypes, closed, Closes
<1>3. CASE f \notin FdNums
  BY <1>1, <1>3 DEF KernelTypes, closed, Closes
<1> QED
  BY <1>2, <1>3

LEMMA ListenAcceptEffect ==
    ASSUME KernelTypes, ListenAccept
    PROVE  KernelTypes' /\ UNCHANGED stream /\ \E p \in Peers, f \in FdNums : Accepts(p, f)
<1>1. PICK c \in Clients, f \in FdNums :
          /\ client[c] = "waiting" /\ LowestFree(f)
          /\ file' = [file EXCEPT ![f] = c]
          /\ client' = [client EXCEPT ![c] = "open"]
  BY DEF ListenAccept
<1>2. UNCHANGED <<session, inbox, stream>>
  BY DEF ListenAccept
<1>3. c \in Peers /\ file[f] = NONE
  BY <1>1 DEF Peers, LowestFree, Open
<1>4. KernelTypes'
  BY <1>1, <1>2, <1>3 DEF KernelTypes, Statuses
<1>5. /\ Status(c) = "waiting" /\ Status(c)' = "open"
      /\ \A q \in Peers : q # c => Status(q)' = Status(q)
  BY <1>1, <1>2 DEF Status, KernelTypes
<1>6. Accepts(c, f)
  BY <1>1, <1>3, <1>5 DEF Accepts, KernelTypes
<1> QED
  BY <1>2, <1>3, <1>4, <1>6

LEMMA DebugAcceptEffect ==
    ASSUME KernelTypes, DebugAccept
    PROVE  KernelTypes' /\ UNCHANGED stream /\ \E p \in Peers, f \in FdNums : Accepts(p, f)
<1>1. PICK d \in Sessions, f \in FdNums :
          /\ session[d] = "waiting" /\ LowestFree(f)
          /\ file' = [file EXCEPT ![f] = d]
          /\ session' = [session EXCEPT ![d] = "open"]
  BY DEF DebugAccept
<1>2. UNCHANGED <<client, inbox, stream>>
  BY DEF DebugAccept
<1>3. d \in Peers /\ d \notin Clients /\ file[f] = NONE
  BY <1>1, SetsAssumption DEF Peers, LowestFree, Open
<1>4. KernelTypes'
  BY <1>1, <1>2, <1>3 DEF KernelTypes, Statuses
<1>5. /\ Status(d) = "waiting" /\ Status(d)' = "open"
      /\ \A q \in Peers : q # d => Status(q)' = Status(q)
  <2>1. \A q \in Peers : q \in Clients \/ q \in Sessions
    BY DEF Peers
  <2> QED
    BY <1>1, <1>2, <1>3, <2>1 DEF Status, KernelTypes
<1>6. Accepts(d, f)
  BY <1>1, <1>3, <1>5 DEF Accepts, KernelTypes
<1> QED
  BY <1>2, <1>3, <1>4, <1>6

\* The peers connect, send and close.
LEMMA PeerEffect ==
    ASSUME KernelTypes, requests \in Nat, MaxRequests \in Nat, PeerStep
    PROVE  KernelTypes' /\ UNCHANGED <<stream, worker>> /\ Moves
<1>0. "idle" \in Statuses /\ "waiting" \in Statuses /\ "open" \in Statuses /\ "gone" \in Statuses
  BY DEF Statuses
<1>1. ASSUME NEW c \in Clients, ClientConnects(c) \/ ClientCloses(c)
      PROVE  KernelTypes' /\ UNCHANGED <<stream, worker>> /\ Moves
  <2>1. /\ UNCHANGED <<file, session, inbox, stream, worker>>
        /\ \/ client[c] = "idle" /\ client' = [client EXCEPT ![c] = "waiting"]
           \/ client' = [client EXCEPT ![c] = "gone"]
    BY <1>1 DEF ClientConnects, ClientCloses
  <2>2. KernelTypes'
    BY <1>0, <2>1 DEF KernelTypes
  <2> QED
    BY <2>1, <2>2 DEF Moves, Status, KernelTypes
<1>2. ASSUME NEW d \in Sessions, SessionConnects(d) \/ SessionCloses(d)
      PROVE  KernelTypes' /\ UNCHANGED <<stream, worker>> /\ Moves
  <2>1. /\ UNCHANGED <<file, client, inbox, stream, worker>>
        /\ \/ session[d] = "idle" /\ session' = [session EXCEPT ![d] = "waiting"]
           \/ session' = [session EXCEPT ![d] = "gone"]
    BY <1>2 DEF SessionConnects, SessionCloses
  <2>2. KernelTypes'
    BY <1>0, <2>1 DEF KernelTypes
  <2>3. \A q \in Peers : q \in Clients \/ q \in Sessions
    BY DEF Peers
  <2> QED
    BY <2>1, <2>2, <2>3 DEF Moves, Status, KernelTypes
<1>3. ASSUME NEW c \in Clients, ClientSends(c)
      PROVE  KernelTypes' /\ UNCHANGED <<stream, worker>> /\ Moves
  <2>1. /\ UNCHANGED <<file, client, session, stream, worker>> /\ requests + 1 \in Requests
        /\ inbox' = [inbox EXCEPT ![c] = Append(@, requests + 1)]
    BY <1>3 DEF ClientSends, Requests
  <2>2. Append(inbox[c], requests + 1) \in Seq(Requests)
    BY <2>1 DEF KernelTypes
  <2> QED
    BY <2>1, <2>2, SameSockets DEF KernelTypes
<1> QED
  BY <1>1, <1>2, <1>3 DEF PeerStep

\* blockingWrite: thread t appends to the stream of p.
Write(t, part, p) ==
    /\ worker[t].fd \in FdNums /\ file[worker[t].fd] = p /\ Status(p) # "gone"
    /\ stream'[p] = Append(stream[p], <<part, worker[t].msg, t>>)
    /\ \A q \in Peers : q # p => stream'[q] = stream[q]
    /\ UNCHANGED file /\ \A q \in Peers : Status(q)' = Status(q)

LEMMA WriteEffect ==
    ASSUME KernelTypes, worker \in [Threads -> Works], NEW t \in Threads, NEW part \in {"header", "body"},
           writeTo(t, part), UNCHANGED <<client, session, inbox>>
    PROVE  /\ KernelTypes'
           /\ Writable(worker[t].fd) => \E p \in Peers : Write(t, part, p)
           /\ ~Writable(worker[t].fd) => UNCHANGED stream /\ Closes(worker[t].fd)
<1> DEFINE f == worker[t].fd
           e == <<part, worker[t].msg, t>>
<1>1. worker[t] \in Works /\ f \in FdNums \cup {-1}
  BY DEF Works
<1>2. e \in Frames
  BY <1>1 DEF Works, Frames
<1> HIDE DEF e
<1>3. CASE ~Writable(f)
  <2>1. file' = closed(f) /\ UNCHANGED stream
    BY <1>3 DEF writeTo
  <2>2. file' \in [FdNums -> Peers \cup {NONE}] /\ Closes(f)
    BY <1>1, <2>1, CloseEffect
  <2> QED
    BY <1>3, <2>1, <2>2 DEF KernelTypes
<1>4. CASE Writable(f)
  <2> DEFINE p == file[f]
  <2>1. f \in FdNums /\ p \in Peers
    BY <1>4 DEF Writable, Open, KernelTypes
  <2>2. Status(p) # "gone"
    BY <1>4, <2>1, StatusTypes DEF Writable
  <2>3. UNCHANGED file /\ stream' = [stream EXCEPT ![p] = Append(@, e)]
    BY <1>4 DEF writeTo, e
  <2>4. \A q \in Peers : Status(q)' = Status(q)
    BY DEF Status
  <2>5. stream[p] \in Seq(Frames) /\ stream \in [Peers -> Seq(Frames)]
    BY <2>1 DEF KernelTypes
  <2>6. Append(stream[p], e) \in Seq(Frames)
    BY <1>2, <2>5
  <2> DEFINE longer == Append(stream[p], e)
  <2>7. stream' = [stream EXCEPT ![p] = longer] /\ longer \in Seq(Frames)
    BY <2>1, <2>3, <2>5, <2>6
  <2> HIDE DEF longer, p
  <2>8. /\ stream' \in [Peers -> Seq(Frames)] /\ stream'[p] = longer
        /\ \A q \in Peers : q # p => stream'[q] = stream[q]
    BY <2>1, <2>5, <2>7
  <2>9. KernelTypes'
    BY <2>3, <2>8 DEF KernelTypes
  <2>10. Write(t, part, p)
    BY <2>1, <2>2, <2>3, <2>4, <2>8 DEF Write, longer, e, p
  <2> QED
    BY <1>4, <2>1, <2>9, <2>10
<1> QED
  BY <1>3, <1>4

BodyKept == \A t \in Threads : worker[t].st = "body" \/ worker'[t].st = "body" => worker'[t] = worker[t]

SendsHeader(t, p) ==
    /\ Write(t, "header", p) /\ \A u \in Threads : worker[u].st # "body"
    /\ worker'[t].st = "body" /\ worker'[t].fd = worker[t].fd /\ worker'[t].msg = worker[t].msg
    /\ worker[t].st = "lock" /\ \A u \in Threads : u # t => worker'[u] = worker[u]
SendsBody(t, p) ==
    /\ Write(t, "body", p) /\ worker[t].st = "body" /\ worker'[t].st = "idle"
    /\ \A u \in Threads : u # t => worker'[u] = worker[u]
LosesBody(t) ==
    /\ Closes(worker[t].fd) /\ UNCHANGED stream /\ worker[t].st = "body" /\ worker'[t].st = "idle"
    /\ \A u \in Threads : u # t => worker'[u] = worker[u]
HangsUp ==
    /\ UNCHANGED stream /\ \A t \in Threads : worker'[t].st = "idle"
    /\ \A f \in FdNums : file'[f] = NONE
    /\ \A p \in Peers : Status(p)' = (IF Status(p) = "idle" THEN "idle" ELSE "gone")

SocketStep ==
    \/ UNCHANGED stream /\ BodyKept /\ \/ Moves
                                       \/ \E f \in FdNums \cup {-1} : Closes(f)
                                       \/ \E p \in Peers, f \in FdNums : Accepts(p, f)
    \/ \E t \in Threads : LosesBody(t) \/ \E p \in Peers : SendsHeader(t, p) \/ SendsBody(t, p)
    \/ HangsUp

LEMMA OneBodyKept ==
    ASSUME worker \in [Threads -> Works], NEW t \in Threads, NEW w, worker' = [worker EXCEPT ![t] = w],
           worker[t].st # "body", w.st # "body"
    PROVE  BodyKept
BY DEF BodyKept

LEMMA SendKeepsBody ==
    ASSUME worker \in [Threads -> Works], NEW t \in Threads, NEW m, NEW a,
           worker[t] = Idle \/ worker[t].st = "dequeued", StartSend(t, m, a)
    PROVE  BodyKept
<1> DEFINE w == [st |-> "send", addr |-> a, msg |-> m, fd |-> -1]
<1>1. worker' = [worker EXCEPT ![t] = w] /\ w.st # "body"
  BY DEF StartSend
<1> HIDE DEF w
<1> QED
  BY <1>1, OneBodyKept, IdleIsWork

LEMMA CompletionKeepsBody ==
    ASSUME worker \in [Threads -> Works], NEW t \in Threads, NEW a,
           worker[t] = Idle, checkAndDequeueRequestInfo(t, a)
    PROVE  BodyKept
<1> DEFINE w == [Idle EXCEPT !.st = "dequeued", !.addr = a]
<1>1. w.st # "body"
  BY DEF Idle
<1>2. UNCHANGED worker \/ worker' = [worker EXCEPT ![t] = w]
  BY DEF checkAndDequeueRequestInfo
<1> HIDE DEF w
<1>3. worker[t].st # "body"
  BY IdleIsWork
<1> QED
  BY <1>1, <1>2, <1>3, OneBodyKept DEF BodyKept

\* Every action is one of these steps.
LEMMA SendIsSocketStep ==
    ASSUME KernelTypes, HeapTypes, NEW t \in Threads, SendStep(t)
    PROVE  KernelTypes' /\ SocketStep
<1>0. worker \in [Threads -> Works]
  BY DEF HeapTypes
<1>1. ASSUME UNCHANGED kernelVars, BodyKept
      PROVE  KernelTypes' /\ SocketStep
  BY <1>1, SameSockets DEF kernelVars, KernelTypes, SocketStep
<1>2. ASSUME Finish(t)
      PROVE  worker' = [worker EXCEPT ![t] = Idle] /\ worker'[t].st = "idle"
             /\ \A u \in Threads : u # t => worker'[u] = worker[u]
  BY <1>0, <1>2, IdleIsWork DEF Finish
<1>3. CASE CaptureFd(t)
  <2>1. worker[t].st = "send" /\ UNCHANGED kernelVars
    BY <1>3 DEF CaptureFd
  <2>2. CASE Finish(t)
    BY <1>0, <1>1, <1>2, <2>1, <2>2, OneBodyKept, IdleIsWork
  <2>3. CASE worker' = [worker EXCEPT ![t].st = "lock", ![t].fd = s_fdCommand]
    <3> DEFINE w == [worker[t] EXCEPT !.st = "lock", !.fd = s_fdCommand]
    <3>1. w.st # "body" /\ worker' = [worker EXCEPT ![t] = w]
      BY <1>0, <2>3 DEF Works
    <3> HIDE DEF w
    <3> QED
      BY <1>0, <1>1, <2>1, <3>1, OneBodyKept
  <2> QED
    BY <1>3, <2>2, <2>3 DEF CaptureFd
<1>4. CASE RIL_onRequestComplete(t)
  <2>1. worker[t].st = "dequeued" /\ UNCHANGED kernelVars
    BY <1>4 DEF RIL_onRequestComplete
  <2>2. CASE Finish(t)
    BY <1>0, <1>1, <1>2, <2>1, <2>2, OneBodyKept, IdleIsWork
  <2>3. CASE ~Finish(t)
    BY <1>0, <1>1, <1>4, <2>1, <2>3, SendKeepsBody DEF RIL_onRequestComplete
  <2> QED
    BY <2>2, <2>3
<1>5. CASE WriteHeader(t)
  <2>1. /\ worker[t].st = "lock" /\ UNCHANGED <<client, session, inbox>> /\ writeTo(t, "header")
        /\ \A u \in Threads : worker[u].st # "body"
    BY <1>5 DEF WriteHeader
  <2>2. /\ KernelTypes'
        /\ Writable(worker[t].fd) => \E p \in Peers : Write(t, "header", p)
        /\ ~Writable(worker[t].fd) => UNCHANGED stream /\ Closes(worker[t].fd)
    BY <1>0, <2>1, WriteEffect
  <2>3. CASE Writable(worker[t].fd)
    <3>1. worker' = [worker EXCEPT ![t].st = "body"] /\ UNCHANGED <<info, s_pendingRequests>>
      BY <1>5, <2>3 DEF WriteHeader
    <3>2. /\ worker'[t].st = "body" /\ worker'[t].fd = worker[t].fd /\ worker'[t].msg = worker[t].msg
          /\ \A u \in Threads : u # t => worker'[u] = worker[u]
      BY <2>1, <3>1, TakeMutexEffect DEF TakeMutex
    <3> QED
      BY <2>1, <2>2, <2>3, <3>2 DEF SocketStep, SendsHeader
  <2>4. CASE ~Writable(worker[t].fd)
    <3>1. Finish(t)
      BY <1>5, <2>4 DEF WriteHeader
    <3>2. BodyKept
      BY <1>0, <1>2, <2>1, <3>1, OneBodyKept, IdleIsWork
    <3>3. worker[t].fd \in FdNums \cup {-1}
      BY <1>0 DEF Works
    <3> QED
      BY <2>2, <2>4, <3>2, <3>3 DEF SocketStep
  <2> QED
    BY <2>3, <2>4
<1>6. CASE WriteBody(t)
  <2>1. /\ worker[t].st = "body" /\ UNCHANGED <<client, session, inbox>> /\ writeTo(t, "body") /\ Finish(t)
    BY <1>6 DEF WriteBody
  <2>2. /\ KernelTypes'
        /\ Writable(worker[t].fd) => \E p \in Peers : Write(t, "body", p)
        /\ ~Writable(worker[t].fd) => UNCHANGED stream /\ Closes(worker[t].fd)
    BY <1>0, <2>1, WriteEffect
  <2> QED
    BY <1>2, <2>1, <2>2 DEF SocketStep, SendsBody, LosesBody
<1> QED
  BY <1>3, <1>4, <1>5, <1>6 DEF SendStep

LEMMA LoopIsSocketStep ==
    ASSUME LoopTypes, KernelTypes, HeapTypes, CountTypes, LoopQuiet, LoopStep
    PROVE  KernelTypes' /\ SocketStep
<1>0. worker \in [Threads -> Works] /\ Loop \in Threads
  BY DEF HeapTypes, Threads
<1>1. ASSUME UNCHANGED kernelVars, BodyKept
      PROVE  KernelTypes' /\ SocketStep
  BY <1>1, SameSockets DEF kernelVars, KernelTypes, SocketStep
<1>2. ASSUME UNCHANGED <<client, session, inbox, stream, worker>>,
             NEW f \in FdNums \cup {-1}, file' = closed(f)
      PROVE  KernelTypes' /\ SocketStep
  <2>1. file' \in [FdNums -> Peers \cup {NONE}] /\ Closes(f)
    BY <1>2, CloseEffect
  <2> QED
    BY <1>2, <2>1 DEF KernelTypes, SocketStep, BodyKept
<1>3. ASSUME UNCHANGED <<file, client, session, stream>>, inbox' \in [Clients -> Seq(Requests)], BodyKept
      PROVE  KernelTypes' /\ SocketStep
  BY <1>3, SameSockets DEF KernelTypes, SocketStep
<1>4. UNCHANGED worker => BodyKept
  BY DEF BodyKept
<1>5. ASSUME NEW m, LoopIdle, StartSend(Loop, m, NONE) PROVE BodyKept
  BY <1>0, <1>5, SendKeepsBody DEF LoopIdle
<1>6. CASE Poll \/ PollFails \/ firePending \/ ListenAcceptFails \/ ListenPhone
  BY <1>1, <1>4, <1>6 DEF Poll, PollFails, firePending, ListenAcceptFails, ListenPhone
<1>7. CASE CommandsAbort \/ CommandsDrained \/ onCommandsSocketClosed \/ DebugFails \/ DebugSecondRequest
  BY <1>1, <1>4, <1>7 DEF CommandsAbort, CommandsDrained, onCommandsSocketClosed, DebugFails,
                          DebugSecondRequest
<1>8. CASE ListenOther \/ CommandsClosed \/ DebugEnd
  <2>1. s_fdCommand \in FdNums \cup {-1} /\ acceptFD \in FdNums \cup {-1}
    BY DEF LoopTypes
  <2> QED
    BY <1>2, <1>8, <2>1 DEF ListenOther, CommandsClosed, DebugEnd
<1>9. CASE ListenAccept \/ DebugAccept
  <2>1. BodyKept
    BY <1>4, <1>9 DEF ListenAccept, DebugAccept
  <2> QED
    BY <1>9, <2>1, ListenAcceptEffect, DebugAcceptEffect DEF SocketStep
<1>10. CASE onNewCommandConnect
  BY <1>1, <1>4, <1>5, <1>10 DEF onNewCommandConnect
<1>11. CASE processCommandBuffer
  <2>1. /\ UNCHANGED <<file, client, session, stream>> /\ LoopIdle /\ inbox[ReadPeer] # <<>> /\ ReadPeer \in Clients
        /\ inbox' = [inbox EXCEPT ![ReadPeer] = Tail(@)]
        /\ UNCHANGED worker \/ StartSend(Loop, Errors, NONE)
    BY <1>11 DEF processCommandBuffer, CanRead
  <2>2. Tail(inbox[ReadPeer]) \in Seq(Requests)
    BY <2>1 DEF KernelTypes
  <2>3. inbox' \in [Clients -> Seq(Requests)]
    BY <2>1, <2>2 DEF KernelTypes
  <2> QED
    BY <1>3, <1>4, <1>5, <2>1, <2>3
<1>12. CASE DebugOption
  <2>1. LoopIdle /\ UNCHANGED <<client, session, inbox, stream>>
    BY <1>12 DEF DebugOption, LoopQuiet
  <2>2. s_fdCommand \in FdNums \cup {-1}
    BY DEF LoopTypes
  <2>3. CASE UNCHANGED <<file, worker>>
    BY <1>1, <1>4, <2>1, <2>3 DEF kernelVars
  <2>4. CASE file' = closed(s_fdCommand) /\ UNCHANGED worker
    BY <1>2, <2>1, <2>2, <2>4
  <2>5. CASE UNCHANGED file /\ StartSend(Loop, Unsol, NONE)
    BY <1>1, <1>5, <2>1, <2>5 DEF kernelVars
  <2> QED
    BY <1>12, <2>3, <2>4, <2>5 DEF DebugOption
<1>13. CASE DispatcherCompletes
  <2>1. UNCHANGED kernelVars /\ worker[Loop] = Idle /\ checkAndDequeueRequestInfo(Loop, Head(todo))
    BY <1>13 DEF DispatcherCompletes, LoopIdle
  <2> QED
    BY <1>0, <1>1, <2>1, CompletionKeepsBody
<1>14. CASE Restart
  <2>1. KernelTypes'
    <3>1. <<>> \in Seq(Requests)
      BY EmptyEffect
    <3> QED
      BY <1>14, <3>1 DEF Restart, KernelTypes, Statuses
  <2>2. \A p \in Peers : Status(p)' = (IF Status(p) = "idle" THEN "idle" ELSE "gone")
    BY <1>14, StatusTypes DEF Restart, Status
  <2>3. \A t \in Threads : worker'[t].st = "idle"
    BY <1>14, IdleIsWork DEF Restart
  <2> QED
    BY <1>14, <2>1, <2>2, <2>3 DEF Restart, SocketStep, HangsUp
<1> QED
  BY <1>6, <1>7, <1>8, <1>9, <1>10, <1>11, <1>12, <1>13, <1>14 DEF LoopStep

LEMMA NextIsSocketStep ==
    ASSUME LoopTypes, KernelTypes, HeapTypes, CountTypes, LoopQuiet, [Next]_vars
    PROVE  KernelTypes' /\ SocketStep
<1>1. ASSUME UNCHANGED kernelVars, BodyKept
      PROVE  KernelTypes' /\ SocketStep
  BY <1>1, SameSockets DEF kernelVars, KernelTypes, SocketStep
<1>2. UNCHANGED worker => BodyKept
  BY DEF BodyKept
<1>3. CASE RegisterStep \/ UNCHANGED vars
  BY <1>1, <1>2, <1>3 DEF RegisterStep, RegisterListen, RegisterDebug, vars
<1>4. CASE PeerStep
  BY <1>2, <1>4, PeerEffect, BoundsAssumption DEF CountTypes, SocketStep
<1>5. ASSUME NEW t \in Threads, VendorCall(t) PROVE KernelTypes' /\ SocketStep
  <2>1. CASE VendorUnsolicited(t)
    BY <1>1, <2>1, SendKeepsBody DEF VendorUnsolicited, HeapTypes
  <2>2. ASSUME NEW a \in Addr, VendorCompletes(t, a) PROVE KernelTypes' /\ SocketStep
    BY <1>1, <2>2, CompletionKeepsBody DEF VendorCompletes, HeapTypes
  <2> QED
    BY <1>5, <2>1, <2>2 DEF VendorCall
<1> QED
  BY <1>3, <1>4, <1>5, LoopIsSocketStep, SendIsSocketStep DEF Next

-----------------------------------------------------------------------------
(* The bytes on the sockets. *)

Whole(s) == \A k \in 1 .. Len(s) - 1 : s[k][1] = "header" => s[k + 1] = <<"body", s[k][2], s[k][3]>>
LastIsHeader(s) == s # <<>> /\ s[Len(s)][1] = "header"

LEMMA AppendFrame ==
    ASSUME NEW S, NEW s \in Seq(S), NEW e \in S
    PROVE  /\ Append(s, e) # <<>> /\ Len(Append(s, e)) = Len(s) + 1 /\ Append(s, e)[Len(s) + 1] = e
           /\ Len(s) \in Nat /\ \A k \in 1 .. Len(s) : Append(s, e)[k] = s[k]
OBVIOUS

LEMMA WholeAppend ==
    ASSUME NEW s \in Seq(Frames), NEW e \in Frames, Whole(s),
           LastIsHeader(s) => e = <<"body", s[Len(s)][2], s[Len(s)][3]>>
    PROVE  Whole(Append(s, e))
<1> DEFINE l == Append(s, e)
<1>1. /\ Len(l) = Len(s) + 1 /\ l[Len(s) + 1] = e /\ Len(s) \in Nat
      /\ \A k \in 1 .. Len(s) : l[k] = s[k]
  BY AppendFrame
<1> HIDE DEF l
<1> SUFFICES ASSUME NEW k \in 1 .. Len(l) - 1, l[k][1] = "header"
             PROVE  l[k + 1] = <<"body", l[k][2], l[k][3]>>
  BY DEF Whole, l
<1>2. k \in 1 .. Len(s) /\ l[k] = s[k]
  BY <1>1
<1>3. CASE k = Len(s)
  <2>1. s # <<>>
    BY <1>2
  <2> QED
    BY <1>1, <1>2, <1>3, <2>1 DEF LastIsHeader
<1>4. CASE k # Len(s)
  <2>1. k \in 1 .. Len(s) - 1 /\ k + 1 \in 1 .. Len(s)
    BY <1>1, <1>2, <1>4
  <2> QED
    BY <1>1, <1>2, <2>1 DEF Whole
<1> QED
  BY <1>3, <1>4

\* A step that writes nothing and leaves the thread that holds the mutex alone.
LEMMA FrameQuiet ==
    ASSUME KernelTypes, FrameInv, UNCHANGED stream, BodyKept,
           \/ Moves
           \/ \E f \in FdNums \cup {-1} : Closes(f)
           \/ \E p \in Peers, f \in FdNums : Accepts(p, f)
    PROVE  FrameInv'
<1>1. OneWriter' /\ FramesWhole' /\ LocalSilent'
  BY DEF FrameInv, OneWriter, BodyKept, FramesWhole, LocalSilent
<1>2. \A p : EndsInHeader(p)' <=> EndsInHeader(p)
  BY DEF EndsInHeader
<1>3. ASSUME NEW t \in Threads, NEW p \in Peers, InProgress(t, p), file'[worker[t].fd] = p
      PROVE  InProgress(t, p)'
  <2>1. worker'[t] = worker[t]
    BY <1>3 DEF InProgress, BodyKept
  <2> QED
    BY <1>3, <2>1 DEF InProgress
<1>4. CASE Moves
  <2>1. OneDescriptor' /\ FreshPeers'
    BY <1>4 DEF Moves, FrameInv, OneDescriptor, FreshPeers
  <2>2. \A p \in Peers : EndsInHeader(p) => Status(p) \notin {"idle", "waiting"}
    BY DEF FrameInv, FreshPeers, EndsInHeader
  <2>3. \A p \in Peers : EndsInHeader(p) /\ Dead(p) => Dead(p)'
    BY <1>4, <2>2 DEF Moves, Dead
  <2>4. \A t \in Threads, p \in Peers : InProgress(t, p) => InProgress(t, p)'
    BY <1>3, <1>4 DEF Moves, InProgress
  <2>5. HeadersFollowed'
    BY <1>2, <2>3, <2>4 DEF FrameInv, HeadersFollowed
  <2> QED
    BY <1>1, <2>1, <2>5 DEF FrameInv
<1>5. ASSUME NEW f \in FdNums \cup {-1}, Closes(f) PROVE FrameInv'
  <2>1. OneDescriptor' /\ FreshPeers'
    BY <1>5, NoneIsNothing DEF Closes, FrameInv, OneDescriptor, FreshPeers
  <2>2. \A p \in Peers : Dead(p) => Dead(p)'
    BY <1>5, NoneIsNothing DEF Closes, Dead
  <2>3. ASSUME NEW t \in Threads, NEW p \in Peers, InProgress(t, p) PROVE Dead(p)' \/ InProgress(t, p)'
    <3>1. CASE worker[t].fd # f
      BY <1>3, <1>5, <2>3, <3>1 DEF Closes, InProgress
    <3>2. CASE worker[t].fd = f
      <4>1. \A g \in FdNums : file[g] = p => g = f
        BY <2>3, <3>2, NoneIsNothing DEF InProgress, FrameInv, OneDescriptor
      <4>2. \A g \in FdNums : file'[g] # p
        BY <1>5, <4>1, NoneIsNothing DEF Closes
      <4> QED
        BY <4>2 DEF Dead
    <3> QED
      BY <3>1, <3>2
  <2>4. HeadersFollowed'
    BY <1>2, <2>2, <2>3 DEF FrameInv, HeadersFollowed
  <2> QED
    BY <1>1, <2>1, <2>4 DEF FrameInv
<1>6. ASSUME NEW q \in Peers, NEW f \in FdNums, Accepts(q, f) PROVE FrameInv'
  <2>1. stream[q] = <<>> /\ \A g \in FdNums : file[g] # q
    BY <1>6 DEF Accepts, FrameInv, FreshPeers
  <2>2. OneDescriptor' /\ FreshPeers'
    <3>1. OneDescriptor'
      BY <1>6, <2>1 DEF Accepts, FrameInv, OneDescriptor
    <3>2. ASSUME NEW p \in Peers, Status(p)' \in {"idle", "waiting"}
          PROVE  stream'[p] = <<>> /\ \A g \in FdNums : file'[g] # p
      <4>1. p # q
        BY <1>6, <3>2 DEF Accepts
      <4>2. stream[p] = <<>> /\ \A g \in FdNums : file[g] # p
        BY <1>6, <3>2, <4>1 DEF Accepts, FrameInv, FreshPeers
      <4> QED
        BY <1>6, <4>1, <4>2 DEF Accepts
    <3> QED
      BY <3>1, <3>2 DEF FreshPeers
  <2>3. ASSUME NEW p \in Peers, EndsInHeader(p), Dead(p) PROVE Dead(p)'
    <3>1. p # q
      BY <2>1, <2>3 DEF EndsInHeader
    <3> QED
      BY <1>6, <2>3, <3>1 DEF Accepts, Dead
  <2>4. ASSUME NEW t \in Threads, NEW p \in Peers, InProgress(t, p) PROVE InProgress(t, p)'
    <3>1. worker[t].fd # f
      BY <1>6, <2>4, NoneIsNothing DEF InProgress, Accepts
    <3> QED
      BY <1>3, <1>6, <2>4, <3>1 DEF Accepts, InProgress
  <2>5. HeadersFollowed'
    BY <1>2, <2>3, <2>4 DEF FrameInv, HeadersFollowed
  <2> QED
    BY <1>1, <2>2, <2>5 DEF FrameInv
<1> QED
  BY <1>4, <1>5, <1>6

\* A write that starts a message at the end of one, or completes the message begun.
LEMMA AfterWrite ==
    ASSUME KernelTypes, worker \in [Threads -> Works], NoLocalSend, FrameInv,
           NEW t \in Threads, NEW p \in Peers, NEW part \in {"header", "body"}, Sending(t), Write(t, part, p),
           LastIsHeader(stream[p]) =>
              <<part, worker[t].msg, t>> = <<"body", stream[p][Len(stream[p])][2], stream[p][Len(stream[p])][3]>>
    PROVE  /\ OneDescriptor' /\ FreshPeers' /\ FramesWhole' /\ LocalSilent'
           /\ ~Dead(p) /\ \A q \in Peers : Dead(q)' <=> Dead(q)
           /\ stream'[p] # <<>> /\ stream'[p][Len(stream'[p])] = <<part, worker[t].msg, t>>
           /\ \A q \in Peers : q # p => stream'[q] = stream[q]
<1> DEFINE e == <<part, worker[t].msg, t>>
           s == stream[p]
<1>1. e \in Frames /\ e[1] = part /\ e[2] = worker[t].msg /\ e[2] # Local
  BY DEF Works, Frames, NoLocalSend
<1>2. /\ s \in Seq(Frames) /\ stream'[p] = Append(s, e)
      /\ \A q \in Peers : q # p => stream'[q] = stream[q]
      /\ UNCHANGED file /\ \A q \in Peers : Status(q)' = Status(q)
      /\ worker[t].fd \in FdNums /\ file[worker[t].fd] = p /\ Status(p) # "gone"
  BY DEF KernelTypes, Write
<1>3. LastIsHeader(s) => e = <<"body", s[Len(s)][2], s[Len(s)][3]>>
  OBVIOUS
<1> HIDE DEF e
<1>4. /\ stream'[p] # <<>> /\ Len(stream'[p]) = Len(s) + 1 /\ stream'[p][Len(s) + 1] = e
      /\ Len(s) \in Nat /\ \A k \in 1 .. Len(s) : stream'[p][k] = s[k]
  BY <1>1, <1>2, AppendFrame
<1> HIDE DEF s
<1>5. OneDescriptor'
  BY <1>2 DEF FrameInv, OneDescriptor
<1>6. ~Dead(p) /\ \A q \in Peers : Dead(q)' <=> Dead(q)
  BY <1>2 DEF Dead
<1>7. FreshPeers'
  <2>1. Status(p) \notin {"idle", "waiting"}
    BY <1>2 DEF FrameInv, FreshPeers
  <2> QED
    BY <1>2, <2>1 DEF FrameInv, FreshPeers
<1>8. FramesWhole'
  <2>1. Whole(s) /\ \A q \in Peers : Whole(stream[q])
    BY DEF FrameInv, FramesWhole, Whole, s
  <2>2. Whole(stream'[p])
    BY <1>1, <1>2, <1>3, <2>1, WholeAppend
  <2>3. ASSUME NEW q \in Peers PROVE Whole(stream'[q])
    BY <1>2, <2>1, <2>2
  <2> QED
    BY <2>3 DEF FramesWhole, Whole
<1>9. LocalSilent'
  <2> SUFFICES ASSUME NEW q \in Peers, NEW k \in 1 .. Len(stream'[q]) PROVE stream'[q][k][2] # Local
    BY DEF LocalSilent
  <2>1. CASE q # p
    BY <1>2, <2>1 DEF FrameInv, LocalSilent
  <2>2. CASE q = p /\ k \in 1 .. Len(s)
    BY <1>4, <2>2 DEF FrameInv, LocalSilent, s
  <2>3. CASE q = p /\ k = Len(s) + 1
    BY <1>1, <1>4, <2>3
  <2> QED
    BY <1>4, <2>1, <2>2, <2>3
<1> QED
  BY <1>2, <1>4, <1>5, <1>6, <1>7, <1>8, <1>9 DEF e

LEMMA FrameHeader ==
    ASSUME KernelTypes, worker \in [Threads -> Works], NoLocalSend, FrameInv,
           NEW t \in Threads, NEW p \in Peers, SendsHeader(t, p)
    PROVE  FrameInv'
<1>1. /\ Write(t, "header", p) /\ \A u \in Threads : worker[u].st # "body"
      /\ worker'[t].st = "body" /\ worker'[t].fd = worker[t].fd /\ worker'[t].msg = worker[t].msg
      /\ worker[t].st = "lock" /\ \A u \in Threads : u # t => worker'[u] = worker[u]
  BY DEF SendsHeader
<1>2. \A q \in Peers : EndsInHeader(q) => Dead(q)
  BY <1>1 DEF FrameInv, HeadersFollowed, InProgress
<1>3. ~LastIsHeader(stream[p])
  BY <1>1, <1>2 DEF EndsInHeader, LastIsHeader, Write, Dead
<1>4. Sending(t)
  BY <1>1 DEF Sending
<1>5. /\ OneDescriptor' /\ FreshPeers' /\ FramesWhole' /\ LocalSilent'
      /\ \A q \in Peers : Dead(q)' <=> Dead(q)
      /\ stream'[p][Len(stream'[p])] = <<"header", worker[t].msg, t>>
      /\ \A q \in Peers : q # p => stream'[q] = stream[q]
  BY <1>1, <1>3, <1>4, AfterWrite
<1>6. OneWriter'
  BY <1>1 DEF OneWriter
<1>7. InProgress(t, p)'
  BY <1>1, <1>5 DEF InProgress, Write
<1>8. HeadersFollowed'
  BY <1>2, <1>5, <1>7 DEF HeadersFollowed, EndsInHeader
<1> QED
  BY <1>5, <1>6, <1>8 DEF FrameInv

LEMMA FrameBody ==
    ASSUME KernelTypes, worker \in [Threads -> Works], NoLocalSend, FrameInv,
           NEW t \in Threads, NEW p \in Peers, SendsBody(t, p)
    PROVE  FrameInv'
<1>1. /\ Write(t, "body", p) /\ worker[t].st = "body" /\ worker'[t].st = "idle"
      /\ \A u \in Threads : u # t => worker'[u] = worker[u]
  BY DEF SendsBody
<1>2. \A u \in Threads : worker[u].st = "body" => u = t
  BY <1>1 DEF FrameInv, OneWriter
<1>3. file[worker[t].fd] = p /\ ~Dead(p)
  BY <1>1 DEF Write, Dead
<1>4. LastIsHeader(stream[p]) => stream[p][Len(stream[p])] = <<"header", worker[t].msg, t>>
  BY <1>2, <1>3 DEF FrameInv, HeadersFollowed, EndsInHeader, LastIsHeader, InProgress
<1>5. LastIsHeader(stream[p]) =>
        <<"body", worker[t].msg, t>> = <<"body", stream[p][Len(stream[p])][2], stream[p][Len(stream[p])][3]>>
  BY <1>4
<1>6. Sending(t)
  BY <1>1 DEF Sending
<1>7. /\ OneDescriptor' /\ FreshPeers' /\ FramesWhole' /\ LocalSilent'
      /\ \A q \in Peers : Dead(q)' <=> Dead(q)
      /\ stream'[p][Len(stream'[p])] = <<"body", worker[t].msg, t>>
      /\ \A q \in Peers : q # p => stream'[q] = stream[q]
  BY <1>1, <1>5, <1>6, AfterWrite
<1>8. OneWriter'
  BY <1>1, <1>2 DEF OneWriter
<1>9. \A q \in Peers : q # p /\ EndsInHeader(q) => Dead(q)
  BY <1>2, <1>3 DEF FrameInv, HeadersFollowed, InProgress
<1>10. ~EndsInHeader(p)'
  <2>1. <<"body", worker[t].msg, t>>[1] = "body"
    OBVIOUS
  <2> QED
    BY <1>7, <2>1 DEF EndsInHeader
<1>11. HeadersFollowed'
  BY <1>7, <1>9, <1>10 DEF HeadersFollowed, EndsInHeader
<1> QED
  BY <1>7, <1>8, <1>11 DEF FrameInv

\* A failed write closes the descriptor, so what was begun on it is never continued.
LEMMA FrameLost ==
    ASSUME KernelTypes, worker \in [Threads -> Works], FrameInv, NEW t \in Threads, LosesBody(t)
    PROVE  FrameInv'
<1>1. /\ Closes(worker[t].fd) /\ UNCHANGED stream /\ worker[t].st = "body" /\ worker'[t].st = "idle"
      /\ \A u \in Threads : u # t => worker'[u] = worker[u]
  BY DEF LosesBody
<1>2. \A u \in Threads : worker[u].st = "body" => u = t
  BY <1>1 DEF FrameInv, OneWriter
<1>3. OneWriter' /\ FramesWhole' /\ LocalSilent'
  BY <1>1, <1>2 DEF FrameInv, OneWriter, FramesWhole, LocalSilent
<1>4. OneDescriptor' /\ FreshPeers'
  BY <1>1, NoneIsNothing DEF Closes, FrameInv, OneDescriptor, FreshPeers
<1>5. \A p \in Peers : Dead(p) => Dead(p)'
  BY <1>1, NoneIsNothing DEF Closes, Dead
<1>6. ASSUME NEW p \in Peers, InProgress(t, p) PROVE Dead(p)'
  <2>1. \A g \in FdNums : file[g] = p => g = worker[t].fd
    BY <1>6, NoneIsNothing DEF InProgress, FrameInv, OneDescriptor
  <2>2. \A g \in FdNums : file'[g] # p
    BY <1>1, <2>1, NoneIsNothing DEF Closes
  <2> QED
    BY <2>2 DEF Dead
<1>7. \A u \in Threads, p \in Peers : InProgress(u, p) => u = t
  BY <1>2 DEF InProgress
<1>8. HeadersFollowed'
  BY <1>1, <1>5, <1>6, <1>7 DEF FrameInv, HeadersFollowed, EndsInHeader
<1> QED
  BY <1>3, <1>4, <1>8 DEF FrameInv

LEMMA FrameStep ==
    ASSUME KernelTypes, worker \in [Threads -> Works], NoLocalSend, FrameInv, SocketStep
    PROVE  FrameInv'
<1>1. CASE HangsUp
  <2>1. OneWriter' /\ FramesWhole' /\ LocalSilent' /\ OneDescriptor'
    BY <1>1 DEF HangsUp, FrameInv, OneWriter, FramesWhole, LocalSilent, OneDescriptor
  <2>2. FreshPeers' /\ HeadersFollowed'
    BY <1>1, NoneIsNothing DEF HangsUp, FrameInv, FreshPeers, HeadersFollowed, Dead
  <2> QED
    BY <2>1, <2>2 DEF FrameInv
<1> QED
  BY <1>1, FrameQuiet, FrameHeader, FrameBody, FrameLost DEF SocketStep

-----------------------------------------------------------------------------
(* The requests of the clients. *)

\* What a step that reads or drops requests, and one that answers none, leaves true.
InboxShrinks == QueuedOnce' /\ \A r \in Requests : Queued(r)' => Queued(r)
AnswersSame == AnsweredOnce' /\ \A r \in Requests : Answered(r)' <=> Answered(r)
\* calloc is called for no client's request.
NoNewRequest == \A a \in Addr : info[a] = NONE /\ info'[a] # NONE => info'[a].req = Local

LEMMA RequestNumbers ==
    /\ Local \notin Requests /\ Unsol \notin Requests /\ Greeting \notin Requests /\ Errors \notin Requests
    /\ \A r \in Requests : r \in Nat
BY DEF Requests, Local, Unsol, Greeting, Errors

LEMMA AnswerKept ==
    ASSUME HeapTypes, CountTypes, AnswerInv, InboxShrinks, AnswersSame, SendersOwn',
           UNCHANGED <<cancelledReqs, requests>>,
           \A a \in Addr : info'[a] # NONE =>
               \/ info'[a].req = Local
               \/ /\ info[a] # NONE /\ info'[a].req = info[a].req
                  /\ info'[a].cancelled = info[a].cancelled
    PROVE  AnswerInv'
<1>1. \A r \in Requests : Owned(r)' => Owned(r)
  BY RequestNumbers DEF Owned
<1>2. \A r \in cancelledReqs : r \in Requests
  BY DEF CountTypes
<1>3. Issued' /\ QueuedOnly' /\ OwnedUnanswered'
  BY <1>1 DEF InboxShrinks, AnswersSame, AnswerInv, Issued, QueuedOnly, OwnedUnanswered
<1>4. OwnedOnce'
  BY DEF AnswerInv, OwnedOnce
<1>5. CancelMarked'
  BY <1>2, RequestNumbers DEF AnswerInv, CancelMarked
<1>6. CancelUnanswered'
  BY <1>2 DEF AnswersSame, AnswerInv, CancelUnanswered
<1> QED
  BY <1>3, <1>4, <1>5, <1>6 DEF InboxShrinks, AnswersSame, AnswerInv

\* A thread that begins to answer a request owns it and the request is not cancelled.
LEMMA SenderStep ==
    ASSUME HeapCore, CountTypes, AnswerInv, s_fdCommand \in FdNums \cup {-1}, UNCHANGED cancelledReqs,
           NEW t \in Threads,
           BeginSend(t) \/ BeginAnswer(t) \/ Capture(t) \/ TakeMutex(t) \/ \E a \in Addr : Dequeue(t, a)
    PROVE  SendersOwn' /\ UNCHANGED info
<1>0. HeapTypes /\ NONE \notin Addr /\ NONE \notin Infos
  BY NoneIsNothing DEF HeapCore
<1>1. ASSUME UNCHANGED info, \A u \in Threads : u # t => worker'[u] = worker[u],
             Sending(t)' /\ worker'[t].msg \in Requests =>
                /\ worker'[t].addr # NONE /\ info[worker'[t].addr].req = worker'[t].msg
                /\ worker'[t].msg \notin cancelledReqs
      PROVE  SendersOwn'
  <2> SUFFICES ASSUME NEW u \in Threads, Sending(u)', worker'[u].msg \in Requests
               PROVE  /\ worker'[u].addr # NONE /\ info'[worker'[u].addr].req = worker'[u].msg
                      /\ worker'[u].msg \notin cancelledReqs'
    BY DEF SendersOwn
  <2>1. CASE u = t
    BY <1>1, <2>1
  <2>2. CASE u # t
    <3>1. worker'[u] = worker[u] /\ Sending(u)
      BY <1>1, <2>2 DEF Sending
    <3> QED
      BY <1>1, <3>1 DEF AnswerInv, SendersOwn
  <2> QED
    BY <2>1, <2>2
<1>2. CASE BeginSend(t)
  <2>1. UNCHANGED info /\ worker'[t].msg \notin Requests /\ \A u \in Threads : u # t => worker'[u] = worker[u]
    BY <1>0, <1>2, BeginSendEffect, RequestNumbers
  <2> QED
    BY <1>1, <2>1
<1>3. CASE BeginAnswer(t)
  <2> DEFINE a == worker[t].addr
  <2>1. /\ UNCHANGED info /\ a \in Addr /\ info[a] \in Infos /\ ~info[a].cancelled
        /\ worker'[t].addr = a /\ worker'[t].msg = info[a].req
        /\ \A u \in Threads : u # t => worker'[u] = worker[u]
    BY <1>3, BeginAnswerEffect
  <2>2. info[a] # NONE /\ info[a].req \notin cancelledReqs
    BY <1>0, <2>1 DEF AnswerInv, CancelMarked
  <2> QED
    BY <1>0, <1>1, <2>1, <2>2
<1>4. CASE Capture(t)
  <2>1. /\ UNCHANGED info /\ worker[t].st = "send"
        /\ worker'[t].addr = worker[t].addr /\ worker'[t].msg = worker[t].msg
        /\ \A u \in Threads : u # t => worker'[u] = worker[u]
    BY <1>0, <1>4, CaptureEffect
  <2> QED
    BY <1>1, <2>1 DEF AnswerInv, SendersOwn, Sending
<1>5. CASE TakeMutex(t)
  <2>1. /\ UNCHANGED info /\ worker[t].st = "lock"
        /\ worker'[t].addr = worker[t].addr /\ worker'[t].msg = worker[t].msg
        /\ \A u \in Threads : u # t => worker'[u] = worker[u]
    BY <1>0, <1>5, TakeMutexEffect
  <2> QED
    BY <1>1, <2>1 DEF AnswerInv, SendersOwn, Sending
<1>6. ASSUME NEW a \in Addr, Dequeue(t, a) PROVE SendersOwn' /\ UNCHANGED info
  <2>1. /\ UNCHANGED info /\ worker'[t].st = "dequeued"
        /\ \A u \in Threads : u # t => worker'[u] = worker[u]
    BY <1>0, <1>6, DequeueEffect
  <2> QED
    BY <1>1, <2>1 DEF Sending
<1> QED
  BY <1>2, <1>3, <1>4, <1>5, <1>6

LEMMA ReleaseOwn ==
    ASSUME HeapCore, AnswerInv, UNCHANGED cancelledReqs, NEW t \in Threads, Release(t)
    PROVE  /\ SendersOwn'
           /\ \A a \in Addr : info'[a] # NONE => info'[a] = info[a] /\ a # worker[t].addr
<1>1. /\ worker'[t] = Idle
      /\ \A u \in Threads : u # t => worker'[u] = worker[u]
      /\ \A a \in Addr : info'[a] = (IF a = worker[t].addr THEN NONE ELSE info[a])
  BY ReleaseEffect DEF HeapCore
<1>2. ASSUME NEW u \in Threads, Sending(u)', worker'[u].msg \in Requests
      PROVE  /\ worker'[u].addr # NONE /\ info'[worker'[u].addr].req = worker'[u].msg
             /\ worker'[u].msg \notin cancelledReqs'
  <2>1. u # t /\ worker'[u] = worker[u] /\ Sending(u)
    BY <1>1, <1>2, IdleIsWork DEF Sending
  <2>2. /\ worker[u].addr # NONE /\ info[worker[u].addr].req = worker[u].msg
        /\ worker[u].msg \notin cancelledReqs
    BY <1>2, <2>1 DEF AnswerInv, SendersOwn
  <2>3. worker[u].addr \in Addr
    BY <2>2 DEF HeapCore, HeapTypes, Works
  <2>4. worker[t].addr # worker[u].addr
    BY <2>1, <2>3 DEF HeapCore, OwnersApart
  <2> QED
    BY <1>1, <2>1, <2>2, <2>3, <2>4
<1> QED
  BY <1>1, <1>2 DEF SendersOwn

\* A new RequestInfo is at an address that no sender owns.
LEMMA EnqueueOwn ==
    ASSUME HeapCore, AnswerInv, UNCHANGED cancelledReqs, NEW a \in Addr, Enqueue(a)
    PROVE  SendersOwn'
<1>1. UNCHANGED worker /\ info[a] = NONE /\ \A b \in Addr : b # a => info'[b] = info[b]
  BY EnqueueEffect DEF HeapCore
<1>2. ASSUME NEW u \in Threads, Sending(u)', worker'[u].msg \in Requests
      PROVE  /\ worker'[u].addr # NONE /\ info'[worker'[u].addr].req = worker'[u].msg
             /\ worker'[u].msg \notin cancelledReqs'
  <2>1. worker'[u] = worker[u] /\ Sending(u)
    BY <1>1, <1>2 DEF Sending
  <2>2. /\ worker[u].addr # NONE /\ info[worker[u].addr].req = worker[u].msg
        /\ worker[u].msg \notin cancelledReqs
    BY <1>2, <2>1 DEF AnswerInv, SendersOwn
  <2>3. worker[u].addr \in Addr
    BY <2>2 DEF HeapCore, HeapTypes, Works
  <2>4. worker[u].addr # a
    BY <1>1, <2>3 DEF HeapCore, OwnersApart
  <2> QED
    BY <1>1, <2>1, <2>2, <2>3, <2>4
<1> QED
  BY <1>2 DEF SendersOwn

\* onCommandsSocketClosed marks the listed requests; the ones being answered are not listed.
LEMMA CancelOwn ==
    ASSUME HeapCore, CountTypes, AnswerInv, InboxShrinks, AnswersSame, UNCHANGED requests, Cancel
    PROVE  AnswerInv'
<1> DEFINE new == {info[a].req : a \in {b \in Addr : Listed(b)}} \ {Local}
<1>1. /\ UNCHANGED worker
      /\ \A a \in Addr : Listed(a) =>
            /\ info[a] \in Infos /\ info'[a] \in Infos /\ info'[a].cancelled /\ info'[a].req = info[a].req
      /\ \A a \in Addr : ~Listed(a) => info'[a] = info[a]
      /\ cancelledReqs' = cancelledReqs \cup new
  BY CancelEffect DEF HeapCore
<1>2. \A r \in new : r # Local /\ \E a \in Addr : Listed(a) /\ info[a].req = r
  OBVIOUS
<1> HIDE DEF new
<1>3. \A a \in Addr : (info'[a] # NONE <=> info[a] # NONE) /\ (info[a] # NONE => info'[a].req = info[a].req)
  BY <1>1, NoneIsNothing
<1>4. \A r \in Requests : Owned(r)' <=> Owned(r)
  BY <1>3 DEF Owned
<1>5. \A r \in new : Owned(r) /\ r \in Requests
  <2> TAKE r \in new
  <2>1. PICK a \in Addr : Listed(a) /\ info[a].req = r
    BY <1>2
  <2>2. info[a] \in Infos /\ info[a] # NONE /\ r # Local
    BY <1>1, <1>2, <2>1, NoneIsNothing
  <2> QED
    BY <2>1, <2>2 DEF Owned, Infos
<1>6. /\ Issued' /\ QueuedOnly' /\ OwnedUnanswered' /\ CancelUnanswered'
  <2>1. \A r \in cancelledReqs : r \in Requests
    BY DEF CountTypes
  <2> QED
    BY <1>1, <1>4, <1>5, <2>1 DEF InboxShrinks, AnswersSame, AnswerInv, Issued, QueuedOnly, OwnedUnanswered,
                                  CancelUnanswered
<1>7. OwnedOnce'
  BY <1>3 DEF AnswerInv, OwnedOnce
<1>8. \A a \in Addr : info[a] # NONE /\ info[a].req \in new => Listed(a)
  <2> SUFFICES ASSUME NEW a \in Addr, info[a] # NONE, info[a].req \in new PROVE Listed(a)
    OBVIOUS
  <2>1. PICK b \in Addr : Listed(b) /\ info[b].req = info[a].req /\ info[a].req # Local
    BY <1>2
  <2>2. info[b] # NONE
    BY <2>1 DEF HeapCore, ListedLive
  <2>3. a = b
    BY <2>1, <2>2 DEF AnswerInv, OwnedOnce
  <2> QED
    BY <2>1, <2>3
<1>9. CancelMarked'
  <2> SUFFICES ASSUME NEW a \in Addr, info'[a] # NONE, info'[a].req \in cancelledReqs \cup new
               PROVE  info'[a].cancelled
    BY <1>1 DEF CancelMarked
  <2>1. CASE Listed(a)
    BY <1>1, <2>1
  <2>2. CASE ~Listed(a)
    <3>1. info'[a] = info[a]
      BY <1>1, <2>2
    <3>2. info[a].req \in cancelledReqs
      BY <1>8, <2>2, <3>1
    <3> QED
      BY <3>1, <3>2 DEF AnswerInv, CancelMarked
  <2> QED
    BY <2>1, <2>2
<1>10. SendersOwn'
  <2> SUFFICES ASSUME NEW u \in Threads, Sending(u), worker[u].msg \in Requests
               PROVE  /\ worker[u].addr # NONE /\ info'[worker[u].addr].req = worker[u].msg
                      /\ worker[u].msg \notin cancelledReqs'
    BY <1>1 DEF SendersOwn, Sending
  <2>1. /\ worker[u].addr # NONE /\ info[worker[u].addr].req = worker[u].msg
        /\ worker[u].msg \notin cancelledReqs
    BY DEF AnswerInv, SendersOwn
  <2>2. worker[u].addr \in Addr
    BY <2>1 DEF HeapCore, HeapTypes, Works
  <2>3. info[worker[u].addr] # NONE /\ ~Listed(worker[u].addr)
    BY <2>2 DEF HeapCore, OwnersApart
  <2> QED
    BY <1>1, <1>3, <1>8, <2>1, <2>2, <2>3
<1> QED
  BY <1>6, <1>7, <1>9, <1>10 DEF InboxShrinks, AnswersSame, AnswerInv

\* A step of the threads that brings no request and answers none.
LEMMA AnswerThread ==
    ASSUME HeapCore, CountTypes, AnswerInv, s_fdCommand \in FdNums \cup {-1}, ThreadStep, NoNewRequest,
           InboxShrinks, AnswersSame, UNCHANGED requests, Cancel \/ UNCHANGED cancelledReqs
    PROVE  AnswerInv'
<1> SUFFICES ASSUME UNCHANGED cancelledReqs, ~Cancel PROVE AnswerInv'
  BY CancelOwn
<1>0. HeapTypes
  BY DEF HeapCore
<1>1. CASE UNCHANGED info
  <2>1. SendersOwn' => AnswerInv'
    BY <1>0, <1>1, AnswerKept
  <2>2. Same => SendersOwn'
    BY DEF Same, AnswerInv, SendersOwn, Sending
  <2>3. Reset => SendersOwn'
    BY IdleIsWork DEF Reset, SendersOwn, Sending
  <2> QED
    BY <2>1, <2>2, <2>3, SenderStep, ReleaseOwn, EnqueueOwn DEF ThreadStep
<1>2. CASE Reset
  <2>1. SendersOwn' /\ \A a \in Addr : info'[a] = NONE
    BY <1>2, IdleIsWork DEF Reset, SendersOwn, Sending
  <2> QED
    BY <1>0, <2>1, AnswerKept
<1>3. ASSUME NEW t \in Threads, Release(t) PROVE AnswerInv'
  BY <1>0, <1>3, ReleaseOwn, AnswerKept
<1>4. ASSUME NEW a \in Addr, Enqueue(a) PROVE AnswerInv'
  <2>1. info[a] = NONE /\ info'[a] \in Infos /\ \A b \in Addr : b # a => info'[b] = info[b]
    BY <1>0, <1>4, EnqueueEffect
  <2>2. info'[a].req = Local
    BY <2>1, NoneIsNothing DEF NoNewRequest
  <2> QED
    BY <1>0, <1>4, <2>1, <2>2, EnqueueOwn, AnswerKept
<1> QED
  BY <1>1, <1>2, <1>3, <1>4, SenderStep DEF ThreadStep, Same

LEMMA NothingRead ==
    ASSUME AnswerInv, UNCHANGED inbox
    PROVE  InboxShrinks
BY DEF AnswerInv, InboxShrinks, QueuedOnce, Queued

LEMMA NothingWritten ==
    ASSUME AnswerInv, UNCHANGED stream
    PROVE  AnswersSame
BY DEF AnswerInv, AnswersSame, AnsweredOnce, Answered

\* Reading a record takes the request out of the socket.
LEMMA ReadEffect ==
    ASSUME KernelTypes, QueuedOnce, NEW c \in Clients, inbox[c] # <<>>,
           inbox' = [inbox EXCEPT ![c] = Tail(@)]
    PROVE  /\ InboxShrinks /\ Head(inbox[c]) \in Requests
           /\ \A r : r = Head(inbox[c]) => Queued(r) /\ ~Queued(r)'
<1> DEFINE l == inbox[c]  m == Tail(l)  h == Head(l)
<1>1. inbox \in [Clients -> Seq(Requests)] /\ l \in Seq(Requests) /\ l # <<>>
  BY DEF KernelTypes
<1>2. /\ m \in Seq(Requests) /\ Len(l) = Len(m) + 1 /\ Len(m) \in Nat /\ h = l[1] /\ h \in Requests
      /\ \A k \in 1 .. Len(m) : m[k] = l[k + 1]
  BY <1>1
<1>3. inbox'[c] = m /\ \A d \in Clients : d # c => inbox'[d] = inbox[d]
  BY <1>1
<1> DEFINE old(d, k) == IF d = c THEN k + 1 ELSE k
<1> HIDE DEF l, m, h
<1>4. ASSUME NEW d \in Clients, NEW k \in 1 .. Len(inbox'[d])
      PROVE  old(d, k) \in 1 .. Len(inbox[d]) /\ inbox'[d][k] = inbox[d][old(d, k)] /\ (d = c => old(d, k) # 1)
  <2>1. CASE d = c
    <3>1. inbox'[d] = m /\ inbox[d] = l /\ k \in 1 .. Len(m) /\ old(d, k) = k + 1
      BY <1>3, <2>1 DEF l
    <3> QED
      BY <1>2, <3>1
  <2>2. CASE d # c
    BY <1>3, <2>2
  <2> QED
    BY <2>1, <2>2
<1>5. QueuedOnce'
  <2> SUFFICES ASSUME NEW d \in Clients, NEW e \in Clients, NEW j \in 1 .. Len(inbox'[d]),
                      NEW k \in 1 .. Len(inbox'[e]), inbox'[d][j] = inbox'[e][k]
               PROVE  d = e /\ j = k
    BY DEF QueuedOnce
  <2>1. d = e /\ old(d, j) = old(e, k)
    BY <1>4 DEF QueuedOnce
  <2>2. j \in Int /\ k \in Int
    OBVIOUS
  <2> QED
    BY <2>1, <2>2
<1>6. \A r : Queued(r)' => Queued(r)
  BY <1>4 DEF Queued
<1>7. 1 \in 1 .. Len(l) /\ l[1] = h
  BY <1>2
<1>8. Queued(h)
  BY <1>7 DEF Queued, l
<1>9. ASSUME NEW r, r = h PROVE ~Queued(r)'
  <2> SUFFICES ASSUME NEW d \in Clients, NEW k \in 1 .. Len(inbox'[d]), inbox'[d][k] = r PROVE FALSE
    BY DEF Queued
  <2>1. old(d, k) \in 1 .. Len(inbox[d]) /\ inbox[d][old(d, k)] = inbox[c][1] /\ (d = c => old(d, k) # 1)
    BY <1>4, <1>7, <1>9 DEF l
  <2> QED
    BY <1>7, <2>1 DEF QueuedOnce, l
<1> QED
  BY <1>2, <1>5, <1>6, <1>8, <1>9 DEF InboxShrinks, l, h

LEMMA SendEffect ==
    ASSUME KernelTypes, QueuedOnce, NEW c \in Clients, NEW n \in Requests, ~Queued(n),
           inbox' = [inbox EXCEPT ![c] = Append(@, n)]
    PROVE  QueuedOnce' /\ \A r : Queued(r)' => Queued(r) \/ r = n
<1> DEFINE l == inbox[c]  m == Append(l, n)
<1>1. inbox \in [Clients -> Seq(Requests)] /\ l \in Seq(Requests)
  BY DEF KernelTypes
<1>2. Len(m) = Len(l) + 1 /\ m[Len(l) + 1] = n /\ Len(l) \in Nat /\ \A k \in 1 .. Len(l) : m[k] = l[k]
  BY <1>1, AppendFrame
<1>3. inbox'[c] = m /\ \A d \in Clients : d # c => inbox'[d] = inbox[d]
  BY <1>1
<1> HIDE DEF l, m
<1>4. ASSUME NEW d \in Clients, NEW k \in 1 .. Len(inbox'[d])
      PROVE  \/ k \in 1 .. Len(inbox[d]) /\ inbox'[d][k] = inbox[d][k] /\ inbox'[d][k] # n
             \/ d = c /\ k = Len(l) + 1 /\ inbox'[d][k] = n
  <2>1. CASE d # c
    BY <1>3, <2>1 DEF Queued
  <2>2. CASE d = c /\ k = Len(l) + 1
    BY <1>2, <1>3, <2>2
  <2>3. CASE d = c /\ k # Len(l) + 1
    <3>1. k \in 1 .. Len(l)
      BY <1>2, <1>3, <2>3
    <3> QED
      BY <1>2, <1>3, <2>3, <3>1 DEF Queued, l
  <2> QED
    BY <2>1, <2>2, <2>3
<1>5. \A r : Queued(r)' => Queued(r) \/ r = n
  BY <1>4 DEF Queued
<1>6. QueuedOnce'
  <2> SUFFICES ASSUME NEW d \in Clients, NEW e \in Clients, NEW j \in 1 .. Len(inbox'[d]),
                      NEW k \in 1 .. Len(inbox'[e]), inbox'[d][j] = inbox'[e][k]
               PROVE  d = e /\ j = k
    BY DEF QueuedOnce
  <2>1. CASE inbox'[d][j] = n
    BY <1>4, <2>1
  <2>2. CASE inbox'[d][j] # n
    BY <1>4, <2>2 DEF QueuedOnce
  <2> QED
    BY <2>1, <2>2
<1> QED
  BY <1>5, <1>6

LEMMA AnswerEffect ==
    ASSUME KernelTypes, worker \in [Threads -> Works], AnsweredOnce, NEW t \in Threads, NEW p \in Peers,
           NEW part \in {"header", "body"}, Write(t, part, p),
           part = "body" /\ worker[t].msg \in Requests => ~Answered(worker[t].msg)
    PROVE  /\ AnsweredOnce'
           /\ \A r : Answered(r)' <=> Answered(r) \/ (part = "body" /\ r = worker[t].msg)
<1> DEFINE e == <<part, worker[t].msg, t>>
           s == stream[p]
<1>1. e \in Frames /\ e[1] = part /\ e[2] = worker[t].msg
  BY DEF Works, Frames
<1>2. /\ s \in Seq(Frames) /\ stream'[p] = Append(s, e)
      /\ \A q \in Peers : q # p => stream'[q] = stream[q]
  BY DEF KernelTypes, Write
<1> HIDE DEF e
<1>4. /\ Len(stream'[p]) = Len(s) + 1 /\ stream'[p][Len(s) + 1] = e
      /\ Len(s) \in Nat /\ \A k \in 1 .. Len(s) : stream'[p][k] = s[k]
  BY <1>1, <1>2, AppendFrame
<1> HIDE DEF s
<1>5. ASSUME NEW q \in Peers, NEW k \in 1 .. Len(stream'[q])
      PROVE  \/ k \in 1 .. Len(stream[q]) /\ stream'[q][k] = stream[q][k]
             \/ q = p /\ k = Len(s) + 1 /\ stream'[q][k] = e
  <2>1. CASE q # p
    BY <1>2, <2>1
  <2>2. CASE q = p
    BY <1>4, <2>2 DEF s
  <2> QED
    BY <2>1, <2>2
<1>6. \A q \in Peers : \A k \in 1 .. Len(stream[q]) : k \in 1 .. Len(stream'[q]) /\ stream'[q][k] = stream[q][k]
  BY <1>2, <1>4 DEF s
<1>7. Len(s) + 1 \in 1 .. Len(stream'[p])
  BY <1>4
<1>8. ASSUME NEW r PROVE Answered(r)' <=> Answered(r) \/ (part = "body" /\ r = worker[t].msg)
  <2>1. Answered(r)' => Answered(r) \/ (part = "body" /\ r = worker[t].msg)
    BY <1>1, <1>5 DEF Answered
  <2>2. Answered(r) => Answered(r)'
    BY <1>6 DEF Answered
  <2>3. part = "body" /\ r = worker[t].msg => Answered(r)'
    BY <1>1, <1>4, <1>7 DEF Answered
  <2> QED
    BY <2>1, <2>2, <2>3
<1>9. AnsweredOnce'
  <2> SUFFICES ASSUME NEW q \in Peers, NEW o \in Peers, NEW j \in 1 .. Len(stream'[q]),
                      NEW k \in 1 .. Len(stream'[o]),
                      stream'[q][j][1] = "body", stream'[o][k][1] = "body",
                      stream'[q][j][2] = stream'[o][k][2], stream'[q][j][2] \in Requests
               PROVE  q = o /\ j = k
    BY DEF AnsweredOnce
  <2> DEFINE New(x, i) == x = p /\ i = Len(s) + 1 /\ stream'[x][i] = e
             Old(x, i) == i \in 1 .. Len(stream[x]) /\ stream'[x][i] = stream[x][i]
  <2>1. (Old(q, j) \/ New(q, j)) /\ (Old(o, k) \/ New(o, k))
    BY <1>5
  <2>2. CASE Old(q, j) /\ Old(o, k)
    BY <2>2 DEF AnsweredOnce
  <2>3. CASE New(q, j) /\ New(o, k)
    BY <2>3
  <2>4. CASE Old(q, j) /\ New(o, k)
    BY <1>1, <2>4 DEF Answered
  <2>5. CASE New(q, j) /\ Old(o, k)
    BY <1>1, <2>5 DEF Answered
  <2> QED
    BY <2>1, <2>2, <2>3, <2>4, <2>5
<1> QED
  BY <1>8, <1>9

\* A client sends a request with a new number.
LEMMA RequestSent ==
    ASSUME KernelTypes, CountTypes, AnswerInv, NEW c \in Clients, ClientSends(c)
    PROVE  AnswerInv'
<1> DEFINE n == requests + 1
<1>1. /\ inbox' = [inbox EXCEPT ![c] = Append(@, n)] /\ requests' = n /\ requests < MaxRequests
      /\ UNCHANGED <<stream, info, worker, cancelledReqs>>
  BY DEF ClientSends
<1>2. requests \in Nat /\ n \in Requests /\ n > requests /\ \A r \in cancelledReqs : r \in Requests
  BY <1>1, BoundsAssumption DEF CountTypes, Requests
<1> HIDE DEF n
<1>3. ~Queued(n) /\ ~Owned(n) /\ ~Answered(n) /\ n \notin cancelledReqs
  <2>1. ~(n <= requests)
    BY <1>2 DEF Requests
  <2> QED
    BY <1>2, <2>1 DEF AnswerInv, Issued
<1>4. QueuedOnce' /\ \A r : Queued(r)' => Queued(r) \/ r = n
  BY <1>1, <1>2, <1>3, SendEffect DEF AnswerInv
<1>5. /\ \A r : Owned(r)' <=> Owned(r)
      /\ \A r : Answered(r)' <=> Answered(r)
  BY <1>1 DEF Owned, Answered
<1>6. Issued'
  <2> SUFFICES ASSUME NEW r \in Requests, Queued(r)' \/ Owned(r)' \/ Answered(r)' \/ r \in cancelledReqs'
               PROVE  r <= requests'
    BY DEF Issued
  <2>1. r = n \/ r <= requests
    BY <1>1, <1>4, <1>5 DEF AnswerInv, Issued
  <2> QED
    BY <1>1, <1>2, <2>1 DEF Requests, n
<1>7. QueuedOnly' /\ OwnedUnanswered' /\ CancelUnanswered'
  BY <1>1, <1>2, <1>3, <1>4, <1>5 DEF AnswerInv, QueuedOnly, OwnedUnanswered, CancelUnanswered
<1>8. OwnedOnce' /\ SendersOwn' /\ CancelMarked' /\ AnsweredOnce'
  BY <1>1 DEF AnswerInv, OwnedOnce, SendersOwn, Sending, CancelMarked, AnsweredOnce
<1> QED
  BY <1>4, <1>6, <1>7, <1>8 DEF AnswerInv

\* processCommandBuffer takes a request out of the socket and gives it a RequestInfo.
LEMMA RequestRead ==
    ASSUME KernelTypes, HeapCore, CountTypes, AnswerInv, NEW c \in Clients, inbox[c] # <<>>,
           inbox' = [inbox EXCEPT ![c] = Tail(@)], UNCHANGED <<stream, worker, cancelledReqs, requests>>,
           NEW a \in Addr, newRequest(a, Head(inbox[c]), FALSE)
    PROVE  AnswerInv'
<1> DEFINE h == Head(inbox[c])
<1>1. PICK m \in Requests : m = h /\ Queued(m) /\ ~Queued(m)' /\ InboxShrinks
  BY ReadEffect DEF AnswerInv
<1>2. ~Owned(m) /\ ~Answered(m) /\ m \notin cancelledReqs /\ m <= requests /\ m # Local
  BY <1>1, RequestNumbers DEF AnswerInv, QueuedOnly, Issued
<1>3. Enqueue(a)
  BY <1>1 DEF Enqueue
<1>4. SendersOwn' /\ info[a] = NONE /\ info'[a] \in Infos /\ \A b \in Addr : b # a => info'[b] = info[b]
  BY <1>3, EnqueueEffect, EnqueueOwn DEF HeapCore
<1>5. info'[a].req = m /\ info'[a] # NONE
  <2>1. info' = [info EXCEPT ![a] = [req |-> m, local |-> FALSE, cancelled |-> FALSE]]
    BY <1>1 DEF newRequest
  <2> QED
    BY <1>4, <2>1, NoneIsNothing DEF HeapCore, HeapTypes
<1>6. \A r : Owned(r)' <=> Owned(r) \/ r = m
  BY <1>4, <1>5 DEF Owned
<1>7. \A r : Answered(r)' <=> Answered(r)
  BY DEF Answered
<1>8. Issued' /\ QueuedOnly' /\ OwnedUnanswered'
  BY <1>1, <1>2, <1>6, <1>7 DEF InboxShrinks, AnswerInv, Issued, QueuedOnly, OwnedUnanswered
<1>9. OwnedOnce'
  <2> SUFFICES ASSUME NEW b \in Addr, NEW d \in Addr, info'[b] # NONE, info'[d] # NONE,
                      info'[b].req = info'[d].req, info'[b].req # Local, b # d
               PROVE  FALSE
    BY DEF OwnedOnce
  <2>1. CASE b = a
    BY <1>2, <1>4, <1>5, <2>1 DEF Owned
  <2>2. CASE d = a
    BY <1>2, <1>4, <1>5, <2>2 DEF Owned
  <2>3. CASE b # a /\ d # a
    BY <1>4, <2>3 DEF AnswerInv, OwnedOnce
  <2> QED
    BY <2>1, <2>2, <2>3
<1>10. CancelMarked'
  BY <1>2, <1>4, <1>5 DEF AnswerInv, CancelMarked
<1>11. CancelUnanswered' /\ AnsweredOnce' /\ QueuedOnce'
  BY <1>1, <1>7 DEF InboxShrinks, AnswerInv, CancelUnanswered, AnsweredOnce
<1> QED
  BY <1>4, <1>8, <1>9, <1>10, <1>11 DEF AnswerInv

\* The body of a response is written and its RequestInfo is freed.
LEMMA AnswerSent ==
    ASSUME KernelTypes, HeapCore, CountTypes, AnswerInv, s_fdCommand \in FdNums \cup {-1},
           UNCHANGED <<inbox, cancelledReqs, requests>>,
           NEW t \in Threads, NEW p \in Peers, Release(t), SendsBody(t, p)
    PROVE  AnswerInv'
<1> DEFINE m == worker[t].msg  a == worker[t].addr
<1>0. worker \in [Threads -> Works] /\ Sending(t) /\ Write(t, "body", p)
  BY DEF HeapCore, HeapTypes, SendsBody, Sending
<1>1. InboxShrinks
  BY NothingRead
<1>2. /\ SendersOwn'
      /\ \A b \in Addr : info'[b] # NONE => info'[b] = info[b] /\ b # a
  BY ReleaseOwn
<1>3. CASE m \notin Requests
  <2>1. AnswersSame
    BY <1>0, <1>3, AnswerEffect DEF AnswerInv, AnswersSame
  <2> QED
    BY <1>1, <1>2, <2>1, AnswerKept DEF HeapCore
<1>4. CASE m \in Requests
  <2>1. a # NONE /\ info[a].req = m /\ m \notin cancelledReqs
    BY <1>0, <1>4 DEF AnswerInv, SendersOwn
  <2>2. a \in Addr /\ info[a] # NONE
    BY <1>0, <2>1 DEF HeapCore, OwnersApart, Works
  <2>3. Owned(m) /\ ~Answered(m) /\ ~Queued(m) /\ m <= requests /\ m # Local
    <3>1. Owned(m)
      BY <2>1, <2>2 DEF Owned
    <3> QED
      BY <1>4, <3>1, RequestNumbers DEF AnswerInv, OwnedUnanswered, QueuedOnly, Issued
  <2> HIDE DEF m, a
  <2>4. AnsweredOnce' /\ \A r : Answered(r)' <=> Answered(r) \/ r = m
    BY <1>0, <2>3, AnswerEffect DEF AnswerInv, m
  <2>5. \A b \in Addr : info'[b] # NONE => info'[b].req # m
    BY <1>2, <2>1, <2>2, <2>3 DEF AnswerInv, OwnedOnce
  <2>6. \A r : Owned(r)' => Owned(r) /\ r # m
    BY <1>2, <2>5 DEF Owned
  <2>7. Issued' /\ QueuedOnly' /\ OwnedUnanswered'
    BY <1>1, <2>3, <2>4, <2>6 DEF InboxShrinks, AnswerInv, Issued, QueuedOnly, OwnedUnanswered
  <2>8. OwnedOnce' /\ CancelMarked'
    BY <1>2 DEF AnswerInv, OwnedOnce, CancelMarked
  <2>9. CancelUnanswered'
    BY <2>1, <2>4 DEF AnswerInv, CancelUnanswered
  <2> QED
    BY <1>1, <1>2, <2>4, <2>7, <2>8, <2>9 DEF InboxShrinks, AnswerInv
<1> QED
  BY <1>3, <1>4

LEMMA FinishIsQuiet ==
    ASSUME HeapTypes, NEW t \in Threads, worker[t].st # "idle", Finish(t), UNCHANGED s_pendingRequests
    PROVE  NoNewRequest /\ Release(t)
<1>1. Release(t)
  BY DEF Release
<1> QED
  BY <1>1, ReleaseEffect DEF NoNewRequest

LEMMA LocalIsQuiet ==
    ASSUME HeapTypes, NEW a \in Addr, issueLocalRequest(a)
    PROVE  NoNewRequest
<1> DEFINE i == [req |-> Local, local |-> TRUE, cancelled |-> FALSE]
<1>1. info' = [info EXCEPT ![a] = i] /\ i.req = Local
  BY DEF issueLocalRequest, newRequest
<1> HIDE DEF i
<1> QED
  BY <1>1 DEF NoNewRequest, HeapTypes

LEMMA AnswerSend ==
    ASSUME LoopTypes, KernelTypes, HeapCore, CountTypes, AnswerInv, ThreadStep,
           NEW t \in Threads, SendStep(t)
    PROVE  AnswerInv'
<1>0. /\ HeapTypes /\ worker \in [Threads -> Works] /\ s_fdCommand \in FdNums \cup {-1}
      /\ worker[t].st # "idle"
  BY DEF HeapCore, HeapTypes, LoopTypes, SendStep, CaptureFd, WriteHeader, WriteBody, RIL_onRequestComplete
<1>1. UNCHANGED <<inbox, cancelledReqs, requests, s_pendingRequests>>
  BY DEF SendStep, CaptureFd, WriteHeader, WriteBody, RIL_onRequestComplete, kernelVars
<1>2. UNCHANGED info => NoNewRequest
  BY DEF NoNewRequest
<1>3. UNCHANGED info \/ Finish(t)
  BY DEF SendStep, CaptureFd, WriteHeader, WriteBody, RIL_onRequestComplete
<1>4. NoNewRequest /\ InboxShrinks
  BY <1>0, <1>1, <1>2, <1>3, FinishIsQuiet, NothingRead
<1>5. UNCHANGED stream => AnswerInv'
  BY <1>0, <1>1, <1>4, NothingWritten, AnswerThread
<1>6. CASE CaptureFd(t) \/ RIL_onRequestComplete(t)
  BY <1>5, <1>6 DEF CaptureFd, RIL_onRequestComplete, kernelVars
<1>7. CASE WriteHeader(t)
  <2>1. UNCHANGED <<client, session, inbox>> /\ writeTo(t, "header")
    BY <1>7 DEF WriteHeader
  <2>2. CASE ~Writable(worker[t].fd)
    BY <1>0, <1>5, <2>1, <2>2, WriteEffect
  <2>3. CASE Writable(worker[t].fd)
    <3>1. PICK p \in Peers : Write(t, "header", p)
      BY <1>0, <2>1, <2>3, WriteEffect
    <3>2. AnswersSame
      BY <1>0, <3>1, AnswerEffect DEF AnswerInv, AnswersSame
    <3> QED
      BY <1>0, <1>1, <1>4, <3>2, AnswerThread
  <2> QED
    BY <2>2, <2>3
<1>8. CASE WriteBody(t)
  <2>1. UNCHANGED <<client, session, inbox>> /\ writeTo(t, "body") /\ Finish(t) /\ worker[t].st = "body"
    BY <1>8 DEF WriteBody
  <2>2. CASE ~Writable(worker[t].fd)
    BY <1>0, <1>5, <2>1, <2>2, WriteEffect
  <2>3. CASE Writable(worker[t].fd)
    <3>1. PICK p \in Peers : Write(t, "body", p)
      BY <1>0, <2>1, <2>3, WriteEffect
    <3>2. Release(t)
      BY <1>0, <1>1, <2>1, FinishIsQuiet
    <3>3. worker'[t].st = "idle" /\ \A u \in Threads : u # t => worker'[u] = worker[u]
      BY <1>0, <3>2, ReleaseEffect, IdleIsWork
    <3>4. SendsBody(t, p)
      BY <2>1, <3>1, <3>3 DEF SendsBody
    <3> QED
      BY <1>0, <1>1, <3>2, <3>4, AnswerSent
  <2> QED
    BY <2>2, <2>3
<1> QED
  BY <1>6, <1>7, <1>8 DEF SendStep

LEMMA AnswerStep ==
    ASSUME LoopTypes, KernelTypes, HeapCore, CountTypes, LoopQuiet, AnswerInv, [Next]_vars
    PROVE  AnswerInv'
<1>0. /\ TypeOK /\ HeapTypes /\ s_fdCommand \in FdNums \cup {-1}
  BY TypeParts DEF HeapCore, LoopTypes
<1>1. ThreadStep
  BY <1>0, NextIsThreadStep
<1>2. ASSUME UNCHANGED <<stream, requests>>, InboxShrinks, Cancel \/ UNCHANGED cancelledReqs, NoNewRequest
      PROVE  AnswerInv'
  BY <1>0, <1>1, <1>2, NothingWritten, AnswerThread
<1>3. UNCHANGED info => NoNewRequest
  BY DEF NoNewRequest
<1>4. UNCHANGED inbox => InboxShrinks
  BY NothingRead
<1>5. UNCHANGED kernelVars => UNCHANGED <<inbox, stream>>
  BY DEF kernelVars
<1>6. UNCHANGED reqVars => UNCHANGED <<info, requests, cancelledReqs>>
  BY DEF reqVars
<1>7. Cancel => NoNewRequest
  <2> SUFFICES ASSUME Cancel PROVE NoNewRequest
    OBVIOUS
  <2>1. \A a \in Addr : (Listed(a) => info[a] \in Infos) /\ (~Listed(a) => info'[a] = info[a])
    BY CancelEffect DEF HeapCore
  <2> QED
    BY <2>1, NoneIsNothing DEF NoNewRequest
<1>8. CASE RegisterStep \/ UNCHANGED vars
  BY <1>2, <1>3, <1>4, <1>5, <1>6, <1>8 DEF RegisterStep, RegisterListen, RegisterDebug, vars
<1>9. CASE PeerStep
  <2>1. ASSUME NEW c \in Clients, ClientConnects(c) \/ ClientCloses(c) PROVE AnswerInv'
    BY <1>2, <1>3, <1>4, <1>6, <2>1 DEF ClientConnects, ClientCloses
  <2>2. ASSUME NEW d \in Sessions, SessionConnects(d) \/ SessionCloses(d) PROVE AnswerInv'
    BY <1>2, <1>3, <1>4, <1>6, <2>2 DEF SessionConnects, SessionCloses
  <2> QED
    BY <1>9, <2>1, <2>2, RequestSent DEF PeerStep
<1>10. ASSUME NEW t \in Threads, VendorCall(t) PROVE AnswerInv'
  <2>1. UNCHANGED <<info, inbox, stream, cancelledReqs, requests>>
    BY <1>5, <1>6, <1>10 DEF VendorCall, VendorUnsolicited, VendorCompletes
  <2> QED
    BY <1>2, <1>3, <1>4, <2>1
<1>11. CASE LoopStep
  <2>1. CASE Poll \/ PollFails \/ firePending \/ ListenAcceptFails \/ ListenPhone \/ CommandsAbort
    BY <1>2, <1>3, <1>4, <1>5, <1>6, <2>1
       DEF Poll, PollFails, firePending, ListenAcceptFails, ListenPhone, CommandsAbort
  <2>2. CASE onNewCommandConnect \/ CommandsDrained \/ DebugFails
    BY <1>2, <1>3, <1>4, <1>5, <1>6, <2>2 DEF onNewCommandConnect, CommandsDrained, DebugFails
  <2>3. CASE ListenAccept \/ CommandsClosed \/ DebugAccept \/ DebugEnd
    BY <1>2, <1>3, <1>4, <1>6, <2>3 DEF ListenAccept, CommandsClosed, DebugAccept, DebugEnd
  <2>4. CASE DispatcherCompletes
    BY <1>2, <1>3, <1>4, <1>5, <2>4 DEF DispatcherCompletes
  <2>5. CASE ListenOther \/ onCommandsSocketClosed
    BY <1>2, <1>4, <1>5, <1>7, <2>5 DEF ListenOther, onCommandsSocketClosed, Cancel
  <2>6. CASE DebugOption \/ DebugSecondRequest
    <3>1. UNCHANGED <<inbox, stream, requests, cancelledReqs>>
      BY <1>5, <2>6 DEF DebugOption, DebugSecondRequest
    <3>2. UNCHANGED info \/ \E a \in Addr : issueLocalRequest(a)
      BY <2>6 DEF DebugOption, DebugSecondRequest
    <3> QED
      BY <1>0, <1>2, <1>3, <1>4, <3>1, <3>2, LocalIsQuiet
  <2>7. CASE processCommandBuffer
    <3>1. /\ ReadPeer \in Clients /\ inbox[ReadPeer] # <<>> /\ UNCHANGED <<stream, cancelledReqs, requests>>
          /\ inbox' = [inbox EXCEPT ![ReadPeer] = Tail(@)]
      BY <2>7 DEF processCommandBuffer
    <3>2. InboxShrinks
      BY <3>1, ReadEffect DEF AnswerInv
    <3>3. CASE UNCHANGED info
      BY <1>2, <1>3, <3>1, <3>2, <3>3
    <3>4. ASSUME NEW a \in Addr, newRequest(a, Head(inbox[ReadPeer]), FALSE), UNCHANGED worker
          PROVE  AnswerInv'
      BY <3>1, <3>4, RequestRead
    <3> QED
      BY <2>7, <3>3, <3>4 DEF processCommandBuffer
  <2>8. CASE Restart
    <3>1. InboxShrinks
      <4>1. \A c \in Clients : Len(inbox'[c]) = 0
        BY <2>8 DEF Restart
      <4> QED
        BY <4>1 DEF InboxShrinks, QueuedOnce, Queued
    <3>2. NoNewRequest /\ UNCHANGED <<stream, requests, cancelledReqs>>
      BY <2>8 DEF Restart, NoNewRequest
    <3> QED
      BY <1>2, <3>1, <3>2
  <2> QED
    BY <1>11, <2>1, <2>2, <2>3, <2>4, <2>5, <2>6, <2>7, <2>8 DEF LoopStep
<1> QED
  BY <1>1, <1>8, <1>9, <1>10, <1>11, AnswerSend DEF Next

-----------------------------------------------------------------------------
(* The tokens and the counters. *)

LEMMA DispatchEffect ==
    ASSUME held \subseteq Addr, todo \in Seq(Addr), NEW a \in Addr, dispatch(a)
    PROVE  held' \subseteq Addr /\ todo' \in Seq(Addr)
<1>1. Append(todo, a) \in Seq(Addr) /\ todo \o <<a, a>> \in Seq(Addr)
  OBVIOUS
<1> QED
  BY <1>1 DEF dispatch

LEMMA CountStep ==
    ASSUME KernelTypes, HeapCore, CountTypes, [Next]_vars
    PROVE  CountTypes'
<1> DEFINE Tokens == held' \subseteq Addr /\ todo' \in Seq(Addr)
           Kept == UNCHANGED <<cancelledReqs, sender, requests>>
           Faults == faults' = faults \/ (faults < MaxFaults /\ faults' = faults + 1)
<1>1. ASSUME Tokens, Kept, Faults, UNCHANGED unsols PROVE CountTypes'
  BY <1>1, BoundsAssumption DEF CountTypes
<1>2. UNCHANGED reqVars => Tokens /\ Kept
  BY DEF reqVars, CountTypes
<1>3. UNCHANGED <<held, todo>> => Tokens
  BY DEF CountTypes
<1>4. CASE RegisterStep \/ UNCHANGED vars
  BY <1>1, <1>2, <1>4 DEF RegisterStep, RegisterListen, RegisterDebug, vars
<1>5. CASE PeerStep
  <2>1. ASSUME NEW c \in Clients, ClientConnects(c) \/ ClientCloses(c) PROVE CountTypes'
    BY <1>1, <1>2, <2>1 DEF ClientConnects, ClientCloses
  <2>2. ASSUME NEW d \in Sessions, SessionConnects(d) \/ SessionCloses(d) PROVE CountTypes'
    BY <1>1, <1>2, <2>2 DEF SessionConnects, SessionCloses
  <2>3. ASSUME NEW c \in Clients, ClientSends(c) PROVE CountTypes'
    <3>1. /\ UNCHANGED <<held, todo, cancelledReqs, unsols, faults>> /\ requests < MaxRequests
          /\ requests' = requests + 1 /\ sender' = [sender EXCEPT ![requests + 1] = c]
      BY <2>3 DEF ClientSends
    <3>2. sender' \in [Requests -> Clients \cup {NONE}]
      BY <3>1 DEF CountTypes
    <3>3. requests' \in 0 .. MaxRequests
      BY <3>1, BoundsAssumption DEF CountTypes
    <3> QED
      BY <3>1, <3>2, <3>3 DEF CountTypes
  <2> QED
    BY <1>5, <2>1, <2>2, <2>3 DEF PeerStep
<1>6. ASSUME NEW t \in Threads, SendStep(t) PROVE CountTypes'
  BY <1>1, <1>3, <1>6 DEF SendStep, CaptureFd, WriteHeader, WriteBody, RIL_onRequestComplete
<1>7. ASSUME NEW t \in Threads, VendorCall(t) PROVE CountTypes'
  <2>1. CASE VendorUnsolicited(t)
    BY <2>1, BoundsAssumption DEF VendorUnsolicited, reqVars, CountTypes
  <2>2. ASSUME NEW a \in Addr, VendorCompletes(t, a) PROVE CountTypes'
    BY <1>1, <2>2 DEF VendorCompletes, CountTypes
  <2> QED
    BY <1>7, <2>1, <2>2 DEF VendorCall
<1>8. CASE LoopStep
  <2>1. CASE Poll \/ PollFails \/ firePending \/ ListenAcceptFails \/ ListenPhone \/ CommandsAbort
    BY <1>1, <1>2, <2>1 DEF Poll, PollFails, firePending, ListenAcceptFails, ListenPhone, CommandsAbort
  <2>2. CASE onNewCommandConnect \/ CommandsDrained \/ DebugFails \/ ListenAccept
    BY <1>1, <1>2, <2>2 DEF onNewCommandConnect, CommandsDrained, DebugFails, ListenAccept
  <2>3. CASE CommandsClosed \/ DebugAccept \/ DebugEnd
    BY <1>1, <1>2, <2>3 DEF CommandsClosed, DebugAccept, DebugEnd
  <2>4. CASE DispatcherCompletes
    <3>1. Tail(todo) \in Seq(Addr)
      BY <2>4 DEF DispatcherCompletes, CountTypes
    <3> QED
      BY <1>1, <2>4, <3>1 DEF DispatcherCompletes, CountTypes
  <2>5. CASE ListenOther \/ onCommandsSocketClosed
    <3>1. Cancel /\ UNCHANGED <<held, todo, sender, requests, unsols, faults>>
      BY <2>5 DEF ListenOther, onCommandsSocketClosed, Cancel
    <3>2. /\ \A a \in Addr : Listed(a) => info[a] \in Infos
          /\ cancelledReqs' = cancelledReqs \cup ({info[a].req : a \in {b \in Addr : Listed(b)}} \ {Local})
      BY <3>1, CancelEffect DEF HeapCore
    <3>3. \A a \in Addr : Listed(a) => info[a].req \in Requests \cup {Local}
      BY <3>2 DEF Infos
    <3>4. cancelledReqs' \subseteq Requests
      BY <3>2, <3>3 DEF CountTypes
    <3> QED
      BY <3>1, <3>4 DEF CountTypes
  <2>6. CASE DebugOption \/ DebugSecondRequest
    <3>1. Kept /\ UNCHANGED <<unsols, faults>>
      BY <2>6 DEF DebugOption, DebugSecondRequest
    <3>2. UNCHANGED <<held, todo>> \/ \E a \in Addr : issueLocalRequest(a)
      BY <2>6 DEF DebugOption, DebugSecondRequest
    <3>3. \A a \in Addr : issueLocalRequest(a) => dispatch(a)
      BY DEF issueLocalRequest, dispatch
    <3>4. Tokens
      BY <1>3, <3>2, <3>3, DispatchEffect DEF CountTypes
    <3> QED
      BY <1>1, <3>1, <3>4
  <2>7. CASE processCommandBuffer
    <3>1. Kept /\ UNCHANGED <<unsols, faults>> /\ (UNCHANGED <<held, todo>> \/ \E a \in Addr : dispatch(a))
      BY <2>7 DEF processCommandBuffer
    <3>2. Tokens
      BY <1>3, <3>1, DispatchEffect DEF CountTypes
    <3> QED
      BY <1>1, <3>1, <3>2
  <2>8. CASE Restart
    <3>1. <<>> \in Seq(Addr)
      BY EmptyEffect
    <3> QED
      BY <1>1, <2>8, <3>1 DEF Restart
  <2> QED
    BY <1>8, <2>1, <2>2, <2>3, <2>4, <2>5, <2>6, <2>7, <2>8 DEF LoopStep
<1> QED
  BY <1>4, <1>5, <1>6, <1>7, <1>8 DEF Next

-----------------------------------------------------------------------------
(* The invariant holds. *)

LEMMA HeapParts == HeapTypes => (HeapInv <=> LoopQuiet /\ HeapCore)
BY IntegrityParts DEF HeapInv, HeapCore, DequeuedOwns, LocalMarked, NoLocalSend

LEMMA InitInv == Init => IInv
<1> SUFFICES ASSUME Init PROVE IInv
  OBVIOUS
<1>1. \A S : <<>> \in Seq(S)
  BY EmptyEffect
<1>2. Len(s_pendingRequests) = 0 /\ s_pendingRequests \in Seq(Addr)
      /\ Len(pending_list) = 0 /\ pending_list \in Seq(Events) /\ todo \in Seq(Addr)
  BY DEF Init
<1>3. /\ \A t \in Threads : worker[t] = Idle
      /\ \A a \in Addr : info[a] = NONE
      /\ \A s \in Slots : watch_table[s] = NONE
      /\ \A f \in FdNums : file[f] = NONE
      /\ \A c \in Clients : Len(inbox[c]) = 0
      /\ \A p \in Peers : stream[p] = <<>> /\ Len(stream[p]) = 0
  BY DEF Init
<1>4. LoopTypes
  BY <1>2 DEF Init, LoopTypes
<1>5. KernelTypes
  BY <1>1 DEF Init, KernelTypes, Statuses
<1>6. HeapTypes
  BY <1>2, IdleIsWork DEF Init, HeapTypes
<1>7. CountTypes
  BY <1>2, BoundsAssumption DEF Init, CountTypes
<1>8. HeapInv
  <2>1. LoopQuiet
    BY <1>3 DEF LoopQuiet, LoopIdle, Threads
  <2>2. Distinct /\ ListedLive /\ LocalMarked
    BY <1>2, <1>3 DEF Distinct, ListedLive, LocalMarked, Listed
  <2>3. OwnersApart /\ DequeuedOwns /\ NoLocalSend
    BY <1>3, IdleIsWork, NoneIsNothing DEF OwnersApart, DequeuedOwns, NoLocalSend, Sending
  <2> QED
    BY <1>6, <2>1, <2>2, <2>3, HeapParts DEF HeapCore
<1>9. EventInv
  <2>1. TableDistinct(watch_table) /\ \A ev \in Events : ~Watched(ev)
    BY <1>3, NoneIsNoEvent DEF TableDistinct, Watched, In
  <2>2. AllDiffer(pending_list) /\ \A ev \in Events : ~Waits(ev)
    BY <1>2 DEF AllDiffer, Waits, Has
  <2>3. pc = "poll" /\ s_fdCommand = -1 /\ registered = 0
    BY DEF Init
  <2> QED
    BY <2>1, <2>2, <2>3, EventNames DEF EventInv, InDebug
<1>10. FrameInv
  <2>1. OneWriter /\ OneDescriptor
    BY <1>3, IdleIsWork DEF OneWriter, OneDescriptor
  <2>2. FreshPeers
    BY <1>3, NoneIsNothing DEF FreshPeers
  <2>3. HeadersFollowed
    BY <1>3 DEF HeadersFollowed, EndsInHeader
  <2>4. FramesWhole /\ LocalSilent
    BY <1>3 DEF FramesWhole, LocalSilent
  <2> QED
    BY <2>1, <2>2, <2>3, <2>4 DEF FrameInv
<1>11. AnswerInv
  <2>1. \A r : ~Queued(r) /\ ~Owned(r) /\ ~Answered(r)
    BY <1>3 DEF Queued, Owned, Answered
  <2>2. cancelledReqs = {}
    BY DEF Init
  <2>3. QueuedOnce /\ OwnedOnce /\ SendersOwn /\ CancelMarked /\ AnsweredOnce
    BY <1>3, IdleIsWork DEF QueuedOnce, OwnedOnce, SendersOwn, Sending, CancelMarked, AnsweredOnce
  <2> QED
    BY <2>1, <2>2, <2>3 DEF AnswerInv, Issued, QueuedOnly, OwnedUnanswered, CancelUnanswered
<1> QED
  BY <1>4, <1>5, <1>6, <1>7, <1>8, <1>9, <1>10, <1>11, TypeParts DEF IInv

LEMMA StepInv ==
    ASSUME IInv, [Next]_vars
    PROVE  IInv'
<1>1. LoopTypes /\ KernelTypes /\ HeapTypes /\ CountTypes /\ LoopQuiet /\ HeapCore
  BY TypeParts, HeapParts DEF IInv
<1>2. worker \in [Threads -> Works] /\ NoLocalSend /\ s_fdCommand \in FdNums \cup {-1}
  BY <1>1 DEF HeapTypes, HeapCore, LoopTypes
<1>3. ThreadStep
  BY NextIsThreadStep, <1>1 DEF IInv
<1>4. HeapCore'
  BY <1>1, <1>2, <1>3, HeapStep
<1>5. LoopTypes' /\ EventInv'
  BY <1>1, EventStep DEF IInv
<1>6. LoopQuiet'
  BY <1>1, <1>2, QuietStep
<1>7. KernelTypes' /\ SocketStep
  BY <1>1, NextIsSocketStep
<1>8. FrameInv'
  BY <1>1, <1>2, <1>7, FrameStep DEF IInv
<1>9. AnswerInv'
  BY <1>1, AnswerStep DEF IInv
<1>10. CountTypes'
  BY <1>1, CountStep
<1>11. HeapTypes'
  BY <1>4 DEF HeapCore
<1>12. TypeOK'
  BY <1>5, <1>7, <1>10, <1>11, TypeParts, PTL
<1>13. HeapInv'
  BY <1>4, <1>6, <1>11, HeapParts, PTL
<1> QED
  BY <1>5, <1>8, <1>9, <1>12, <1>13 DEF IInv

LEMMA Invariance == Spec => []IInv
<1>1. IInv /\ [Next]_vars => IInv'
  BY StepInv
<1> QED
  BY InitInv, <1>1, PTL DEF Spec

-----------------------------------------------------------------------------
(* What is left in the list when no connection is served. *)

\* The command connection is watched, or was closed and its requests are not yet marked.
Served == Watched("commands") \/ pc = "cancel"
AllFlagged == \A a \in Addr : Listed(a) => info[a].local \/ info[a].cancelled
NoneLeft == ~Served => AllFlagged

\* Only processCommandBuffer makes a request for a client.
LEMMA OthersMakeNone ==
    ASSUME LoopTypes, HeapCore, [Next]_vars
    PROVE  NoNewRequest \/ processCommandBuffer \/ Cancel \/ Reset
<1>1. UNCHANGED info => NoNewRequest
  BY DEF NoNewRequest
<1>2. ASSUME NEW t \in Threads, VendorCall(t) PROVE UNCHANGED info
  BY <1>2 DEF VendorCall, VendorUnsolicited, VendorCompletes, reqVars
<1>3. ASSUME NEW t \in Threads, SendStep(t) PROVE NoNewRequest
  <2>1. worker[t].st # "idle" /\ UNCHANGED s_pendingRequests
    BY <1>3 DEF SendStep, CaptureFd, WriteHeader, WriteBody, RIL_onRequestComplete
  <2>2. UNCHANGED info \/ Finish(t)
    BY <1>3 DEF SendStep, CaptureFd, WriteHeader, WriteBody, RIL_onRequestComplete
  <2> QED
    BY <1>1, <2>1, <2>2, FinishIsQuiet DEF HeapCore
<1>4. RegisterStep \/ PeerStep \/ UNCHANGED vars => UNCHANGED info
  BY DEF RegisterStep, RegisterListen, RegisterDebug, PeerStep, ClientConnects, ClientSends,
         ClientCloses, SessionConnects, SessionCloses, vars, reqVars
<1>5. CASE LoopStep
  <2>1. CASE Poll \/ PollFails \/ firePending \/ ListenAccept \/ ListenAcceptFails \/ ListenPhone \/ CommandsAbort
    BY <1>1, <2>1 DEF Poll, PollFails, firePending, ListenAccept, ListenAcceptFails, ListenPhone,
                      CommandsAbort, reqVars
  <2>2. CASE onNewCommandConnect \/ CommandsDrained \/ CommandsClosed \/ DispatcherCompletes
    BY <1>1, <2>2 DEF onNewCommandConnect, CommandsDrained, CommandsClosed, DispatcherCompletes, reqVars
  <2>3. CASE DebugAccept \/ DebugFails \/ DebugEnd
    BY <1>1, <2>3 DEF DebugAccept, DebugFails, DebugEnd, reqVars
  <2>4. CASE ListenOther \/ onCommandsSocketClosed
    BY <2>4 DEF ListenOther, onCommandsSocketClosed, Cancel
  <2>5. CASE DebugOption \/ DebugSecondRequest
    <3>1. UNCHANGED info \/ \E a \in Addr : issueLocalRequest(a)
      BY <2>5 DEF DebugOption, DebugSecondRequest
    <3> QED
      BY <1>1, <3>1, LocalIsQuiet DEF HeapCore
  <2>6. CASE Restart
    BY <2>6 DEF Restart, Reset
  <2> QED
    BY <1>5, <2>1, <2>2, <2>3, <2>4, <2>5, <2>6 DEF LoopStep
<1> QED
  BY <1>1, <1>2, <1>3, <1>4, <1>5 DEF Next

\* A connection ceases to be served only by the marking and the restart.
LEMMA ServedUntilMarked ==
    ASSUME LoopTypes, EventInv, Served, [Next]_vars
    PROVE  Served' \/ Cancel \/ Reset
<1>1. CASE UNCHANGED <<watch_table, pc>>
  BY <1>1 DEF Served, Watched
<1>2. ASSUME UNCHANGED watch_table, pc # "cancel" PROVE Served'
  BY <1>2 DEF Served, Watched
<1>3. ASSUME NEW t \in Threads, SendStep(t) \/ VendorCall(t)
      PROVE  UNCHANGED <<watch_table, pc>>
  BY <1>3 DEF SendStep, VendorCall, CaptureFd, WriteHeader, WriteBody, RIL_onRequestComplete,
              VendorUnsolicited, VendorCompletes, connVars, loopVars
<1>4. PeerStep \/ UNCHANGED vars \/ processCommandBuffer \/ DispatcherCompletes => UNCHANGED <<watch_table, pc>>
  BY DEF PeerStep, ClientConnects, ClientSends, ClientCloses, SessionConnects, SessionCloses, vars,
         processCommandBuffer, DispatcherCompletes, connVars, loopVars
<1>5. CASE RegisterListen
  BY <1>5, EventNames DEF RegisterListen, EventInv, Served
<1>6. CASE RegisterDebug
  <2>1. registered = 1 /\ watch_table' = eventAdd(watch_table, "debug") /\ pc' = pc
    BY <1>6 DEF RegisterDebug
  <2>2. ~Watched("debug")
    BY <2>1 DEF EventInv
  <2>3. In(watch_table, NONE)
    BY <2>2, FreeSlot DEF LoopTypes, EventInv, Watched
  <2>4. Watched("commands")' <=> Watched("commands")
    BY <2>1, <2>3, AddEffect, EventNames DEF LoopTypes, Watched
  <2> QED
    BY <2>1, <2>4 DEF Served
<1>7. CASE Poll
  <2>1. /\ pc = "poll"
        /\ watch_table' = IF EventReady("listen") THEN eventDel(watch_table, "listen") ELSE watch_table
    BY <1>7 DEF Poll
  <2>2. Watched("commands")' <=> Watched("commands")
    BY <2>1, DelEffect, EventNames DEF LoopTypes, Watched
  <2> QED
    BY <2>1, <2>2 DEF Served
<1>8. CASE PollFails \/ firePending \/ onNewCommandConnect \/ CommandsAbort \/ CommandsDrained
  BY <1>2, <1>8 DEF PollFails, firePending, onNewCommandConnect, CommandsAbort, CommandsDrained, CanRead,
                    connVars
<1>9. CASE DebugAccept \/ DebugFails \/ DebugOption \/ DebugSecondRequest \/ DebugEnd
  BY <1>2, <1>9 DEF DebugAccept, DebugFails, DebugOption, DebugSecondRequest, DebugEnd, connVars
<1>10. CASE ListenAccept \/ ListenAcceptFails \/ ListenPhone
  BY <1>10 DEF ListenAccept, ListenAcceptFails, ListenPhone, EventInv, Served
<1>11. CASE CommandsClosed
  BY <1>11 DEF CommandsClosed, Served
<1>12. CASE ListenOther \/ onCommandsSocketClosed
  BY <1>12 DEF ListenOther, onCommandsSocketClosed, Cancel
<1>13. CASE Restart
  BY <1>13 DEF Restart, Reset
<1> QED
  BY <1>1, <1>3, <1>4, <1>5, <1>6, <1>7, <1>8, <1>9, <1>10, <1>11, <1>12, <1>13
     DEF Next, LoopStep, RegisterStep

\* The marking flags the whole list, and the restart empties it.
LEMMA CancelFlags ==
    ASSUME HeapTypes, ListedLive, Cancel \/ Reset
    PROVE  AllFlagged'
<1>1. CASE Cancel
  <2>1. /\ UNCHANGED s_pendingRequests
        /\ \A a \in Addr : Listed(a) => info'[a].cancelled
    BY <1>1, CancelEffect
  <2>2. \A a \in Addr : Listed(a)' <=> Listed(a)
    BY <2>1 DEF Listed
  <2> QED
    BY <2>1, <2>2 DEF AllFlagged
<1>2. CASE Reset
  <2>1. Len(s_pendingRequests') = 0
    BY <1>2 DEF Reset
  <2> QED
    BY <2>1 DEF AllFlagged, Listed
<1> QED
  BY <1>1, <1>2

\* The list keeps its flags as long as no client's request is added.
LEMMA FlagsKept ==
    ASSUME HeapCore, s_fdCommand \in FdNums \cup {-1}, ThreadStep, AllFlagged, NoNewRequest
    PROVE  AllFlagged'
<1>0. HeapTypes /\ ListedLive /\ OwnersApart /\ DequeuedOwns
  BY DEF HeapCore
<1>1. ASSUME UNCHANGED <<info, s_pendingRequests>> PROVE AllFlagged'
  BY <1>1 DEF AllFlagged, Listed
<1>2. ASSUME NEW t \in Threads, Release(t) PROVE AllFlagged'
  <2>1. /\ UNCHANGED s_pendingRequests
        /\ \A a \in Addr : info'[a] = (IF a = worker[t].addr THEN NONE ELSE info[a])
    BY <1>0, <1>2, ReleaseEffect
  <2>2. \A a \in Addr : Listed(a)' <=> Listed(a)
    BY <2>1 DEF Listed
  <2>3. \A a \in Addr : Listed(a) => a # worker[t].addr
    BY <1>0, NoneIsNothing DEF OwnersApart, Listed
  <2> QED
    BY <2>1, <2>2, <2>3 DEF AllFlagged
<1>3. ASSUME NEW a \in Addr, Enqueue(a) PROVE AllFlagged'
  <2>1. /\ info[a] = NONE /\ info'[a] \in Infos
        /\ info'[a].local <=> info'[a].req = Local
        /\ \A b \in Addr : b # a => info'[b] = info[b]
        /\ \A b \in Addr : Listed(b)' <=> b = a \/ Listed(b)
    BY <1>0, <1>3, EnqueueEffect
  <2>2. info'[a].local
    BY <2>1, NoneIsNothing DEF NoNewRequest
  <2>3. \A b \in Addr : Listed(b)' => info'[b].local \/ info'[b].cancelled
    BY <2>1, <2>2 DEF AllFlagged
  <2> QED
    BY <2>3 DEF AllFlagged
<1>4. ASSUME NEW t \in Threads, NEW a \in Addr, Dequeue(t, a) PROVE AllFlagged'
  <2>1. UNCHANGED info /\ \A b \in Addr : Listed(b)' => Listed(b)
    BY <1>0, <1>4, DequeueEffect
  <2> QED
    BY <2>1 DEF AllFlagged
<1>5. ASSUME NEW t \in Threads, BeginSend(t) \/ BeginAnswer(t) \/ Capture(t) \/ TakeMutex(t)
      PROVE  UNCHANGED <<info, s_pendingRequests>>
  BY <1>5 DEF BeginSend, BeginAnswer, Capture, TakeMutex
<1>6. Same => UNCHANGED <<info, s_pendingRequests>>
  BY DEF Same
<1>7. CASE Cancel \/ Reset
  BY <1>0, <1>7, CancelFlags
<1> QED
  BY <1>1, <1>2, <1>3, <1>4, <1>5, <1>6, <1>7 DEF ThreadStep

LEMMA NoneLeftStep ==
    ASSUME IInv, NoneLeft, [Next]_vars
    PROVE  NoneLeft'
<1>1. LoopTypes /\ HeapTypes /\ HeapCore /\ EventInv /\ LoopQuiet /\ TypeOK /\ s_fdCommand \in FdNums \cup {-1}
  BY TypeParts, HeapParts DEF IInv, LoopTypes
<1>2. ThreadStep
  BY <1>1, NextIsThreadStep
<1>3. CASE Cancel \/ Reset
  BY <1>1, <1>3, CancelFlags DEF NoneLeft, HeapCore
<1>4. CASE Served /\ Served'
  BY <1>4 DEF NoneLeft
<1>5. CASE ~Served /\ NoNewRequest
  BY <1>1, <1>2, <1>5, FlagsKept DEF NoneLeft
<1>6. processCommandBuffer => Served
  BY <1>1 DEF processCommandBuffer, CanRead, EventInv, Served
<1> QED
  BY <1>1, <1>3, <1>4, <1>5, <1>6, OthersMakeNone, ServedUntilMarked

-----------------------------------------------------------------------------
(* The results. *)

\* The variables of the command channel keep their types: no descriptor, heap address,
\* request number or message outside its range, no counter past its bound.
THEOREM DaemonTypes == Spec => []TypeOK
<1>1. IInv => TypeOK
  BY DEF IInv
<1> QED
  BY Invariance, <1>1, PTL

\* RIL_onRequestComplete, the loop thread and the vendor threads never use a freed
\* RequestInfo, free one twice or leave one in s_pendingRequests, for any number of
\* threads and whatever addresses calloc hands out again.
THEOREM NoUseAfterFree == Spec => []PendingIntegrity
<1>1. IInv => PendingIntegrity
  BY DEF IInv, HeapInv
<1> QED
  BY Invariance, <1>1, PTL

\* The response to a request that issueLocalRequest made is written to no socket.
THEOREM LocalRequestsSilent == Spec => []LocalSilent
<1>1. IInv => LocalSilent
  BY DEF IInv, FrameInv
<1> QED
  BY Invariance, <1>1, PTL

\* Between turns of ril_event_loop exactly one of s_listen_event and s_commands_event is
\* watched, and listenCallback is called only without a connection: its assert holds.
THEOREM OneConnectionAtATime == Spec => []OneConnection
<1>1. IInv => OneConnection
  <2> SUFFICES ASSUME IInv PROVE OneConnection
    OBVIOUS
  <2>1. EventInv /\ LoopTypes
    BY TypeParts DEF IInv
  <2>2. \A ev : Watched(ev) <=> InTable(ev)
    BY DEF Watched, In, InTable
  <2>3. pc = "poll" /\ registered > 0 => (InTable("listen") <=> ~InTable("commands"))
    <3>1. pc = "poll" => ~Waits("listen")
      BY <2>1, EventNames DEF EventInv
    <3> QED
      BY <2>1, <2>2, <3>1 DEF EventInv
  <2>4. /\ InTable("listen") => s_fdCommand = -1 \/ pc \in {"listen", "check"}
        /\ pc = "listen" => s_fdCommand = -1
        /\ \A r, s \in Slots : r # s /\ watch_table[r] # NONE => watch_table[r] # watch_table[s]
    BY <2>1, <2>2 DEF EventInv, TableDistinct
  <2> QED
    BY <2>3, <2>4 DEF OneConnection
<1> QED
  BY Invariance, <1>1, PTL

\* ril.cpp keeps the contract of ril_event_add and ril_event_set: listenCallback touches its
\* two events only while they are neither watched nor waiting to be called.
THEOREM EventContractKept == Spec => []EventDiscipline
<1>1. IInv => EventDiscipline
  <2> SUFFICES ASSUME IInv PROVE EventDiscipline
    OBVIOUS
  <2>1. EventInv /\ pending_list \in Seq(Events)
    BY TypeParts DEF IInv, LoopTypes
  <2>2. \A ev : Watched(ev) <=> InTable(ev)
    BY DEF Watched, In, InTable
  <2>3. /\ pc \in {"listen", "check"} => ~Watched("listen") /\ ~Watched("commands")
                                          /\ ~Waits("listen") /\ ~Waits("commands")
        /\ pc = "commands" => ~Waits("listen") /\ ~Waits("commands")
    BY <2>1 DEF EventInv
  <2>4. \A k \in 1 .. Len(pending_list) : pending_list[k] \in Events /\ Waits(pending_list[k])
    BY <2>1 DEF Waits, Has
  <2>5. pc = "commands" => \A k \in 1 .. Len(pending_list) : pending_list[k] = "debug"
    BY <2>3, <2>4, EventNames
  <2>6. pc \in {"listen", "check"} => \A ev \in {"listen", "commands"} :
            ~InTable(ev) /\ \A k \in 1 .. Len(pending_list) : pending_list[k] # ev
    BY <2>2, <2>3, <2>4
  <2>7. \A j, k \in 1 .. Len(pending_list) : j # k => pending_list[j] # pending_list[k]
    BY <2>1 DEF EventInv, AllDiffer
  <2> QED
    BY <2>5, <2>6, <2>7 DEF EventDiscipline
<1> QED
  BY Invariance, <1>1, PTL

\* sendResponseRaw: between the header and the body of a message no other thread's bytes
\* reach the same connection, although descriptors are closed under the writer and reused.
THEOREM MessagesWhole == Spec => []FramesWhole
<1>1. IInv => FramesWhole
  BY DEF IInv, FrameInv
<1> QED
  BY Invariance, <1>1, PTL

LEMMA AnswersMember ==
    ASSUME KernelTypes, NEW r, NEW x
    PROVE  x \in Answers(r) <=>
              \E p \in Peers : \E k \in 1 .. Len(stream[p]) :
                 x = <<p, k>> /\ stream[p][k][1] = "body" /\ stream[p][k][2] = r
<1>1. \A p \in Peers : DOMAIN stream[p] = 1 .. Len(stream[p])
  BY DEF KernelTypes
<1> QED
  BY <1>1 DEF Answers

\* onCommandsSocketClosed: when the daemon serves no connection every request of a client
\* that is still in s_pendingRequests carries the flag, and a request that carries it is
\* answered on no connection, by no thread.
THEOREM CancelledStaySilent == Spec => []CancelledSilent
<1>1. ASSUME Init PROVE NoneLeft
  <2>1. Len(s_pendingRequests) = 0
    BY <1>1 DEF Init
  <2> QED
    BY <2>1 DEF NoneLeft, AllFlagged, Listed
<1>2. IInv /\ NoneLeft /\ [Next]_vars => NoneLeft'
  BY NoneLeftStep
<1>3. IInv /\ NoneLeft => CancelledSilent
  <2> SUFFICES ASSUME IInv, NoneLeft PROVE CancelledSilent
    OBVIOUS
  <2>1. KernelTypes /\ HeapTypes /\ CancelUnanswered
    BY TypeParts DEF IInv, AnswerInv
  <2>2. ASSUME NEW r \in cancelledReqs, NEW x \in Answers(r) PROVE FALSE
    BY <2>1, <2>2, AnswersMember DEF CancelUnanswered, Answered
  <2>3. ASSUME ~InTable("commands"), pc # "cancel", NEW k \in 1 .. Len(s_pendingRequests)
        PROVE  info[s_pendingRequests[k]].local \/ info[s_pendingRequests[k]].cancelled
    <3>1. ~Served
      BY <2>3 DEF Served, Watched, In, InTable
    <3>2. s_pendingRequests[k] \in Addr /\ Listed(s_pendingRequests[k])
      BY <2>1, <2>3 DEF HeapTypes, Listed
    <3> QED
      BY <3>1, <3>2 DEF NoneLeft, AllFlagged
  <2> QED
    BY <2>2, <2>3 DEF CancelledSilent
<1> QED
  BY Invariance, <1>1, <1>2, <1>3, PTL DEF Spec

\* RIL_onRequestComplete: a request is answered at most once over all connections, although
\* dispatchVoiceRadioTech may complete its token twice and addresses are reused.
THEOREM AnsweredAtMostOnce == Spec => []AtMostOneResponse
<1>1. IInv => AtMostOneResponse
  <2> SUFFICES ASSUME IInv, NEW r \in Requests PROVE Cardinality(Answers(r)) <= 1
    BY DEF AtMostOneResponse
  <2>1. KernelTypes /\ AnsweredOnce
    BY TypeParts DEF IInv, AnswerInv
  <2>2. \A x, y \in Answers(r) : x = y
    <3> SUFFICES ASSUME NEW x \in Answers(r), NEW y \in Answers(r) PROVE x = y
      OBVIOUS
    <3>1. PICK p \in Peers : \E j \in 1 .. Len(stream[p]) :
              x = <<p, j>> /\ stream[p][j][1] = "body" /\ stream[p][j][2] = r
      BY <2>1, AnswersMember
    <3>2. PICK j \in 1 .. Len(stream[p]) : x = <<p, j>> /\ stream[p][j][1] = "body" /\ stream[p][j][2] = r
      BY <3>1
    <3>3. PICK q \in Peers : \E k \in 1 .. Len(stream[q]) :
              y = <<q, k>> /\ stream[q][k][1] = "body" /\ stream[q][k][2] = r
      BY <2>1, AnswersMember
    <3>4. PICK k \in 1 .. Len(stream[q]) : y = <<q, k>> /\ stream[q][k][1] = "body" /\ stream[q][k][2] = r
      BY <3>3
    <3>5. p = q /\ j = k
      BY <2>1, <3>2, <3>4 DEF AnsweredOnce
    <3> QED
      BY <3>2, <3>4, <3>5
  <2>3. CASE Answers(r) = {}
    BY <2>3, FS_EmptySet
  <2>4. ASSUME NEW x \in Answers(r) PROVE Cardinality(Answers(r)) <= 1
    <3>1. Answers(r) = {x}
      BY <2>2
    <3>2. Cardinality({x}) = 1
      BY FS_Singleton
    <3> QED
      BY <3>1, <3>2
  <2> QED
    BY <2>3, <2>4
<1> QED
  BY Invariance, <1>1, PTL
=============================================================================
