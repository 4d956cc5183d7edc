----------------------------- MODULE RpmbProofs -----------------------------
(* Proofs about Rpmb: its types, and that one process at a time implements   *)
(* RpmbStore.                                                                *)
EXTENDS Rpmb, TLAPS

USE BlocksAssumption, KeysAssumption, CommandsAssumption, BoundsAssumption

\* What is left of the numbers of a command line.
LEMMA CutType ==
    ASSUME NEW c \in CommandLines
    PROVE  addr(c) \in Nat /\ blocks_cnt(c) \in Nat
<1>1. ASSUME NEW n \in Int PROVE n % Short \in Nat
  BY ShortAssumption
<1>2. c.addr \in Int /\ c.cnt \in Int
  BY DEF CommandLines
<1> QED
  BY <1>1, <1>2 DEF addr, blocks_cnt

\* Frames built from typed parts are frames.
LEMMA FrameType ==
    ASSUME NEW t \in {"none", "write-key", "read-counter", "write-block", "read-block"},
           NEW c \in Codes, NEW e \in BOOLEAN, NEW n \in Nat,
           NEW d \in Seq(Values \cup {NONE}), NEW k \in Keys \cup {NONE}
    PROVE  Frame(t, c, e, n, d, k) \in Frames
BY DEF Frame, Frames

LEMMA BlankType == Blank \in Frames
<1>1. Nothing \in Seq(Values \cup {NONE})
  BY DEF Nothing
<1> QED
  BY <1>1, FrameType DEF Blank, Codes

\* What a read request prepares is a frame.
LEMMA ReadFrameType ==
    ASSUME TypeOK, NEW p \in Procs, st[p] = "request"
    PROVE  readFrame(p) \in Frames
<1>1. cmd[p] \in Commands /\ cmd[p] \in CommandLines
  BY DEF TypeOK
<1>2. /\ addr(cmd[p]) \in Nat /\ blocks_cnt(cmd[p]) \in Nat
      /\ opOf(p) \in {"write-key", "read-counter", "write-block", "read-block"}
  <2>1. opOf(p) \in {"write-key", "read-counter", "write-block", "read-block"}
    BY <1>1 DEF CommandLines, opOf
  <2> QED
    BY <1>1, <2>1, CutType
<1>3. counter \in Nat /\ key \in Keys \cup {NONE} /\ (counter = MaxCounter) \in BOOLEAN
  BY DEF TypeOK
<1>4. Nothing \in Seq(Values \cup {NONE})
  BY DEF Nothing
<1>5. CASE key = NONE
  <2>1. Frame(opOf(p), "nokey", counter = MaxCounter, 0, Nothing, NONE) \in Frames
    <3>1. /\ opOf(p) \in {"none", "write-key", "read-counter", "write-block", "read-block"}
          /\ "nokey" \in Codes /\ 0 \in Nat /\ NONE \in Keys \cup {NONE}
      BY <1>2 DEF Codes
    <3>2. (counter = MaxCounter) \in BOOLEAN
      OBVIOUS
    <3> HIDE DEF Codes
    <3> QED
      BY <1>4, <3>1, <3>2, FrameType
  <2> QED
    BY <1>5, <2>1 DEF readFrame
<1>6. CASE key # NONE /\ opOf(p) = "read-counter"
  BY ZenonT(30), <1>2, <1>3, <1>4, <1>6, FrameType DEF readFrame, Codes
<1>7. CASE key # NONE /\ opOf(p) # "read-counter" /\ addr(cmd[p]) + blocks_cnt(cmd[p]) > Blocks
  BY ZenonT(30), <1>2, <1>3, <1>4, <1>7, FrameType DEF readFrame, Codes
<1>8. CASE key # NONE /\ opOf(p) # "read-counter" /\ ~(addr(cmd[p]) + blocks_cnt(cmd[p]) > Blocks)
  <2>1. Contents(addr(cmd[p]), blocks_cnt(cmd[p])) \in Seq(Values \cup {NONE})
    <3>1. \A k \in 1 .. blocks_cnt(cmd[p]) : addr(cmd[p]) + k - 1 \in 0 .. Blocks - 1
      BY <1>2, <1>8
    <3>2. \A k \in 1 .. blocks_cnt(cmd[p]) : data[addr(cmd[p]) + k - 1] \in Values \cup {NONE}
      BY <3>1 DEF TypeOK
    <3> QED
      BY <1>2, <3>2 DEF Contents
  <2> QED
    BY ZenonT(30), <1>2, <1>3, <1>8, <2>1, FrameType DEF readFrame, Codes
<1> QED
  BY <1>5, <1>6, <1>7, <1>8

LEMMA InitType == Init => TypeOK
BY BlankType DEF Init, TypeOK, Nothing

LEMMA RequestType ==
    ASSUME TypeOK, NEW p \in Procs, Request(p)
    PROVE  TypeOK'
<1>1. cmd[p] \in Commands /\ cmd[p] \in CommandLines
  BY DEF TypeOK, Request
<1>2. /\ key' \in Keys \cup {NONE} /\ counter' \in 0 .. MaxCounter
      /\ data' \in [0 .. Blocks - 1 -> Values \cup {NONE}]
  <2>1. CASE Writes(p)
    <3>1. writeCode(p) = "ok" /\ opOf(p) = "write-key" => cmd[p].key \in Keys
      BY <1>1 DEF opOf
    <3>2. writeCode(p) = "ok" /\ opOf(p) = "write-block" =>
             counter # MaxCounter /\ addr(cmd[p]) \in 0 .. Blocks - 1 /\ cmd[p].value \in Values
      <4>1. opOf(p) = "write-block" => opOf(p) # "write-key"
        OBVIOUS
      <4>2. addr(cmd[p]) \in Nat /\ cmd[p].value \in Values
        BY <1>1, CutType DEF CommandLines
      <4>3. writeCode(p) = "ok" /\ opOf(p) = "write-block" => counter # MaxCounter /\ ~(addr(cmd[p]) >= Blocks)
        BY <4>1 DEF writeCode
      <4> QED
        BY <4>2, <4>3
    <3>3. CASE writeCode(p) = "ok" /\ opOf(p) = "write-block"
      <4>1. key' = key /\ counter' = counter + 1
            /\ data' = [data EXCEPT ![addr(cmd[p])] = cmd[p].value]
        BY <2>1, <3>3 DEF Request
      <4> QED
        BY <3>2, <3>3, <4>1 DEF TypeOK
    <3>4. CASE writeCode(p) = "ok" /\ opOf(p) = "write-key"
      <4>1. key' = cmd[p].key /\ counter' = counter /\ data' = data
        BY <2>1, <3>4 DEF Request
      <4> QED
        BY <3>1, <3>4, <4>1 DEF TypeOK
    <3>5. CASE writeCode(p) # "ok"
      <4>1. key' = key /\ counter' = counter /\ data' = data
        BY <2>1, <3>5 DEF Request
      <4> QED
        BY <4>1 DEF TypeOK
    <3> QED
      BY <2>1, <3>3, <3>4, <3>5 DEF Writes
  <2>2. CASE ~Writes(p)
    BY <2>2 DEF Request, TypeOK
  <2> QED
    BY <2>1, <2>2
<1>3. result' \in Frames /\ waiting' \in Frames
  <2>1. CASE Writes(p)
    <3>1. writeCode(p) \in Codes
      BY DEF writeCode, Codes
    <3>2. opOf(p) \in {"write-key", "write-block"} /\ Nothing \in Seq(Values \cup {NONE})
      BY <2>1 DEF Writes, Nothing
    <3>3. counter' \in Nat /\ (counter' = MaxCounter) \in BOOLEAN
      BY <1>2
    <3>4. Frame(opOf(p), writeCode(p), counter' = MaxCounter, counter', Nothing, key') \in Frames
      BY <1>2, <3>1, <3>2, <3>3, FrameType
    <3> QED
      BY <2>1, <3>4, BlankType DEF Request
  <2>2. CASE ~Writes(p)
    BY <2>2, ReadFrameType DEF Request, TypeOK
  <2> QED
    BY <2>1, <2>2
<1>4. st' \in [Procs -> {"idle", "request", "result", "response", "check"}]
  BY DEF Request, TypeOK
<1>5. \A q \in Procs : st'[q] # "idle" => cmd'[q] \in Commands
  BY DEF Request, TypeOK
<1> QED
  BY <1>2, <1>3, <1>4, <1>5 DEF Request, TypeOK

\* The end of a command keeps the types, whatever typed value it prints.
LEMMA ExitType ==
    ASSUME TypeOK, NEW p \in Procs, NEW how \in {"ok", "failed"},
           NEW out \in Seq(Values \cup {NONE} \cup Nat), Exit(p, how, out)
    PROVE  TypeOK'
BY BlankType DEF Exit, TypeOK, cardVars

LEMMA StepType ==
    ASSUME TypeOK, NEW p \in Procs, Step(p)
    PROVE  TypeOK'
<1>0. Nothing \in Seq(Values \cup {NONE} \cup Nat)
  BY DEF Nothing
<1>1. CASE Request(p)
  BY <1>1, RequestType
<1>2. CASE ResultRequest(p)
  BY <1>2 DEF ResultRequest, TypeOK
<1>3. CASE GetResponse(p)
  BY <1>3, BlankType DEF GetResponse, TypeOK
<1>4. CASE rpmb_read_counter(p)
  <2>1. CASE ~Clean(frame_out[p])
    <3>1. Exit(p, "failed", Nothing)
      BY <1>4, <2>1 DEF rpmb_read_counter
    <3> QED
      BY <1>0, <3>1, ExitType
  <2>2. CASE Clean(frame_out[p])
    <3>1. frame_out[p].write_counter \in Nat
      BY DEF TypeOK, Frames
    <3> QED
      BY <1>4, <2>2, <3>1 DEF rpmb_read_counter, TypeOK, cardVars
  <2> QED
    BY <2>1, <2>2
<1>5. CASE do_rpmb_write_block(p)
  BY <1>0, <1>5, ExitType DEF do_rpmb_write_block
<1>6. CASE do_rpmb_write_key(p)
  BY <1>0, <1>6, ExitType DEF do_rpmb_write_key
<1>7. CASE do_rpmb_read_counter(p)
  <2>1. <<frame_out[p].write_counter>> \in Seq(Values \cup {NONE} \cup Nat)
    BY DEF TypeOK, Frames
  <2> QED
    BY <1>7, <2>1, ExitType DEF do_rpmb_read_counter
<1>8. CASE do_rpmb_read_block(p)
  <2>1. frame_out[p].data \in Seq(Values \cup {NONE} \cup Nat)
    BY DEF TypeOK, Frames
  <2> QED
    BY <1>8, <2>1, ExitType DEF do_rpmb_read_block
<1>9. CASE Abort(p)
  BY <1>9, BlankType DEF Abort, TypeOK, cardVars
<1>10. CASE do_rpmb_read_block_NoBlocks(p)
  BY <1>0, <1>10, ExitType DEF do_rpmb_read_block_NoBlocks
<1> QED
  BY <1>1, <1>2, <1>3, <1>4, <1>5, <1>6, <1>7, <1>8, <1>9, <1>10 DEF Step

LEMMA InvokeType ==
    ASSUME TypeOK, NEW p \in Procs, NEW c \in Commands, Invoke(p, c)
    PROVE  TypeOK'
BY BlankType DEF Invoke, TypeOK, cardVars, Nothing

\* The variables of the rpmb commands keep their types, for any number of processes
\* that interleave their ioctls: in particular the counter stays within its range.
THEOREM TypeCorrect == Spec => []TypeOK
<1>1. Init => TypeOK
  BY InitType
<1>2. TypeOK /\ [Next]_vars => TypeOK'
  <2> SUFFICES ASSUME TypeOK, [Next]_vars PROVE TypeOK'
    OBVIOUS
  <2>1. CASE UNCHANGED vars
    BY <2>1 DEF vars, TypeOK
  <2>2. CASE Next
    BY <2>2, StepType, InvokeType DEF Next
  <2> QED
    BY <2>1, <2>2
<1> QED
  BY <1>1, <1>2, PTL DEF Spec

-----------------------------------------------------------------------------
(* One process at a time implements RpmbStore. *)

Alone == \A p, q \in Procs : p = q

progressMap == [p \in Procs |-> Progress(p)]
seenMap == [p \in Procs |-> Seen(p)]

\* With one process the mapped functions change where that process changes them.
LEMMA MapStep ==
    ASSUME Alone, NEW p \in Procs
    PROVE  /\ progressMap[p] = Progress(p) /\ seenMap[p] = Seen(p)
           /\ progressMap' = [progressMap EXCEPT ![p] = Progress(p)']
           /\ seenMap' = [seenMap EXCEPT ![p] = Seen(p)']
BY DEF Alone, progressMap, seenMap

LEMMA Stutter ==
    ASSUME Alone, NEW p \in Procs, Progress(p)' = Progress(p), Seen(p)' = Seen(p),
           UNCHANGED <<key, counter, data, cmd, exit, report>>
    PROVE  UNCHANGED Store!vars
<1>1. progressMap' = progressMap /\ seenMap' = seenMap
  BY DEF Alone, progressMap, seenMap
<1> QED
  BY <1>1 DEF Store!vars, progressMap, seenMap

\* A process ends: the abstract command fails, or succeeds if it had been performed
\* and prints what it had seen.
LEMMA FailStep ==
    ASSUME Alone, NEW p \in Procs, st[p] # "idle", st' = [st EXCEPT ![p] = "idle"], TypeOK,
           exit' = [exit EXCEPT ![p] = "failed"],
           UNCHANGED <<key, counter, data, cmd, report>>
    PROVE  Store!Fail(p)
<1>1. st'[p] = "idle"
  BY DEF TypeOK
<1>2. Progress(p)' = "idle" /\ Seen(p)' = Nothing /\ Progress(p) # "idle"
  BY <1>1 DEF Progress, Seen, Performed
<1> QED
  BY <1>2, MapStep DEF Store!Fail, Store!Nothing, Nothing, progressMap, seenMap

LEMMA SucceedStep ==
    ASSUME Alone, NEW p \in Procs, Performed(p), st' = [st EXCEPT ![p] = "idle"], TypeOK,
           exit' = [exit EXCEPT ![p] = "ok"], report' = [report EXCEPT ![p] = Seen(p)],
           UNCHANGED <<key, counter, data, cmd>>
    PROVE  Store!Succeed(p)
<1>1. st'[p] = "idle" /\ st[p] # "idle"
  BY DEF TypeOK, Performed
<1>2. Progress(p)' = "idle" /\ Seen(p)' = Nothing /\ Progress(p) = "performed"
  BY <1>1 DEF Progress, Seen, Performed
<1> QED
  BY <1>2, MapStep DEF Store!Succeed, Store!Nothing, Nothing, progressMap, seenMap

\* The checks of a command end it as RpmbStore does, when success implies that it
\* has been performed and prints what it saw.
LEMMA ExitStep ==
    ASSUME Alone, TypeOK, NEW p \in Procs, NEW how \in {"ok", "failed"}, NEW out, st[p] # "idle",
           Exit(p, how, out), how = "ok" => Performed(p) /\ out = Seen(p)
    PROVE  Store!Fail(p) \/ Store!Succeed(p)
<1>1. CASE how = "failed"
  BY <1>1, FailStep DEF Exit, cardVars
<1>2. CASE how = "ok"
  BY <1>2, SucceedStep DEF Exit, cardVars
<1> QED
  BY <1>1, <1>2

LEMMA InvokeStep ==
    ASSUME Alone, TypeOK, NEW p \in Procs, NEW c \in Commands, Invoke(p, c)
    PROVE  Store!Start(p, c)
<1>1. st[p] = "idle" /\ st'[p] = "request"
  BY DEF Invoke, TypeOK
<1>2. Progress(p) = "idle" /\ Progress(p)' = "started" /\ Seen(p)' = Nothing
  BY <1>1 DEF Progress, Seen, Performed
<1> QED
  BY <1>2, MapStep DEF Invoke, Store!Start, Store!Nothing, Store!cardVars, cardVars, Nothing,
     progressMap, seenMap

\* Executing the request is the step in which a command takes effect.
LEMMA RequestStep ==
    ASSUME Alone, TypeOK, NEW p \in Procs, Request(p)
    PROVE  Store!Perform(p) \/ UNCHANGED Store!vars
<1>1. /\ st[p] = "request" /\ cmd[p] \in CommandLines /\ UNCHANGED <<phase, cmd, exit, report>>
      /\ ~noBlocks(p)
  BY DEF Request, TypeOK
<1>c. /\ addr(cmd[p]) \in Nat /\ blocks_cnt(cmd[p]) \in Nat
      /\ Store!block(cmd[p]) = addr(cmd[p]) /\ Store!many(cmd[p]) = blocks_cnt(cmd[p])
  BY <1>1, CutType DEF addr, blocks_cnt, Store!block, Store!many
<1>2. Progress(p) = "started" /\ Seen(p) = Nothing
  BY <1>1 DEF Progress, Seen, Performed
<1>3. CASE Writes(p)
  <2>1. st'[p] = "result" /\ result'.code = writeCode(p)
    BY <1>3 DEF Request, TypeOK, Frame
  <2>2. phase[p] = "op" /\ opOf(p) = cmd[p].op /\ cmd[p].op \in {"write-key", "write-block"}
    BY <1>3 DEF Writes, opOf, TypeOK
  <2>3. Performed(p)' <=> writeCode(p) = "ok"
    BY <1>1, <2>1, <2>2 DEF Performed, Answer
  <2>4. Seen(p)' = Nothing
    BY <1>1, <2>2 DEF Seen
  <2>5. CASE writeCode(p) # "ok"
    <3>1. Progress(p)' = "started"
      BY <2>1, <2>3, <2>5 DEF Progress
    <3>2. UNCHANGED <<key, counter, data>>
      BY <1>3, <2>5 DEF Request
    <3> QED
      BY <1>1, <1>2, <2>4, <3>1, <3>2, Stutter
  <2>6. CASE writeCode(p) = "ok"
    <3>1. Progress(p)' = "performed"
      BY <2>1, <2>3, <2>6 DEF Progress
    <3>2. /\ progressMap[p] = "started" /\ progressMap' = [progressMap EXCEPT ![p] = "performed"]
          /\ seenMap' = seenMap
      BY <1>2, <2>4, <3>1, MapStep DEF seenMap
    <3>3. CASE cmd[p].op = "write-key"
      <4>1. key = NONE
        BY <2>2, <2>6, <3>3 DEF writeCode
      <4>2. key' = cmd[p].key /\ UNCHANGED <<counter, data>>
        BY <1>3, <2>2, <2>6, <3>3 DEF Request
      <4> QED
        BY <1>1, <3>2, <3>3, <4>1, <4>2 DEF Store!Perform, progressMap, seenMap
    <3>4. CASE cmd[p].op = "write-block"
      <4>1. key = cmd[p].key /\ counter # MaxCounter /\ ~(addr(cmd[p]) >= Blocks)
        BY <2>2, <2>6, <3>4 DEF writeCode
      <4>2. counter < MaxCounter /\ addr(cmd[p]) < Blocks
        BY <1>c, <4>1 DEF TypeOK
      <4>3. key' = key /\ counter' = counter + 1
            /\ data' = [data EXCEPT ![addr(cmd[p])] = cmd[p].value]
        BY <1>3, <2>2, <2>6, <3>4 DEF Request
      <4> QED
        BY <1>1, <1>c, <3>2, <3>4, <4>1, <4>2, <4>3 DEF Store!Perform, progressMap, seenMap
    <3> QED
      BY <2>2, <3>3, <3>4
  <2> QED
    BY <2>5, <2>6
<1>4. CASE ~Writes(p)
  <2>1. st'[p] = "response" /\ waiting' = readFrame(p) /\ UNCHANGED <<key, counter, data>>
    BY <1>4 DEF Request, TypeOK
  <2>2. Answer(p)' = readFrame(p)
    BY <2>1 DEF Answer
  <2>3. CASE ~Performed(p)'
    <3>1. Progress(p)' = "started" /\ Seen(p)' = Nothing
      BY <2>1, <2>3 DEF Progress, Seen
    <3> QED
      BY <1>1, <1>2, <2>1, <3>1, Stutter
  <2>4. CASE Performed(p)'
    <3>1. Progress(p)' = "performed"
      BY <2>1, <2>4 DEF Progress
    <3>2. phase[p] = "op" /\ opOf(p) = cmd[p].op /\ cmd[p].op \in {"read-counter", "read-block"}
      BY <1>1, <1>4, <2>4 DEF Performed, Writes, opOf, CommandLines
    <3>3. readFrame(p).code = "ok" /\ (cmd[p].op = "read-block" => cmd[p].key \in {NONE, readFrame(p).key_mac})
      BY <1>1, <2>2, <2>4 DEF Performed
    <3>4. key # NONE
      BY <3>3 DEF readFrame, Frame
    <3>5. CASE cmd[p].op = "read-counter"
      <4>1. readFrame(p).write_counter = counter
        BY <3>2, <3>4, <3>5 DEF readFrame, Frame
      <4>2. Seen(p)' = <<counter>>
        BY <1>1, <2>2, <2>4, <3>5, <4>1 DEF Seen
      <4> QED
        BY <1>1, <1>2, <2>1, <3>1, <3>4, <3>5, <4>2, MapStep
        DEF Store!Perform, Store!cardVars, progressMap, seenMap
    <3>6. CASE cmd[p].op = "read-block"
      <4>1. ~(addr(cmd[p]) + blocks_cnt(cmd[p]) > Blocks)
        BY <3>2, <3>3, <3>4, <3>6 DEF readFrame, Frame
      <4>2. readFrame(p).data = Contents(addr(cmd[p]), blocks_cnt(cmd[p])) /\ readFrame(p).key_mac = key
        BY <3>2, <3>4, <3>6, <4>1 DEF readFrame, Frame
      <4>3. Seen(p)' = Store!Read(addr(cmd[p]), blocks_cnt(cmd[p]))
        BY <1>1, <2>2, <2>4, <3>6, <4>2 DEF Seen, Contents, Store!Read
      <4>4. /\ addr(cmd[p]) + blocks_cnt(cmd[p]) <= Blocks /\ blocks_cnt(cmd[p]) > 0
            /\ cmd[p].key \in {NONE, key}
        BY <1>1, <1>c, <3>3, <3>6, <4>1, <4>2 DEF noBlocks
      <4> QED
        BY <1>1, <1>2, <1>c, <2>1, <3>1, <3>4, <3>6, <4>3, <4>4, MapStep
        DEF Store!Perform, Store!cardVars, progressMap, seenMap
    <3> QED
      BY <3>2, <3>5, <3>6
  <2> QED
    BY <2>3, <2>4
<1> QED
  BY <1>3, <1>4

\* Moving the answer from the register to the waiting frame to the process changes
\* nothing that RpmbStore shows.
LEMMA TransferStep ==
    ASSUME Alone, TypeOK, NEW p \in Procs, ResultRequest(p) \/ GetResponse(p)
    PROVE  UNCHANGED Store!vars
<1>1. Answer(p)' = Answer(p)
  BY DEF ResultRequest, GetResponse, Answer, TypeOK
<1>2. /\ st[p] \in {"result", "response"} /\ st'[p] \in {"response", "check"}
      /\ UNCHANGED <<key, counter, data, phase, cmd, exit, report>>
  BY DEF ResultRequest, GetResponse, TypeOK
<1>3. Performed(p)' <=> Performed(p)
  BY <1>1, <1>2 DEF Performed
<1>4. Progress(p)' = Progress(p) /\ Seen(p)' = Seen(p)
  BY <1>1, <1>2, <1>3 DEF Progress, Seen
<1> QED
  BY <1>2, <1>4, Stutter

LEMMA CounterStep ==
    ASSUME Alone, TypeOK, NEW p \in Procs, rpmb_read_counter(p)
    PROVE  Store!Fail(p) \/ UNCHANGED Store!vars
<1>1. st[p] = "check" /\ phase[p] = "counter"
  BY DEF rpmb_read_counter
<1>2. CASE ~Clean(frame_out[p])
  <2>1. Exit(p, "failed", Nothing)
    BY <1>2 DEF rpmb_read_counter
  <2> QED
    BY <1>1, <2>1, FailStep DEF Exit, cardVars
<1>3. CASE Clean(frame_out[p])
  <2>1. st'[p] = "request" /\ UNCHANGED <<key, counter, data, cmd, exit, report>>
    BY <1>3 DEF rpmb_read_counter, cardVars, TypeOK
  <2>2. Progress(p) = "started" /\ Seen(p) = Nothing
    BY <1>1 DEF Progress, Seen, Performed
  <2>3. Progress(p)' = "started" /\ Seen(p)' = Nothing
    BY <2>1 DEF Progress, Seen, Performed
  <2> QED
    BY <2>1, <2>2, <2>3, Stutter
<1> QED
  BY <1>2, <1>3

LEMMA CommandStep ==
    ASSUME Alone, TypeOK, NEW p \in Procs,
           \/ do_rpmb_write_block(p) \/ do_rpmb_write_key(p)
           \/ do_rpmb_read_counter(p) \/ do_rpmb_read_block(p)
    PROVE  Store!Fail(p) \/ Store!Succeed(p)
<1>1. st[p] = "check" /\ phase[p] = "op"
  BY DEF do_rpmb_write_block, do_rpmb_write_key, do_rpmb_read_counter, do_rpmb_read_block
<1>2. Answer(p) = frame_out[p]
  BY <1>1 DEF Answer
<1>3. Clean(frame_out[p]) /\ (cmd[p].op = "read-block" => cmd[p].key \in {NONE, frame_out[p].key_mac})
      => Performed(p)
  BY <1>1, <1>2 DEF Performed, Clean
<1>4. CASE do_rpmb_write_block(p) \/ do_rpmb_write_key(p)
  <2>1. cmd[p].op \in {"write-key", "write-block"}
        /\ Exit(p, IF Clean(frame_out[p]) THEN "ok" ELSE "failed", Nothing)
    BY <1>4 DEF do_rpmb_write_block, do_rpmb_write_key
  <2>2. Seen(p) = Nothing
    BY <2>1 DEF Seen
  <2> QED
    BY <1>1, <1>3, <2>1, <2>2, ExitStep
<1>5. CASE do_rpmb_read_counter(p)
  <2>1. cmd[p].op = "read-counter"
        /\ Exit(p, IF Clean(frame_out[p]) THEN "ok" ELSE "failed", <<frame_out[p].write_counter>>)
    BY <1>5 DEF do_rpmb_read_counter
  <2>2. Performed(p) => Seen(p) = <<frame_out[p].write_counter>>
    BY <1>2, <2>1 DEF Seen
  <2> QED
    BY <1>1, <1>3, <2>1, <2>2, ExitStep
<1>6. CASE do_rpmb_read_block(p)
  <2> DEFINE good == Clean(frame_out[p]) /\ cmd[p].key \in {NONE, frame_out[p].key_mac}
  <2>1. cmd[p].op = "read-block" /\ Exit(p, IF good THEN "ok" ELSE "failed", frame_out[p].data)
    BY <1>6 DEF do_rpmb_read_block
  <2>2. Performed(p) => Seen(p) = frame_out[p].data
    BY <1>2, <2>1 DEF Seen
  <2> QED
    BY <1>1, <1>3, <2>1, <2>2, ExitStep
<1> QED
  BY <1>4, <1>5, <1>6

\* A single mmc process at a time gives the user the store that RpmbStore describes,
\* whichever ioctl fails and wherever the process is killed: success is reported only
\* for a command that took effect, and no command takes effect twice.  It holds for
\* every number on the command line, positive or negative: the block read or written
\* is the one that the number cut to 16 bits names.
THEOREM Refinement ==
    ASSUME Alone
    PROVE  Spec => Implements
<1>1. Init => Store!Init
  BY DEF Init, Store!Init, Store!Nothing, Nothing, Progress, Seen, Performed
<1>2. TypeOK /\ [Next]_vars => [Store!Next]_(Store!vars)
  <2> SUFFICES ASSUME TypeOK, [Next]_vars PROVE [Store!Next]_(Store!vars)
    OBVIOUS
  <2>1. CASE UNCHANGED vars
    BY <2>1 DEF vars, Store!vars, Progress, Seen, Performed, Answer
  <2>2. CASE \E p \in Procs : \E c \in Commands : Invoke(p, c)
    BY <2>2, InvokeStep DEF Store!Next
  <2>3. CASE \E p \in Procs : Step(p)
    <3>1. PICK p \in Procs : Step(p)
      BY <2>3
    <3>2. CASE Abort(p)
      <4>1. Store!Fail(p)
        BY <3>2, FailStep DEF Abort, cardVars
      <4> QED
        BY <4>1 DEF Store!Next
    <3>7. CASE do_rpmb_read_block_NoBlocks(p)
      <4>1. Store!Fail(p)
        BY <3>7, FailStep DEF do_rpmb_read_block_NoBlocks, Exit, cardVars
      <4> QED
        BY <4>1 DEF Store!Next
    <3>3. CASE Request(p)
      BY <3>3, RequestStep DEF Store!Next
    <3>4. CASE ResultRequest(p) \/ GetResponse(p)
      BY <3>4, TransferStep
    <3>5. CASE rpmb_read_counter(p)
      BY <3>5, CounterStep DEF Store!Next
    <3>6. CASE \/ do_rpmb_write_block(p) \/ do_rpmb_write_key(p)
               \/ do_rpmb_read_counter(p) \/ do_rpmb_read_block(p)
      BY <3>6, CommandStep DEF Store!Next
    <3> QED
      BY <3>1, <3>2, <3>3, <3>4, <3>5, <3>6, <3>7 DEF Step
  <2> QED
    BY <2>1, <2>2, <2>3 DEF Next
<1> QED
  BY <1>1, <1>2, TypeCorrect, PTL DEF Spec, Implements, Store!Spec

=============================================================================
