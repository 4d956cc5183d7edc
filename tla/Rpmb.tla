-------------------------------- MODULE Rpmb --------------------------------
(***************************************************************************)
(* The rpmb commands of the mmc utility (mmc_utils/mmc_cmds.c): the         *)
(* replay-protected block of an eMMC card is reached through 512-byte       *)
(* frames, one ioctl per frame.  do_rpmb_op sends a request, for writes a   *)
(* second request for the result, and reads one response.  The card has one *)
(* result register and one waiting response for all processes, and the      *)
(* tool takes no lock over the two or three ioctls of an operation.         *)
(*                                                                          *)
(* A MAC is the key it was computed with.                                   *)
(***************************************************************************)
EXTENDS Integers, Sequences

CONSTANTS
    Procs,          \* mmc processes
    Commands,       \* command lines: op, key, addr, cnt, value
    Keys, Values,
    Short,          \* 2^16: the width of uint16_t
    Blocks,         \* size of the area, in blocks of 256 bytes
    MaxCounter,     \* where the card's write counter expires (0xFFFFFFFF)
    NONE,           \* no key; the content of a blank block
    MaxCommands,    \* bound: commands run
    MaxFaults       \* bound: failing calls and killed processes

\* addr and cnt are what strtol returns.
CommandLines ==
    [op : {"write-key", "read-counter", "write-block", "read-block"},
     key : Keys \cup {NONE}, addr : Int, cnt : Int, value : Values]

ASSUME BlocksAssumption == Blocks \in Nat \ {0} /\ MaxCounter \in Nat
ASSUME ShortAssumption == Short \in Nat \ {0}
ASSUME KeysAssumption == NONE \notin Keys /\ NONE \notin Values
ASSUME CommandsAssumption ==
    /\ Commands \subseteq CommandLines
    /\ \A c \in Commands : c.op \in {"write-key", "write-block"} => c.key \in Keys
ASSUME BoundsAssumption == MaxCommands \in Nat /\ MaxFaults \in Nat

VARIABLES
    key, counter, data,     \* card: persistent state
    result,                 \* card: the result register of key and data writes
    waiting,                \* card: the frame the next read transfers
    st,                     \* per process: its next ioctl, "check" or "idle"
    phase,                  \* per process: "counter" inside rpmb_read_counter, else "op"
    cmd,                    \* per process: its command line
    cnt,                    \* per process: frame_in.write_counter
    frame_out,              \* per process: the response it read
    exit, report,           \* per process: how the last command ended and what it printed
    commands, faults        \* counters

cardVars == <<key, counter, data, result, waiting>>
procVars == <<st, phase, cmd, cnt, frame_out, exit, report>>
vars == <<key, counter, data, result, waiting, st, phase, cmd, cnt, frame_out, exit, report,
          commands, faults>>

Nothing == <<>>
Codes == {"ok", "general", "auth", "counter", "address", "nokey"}

\* A response: req_resp, the result code and its write-counter-expired bit, the
\* write counter, the data, and the key of the MAC in the last frame.
Frame(type, code, expired, n, blocks, mac) ==
    [req_resp |-> type, code |-> code, expired |-> expired, write_counter |-> n,
     data |-> blocks, key_mac |-> mac]
\* What a read without a request before it gets, and memset() memory.
Blank == Frame("none", "general", FALSE, 0, Nothing, NONE)

\* frame_out.result != 0 is false.  The expired bit is part of the result.
Clean(f) == f.code = "ok" /\ ~f.expired

\* frame_in.addr and blocks_cnt: the numbers of the command line, cut to uint16_t
\* without a test.
addr(c) == c.addr % Short
blocks_cnt(c) == c.cnt % Short

opOf(p) == IF phase[p] = "counter" THEN "read-counter" ELSE cmd[p].op
Writes(p) == opOf(p) \in {"write-key", "write-block"}

-----------------------------------------------------------------------------
(* The card. *)

Contents(a, n) == [k \in 1 .. n |-> data[a + k - 1]]

writeCode(p) ==
    LET c == cmd[p] IN
    IF opOf(p) = "write-key" THEN (IF key = NONE THEN "ok" ELSE "general")
    ELSE IF key = NONE THEN "nokey"
    ELSE IF counter = MaxCounter THEN "general"
    ELSE IF addr(c) >= Blocks THEN "address"
    ELSE IF c.key # key THEN "auth"
    ELSE IF cnt[p] # counter THEN "counter" ELSE "ok"

readFrame(p) ==
    LET c == cmd[p]
        full == counter = MaxCounter
    IN IF key = NONE THEN Frame(opOf(p), "nokey", full, 0, Nothing, NONE)
       ELSE IF opOf(p) = "read-counter" THEN Frame("read-counter", "ok", full, counter, Nothing, key)
       ELSE IF addr(c) + blocks_cnt(c) > Blocks THEN Frame("read-block", "address", full, 0, Nothing, key)
       ELSE Frame("read-block", "ok", full, 0, Contents(addr(c), blocks_cnt(c)), key)

-----------------------------------------------------------------------------
(* do_rpmb_op. *)

noBlocks(p) == cmd[p].op = "read-block" /\ blocks_cnt(cmd[p]) = 0

\* The first ioctl: the card executes a key or data write and keeps its result, or
\* prepares the response to a read.
Request(p) ==
    /\ st[p] = "request" /\ ~noBlocks(p)
    /\ \/ /\ Writes(p)
          /\ LET done == writeCode(p) = "ok"
                 store == done /\ opOf(p) = "write-block"
             IN /\ key' = IF done /\ opOf(p) = "write-key" THEN cmd[p].key ELSE key
                /\ counter' = IF store THEN counter + 1 ELSE counter
                /\ data' = IF store THEN [data EXCEPT ![addr(cmd[p])] = cmd[p].value] ELSE data
                /\ result' = Frame(opOf(p), writeCode(p), counter' = MaxCounter, counter', Nothing, key')
          /\ waiting' = Blank
          /\ st' = [st EXCEPT ![p] = "result"]
       \/ /\ ~Writes(p)
          /\ waiting' = readFrame(p)
          /\ st' = [st EXCEPT ![p] = "response"]
          /\ UNCHANGED <<key, counter, data, result>>
    /\ UNCHANGED <<phase, cmd, cnt, frame_out, exit, report, commands, faults>>

\* MMC_RPMB_READ_RESP: the register becomes the waiting frame.
ResultRequest(p) ==
    /\ st[p] = "result"
    /\ waiting' = result
    /\ st' = [st EXCEPT ![p] = "response"]
    /\ UNCHANGED <<key, counter, data, result, phase, cmd, cnt, frame_out, exit, report,
                   commands, faults>>

GetResponse(p) ==
    /\ st[p] = "response"
    /\ frame_out' = [frame_out EXCEPT ![p] = waiting]
    /\ waiting' = Blank
    /\ st' = [st EXCEPT ![p] = "check"]
    /\ UNCHANGED <<key, counter, data, result, phase, cmd, cnt, exit, report, commands, faults>>

-----------------------------------------------------------------------------
(* The commands. *)

\* The program starts; write-block first reads the counter.
Invoke(p, c) ==
    /\ st[p] = "idle" /\ commands < MaxCommands
    /\ commands' = commands + 1
    /\ cmd' = [cmd EXCEPT ![p] = c]
    /\ st' = [st EXCEPT ![p] = "request"]
    /\ phase' = [phase EXCEPT ![p] = IF c.op = "write-block" THEN "counter" ELSE "op"]
    /\ cnt' = [cnt EXCEPT ![p] = 0]
    /\ frame_out' = [frame_out EXCEPT ![p] = Blank]
    /\ exit' = [exit EXCEPT ![p] = "none"]
    /\ report' = [report EXCEPT ![p] = Nothing]
    /\ UNCHANGED <<cardVars, faults>>

Exit(p, how, out) ==
    /\ st' = [st EXCEPT ![p] = "idle"]
    /\ frame_out' = [frame_out EXCEPT ![p] = Blank]
    /\ exit' = [exit EXCEPT ![p] = how]
    /\ report' = IF how = "ok" THEN [report EXCEPT ![p] = out] ELSE report
    /\ UNCHANGED <<cardVars, phase, cmd, cnt, commands, faults>>

\* Slip: the counter is off by one.
rpmb_read_counter_Previous(p) ==
    /\ st[p] = "check" /\ phase[p] = "counter"
    /\ \/ /\ Clean(frame_out[p])
          /\ cnt' = [cnt EXCEPT ![p] = frame_out[p].write_counter - 1]
          /\ phase' = [phase EXCEPT ![p] = "op"]
          /\ st' = [st EXCEPT ![p] = "request"]
          /\ UNCHANGED <<cardVars, cmd, frame_out, exit, report, commands, faults>>
       \/ /\ ~Clean(frame_out[p])
          /\ Exit(p, "failed", Nothing)

\* rpmb_read_counter inside do_rpmb_write_block: a clean response supplies the
\* counter of the write request, whatever operation it answers.
rpmb_read_counter(p) ==
    /\ st[p] = "check" /\ phase[p] = "counter"
    /\ \/ /\ Clean(frame_out[p])
          /\ cnt' = [cnt EXCEPT ![p] = frame_out[p].write_counter]
          /\ phase' = [phase EXCEPT ![p] = "op"]
          /\ st' = [st EXCEPT ![p] = "request"]
          /\ UNCHANGED <<cardVars, cmd, frame_out, exit, report, commands, faults>>
       \/ /\ ~Clean(frame_out[p])
          /\ Exit(p, "failed", Nothing)

\* Slip: the result of the write is not looked at.
do_rpmb_write_block_Unchecked(p) ==
    /\ st[p] = "check" /\ phase[p] = "op" /\ cmd[p].op = "write-block"
    /\ Exit(p, "ok", Nothing)

do_rpmb_write_block(p) ==
    /\ st[p] = "check" /\ phase[p] = "op" /\ cmd[p].op = "write-block"
    /\ Exit(p, IF Clean(frame_out[p]) THEN "ok" ELSE "failed", Nothing)

do_rpmb_write_key(p) ==
    /\ st[p] = "check" /\ phase[p] = "op" /\ cmd[p].op = "write-key"
    /\ Exit(p, IF Clean(frame_out[p]) THEN "ok" ELSE "failed", Nothing)

do_rpmb_read_counter(p) ==
    /\ st[p] = "check" /\ phase[p] = "op" /\ cmd[p].op = "read-counter"
    /\ Exit(p, IF Clean(frame_out[p]) THEN "ok" ELSE "failed", <<frame_out[p].write_counter>>)

\* With a key on the command line the MAC of the last frame must be its MAC.
do_rpmb_read_block(p) ==
    /\ st[p] = "check" /\ phase[p] = "op" /\ cmd[p].op = "read-block"
    /\ Exit(p, IF Clean(frame_out[p]) /\ cmd[p].key \in {NONE, frame_out[p].key_mac}
                 THEN "ok" ELSE "failed",
            frame_out[p].data)

\* "please, specify valid blocks count number": no frame has been sent.
do_rpmb_read_block_NoBlocks(p) ==
    /\ st[p] = "request" /\ noBlocks(p)
    /\ Exit(p, "failed", Nothing)

\* A failing ioctl, a short key or data file, a signal: the process ends.  An ioctl
\* that fails after the card has executed it is Request followed by this.
Abort(p) ==
    /\ st[p] # "idle" /\ faults < MaxFaults
    /\ faults' = faults + 1
    /\ st' = [st EXCEPT ![p] = "idle"]
    /\ frame_out' = [frame_out EXCEPT ![p] = Blank]
    /\ exit' = [exit EXCEPT ![p] = "failed"]
    /\ UNCHANGED <<cardVars, phase, cmd, cnt, report, commands>>

-----------------------------------------------------------------------------
Init ==
    /\ key = NONE /\ counter = 0 /\ data = [a \in 0 .. Blocks - 1 |-> NONE]
    /\ result = Blank /\ waiting = Blank
    /\ st = [p \in Procs |-> "idle"] /\ phase = [p \in Procs |-> "op"]
    /\ cmd = [p \in Procs |-> NONE] /\ cnt = [p \in Procs |-> 0]
    /\ frame_out = [p \in Procs |-> Blank]
    /\ exit = [p \in Procs |-> "none"] /\ report = [p \in Procs |-> Nothing]
    /\ commands = 0 /\ faults = 0

Step(p) ==
    \/ Request(p) \/ ResultRequest(p) \/ GetResponse(p)
    \/ rpmb_read_counter(p) \/ do_rpmb_write_block(p) \/ do_rpmb_write_key(p)
    \/ do_rpmb_read_counter(p) \/ do_rpmb_read_block(p) \/ do_rpmb_read_block_NoBlocks(p)
    \/ Abort(p)

Next == \E p \in Procs : Step(p) \/ \E c \in Commands : Invoke(p, c)

Spec == Init /\ [][Next]_vars

-----------------------------------------------------------------------------
(* Properties. *)

Frames == [req_resp : {"none", "write-key", "read-counter", "write-block", "read-block"},
           code : Codes, expired : BOOLEAN, write_counter : Nat,
           data : Seq(Values \cup {NONE}), key_mac : Keys \cup {NONE}]

\* The variables have their types; a process at work has a command.
TypeOK ==
    /\ key \in Keys \cup {NONE} /\ counter \in 0 .. MaxCounter
    /\ data \in [0 .. Blocks - 1 -> Values \cup {NONE}]
    /\ result \in Frames /\ waiting \in Frames
    /\ st \in [Procs -> {"idle", "request", "result", "response", "check"}]
    /\ phase \in [Procs -> {"counter", "op"}]
    /\ cmd \in [Procs -> Commands \cup {NONE}]
    /\ \A p \in Procs : st[p] # "idle" => cmd[p] \in Commands
    /\ cnt \in [Procs -> Nat] /\ frame_out \in [Procs -> Frames]
    /\ exit \in [Procs -> {"none", "ok", "failed"}]
    /\ report \in [Procs -> Seq(Values \cup {NONE} \cup Nat)]
    /\ commands \in 0 .. MaxCommands /\ faults \in 0 .. MaxFaults

\* Where the answer to p's operation is, from the request on.
Answer(p) == IF st[p] = "result" THEN result
             ELSE IF st[p] = "response" THEN waiting ELSE frame_out[p]
\* p's command has taken effect on the card.
Performed(p) ==
    /\ st[p] \in {"result", "response", "check"} /\ phase[p] = "op"
    /\ Answer(p).code = "ok"
    /\ cmd[p].op = "read-block" => cmd[p].key \in {NONE, Answer(p).key_mac}
Seen(p) ==
    IF ~Performed(p) THEN Nothing
    ELSE IF cmd[p].op = "read-counter" THEN <<Answer(p).write_counter>>
    ELSE IF cmd[p].op = "read-block" THEN Answer(p).data
    ELSE Nothing

Progress(p) == IF st[p] = "idle" THEN "idle" ELSE IF Performed(p) THEN "performed" ELSE "started"

Store == INSTANCE RpmbStore WITH
    progress <- [p \in Procs |-> Progress(p)],
    seen <- [p \in Procs |-> Seen(p)]

\* The commands keep the promise of RpmbStore although an operation is two or
\* three ioctls, a write is two operations, and any of them may fail or be the last
\* the process does: exit status 0 means the command took effect, once, and that
\* what a read printed was in the card; an aborted command took effect at most once.
\* The block it speaks of is the one the 16 bits of the address name, so that a
\* write-block to 65536 overwrites block 0 and succeeds.
Implements == Store!Spec
=============================================================================
