------------------------------ MODULE RpmbStore ------------------------------
(***************************************************************************)
(* What the rpmb commands of the mmc utility promise to whoever runs them:  *)
(* a command takes effect in one step between its start and its end, at     *)
(* most once, and exits successfully only if it did; a read reports what    *)
(* the card held at that step.  A command that fails may or may not have    *)
(* taken effect.  No ioctl, frame or result register is visible here.       *)
(*                                                                          *)
(* The block a command line names is the one its number has in 16 bits: the *)
(* tool takes 65536 for block 0 and does not say so.                        *)
(***************************************************************************)
EXTENDS Integers, Sequences

CONSTANTS Procs, Commands, Blocks, MaxCounter, NONE, Short

VARIABLES
    key, counter, data,     \* the card
    progress,               \* per process: "idle", "started" or "performed"
    cmd,                    \* per process: the command it runs
    seen,                   \* per process: what the command read from the card
    exit,                   \* per process: how its last command ended
    report                  \* per process: what its last command printed

cardVars == <<key, counter, data>>
vars == <<key, counter, data, progress, cmd, seen, exit, report>>

Nothing == <<>>

\* The block and the number of blocks a command line names.
block(c) == c.addr % Short
many(c) == c.cnt % Short
\* The blocks from a on, n of them.
Read(a, n) == [k \in 1 .. n |-> data[a + k - 1]]

Start(p, c) ==
    /\ progress[p] = "idle"
    /\ progress' = [progress EXCEPT ![p] = "started"]
    /\ cmd' = [cmd EXCEPT ![p] = c]
    /\ seen' = [seen EXCEPT ![p] = Nothing]
    /\ exit' = [exit EXCEPT ![p] = "none"]
    /\ report' = [report EXCEPT ![p] = Nothing]
    /\ UNCHANGED cardVars

\* The one step in which a command takes effect.
Perform(p) ==
    /\ progress[p] = "started"
    /\ progress' = [progress EXCEPT ![p] = "performed"]
    /\ LET c == cmd[p] IN
       \/ /\ c.op = "write-key" /\ key = NONE
          /\ key' = c.key
          /\ UNCHANGED <<counter, data, seen>>
       \/ /\ c.op = "write-block" /\ key = c.key /\ counter < MaxCounter /\ block(c) < Blocks
          /\ counter' = counter + 1
          /\ data' = [data EXCEPT ![block(c)] = c.value]
          /\ UNCHANGED <<key, seen>>
       \/ /\ c.op = "read-counter" /\ key # NONE
          /\ seen' = [seen EXCEPT ![p] = <<counter>>]
          /\ UNCHANGED cardVars
       \/ /\ c.op = "read-block" /\ key # NONE /\ c.key \in {NONE, key}
          /\ many(c) > 0 /\ block(c) + many(c) <= Blocks
          /\ seen' = [seen EXCEPT ![p] = Read(block(c), many(c))]
          /\ UNCHANGED cardVars
    /\ UNCHANGED <<cmd, exit, report>>

Succeed(p) ==
    /\ progress[p] = "performed"
    /\ progress' = [progress EXCEPT ![p] = "idle"]
    /\ seen' = [seen EXCEPT ![p] = Nothing]
    /\ exit' = [exit EXCEPT ![p] = "ok"]
    /\ report' = [report EXCEPT ![p] = seen[p]]
    /\ UNCHANGED <<key, counter, data, cmd>>

Fail(p) ==
    /\ progress[p] # "idle"
    /\ progress' = [progress EXCEPT ![p] = "idle"]
    /\ seen' = [seen EXCEPT ![p] = Nothing]
    /\ exit' = [exit EXCEPT ![p] = "failed"]
    /\ UNCHANGED <<key, counter, data, cmd, report>>

Init ==
    /\ key = NONE /\ counter = 0 /\ data = [a \in 0 .. Blocks - 1 |-> NONE]
    /\ progress = [p \in Procs |-> "idle"]
    /\ cmd = [p \in Procs |-> NONE]
    /\ seen = [p \in Procs |-> Nothing]
    /\ exit = [p \in Procs |-> "none"]
    /\ report = [p \in Procs |-> Nothing]

Next == \E p \in Procs : Perform(p) \/ Succeed(p) \/ Fail(p) \/ \E c \in Commands : Start(p, c)

Spec == Init /\ [][Next]_vars
=============================================================================
