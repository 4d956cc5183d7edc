---------------------------- MODULE MCMmcExtCsd ----------------------------
(* Command lines for a 4 GB card with 4 MiB write protect groups. *)
EXTENDS MmcExtCsd

Gp(yes, length, p, enh, ext) ==
    [op |-> "gp", yes |-> yes, length |-> length, p |-> p, enh |-> enh, ext |-> ext]
Enh(yes, from, length) == [op |-> "enh", yes |-> yes, start |-> from, length |-> length]
Rel(yes, p) == [op |-> "rel", yes |-> yes, p |-> p]

\* 300 groups need two bytes; 600 with 400 exceed the capacity of 932, and 400
\* enhanced with 300 enhanced exceed the 500 the card can enhance; 3 groups and
\* a half are rounded to 4.
MCPartitioning ==
    {Gp(yes, 4096 * 300, 1, enh, 0) : yes, enh \in BOOLEAN}
      \cup {Gp(FALSE, 4096 * 600, 1, FALSE, 1), Gp(FALSE, 4096 * 3 + 2048, 2, FALSE, 2),
            Gp(TRUE, 4096 * 3 + 2048, 2, FALSE, 0), Gp(TRUE, 4096 * 3 + 2048, 2, FALSE, 1),
            Gp(TRUE, 4096 * 300, 1, TRUE, 1),
            Gp(TRUE, 4096, 0, TRUE, 0), Gp(TRUE, 4096, 5, TRUE, 0),
            Enh(FALSE, 4096 * 5, 4096 * 400), Enh(TRUE, 4096 * 2 + 1, 4096 * 400),
            Rel(TRUE, 1), Rel(FALSE, 9)}
MCRegisters ==
    {[op |-> "bootpart", area |-> a, ack |-> a = 1] : a \in {1, 2, 3, 7}}
      \cup {[op |-> op] : op \in {"wp", "native", "hwreset_en", "hwreset_dis", "bkops", "sanitize"}}
      \cup {[op |-> "cache", value |-> 1],
            [op |-> "bootbus", mode |-> "dual", reset |-> "retain", width |-> "x8"]}
MCCommands == MCPartitioning \cup MCRegisters
MCSupports == {Features, {"native_4k"}}
=============================================================================
