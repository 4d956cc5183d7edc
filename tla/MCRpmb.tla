------------------------------- MODULE MCRpmb -------------------------------
(* The command lines of the runs. *)
EXTENDS Rpmb

CONSTANTS k1, k2, v1, v2

Line(op, k, a, n, v) == [op |-> op, key |-> k, addr |-> a, cnt |-> n, value |-> v]

\* Two keys of which the card takes one, two blocks and addresses beyond them, of
\* which the last ones come back to a block, reads with the right, with a wrong and
\* without a key and of a number of blocks that is cut to none.
MCCommands ==
    {Line("write-key", k, 0, 1, v1) : k \in {k1, k2}}
    \cup {Line("read-counter", NONE, 0, 1, v1)}
    \cup {Line("write-block", k1, 0, 1, v1), Line("write-block", k1, 1, 1, v2),
          Line("write-block", k2, 0, 1, v2), Line("write-block", k1, 2, 1, v1),
          Line("write-block", k1, 4, 1, v2)}
    \cup {Line("read-block", NONE, 0, 1, v1), Line("read-block", k1, 0, 2, v1),
          Line("read-block", k2, 0, 1, v1), Line("read-block", NONE, 1, 2, v1),
          Line("read-block", NONE, 0, 4, v1), Line("read-block", k1, -3, 5, v1)}
=============================================================================
