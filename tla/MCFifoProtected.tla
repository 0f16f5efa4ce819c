--------------------------- MODULE MCFifoProtected ---------------------------
(* Instances of FifoProtected for TLC. *)
EXTENDS FifoProtected

CONSTANTS r1, r2

\* One reader that takes two entries at a time, and two readers that take
\* all there is: the code's limit of 500 is out of their reach.
Unlimited ==
    {[readers |-> {r1}, maxReads |-> 2], [readers |-> {r1, r2}, maxReads |-> MaxMsgs + 1]}

\* Two readers that take two entries at a time: the limit is reached.
Limited == {[readers |-> {r1, r2}, maxReads |-> 2]}
=============================================================================
