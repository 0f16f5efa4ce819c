--------------------------- MODULE MCMsgHolderSlot ---------------------------
(* Instances of MsgHolderSlot for TLC. *)
EXTENDS MsgHolderSlot

Setup(n, duplicate, kinds, batch, cancels) ==
    [n |-> n, duplicate |-> duplicate, kinds |-> kinds, batch |-> batch, cancels |-> cancels]

\* Three readers with duplication; two with duplication and collections; two
\* that compete.  All may be told to stop.
Instances ==
    {Setup(3, TRUE, {"write", "incref"}, 1, TRUE),
     Setup(2, TRUE, {"write", "incref", "collection"}, 2, TRUE),
     Setup(2, FALSE, {"write", "incref", "collection"}, 2, TRUE)}

\* A module that writes collections to one reader.
Collecting == {Setup(1, FALSE, {"collection"}, 2, FALSE)}
=============================================================================
