------------------------------ MODULE MCThreads ------------------------------
(* Instances of Threads. *)
EXTENDS Threads

Setup(forks, shutdown, waitFor, features) ==
    [forks |-> forks, shutdown |-> shutdown, features |-> features,
     waitFor |-> [t \in T |-> IF t = 1 THEN waitFor ELSE {}]]

\* Threads that fork, the first one waits for the second, no ghosts; one
\* thread that forks, and all that may go wrong.
Collections ==
    {Setup({1, 2}, {1}, {2}, {"exit", "hang", "cancel"}),
     Setup({1}, {2}, {}, {"exit", "hang", "cancel", "ghost", "slow"})}

\* A thread that hangs and becomes a ghost.
Haunted == {Setup({}, {}, {}, {"hang", "cancel", "ghost"})}
=============================================================================
