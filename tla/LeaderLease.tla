----------------------------- MODULE LeaderLease -----------------------------
(***************************************************************************)
(* What core/lease.LeaderElector promises: "Only one instance holds the    *)
(* lease at a time; the rest wait and attempt to acquire it when it        *)
(* expires or is released."  To hold it here means to run the leader's     *)
(* callback, that is the orchestrator with its event loop.                 *)
(***************************************************************************)
CONSTANT Instances

VARIABLE leaders   \* the instances whose callback is running

Init == leaders = {}

StartLeading(i) == leaders = {} /\ leaders' = {i}

StopLeading(i) == leaders = {i} /\ leaders' = {}

Next == \E i \in Instances : StartLeading(i) \/ StopLeading(i)

Spec == Init /\ [][Next]_leaders
=============================================================================
