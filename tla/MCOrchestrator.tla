--------------------------- MODULE MCOrchestrator ---------------------------
(***************************************************************************)
(* Orchestrator for TLC: the documents' pools of hosts.                    *)
(***************************************************************************)
EXTENDS Orchestrator

\* Which of the two pool shapes a run takes.
CONSTANTS d1, d2, h1, h2, h3

\* d1 moves between two hosts that no other document ever asks for.
OwnHosts == [d \in Docs |-> IF d = d1 THEN {h1, h2} ELSE {h3}]

\* Documents ask for the same hosts, and may lose theirs.
SharedHosts == [d \in Docs |-> IF d = d1 THEN {h1, h2, Blank} ELSE {h1, h2}]

=============================================================================
