----------------------------- MODULE MCSources -----------------------------
(***************************************************************************)
(* Two hosts, each in a collection of its own.                             *)
(***************************************************************************)
EXTENDS Sources

CONSTANTS h1, h2

MCHosts == {h1, h2}

MCCollectionOf == [h \in MCHosts |-> IF h = h1 THEN 1 ELSE 2]

MCProviders == {"http", "mongodb"}
=============================================================================
