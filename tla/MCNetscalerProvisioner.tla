----------------------- MODULE MCNetscalerProvisioner -----------------------
(***************************************************************************)
(* NetscalerProvisioner for TLC.                                           *)
(***************************************************************************)
EXTENDS NetscalerProvisioner

CONSTANTS h1, h2

\* One route with two backends, one with a single one.
OneOrTwo == [h \in Hosts |-> IF h = h1 THEN 2 ELSE 1]
=============================================================================
