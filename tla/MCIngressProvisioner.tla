------------------------ MODULE MCIngressProvisioner ------------------------
(***************************************************************************)
(* IngressProvisioner for TLC.                                             *)
(***************************************************************************)
EXTENDS IngressProvisioner

CONSTANTS h1, h2, h3, w1, w2

\* No two hosts differ in their dots and dashes alone.
DistinctIds == [h \in Hosts |-> <<"routes", h>>]
=============================================================================
