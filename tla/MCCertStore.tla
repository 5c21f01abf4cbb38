---------------------------- MODULE MCCertStore ----------------------------
(***************************************************************************)
(* CertStore for TLC.                                                      *)
(***************************************************************************)
EXTENDS CertStore

CONSTANTS h1, h2, w1, w2

OwnPlaces == [h \in Hosts |-> <<"place", h>>]
=============================================================================
