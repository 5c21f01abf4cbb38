----------------------------- MODULE MCIssuers -----------------------------
(***************************************************************************)
(* Two goroutines, of overlapping terms, and two hosts.                    *)
(***************************************************************************)
EXTENDS Issuers

MCKinds == {"http", "dns", "vault", "selfsigned"}
=============================================================================
