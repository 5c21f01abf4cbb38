---------------------------- MODULE MCMongoLease ----------------------------
(***************************************************************************)
(* MongoLease for TLC.                                                     *)
(***************************************************************************)
EXTENDS MongoLease
CONSTANTS i1, i2
=============================================================================
