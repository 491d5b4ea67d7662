-------------------------- MODULE MCFirestoreGets --------------------------
(***************************************************************************)
(* FirestoreGets for TLC: enough gets for one to join the listener of      *)
(* another and for one to find the target of an earlier one not yet        *)
(* removed, and enough disturbances to break a stream more than once.      *)
(***************************************************************************)
EXTENDS FirestoreGets

=============================================================================
