------------------------- MODULE MCFirestoreWrites -------------------------
(***************************************************************************)
(* FirestoreWrites for TLC: two users, a document anybody may write and    *)
(* one nobody may, a pipeline shorter than the queue can get, and enough   *)
(* writes and disturbances for a write to be applied, lose its answer and  *)
(* be sent again behind or before another one.                             *)
(***************************************************************************)
EXTENDS FirestoreWrites

=============================================================================
