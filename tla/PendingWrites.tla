--------------------------- MODULE PendingWrites ---------------------------
(***************************************************************************)
(* What an app may rely on when it calls addDocument, setData or delete:   *)
(* the calls are executed in order, each into the queue of the user who    *)
(* made it; from then on a write survives the death of the process, is     *)
(* applied in the order of the queue, once, or refused as the oldest one;  *)
(* and no write is applied under a queue that is not its own.              *)
(*                                                                         *)
(* FirestoreWrites (the client) implements it, and StoryboardTasks (an     *)
(* app) is written against it: both are checked to refine this module.     *)
(***************************************************************************)
EXTENDS Sequences, SequencesExt

CONSTANTS
  Users,    \* the users whose writes the client keeps apart
  Docs,     \* documents
  Values    \* what a document can be set to, "no document" included

VARIABLES
  called,   \* writes called and not yet executed, with the user who called
  pending,  \* for each user, the executed writes the server has not settled
  docs      \* the documents according to the acknowledged writes

vars == <<called, pending, docs>>

Write == [doc : Docs, value : Values]

Init ==
  /\ called = << >>
  /\ pending = [u \in Users |-> << >>]
  /\ docs \in [Docs -> Values]

\* A handler calls one or more writes.
Call ==
  /\ called # called' /\ IsPrefix(called, called')
  /\ \A k \in DOMAIN called' : called'[k].user \in Users /\ called'[k].write \in Write
  /\ UNCHANGED <<pending, docs>>

Persist ==
  /\ called # << >>
  /\ called' = Tail(called)
  /\ pending' = [pending EXCEPT ![Head(called).user] = Append(@, Head(called).write)]
  /\ UNCHANGED docs

Acknowledge(u) ==
  /\ pending[u] # << >>
  /\ docs' = [docs EXCEPT ![Head(pending[u]).doc] = Head(pending[u]).value]
  /\ pending' = [pending EXCEPT ![u] = Tail(@)]
  /\ UNCHANGED called

Reject(u) ==
  /\ pending[u] # << >>
  /\ pending' = [pending EXCEPT ![u] = Tail(@)]
  /\ UNCHANGED <<called, docs>>

\* The process dies: only what was executed is kept.
Crash ==
  /\ called' = << >>
  /\ UNCHANGED <<pending, docs>>

Next ==
  \/ Call \/ Persist \/ Crash
  \/ \E u \in Users : Acknowledge(u) \/ Reject(u)

Spec == Init /\ [][Next]_vars

=============================================================================
