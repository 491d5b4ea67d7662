-------------------------- MODULE FirestoreStream --------------------------
(***************************************************************************)
(* The state machine that the write stream and the watch stream of the     *)
(* Firestore client share (remote/stream.cc in the FirebaseFirestore pod). *)
(* A handler of the client runs on the worker queue without interruption   *)
(* and calls several of these methods one inside the other, so a method is *)
(* an operator from the stream's fields to their new values:               *)
(*                                                                         *)
(*   state        Stream::state_ (the refinement of Open into Healthy only *)
(*                decides whether a token is fetched anew, and is left out)*)
(*   timers       the delayed operations pending on the worker queue       *)
(*   close_count  Stream::close_count_                                     *)
(*   asks         the close counts at which GetToken calls still out began *)
(*   credentials  the user whose token opened the gRPC stream, or NoStream *)
(*   ok           FALSE once a HARD_ASSERT has failed                      *)
(*                                                                         *)
(* A subclass adds fields of its own and says what it does on a close.     *)
(***************************************************************************)
EXTENDS Integers

CONSTANT NoStream   \* "there is no gRPC stream"

States == {"Initial", "Starting", "Open", "Backoff", "Error"}
Timers == {"idle", "backoff"}

\* The codes of errors, and those that say nothing about the request itself.
TransientCodes == {"Cancelled", "Unknown", "DeadlineExceeded", "ResourceExhausted",
                   "Internal", "Unavailable", "Unauthenticated"}
PermanentCodes == {"InvalidArgument", "NotFound", "AlreadyExists", "PermissionDenied",
                   "FailedPrecondition", "Aborted", "OutOfRange", "Unimplemented",
                   "DataLoss"}
Codes == {"Ok"} \cup TransientCodes \cup PermanentCodes

IsPermanentError(code) == code \in PermanentCodes

\* A slip ToldTheTruth catches: an aborted commit is taken for a refusal.
IsPermanentWriteError_Aborted(code) == IsPermanentError(code)
IsPermanentWriteError(code) == IsPermanentError(code) /\ code # "Aborted"

HARD_ASSERT(s, fact) == [s EXCEPT !.ok = @ /\ fact]

\* Sequential composition: what the operation F makes of the fields s.
Then(s, F(_)) == CHOOSE t \in {F(x) : x \in {s}} : TRUE

IsOpen(s) == s.state = "Open"
IsStarted(s) == s.state \in {"Starting", "Backoff", "Open"}

NewStream == [state |-> "Initial", timers |-> {}, close_count |-> 0, asks |-> {},
              credentials |-> NoStream, ok |-> TRUE]

RequestCredentials(s) == [s EXCEPT !.asks = @ \cup {s.close_count}]

BackoffAndTryRestarting(s) ==
  [HARD_ASSERT(s, s.state = "Error") EXCEPT !.state = "Backoff", !.timers = @ \cup {"backoff"}]

Start(s) ==
  IF s.state = "Error" THEN BackoffAndTryRestarting(s)
  ELSE RequestCredentials([HARD_ASSERT(s, s.state = "Initial") EXCEPT !.state = "Starting"])

\* The operation that BackoffAndTryRestarting has scheduled.
BackoffElapsed(s) ==
  LET s1 == [HARD_ASSERT(s, s.state = "Backoff")
               EXCEPT !.state = "Initial", !.timers = @ \ {"backoff"}]
  IN  Then(Then(s1, Start), LAMBDA t : HARD_ASSERT(t, IsStarted(t)))

InhibitBackoff(s) == [HARD_ASSERT(s, ~IsStarted(s)) EXCEPT !.state = "Initial"]

MarkIdle(s) == IF IsOpen(s) THEN [s EXCEPT !.timers = @ \cup {"idle"}] ELSE s

CancelIdleCheck(s) == [s EXCEPT !.timers = @ \ {"idle"}]

\* A slip AssertionsHold catches: an answer meant for an earlier start is used.
IsCurrent_Always(s, close_count) == TRUE

\* The check of the close count when the credentials have arrived.
IsCurrent(s, close_count) == s.close_count = close_count

\* ResumeStartWithCredentials with a token of user: a gRPC stream is created.
ResumeStartWithCredentials(s, user) ==
  [HARD_ASSERT(s, s.state = "Starting") EXCEPT !.credentials = user]

OnStreamStart(s) == [s EXCEPT !.state = "Open"]

\* A graceful stop of a stream that is not started does nothing.
IgnoresClose(s, code) == code = "Ok" /\ ~IsStarted(s)

\* Close up to the point where the subclass is notified.
Shut(s, code) ==
  [HARD_ASSERT(s, IsStarted(s)) EXCEPT
     !.timers = {}, !.close_count = @ + 1, !.credentials = NoStream,
     !.state = IF code = "Ok" THEN "Initial" ELSE "Error"]

=============================================================================
