-------------------------- MODULE FirestoreWrites --------------------------
(***************************************************************************)
(* How the Firestore client of the two TODO apps carries a write to the    *)
(* server: FirestoreClient enqueues the call on its worker queue, the      *)
(* SyncEngine has the LocalStore persist it in the mutation queue of the   *)
(* current user, and the RemoteStore feeds the oldest batches of that      *)
(* queue through a short pipeline into the write stream (FirestoreStream). *)
(* The handshake and the results come back on the stream; a result carries *)
(* no name and belongs to the front of the pipeline.                       *)
(*                                                                         *)
(* Every step below is one operation on the worker queue, or one thing     *)
(* that another thread or the server does: a call from the app, a change   *)
(* of the signed-in user, the answer to a GetToken, a request processed.   *)
(* The stream breaks, the connectivity changes, the user changes and the   *)
(* process dies at any moment, MaxDisturbances times in all.               *)
(***************************************************************************)
EXTENDS FirestoreStream, Sequences, FiniteSets, SequencesExt, FiniteSetsExt

CONSTANTS
  Users,             \* whoever may be signed in (nobody is a user as well)
  Docs,              \* documents
  RefusedDocs,       \* those the server's rules let nobody write
  MaxWrites,         \* bound: how many writes the app calls
  MaxDisturbances,   \* bound: how many breaks, changes and deaths happen
  kMaxPendingWrites  \* how many batches the pipeline holds

ASSUME UsersAssumption == NoStream \notin Users /\ Users # {}
ASSUME DocsAssumption == RefusedDocs \subseteq Docs
ASSUME BoundsAssumption ==
  MaxWrites \in Nat /\ MaxDisturbances \in Nat /\ kMaxPendingWrites \in Nat \ {0}

VARIABLES
  calls,         \* history: for each write called so far, its user and document
  authUser,      \* the user the credentials provider knows
  tasks,         \* operations enqueued on the worker queue, oldest first
  user,          \* SyncEngine::current_user_
  queue,         \* the persistent mutation queue of each user
  nextBatchId,   \* LevelDbMutationQueue::next_batch_id_
  callbacks,     \* SyncEngine::mutation_callbacks_
  told,          \* what the app has heard of each write
  rs,            \* RemoteStore, its write stream and what is on the wire
  server,        \* the documents as the server has them
  acked,         \* history: the documents after the acknowledged writes alone
  disturbances   \* how many disturbances have happened

appVars    == <<calls, authUser>>
engineVars == <<user, queue, nextBatchId, callbacks, told, acked>>
vars == <<appVars, tasks, engineVars, rs, server, disturbances>>

Writes == 1..MaxWrites
Batch == [batch_id : 1..MaxWrites, write : Writes]
DocOf(w) == calls[w].doc

-----------------------------------------------------------------------------
(***************************************************************************)
(* RemoteStore and WriteStream, on the fields of a stream and              *)
(*   handshake  WriteStream::handshake_complete_                           *)
(*   enabled    RemoteStore::is_network_enabled_                           *)
(*   pipeline   RemoteStore::write_pipeline_                               *)
(*   up, down   requests and responses on the wire, oldest first           *)
(* q is the mutation queue of the current user.                            *)
(***************************************************************************)
NewRemoteStore ==
  [state |-> NewStream.state, timers |-> NewStream.timers, asks |-> NewStream.asks,
   close_count |-> NewStream.close_count, credentials |-> NewStream.credentials,
   ok |-> NewStream.ok, handshake |-> FALSE, enabled |-> FALSE, pipeline |-> << >>,
   up |-> << >>, down |-> << >>]

HandshakeRequest == 0        \* a request is this or the number of a write
HandshakeResponse == "handshake"
MutationResult == "result"   \* a response is one of these or an error code

SendAll(s, requests) == [CancelIdleCheck(s) EXCEPT !.up = @ \o requests]

WriteHandshake(s) == SendAll(HARD_ASSERT(s, IsOpen(s) /\ ~s.handshake), <<HandshakeRequest>>)

\* WriteMutations for each batch of a sequence.
WriteMutations(s, batches) ==
  IF batches = << >> THEN s
  ELSE SendAll(HARD_ASSERT(s, IsOpen(s) /\ s.handshake),
               [k \in DOMAIN batches |-> batches[k].write])

ShouldStartWriteStream(s) == s.enabled /\ ~IsStarted(s) /\ s.pipeline # << >>

StartIfNeeded(s) == IF ShouldStartWriteStream(s) THEN Start(s) ELSE s

\* A slip the type invariant catches: the pipeline takes the whole queue.
Room_NoLimit(s) == IF s.enabled THEN MaxWrites ELSE 0
\* How often CanAddToWritePipeline says yes.
Room(s) == IF s.enabled THEN kMaxPendingWrites - Len(s.pipeline) ELSE 0

\* NextMutationBatchAfterBatchId, as often as the loop asks for it: where the
\* seek ends, and what follows.
BatchesAfter(s, q) ==
  LET later == {k \in DOMAIN q : q[k].batch_id > Last(s.pipeline).batch_id}
  IN  IF s.pipeline = << >> THEN q
      ELSE IF later = {} THEN << >> ELSE SubSeq(q, Min(later), Len(q))

\* FillWritePipeline with the AddToWritePipeline calls it makes.
FillWritePipeline(s, q) ==
  LET room == Room(s)
      more == BatchesAfter(s, q)
      new  == SubSeq(more, 1, Min({room, Len(more)}))
      Add(t)  == [t EXCEPT !.pipeline = @ \o new]
      Send(t) == IF IsOpen(t) /\ t.handshake THEN WriteMutations(t, new) ELSE t
      Rest(t) == IF room > 0 /\ t.pipeline = << >> THEN MarkIdle(t) ELSE t
  IN  Then(Then(Then(Add(s), Send), Rest), StartIfNeeded)

\* Does the stream's end with this code refuse the front of the pipeline?
RefusesFront(s, code) ==
  code # "Ok" /\ s.pipeline # << >> /\ s.handshake /\ IsPermanentWriteError(code)

\* A slip EveryWriteSettles catches: nobody starts the stream again.
OnWriteStreamClose_NoRestart(s, q, code) ==
  IF RefusesFront(s, code)
  THEN FillWritePipeline(InhibitBackoff([s EXCEPT !.pipeline = Tail(@)]), q) ELSE s

(***************************************************************************)
(* OnWriteStreamClose, with HandleWriteError for the front of the pipeline *)
(* (q no longer holds the refused batch) and HandleHandshakeError, which   *)
(* only resets the stream token.                                           *)
(***************************************************************************)
OnWriteStreamClose(s, q, code) ==
  LET Check(t)  == IF code = "Ok" THEN HARD_ASSERT(t, ~ShouldStartWriteStream(t)) ELSE t
      Pop(t)    == InhibitBackoff([t EXCEPT !.pipeline = Tail(@)])
      Refuse(t) == IF RefusesFront(t, code)
                   THEN Then(Pop(t), LAMBDA x : FillWritePipeline(x, q)) ELSE t
  IN  Then(Then(Then(s, Check), Refuse), StartIfNeeded)

\* A slip ServerAgrees catches: the handshake is not forgotten at all.
CloseWriteStream_NoReset(s, q, code) ==
  LET cut == [Shut(s, code) EXCEPT !.up = << >>, !.down = << >>]
  IN  IF IgnoresClose(s, code) THEN s
      ELSE Then(cut, LAMBDA t : OnWriteStreamClose(t, q, code))

\* Stream::Close of a write stream: the wire is cut, whatever was on it is lost.
CloseWriteStream(s, q, code) ==
  LET cut == [Shut(s, code) EXCEPT !.up = << >>, !.down = << >>]
  IN  IF IgnoresClose(s, code) THEN s
      ELSE [Then(cut, LAMBDA t : OnWriteStreamClose(t, q, code)) EXCEPT !.handshake = FALSE]

EnableNetwork(s, q) == FillWritePipeline([s EXCEPT !.enabled = TRUE], q)

\* A slip OwnCredentials catches: the pipeline is kept.
DisableNetworkInternal_KeepPipeline(s, q) == CloseWriteStream(s, q, "Ok")
DisableNetworkInternal(s, q) ==
  [CloseWriteStream(s, q, "Ok") EXCEPT !.pipeline = << >>]

RestartNetwork(s, q) ==
  LET down == DisableNetworkInternal([s EXCEPT !.enabled = FALSE], q)
  IN  Then(Then(down, InhibitBackoff), LAMBDA t : EnableNetwork(t, q))

-----------------------------------------------------------------------------
(***************************************************************************)
(* LocalStore and SyncEngine.                                              *)
(***************************************************************************)

\* A slip the refinement catches: ids start again when the queue is opened.
LoadNextBatchIdFromDb_One == 1
LoadNextBatchIdFromDb ==
  LET ids == UNION {{queue[u][k].batch_id : k \in DOMAIN queue[u]} : u \in Users}
  IN  IF ids = {} THEN 1 ELSE Max(ids) + 1

BatchIds(q) == {q[k].batch_id : k \in DOMAIN q}

\* RemoveMutationBatch, the last step of AcknowledgeBatch and RejectBatch.
RemoveMutationBatch(q, batch_id) ==
  LET found == {k \in DOMAIN q : q[k].batch_id = batch_id}
  IN  IF found = {} THEN q ELSE RemoveAt(q, Min(found))

\* NotifyUser: mutations restored from persistence have no callback.
NotifyUser(batch_id, status) ==
  LET mine == {c \in callbacks : c.user = user /\ c.batch_id = batch_id}
  IN  /\ callbacks' = callbacks \ mine
      /\ told' = [w \in Writes |->
                    IF \E c \in mine : c.write = w THEN Append(told[w], status) ELSE told[w]]

(***************************************************************************)
(* The stream ends with an error: HandleRejectedWrite if that refuses the  *)
(* front of the pipeline, and the stream is closed.                        *)
(***************************************************************************)
OnStreamFinish(s, code) ==
  /\ LET front == Head(s.pipeline).batch_id
     IN  IF RefusesFront(s, code)
         THEN /\ queue' = [queue EXCEPT ![user] = RemoveMutationBatch(@, front)]
              /\ NotifyUser(front, "error")
              /\ rs' = CloseWriteStream(HARD_ASSERT(s, front \in BatchIds(queue[user])),
                                        queue'[user], code)
         ELSE /\ rs' = CloseWriteStream(s, queue[user], code)
              /\ UNCHANGED <<queue, callbacks, told>>
  /\ UNCHANGED <<user, nextBatchId, acked>>

-----------------------------------------------------------------------------
(***************************************************************************)
(* Init is the client after FirestoreClient::Initialize with an empty      *)
(* queue.                                                                  *)
(***************************************************************************)
Init ==
  /\ calls = << >> /\ authUser \in Users
  /\ tasks = << >>
  /\ user = authUser /\ queue = [u \in Users |-> << >>] /\ nextBatchId = 1
  /\ callbacks = {} /\ told = [w \in Writes |-> << >>]
  /\ acked = [d \in Docs |-> 0] /\ server = [d \in Docs |-> 0]
  /\ rs = EnableNetwork(NewRemoteStore, << >>)
  /\ disturbances = 0

Disturb ==
  /\ disturbances < MaxDisturbances
  /\ disturbances' = disturbances + 1

Enqueue(task) == tasks' = Append(tasks, task)

\* FirestoreClient::WriteMutations, on whatever thread the app calls it.
CallWrite(d) ==
  /\ Len(calls) < MaxWrites
  /\ calls' = Append(calls, [user |-> authUser, doc |-> d])
  /\ Enqueue([kind |-> "write", write |-> Len(calls) + 1])
  /\ UNCHANGED <<authUser, engineVars, rs, server, disturbances>>

\* Somebody signs in or out: the provider takes note of the user and its
\* listener enqueues the news, under one lock.
AuthStateDidChange(u) ==
  /\ Disturb
  /\ authUser' = u
  /\ Enqueue([kind |-> "user", user |-> u])
  /\ UNCHANGED <<calls, engineVars, rs, server>>

\* SyncEngine::WriteMutations with LocalStore::WriteLocally.
RunWrite ==
  /\ tasks # << >> /\ Head(tasks).kind = "write"
  /\ LET batch == [batch_id |-> nextBatchId, write |-> Head(tasks).write]
         taken == \E c \in callbacks : c.user = user /\ c.batch_id = nextBatchId
     IN  /\ queue' = [queue EXCEPT ![user] = Append(@, batch)]
         /\ callbacks' = IF taken THEN callbacks
                         ELSE callbacks \cup {[user |-> user, batch_id |-> nextBatchId,
                                               write |-> batch.write]}
  /\ nextBatchId' = nextBatchId + 1
  /\ rs' = FillWritePipeline(rs, queue'[user])
  /\ tasks' = Tail(tasks)
  /\ UNCHANGED <<appVars, user, told, acked, server, disturbances>>

\* SyncEngine::HandleCredentialChange: the streams restart even when the user
\* is the same; LocalStore::HandleUserChange only when it is another one.
RunCredentialChange ==
  /\ tasks # << >> /\ Head(tasks).kind = "user"
  /\ user' = Head(tasks).user
  /\ nextBatchId' = IF user' = user THEN nextBatchId ELSE LoadNextBatchIdFromDb
  /\ rs' = RestartNetwork(rs, queue[user'])
  /\ tasks' = Tail(tasks)
  /\ UNCHANGED <<appVars, queue, callbacks, told, acked, server, disturbances>>

(***************************************************************************)
(* GetToken is answered.  The provider asks again when the user changed in *)
(* the meantime, so the token is the current user's; getting it may fail.  *)
(***************************************************************************)
GetTokenAnswered(n, code) ==
  /\ n \in rs.asks
  /\ IF code = "Ok" THEN UNCHANGED disturbances ELSE Disturb
  /\ Enqueue([kind |-> "token", close_count |-> n, code |-> code, user |-> authUser])
  /\ rs' = [rs EXCEPT !.asks = @ \ {n}]
  /\ UNCHANGED <<appVars, engineVars, server>>

\* The operation RequestCredentials enqueues when it has its answers.
RunToken ==
  /\ tasks # << >> /\ Head(tasks).kind = "token"
  /\ LET t == Head(tasks)
     IN  IF ~IsCurrent(rs, t.close_count) THEN UNCHANGED <<rs, engineVars>>
         ELSE IF t.code = "Ok"
         THEN rs' = ResumeStartWithCredentials(rs, t.user) /\ UNCHANGED engineVars
         ELSE OnStreamFinish(HARD_ASSERT(rs, rs.state = "Starting"), t.code)
  /\ tasks' = Tail(tasks)
  /\ UNCHANGED <<appVars, server, disturbances>>

-----------------------------------------------------------------------------
\* gRPC reports the stream as open: OnStreamStart, OnWriteStreamOpen.
StreamOpens ==
  /\ rs.credentials # NoStream /\ rs.state = "Starting"
  /\ rs' = WriteHandshake(OnStreamStart(rs))
  /\ UNCHANGED <<appVars, tasks, engineVars, server, disturbances>>

\* Has the server ended the stream with an error?
Ended == rs.down # << >> /\ Last(rs.down) \in Codes

\* The server processes the oldest request; a write it refuses ends the stream.
ServerProcesses ==
  /\ rs.up # << >> /\ ~Ended
  /\ LET r == Head(rs.up)
         refused == r # HandshakeRequest /\ DocOf(r) \in RefusedDocs
         answer == IF r = HandshakeRequest THEN HandshakeResponse
                   ELSE IF refused THEN "PermissionDenied" ELSE MutationResult
     IN  /\ rs' = [rs EXCEPT !.up = Tail(@), !.down = Append(@, answer)]
         /\ server' = IF answer = MutationResult THEN [server EXCEPT ![DocOf(r)] = r]
                                                 ELSE server
  /\ UNCHANGED <<appVars, tasks, engineVars, disturbances>>

Received == [rs EXCEPT !.down = Tail(@), !.ok = @ /\ IsStarted(rs)]

\* The first response of a stream: OnWriteStreamHandshakeComplete.
OnHandshakeComplete ==
  /\ rs.down # << >> /\ Head(rs.down) \notin Codes /\ ~rs.handshake
  /\ rs' = WriteMutations([Received EXCEPT !.handshake = TRUE], rs.pipeline)
  /\ UNCHANGED <<appVars, tasks, engineVars, server, disturbances>>

(***************************************************************************)
(* Any later response: OnWriteStreamMutationResult with                    *)
(* HandleSuccessfulWrite and LocalStore::AcknowledgeBatch.                 *)
(***************************************************************************)
OnMutationResult ==
  /\ rs.down # << >> /\ Head(rs.down) \notin Codes /\ rs.handshake
  /\ IF rs.pipeline = << >>
     THEN rs' = HARD_ASSERT(Received, FALSE) /\ UNCHANGED engineVars
     ELSE LET batch == Head(rs.pipeline)
          IN  /\ NotifyUser(batch.batch_id, "ok")
              /\ queue' = [queue EXCEPT ![user] = RemoveMutationBatch(@, batch.batch_id)]
              /\ acked' = [acked EXCEPT ![DocOf(batch.write)] = batch.write]
              /\ rs' = FillWritePipeline(
                          [HARD_ASSERT(Received, batch.batch_id \in BatchIds(queue[user]))
                             EXCEPT !.pipeline = Tail(@)], queue'[user])
              /\ UNCHANGED <<user, nextBatchId>>
  /\ UNCHANGED <<appVars, tasks, server, disturbances>>

\* The server's error arrives.
OnServerError ==
  /\ rs.down # << >> /\ Head(rs.down) \in Codes
  /\ OnStreamFinish(rs, Head(rs.down))
  /\ UNCHANGED <<appVars, tasks, server, disturbances>>

\* The stream breaks, with requests and responses still on the wire.  Until the
\* handshake is over the server may end it with a permanent error as well.
StreamBreaks(code) ==
  /\ rs.credentials # NoStream
  /\ code \in {"Unavailable", "Aborted"} \/ ~rs.handshake
  /\ Disturb
  /\ OnStreamFinish(rs, code)
  /\ UNCHANGED <<appVars, tasks, server>>

IdleTimeout ==
  /\ "idle" \in rs.timers
  /\ rs' = CloseWriteStream([rs EXCEPT !.timers = @ \ {"idle"}], queue[user], "Ok")
  /\ UNCHANGED <<appVars, tasks, engineVars, server, disturbances>>

BackoffTimeout ==
  /\ "backoff" \in rs.timers
  /\ rs' = BackoffElapsed(rs)
  /\ UNCHANGED <<appVars, tasks, engineVars, server, disturbances>>

\* The connectivity monitor reports a network that is available.
ConnectivityChange ==
  /\ Disturb
  /\ rs' = RestartNetwork(rs, queue[user])
  /\ UNCHANGED <<appVars, tasks, engineVars, server>>

\* The process dies and is started again: memory is lost, the queues are not.
Restart ==
  /\ Disturb
  /\ tasks' = << >> /\ callbacks' = {}
  /\ user' = authUser /\ nextBatchId' = LoadNextBatchIdFromDb
  /\ rs' = EnableNetwork(NewRemoteStore, queue[authUser])
  /\ UNCHANGED <<appVars, queue, told, acked, server>>

-----------------------------------------------------------------------------
ClientStep ==
  \/ RunWrite \/ RunCredentialChange \/ RunToken
  \/ StreamOpens \/ OnHandshakeComplete \/ OnMutationResult \/ OnServerError
  \/ IdleTimeout \/ BackoffTimeout

EnvironmentStep ==
  \/ ServerProcesses
  \/ \E n \in rs.asks : GetTokenAnswered(n, "Ok")

Disturbance ==
  \/ \E u \in Users : AuthStateDidChange(u)
  \/ \E n \in rs.asks : GetTokenAnswered(n, "Unknown")
  \/ \E code \in {"Unavailable", "Aborted", "InvalidArgument"} : StreamBreaks(code)
  \/ ConnectivityChange \/ Restart

Next == ClientStep \/ EnvironmentStep \/ Disturbance \/ \E d \in Docs : CallWrite(d)

(***************************************************************************)
(* The worker queue runs what is enqueued, timers expire, and between the  *)
(* disturbances the provider and the server answer.                        *)
(***************************************************************************)
Fairness == WF_vars(ClientStep) /\ WF_vars(EnvironmentStep)

Spec == Init /\ [][Next]_vars /\ Fairness


-----------------------------------------------------------------------------
(***************************************************************************)
(* Properties.                                                             *)
(***************************************************************************)
Pending(u, w) == \E k \in DOMAIN queue[u] : queue[u][k].write = w

Task == [kind : {"write"}, write : Writes] \cup [kind : {"user"}, user : Users]
        \cup [kind : {"token"}, close_count : Nat, code : {"Ok", "Unknown"}, user : Users]

\* Every variable keeps its type, and the pipeline its limit.
TypeOK ==
  /\ calls \in Seq([user : Users, doc : Docs]) /\ Len(calls) <= MaxWrites
  /\ authUser \in Users /\ user \in Users
  /\ tasks \in Seq(Task)
  /\ queue \in [Users -> Seq(Batch)] /\ nextBatchId \in 1..(MaxWrites + 1)
  /\ callbacks \subseteq [user : Users, batch_id : 1..MaxWrites, write : Writes]
  /\ told \in [Writes -> Seq({"ok", "error"})]
  /\ server \in [Docs -> 0..MaxWrites] /\ acked \in [Docs -> 0..MaxWrites]
  /\ disturbances \in 0..MaxDisturbances
  /\ rs.state \in States /\ rs.timers \subseteq Timers
  /\ rs.close_count \in Nat /\ rs.asks \subseteq Nat
  /\ rs.credentials \in Users \cup {NoStream}
  /\ rs.pipeline \in Seq(Batch) /\ Len(rs.pipeline) <= kMaxPendingWrites
  /\ rs.up \in Seq(0..MaxWrites)
  /\ rs.down \in Seq({HandshakeResponse, MutationResult} \cup Codes)

(***************************************************************************)
(* No HARD_ASSERT of stream.cc, write_stream.cc, remote_store.cc or the    *)
(* mutation queue fails, in whatever order timers, answers of GetToken,    *)
(* responses, breaks and restarts arrive; a failed one ends the app.       *)
(***************************************************************************)
AssertionsHold == rs.ok

(***************************************************************************)
(* A result names no write: the client pairs it with the front of the      *)
(* pipeline, and resends the pipeline on every new stream.  Even so, what  *)
(* the server holds is what the acknowledged writes made of it, except for *)
(* a write that is still pending and will be sent again.                   *)
(***************************************************************************)
ServerAgrees ==
  \A d \in Docs : server[d] = acked[d] \/ \E u \in Users : Pending(u, server[d])

(***************************************************************************)
(* A write only ever travels on a stream opened with the credentials of    *)
(* the user who called it, whenever the user changes while a token is      *)
(* being fetched, a stream is opening or writes are on the wire.           *)
(***************************************************************************)
OwnCredentials ==
  \A k \in DOMAIN rs.up :
     rs.up[k] # HandshakeRequest => calls[rs.up[k]].user = rs.credentials

(***************************************************************************)
(* A completion handler runs at most once, after its write has left the    *)
(* queue, and reports an error only for a write that the server refused,   *)
(* although batch ids are used again and handlers are found by batch id.   *)
(***************************************************************************)
ToldTheTruth ==
  \A w \in Writes : told[w] # << >> =>
     /\ \A u \in Users : ~Pending(u, w)
     /\ told[w] = IF DocOf(w) \in RefusedDocs THEN <<"error">> ELSE <<"ok">>

(***************************************************************************)
(* The client implements PendingWrites.                                    *)
(***************************************************************************)
AbstractWrite(w) == [doc |-> DocOf(w), value |-> w]
AbstractCall(w) == [user |-> calls[w].user, write |-> AbstractWrite(w)]

\* The calls from the oldest on that still waits on the worker queue.
IsWrite(t) == t.kind = "write"
FirstWaiting ==
  Min({tasks[k].write : k \in {j \in DOMAIN tasks : IsWrite(tasks[j])}} \cup {Len(calls) + 1})
AbstractCalled ==
  [k \in 1..(Len(calls) + 1 - FirstWaiting) |-> AbstractCall(FirstWaiting + k - 1)]

AbstractPending ==
  [u \in Users |-> [k \in DOMAIN queue[u] |-> AbstractWrite(queue[u][k].write)]]

Abstract ==
  INSTANCE PendingWrites WITH Values <- 0..MaxWrites, called <- AbstractCalled,
                              pending <- AbstractPending, docs <- acked

\* Whatever happens to the stream, the user and the process, a write is
\* executed in order and for the user who called it, is never dropped once
\* persisted, and is acknowledged or rejected once, as the oldest of its queue.
ImplementsPendingWrites == Abstract!Spec

(***************************************************************************)
(* As long as its user stays, a persisted write is settled eventually: no  *)
(* break, refusal, idle stop or restart leaves the pipeline waiting on a   *)
(* stream that nobody opens, and a refused write is not sent for ever.     *)
(***************************************************************************)
EveryWriteSettles ==
  \A w \in Writes : Pending(user, w) ~> ~Pending(user, w)

=============================================================================
