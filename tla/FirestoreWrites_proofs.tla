----------------------- MODULE FirestoreWrites_proofs -----------------------
(***************************************************************************)
(* Proofs about FirestoreWrites, for every set of users and documents and  *)
(* any number of writes, disturbances and batches in the pipeline.         *)
(***************************************************************************)
EXTENDS FirestoreWrites, SequenceLemmas, TLAPS

(***************************************************************************)
(* The inductive invariant.                                                *)
(***************************************************************************)
Responses == {HandshakeResponse, MutationResult} \cup Codes

RemoteStore ==
  [state : States, timers : SUBSET Timers, asks : SUBSET Nat, close_count : Nat,
   credentials : Users \cup {NoStream}, ok : {TRUE}, handshake : BOOLEAN, enabled : BOOLEAN,
   pipeline : Seq(Batch), up : Seq(0..MaxWrites), down : Seq(Responses)]

\* The stream's state machine: who has a gRPC stream, which timers run, whether
\* a GetToken of this start is out; and a stream that is being opened, or waits
\* for its handshake, has something to send.
StreamOK(s) ==
  /\ s \in RemoteStore
  /\ s.credentials # NoStream => s.state \in {"Starting", "Open"}
  /\ s.state = "Open" => s.credentials # NoStream
  /\ s.state = "Backoff" <=> "backoff" \in s.timers
  /\ "idle" \in s.timers => s.state = "Open" /\ s.handshake /\ s.pipeline = << >>
  /\ s.state \in {"Starting", "Backoff"} => s.pipeline # << >>
  /\ s.state = "Open" /\ ~s.handshake => s.pipeline # << >>
  /\ s.state # "Open" => s.up = << >> /\ s.down = << >>
  /\ \A n \in s.asks : n <= s.close_count
  /\ s.close_count \in s.asks => s.state = "Starting" /\ s.credentials = NoStream

\* What is on the wire: the handshake, or one request or response for each
\* batch of the pipeline, in its order, where only the last can be an error.
WireOK(s) ==
  /\ s.state = "Open" /\ ~s.handshake =>
       \/ s.up = <<HandshakeRequest>> /\ s.down = << >>
       \/ s.up = << >> /\ s.down = <<HandshakeResponse>>
  /\ s.state = "Open" /\ s.handshake =>
       /\ Len(s.down) + Len(s.up) = Len(s.pipeline)
       /\ \A k \in 1..Len(s.up) : s.up[k] = s.pipeline[Len(s.down) + k].write
       /\ \A k \in 1..Len(s.down) : \/ s.down[k] = MutationResult
                                    \/ k = Len(s.down) /\ s.down[k] = "PermissionDenied"

\* The pipeline is the beginning of the queue q.
PipelineOK(s, q) ==
  /\ Len(s.pipeline) <= Len(q) /\ Len(s.pipeline) <= kMaxPendingWrites
  /\ \A k \in 1..Len(s.pipeline) : s.pipeline[k] = q[k]

\* Batch ids and writes increase along a queue.
QueueOK(q) ==
  /\ q \in Seq(Batch)
  /\ \A i, j \in 1..Len(q) : i < j => q[i].batch_id < q[j].batch_id /\ q[i].write < q[j].write

RemoteOK ==
  /\ StreamOK(rs) /\ WireOK(rs) /\ PipelineOK(rs, queue[user]) /\ rs.enabled
  /\ rs.handshake => rs.state = "Open"
  /\ rs.credentials # NoStream => rs.credentials = user

\* A response is an error just when the server refuses the document.
AnswersOK ==
  rs.handshake => \A k \in 1..Len(rs.down) :
    rs.down[k] = MutationResult <=> DocOf(rs.pipeline[k].write) \notin RefusedDocs

\* A queued batch belongs to its user, its write is not settled, its id is taken.
QueuesOK ==
  \A u \in Users :
    /\ QueueOK(queue[u])
    /\ \A k \in 1..Len(queue[u]) :
         /\ queue[u][k].batch_id < nextBatchId /\ queue[u][k].write <= Len(calls)
         /\ calls[queue[u][k].write].user = u /\ told[queue[u][k].write] = << >>

\* The writes on the worker queue come, in order, after those in the queues, and
\* end with the last one called.
WaitingOK ==
  \A i \in 1..Len(tasks) : IsWrite(tasks[i]) =>
    /\ tasks[i].write <= Len(calls) /\ told[tasks[i].write] = << >>
    /\ nextBatchId <= tasks[i].write
    /\ \A u \in Users : \A k \in 1..Len(queue[u]) : queue[u][k].write < tasks[i].write
    /\ \A j \in 1..Len(tasks) : i < j /\ IsWrite(tasks[j]) => tasks[i].write < tasks[j].write
    /\ \/ tasks[i].write = Len(calls)
       \/ \E j \in 1..Len(tasks) : i < j /\ IsWrite(tasks[j]) /\ tasks[j].write = tasks[i].write + 1

\* turn[i] is the current user once i tasks have run: a write runs in the turn
\* of the user who called it, and a token is the one of whose turn it is.
InTurn(turn) ==
  /\ turn[0] = user /\ turn[Len(tasks)] = authUser
  /\ \A i \in 1..Len(tasks) :
       /\ turn[i] = IF tasks[i].kind = "user" THEN tasks[i].user ELSE turn[i - 1]
       /\ IsWrite(tasks[i]) => calls[tasks[i].write].user = turn[i]
       /\ tasks[i].kind = "token" => tasks[i].user = turn[i]
TurnsOK == \E turn \in [0..Len(tasks) -> Users] : InTurn(turn)

\* A token for this start is the only one, and the stream waits for it.
TokensOK ==
  \A i \in 1..Len(tasks) : tasks[i].kind = "token" =>
    /\ tasks[i].close_count <= rs.close_count
    /\ tasks[i].close_count = rs.close_count =>
         /\ rs.state = "Starting" /\ rs.credentials = NoStream /\ rs.close_count \notin rs.asks
         /\ \A j \in 1..Len(tasks) :
              tasks[j].kind = "token" /\ tasks[j].close_count = rs.close_count => j = i

\* A completion handler waits for a batch in the queue of its user.
CallbacksOK ==
  \A c \in callbacks : \E k \in 1..Len(queue[c.user]) :
    queue[c.user][k] = [batch_id |-> c.batch_id, write |-> c.write]

\* What the app has heard is what the server decided.
ToldOK ==
  \A w \in Writes : told[w] # << >> =>
    /\ w <= Len(calls)
    /\ told[w] = IF DocOf(w) \in RefusedDocs THEN <<"error">> ELSE <<"ok">>

\* The server's documents were written by calls for them.
WrittenOK ==
  \A d \in Docs : server[d] # 0 =>
    server[d] <= Len(calls) /\ DocOf(server[d]) = d /\ d \notin RefusedDocs

\* A document the server wrote for a result on the wire has been written since
\* only for later results on the wire.
ResultsOK ==
  rs.handshake => \A i \in 1..Len(rs.down) : rs.down[i] = MutationResult =>
    \E j \in i..Len(rs.down) :
       /\ rs.down[j] = MutationResult
       /\ server[DocOf(rs.pipeline[i].write)] = rs.pipeline[j].write

\* The types of all but the remote store, and a bound on the batch ids.
StateOK ==
  /\ calls \in Seq([user : Users, doc : Docs]) /\ Len(calls) <= MaxWrites
  /\ authUser \in Users /\ user \in Users
  /\ tasks \in Seq(Task)
  /\ queue \in [Users -> Seq(Batch)]
  /\ nextBatchId \in 1..(MaxWrites + 1) /\ nextBatchId <= Len(calls) + 1
  /\ callbacks \subseteq [user : Users, batch_id : 1..MaxWrites, write : Writes]
  /\ told \in [Writes -> Seq({"ok", "error"})]
  /\ server \in [Docs -> 0..MaxWrites] /\ acked \in [Docs -> 0..MaxWrites]
  /\ disturbances \in 0..MaxDisturbances

IInv ==
  /\ StateOK /\ RemoteOK /\ AnswersOK /\ QueuesOK /\ WaitingOK /\ TurnsOK /\ TokensOK
  /\ CallbacksOK /\ ToldOK /\ WrittenOK /\ ResultsOK /\ ServerAgrees

-----------------------------------------------------------------------------
(***************************************************************************)
(* The operations of the remote store.                                     *)
(***************************************************************************)

\* Sequential composition.
LEMMA ThenIs ==
  ASSUME NEW s, NEW F(_)
  PROVE  Then(s, F) = F(s)
BY DEF Then

\* An assertion that holds changes nothing.
LEMMA AssertHolds ==
  ASSUME NEW s \in RemoteStore, NEW fact, fact
  PROVE  HARD_ASSERT(s, fact) = s
BY DEF HARD_ASSERT, RemoteStore

\* The fields of a remote store, and the lengths of its sequences.
LEMMA RemoteFacts ==
  ASSUME NEW s \in RemoteStore
  PROVE  /\ s.pipeline \in Seq(Batch) /\ Len(s.pipeline) \in Nat
         /\ DOMAIN s.pipeline = 1..Len(s.pipeline)
         /\ s.up \in Seq(0..MaxWrites) /\ Len(s.up) \in Nat
         /\ s.down \in Seq(Responses) /\ Len(s.down) \in Nat
<1>1. s.pipeline \in Seq(Batch)
  BY DEF RemoteStore
<1>2. s.up \in Seq(0..MaxWrites)
  BY DEF RemoteStore
<1>3. s.down \in Seq(Responses)
  BY DEF RemoteStore
<1>4. Len(s.pipeline) \in Nat /\ DOMAIN s.pipeline = 1..Len(s.pipeline)
  BY <1>1, LenProperties
<1>5. Len(s.up) \in Nat
  BY <1>2, LenProperties
<1>6. Len(s.down) \in Nat
  BY <1>3, LenProperties
<1> QED BY <1>1, <1>2, <1>3, <1>4, <1>5, <1>6

\* The elements of a queue.
LEMMA QueueFacts ==
  ASSUME NEW q, QueueOK(q)
  PROVE  /\ q \in Seq(Batch) /\ Len(q) \in Nat /\ DOMAIN q = 1..Len(q)
         /\ \A k \in 1..Len(q) : q[k] \in Batch
         /\ \A k \in 1..Len(q) : q[k].batch_id \in 1..MaxWrites /\ q[k].write \in 1..MaxWrites
<1>1. q \in Seq(Batch)
  BY DEF QueueOK
<1>2. Len(q) \in Nat /\ DOMAIN q = 1..Len(q)
  BY <1>1, LenProperties
<1>3. \A k \in 1..Len(q) : q[k] \in Batch
  BY <1>1, ElementOfSeq
<1>4. \A b \in Batch : b.batch_id \in 1..MaxWrites /\ b.write \in 1..MaxWrites
  BY DEF Batch, Writes
<1> QED BY <1>1, <1>2, <1>3, <1>4

\* What the loop in FillWritePipeline finds: the queue behind the pipeline.
LEMMA BatchesAfterIs ==
  ASSUME NEW s \in RemoteStore, NEW q, PipelineOK(s, q), QueueOK(q)
  PROVE  BatchesAfter(s, q) = SubSeq(q, Len(s.pipeline) + 1, Len(q))
<1> DEFINE n == Len(s.pipeline)
           l == Len(q)
           later == {k \in DOMAIN q : q[k].batch_id > Last(s.pipeline).batch_id}
<1>1. /\ q \in Seq(Batch) /\ l \in Nat /\ DOMAIN q = 1..l
      /\ n \in Nat /\ n <= l /\ \A k \in 1..l : q[k].batch_id \in Int
  <2>1. q \in Seq(Batch) /\ l \in Nat /\ DOMAIN q = 1..l
    BY QueueFacts
  <2>2. \A k \in 1..l : q[k].batch_id \in Int
    BY QueueFacts
  <2>3. n \in Nat /\ n <= l
    BY RemoteFacts DEF PipelineOK
  <2> QED BY <2>1, <2>2, <2>3
<1>2. CASE s.pipeline = << >>
  <2>1. n = 0 /\ BatchesAfter(s, q) = q
    BY <1>2 DEF BatchesAfter
  <2>2. SubSeq(q, 1, l) = q
    BY <1>1
  <2> QED BY <2>1, <2>2
<1>3. CASE s.pipeline # << >>
  <2>1. n >= 1
    <3>1. n # 0
      BY <1>3, RemoteFacts, EmptySeq
    <3> QED BY <1>1, <3>1
  <2>2. Last(s.pipeline) = q[n]
    BY <1>1, <2>1 DEF Last, PipelineOK
  <2>3. \A k \in 1..l : q[k].batch_id > q[n].batch_id <=> k > n
    <3> SUFFICES ASSUME NEW k \in 1..l PROVE q[k].batch_id > q[n].batch_id <=> k > n
      OBVIOUS
    <3>1. n \in 1..l
      BY <1>1, <2>1
    <3>2. (k > n => q[n].batch_id < q[k].batch_id) /\ (k < n => q[k].batch_id < q[n].batch_id)
      BY <3>1 DEF QueueOK
    <3>3. k = n \/ k > n \/ k < n
      BY <3>1
    <3> QED BY <1>1, <3>1, <3>2, <3>3
  <2>4. later = (n + 1)..l
    BY <1>1, <2>1, <2>2, <2>3
  <2>5. BatchesAfter(s, q) = IF later = {} THEN << >> ELSE SubSeq(q, Min(later), l)
    BY <1>3 DEF BatchesAfter
  <2> HIDE DEF later
  <2>6. CASE n = l
    <3>1. later = {}
      BY <1>1, <2>4, <2>6
    <3>2. SubSeq(q, n + 1, l) = << >>
      BY <1>1, <2>6, SubSeqEmpty
    <3> QED BY <2>5, <3>1, <3>2
  <2>7. CASE n # l
    <3>1. n + 1 \in later /\ \A k \in later : n + 1 <= k /\ k \in Int
      BY <1>1, <2>4, <2>7
    <3>2. Min(later) = n + 1
      <4>1. \A x \in later : (\A y \in later : x <= y) => x = n + 1
        BY <3>1
      <4> QED BY <3>1, <4>1 DEF Min
    <3> QED BY <2>5, <3>1, <3>2
  <2> QED BY <2>6, <2>7
<1> QED BY <1>2, <1>3

\* What FillWritePipeline adds.
New(s, q) == SubSeq(BatchesAfter(s, q), 1, Min({Room(s), Len(BatchesAfter(s, q))}))

LEMMA NewBatches ==
  ASSUME NEW s \in RemoteStore, NEW q, PipelineOK(s, q), QueueOK(q)
  PROVE  /\ New(s, q) \in Seq(Batch) /\ Len(New(s, q)) \in Nat
         /\ Len(s.pipeline) + Len(New(s, q)) <= Len(q)
         /\ Len(s.pipeline) + Len(New(s, q)) <= kMaxPendingWrites
         /\ \A k \in 1..Len(New(s, q)) : New(s, q)[k] = q[Len(s.pipeline) + k]
<1> DEFINE n == Len(s.pipeline)
           l == Len(q)
           more == BatchesAfter(s, q)
           r == Room(s)
           m == Min({r, Len(more)})
<1>1. /\ q \in Seq(Batch) /\ l \in Nat /\ n \in Nat /\ n <= l
      /\ n <= kMaxPendingWrites /\ \A k \in 1..l : q[k] \in Batch
  <2>1. q \in Seq(Batch) /\ n <= l /\ n <= kMaxPendingWrites
    BY DEF QueueOK, PipelineOK
  <2>2. l \in Nat /\ \A k \in 1..l : q[k] \in Batch
    BY <2>1, LenProperties, ElementOfSeq
  <2>3. n \in Nat
    BY RemoteFacts
  <2> QED BY <2>1, <2>2, <2>3
<1>2. more = SubSeq(q, n + 1, l)
  BY BatchesAfterIs
<1>3. more \in Seq(Batch) /\ Len(more) = l - n /\ \A k \in 1..(l - n) : more[k] = q[n + k]
  <2> HIDE DEF more, n, l
  <2>1. \A k \in (n + 1)..l : q[k] \in Batch
    BY <1>1
  <2>2. SubSeq(q, n + 1, l) \in Seq(Batch)
    BY <1>1, <2>1, SubSeqProperties
  <2>3. Len(SubSeq(q, n + 1, l)) = l - n
    BY <1>1, <2>1, SubSeqProperties
  <2>4. \A k \in 1..(l - (n + 1) + 1) : SubSeq(q, n + 1, l)[k] = q[n + 1 + k - 1]
    BY <1>1, <2>1, SubSeqProperties
  <2>5. l - (n + 1) + 1 = l - n /\ \A k \in 1..(l - n) : n + 1 + k - 1 = n + k
    BY <1>1
  <2>6. \A k \in 1..(l - n) : SubSeq(q, n + 1, l)[k] = q[n + k]
    BY <2>4, <2>5
  <2> QED BY <1>2, <2>2, <2>3, <2>6
<1>4. r \in Nat /\ n + r <= kMaxPendingWrites
  <2>1. kMaxPendingWrites \in Nat
    BY BoundsAssumption
  <2>2. CASE s.enabled
    <3>1. r = kMaxPendingWrites - n
      BY <2>2 DEF Room
    <3> HIDE DEF r, n
    <3> QED BY <1>1, <2>1, <3>1
  <2>3. CASE ~s.enabled
    <3>1. r = 0
      BY <2>3 DEF Room
    <3> HIDE DEF r, n
    <3> QED BY <1>1, <2>1, <3>1
  <2> QED BY <2>2, <2>3
<1>5. m \in Nat /\ m <= r /\ m <= l - n
  <2>1. \E x \in {r, l - n} : \A y \in {r, l - n} : x <= y
    BY <1>1, <1>4
  <2>2. Min({r, l - n}) \in {r, l - n} /\ \A y \in {r, l - n} : Min({r, l - n}) <= y
    BY <2>1 DEF Min
  <2> QED BY <1>1, <1>3, <1>4, <2>2
<1>6. New(s, q) = SubSeq(more, 1, m)
  BY DEF New
<1> HIDE DEF more, m, r
<1>7. \A k \in 1..m : more[k] \in Batch /\ more[k] = q[n + k]
  BY <1>1, <1>3, <1>5
<1>8. SubSeq(more, 1, m) \in Seq(Batch)
  BY <1>5, <1>7, SubSeqProperties
<1>9. Len(SubSeq(more, 1, m)) = m
  BY <1>5, <1>7, SubSeqProperties
<1>10. \A k \in 1..m : SubSeq(more, 1, m)[k] = q[n + k]
  <2>1. SubSeq(more, 1, m) = [k \in 1..m |-> more[k]]
    BY <1>3, <1>5
  <2> QED BY <1>7, <2>1
<1> DEFINE new == New(s, q)
<1>11. new \in Seq(Batch) /\ Len(new) = m /\ \A k \in 1..m : new[k] = q[n + k]
  BY <1>6, <1>8, <1>9, <1>10
<1> HIDE DEF new, n, l
<1>12. /\ new \in Seq(Batch) /\ Len(new) \in Nat
       /\ n + Len(new) <= l /\ n + Len(new) <= kMaxPendingWrites
       /\ \A k \in 1..Len(new) : new[k] = q[n + k]
  BY <1>1, <1>4, <1>5, <1>11, BoundsAssumption
<1> QED BY <1>12 DEF new, n, l

\* What is left alone by everything but a close.
Same(s, t) ==
  /\ t.close_count = s.close_count /\ t.credentials = s.credentials /\ t.down = s.down
  /\ t.handshake = s.handshake /\ t.enabled = s.enabled

\* A stream with the same things on the wire.
LEMMA WireKept ==
  ASSUME NEW s, NEW t, WireOK(s), t.state = s.state, t.up = s.up, t.down = s.down,
         t.pipeline = s.pipeline, t.handshake = s.handshake
  PROVE  WireOK(t)
<1>1. CASE s.handshake
  <2>1. t.handshake
    BY <1>1
  <2> QED BY <1>1, <2>1, ZenonT(60) DEF WireOK
<1>2. CASE ~s.handshake
  <2>1. ~t.handshake
    BY <1>2
  <2> QED BY <1>2, <2>1 DEF WireOK
<1> QED BY <1>1, <1>2

\* StartIfNeeded starts a stream that is not started, and leaves the others.
LEMMA StartOK ==
  ASSUME NEW s, StreamOK(s)
  PROVE  LET t == StartIfNeeded(s) IN
         /\ StreamOK(t) /\ Same(s, t) /\ t.pipeline = s.pipeline /\ t.up = s.up
         /\ IsStarted(s) => t = s
         /\ ~IsStarted(s) => t.state # "Open"
<1> DEFINE t == StartIfNeeded(s)
<1>0. s \in RemoteStore
  BY DEF StreamOK
<1>1. CASE ~ShouldStartWriteStream(s)
  <2>1. t = s
    BY <1>1 DEF StartIfNeeded
  <2> QED BY <2>1 DEF Same, IsStarted
<1>2. CASE ShouldStartWriteStream(s) /\ s.state = "Error"
  <2>1. ~IsStarted(s) /\ s.pipeline # << >> /\ s.enabled
    BY <1>2 DEF ShouldStartWriteStream
  <2>2. HARD_ASSERT(s, s.state = "Error") = s
    BY <1>0, <1>2, AssertHolds
  <2>3. t = [s EXCEPT !.state = "Backoff", !.timers = @ \cup {"backoff"}]
    BY <1>2, <2>2 DEF StartIfNeeded, Start, BackoffAndTryRestarting
  <2> HIDE DEF t
  <2>4. t \in RemoteStore
    BY <1>0, <2>3 DEF RemoteStore, States, Timers
  <2>5. StreamOK(t)
    BY <1>0, <1>2, <2>1, <2>3, <2>4 DEF StreamOK, RemoteStore, IsStarted
  <2>6. Same(s, t) /\ t.pipeline = s.pipeline /\ t.up = s.up /\ t.state # "Open"
    BY <1>0, <2>3 DEF Same, RemoteStore
  <2> QED BY <2>1, <2>5, <2>6 DEF t
<1>3. CASE ShouldStartWriteStream(s) /\ s.state # "Error"
  <2>1. ~IsStarted(s) /\ s.pipeline # << >> /\ s.enabled
    BY <1>3 DEF ShouldStartWriteStream
  <2>2. s.state = "Initial"
    BY <1>0, <1>3, <2>1 DEF IsStarted, RemoteStore, States
  <2>3. HARD_ASSERT(s, s.state = "Initial") = s
    BY <1>0, <2>2, AssertHolds
  <2>4. t = [s EXCEPT !.state = "Starting", !.asks = @ \cup {s.close_count}]
    BY <1>0, <1>3, <2>3 DEF StartIfNeeded, Start, RequestCredentials, RemoteStore
  <2> HIDE DEF t
  <2>5. t \in RemoteStore
    BY <1>0, <2>4 DEF RemoteStore, States
  <2>6. Same(s, t) /\ t.pipeline = s.pipeline /\ t.up = s.up /\ t.state = "Starting"
    BY <1>0, <2>4 DEF Same, RemoteStore
  <2>7. t.timers = s.timers /\ t.asks = s.asks \cup {s.close_count} /\ s.close_count \in Nat
    BY <1>0, <2>4 DEF RemoteStore
  <2>8. \A n \in t.asks : n <= t.close_count
    BY <2>6, <2>7 DEF StreamOK, Same
  <2>9. StreamOK(t)
    BY <2>1, <2>2, <2>5, <2>6, <2>7, <2>8 DEF StreamOK, Same
  <2> QED BY <2>1, <2>6, <2>9 DEF t
<1> QED BY <1>1, <1>2, <1>3

\* The requests for a sequence of batches.
LEMMA RequestsOf ==
  ASSUME NEW new \in Seq(Batch)
  PROVE  LET ws == [k \in DOMAIN new |-> new[k].write] IN
         /\ ws \in Seq(0..MaxWrites) /\ Len(ws) = Len(new)
         /\ \A k \in 1..Len(new) : ws[k] = new[k].write
<1> DEFINE ws == [k \in DOMAIN new |-> new[k].write]
<1>1. Len(new) \in Nat /\ DOMAIN new = 1..Len(new)
  BY LenProperties
<1>2. \A b \in Batch : b.write \in 0..MaxWrites
  BY DEF Batch, Writes
<1>3. \A k \in 1..Len(new) : new[k] \in Batch
  BY ElementOfSeq
<1>4. ws \in [1..Len(new) -> 0..MaxWrites]
  BY <1>1, <1>2, <1>3
<1> QED BY <1>1, <1>4, FcnIsSeq

\* What AddToWritePipeline makes of the stream for each new batch.
Sent(s, new) ==
  LET t == [s EXCEPT !.pipeline = @ \o new]
  IN  IF IsOpen(t) /\ t.handshake THEN WriteMutations(t, new) ELSE t

\* A new batch goes to the end of the pipeline and, on a stream that is past
\* its handshake, to the end of the wire.
LEMMA SentOK ==
  ASSUME NEW s, NEW new \in Seq(Batch), StreamOK(s), WireOK(s)
  PROVE  LET t == Sent(s, new) IN
         /\ StreamOK(t) /\ WireOK(t) /\ Same(s, t)
         /\ t.pipeline = s.pipeline \o new /\ t.state = s.state /\ t.asks = s.asks
<1> DEFINE p == s.pipeline \o new
           a == [s EXCEPT !.pipeline = p]
           ws == [k \in DOMAIN new |-> new[k].write]
           t == Sent(s, new)
<1>0. s \in RemoteStore
  BY DEF StreamOK
<1>1. s.pipeline \in Seq(Batch) /\ Len(s.pipeline) \in Nat
  BY <1>0, RemoteFacts
<1>2. Len(new) \in Nat /\ DOMAIN new = 1..Len(new)
  BY LenProperties
<1>3. /\ p \in Seq(Batch) /\ Len(p) = Len(s.pipeline) + Len(new)
      /\ \A k \in 1..Len(s.pipeline) : p[k] = s.pipeline[k]
      /\ \A k \in 1..Len(new) : p[Len(s.pipeline) + k] = new[k]
  BY <1>1, ConcatParts
<1>4. s.pipeline # << >> => p # << >>
  BY <1>1, <1>2, <1>3, EmptySeq
<1>5. /\ a \in RemoteStore /\ Same(s, a) /\ a.pipeline = p /\ a.state = s.state /\ a.asks = s.asks
      /\ a.timers = s.timers /\ a.up = s.up
  BY <1>0, <1>3 DEF RemoteStore, Same
<1>6. t = IF IsOpen(s) /\ s.handshake THEN WriteMutations(a, new) ELSE a
  BY <1>0, <1>5 DEF Sent, IsOpen, Same
<1> HIDE DEF t, a
<1>7. CASE ~(IsOpen(s) /\ s.handshake)
  <2>1. t = a
    BY <1>6, <1>7
  <2>2. "idle" \notin s.timers
    BY <1>7 DEF StreamOK, IsOpen
  <2>3. StreamOK(t)
    BY <1>4, <1>5, <1>7, <2>1, <2>2 DEF StreamOK, Same, IsOpen
  <2>4. WireOK(t)
    BY <1>5, <1>7, <2>1 DEF WireOK, Same, IsOpen
  <2> QED BY <1>5, <2>1, <2>3, <2>4 DEF t
<1>8. CASE IsOpen(s) /\ s.handshake /\ new = << >>
  <2>1. t = a
    BY <1>6, <1>8 DEF WriteMutations
  <2>2. p = s.pipeline
    BY <1>1, <1>8
  <2>3. StreamOK(t)
    BY <1>5, <2>1, <2>2 DEF StreamOK, Same
  <2>4. WireOK(t)
    <3>1. t.state = "Open" /\ t.handshake
      BY <1>5, <1>8, <2>1 DEF Same, IsOpen
    <3>2. t.up = s.up /\ t.down = s.down /\ t.pipeline = s.pipeline
      BY <1>5, <2>1, <2>2 DEF Same
    <3> QED BY <1>8, <3>1, <3>2, ZenonT(60) DEF WireOK, IsOpen
  <2> QED BY <1>5, <2>1, <2>3, <2>4 DEF t
<1>9. CASE IsOpen(s) /\ s.handshake /\ new # << >>
  <2>1. HARD_ASSERT(a, IsOpen(a) /\ a.handshake) = a
    BY <1>5, <1>9, AssertHolds DEF Same, IsOpen
  <2>2. t = [a EXCEPT !.timers = @ \ {"idle"}, !.up = @ \o ws]
    BY <1>5, <1>6, <1>9, <2>1 DEF WriteMutations, SendAll, CancelIdleCheck, RemoteStore
  <2>3. ws \in Seq(0..MaxWrites) /\ Len(ws) = Len(new) /\ \A k \in 1..Len(new) : ws[k] = new[k].write
    BY RequestsOf
  <2>4. s.up \in Seq(0..MaxWrites) /\ Len(s.up) \in Nat /\ Len(s.down) \in Nat
    BY <1>0, RemoteFacts
  <2>5. /\ s.up \o ws \in Seq(0..MaxWrites) /\ Len(s.up \o ws) = Len(s.up) + Len(new)
        /\ \A k \in 1..Len(s.up) : (s.up \o ws)[k] = s.up[k]
        /\ \A k \in 1..Len(new) : (s.up \o ws)[Len(s.up) + k] = new[k].write
    <3> HIDE DEF ws
    <3>1. /\ s.up \o ws \in Seq(0..MaxWrites) /\ Len(s.up \o ws) = Len(s.up) + Len(ws)
          /\ \A k \in 1..Len(s.up) : (s.up \o ws)[k] = s.up[k]
          /\ \A k \in 1..Len(ws) : (s.up \o ws)[Len(s.up) + k] = ws[k]
      <4> DEFINE S == 0..MaxWrites
      <4>1. s.up \in Seq(S) /\ ws \in Seq(S)
        BY <2>3, <2>4
      <4> HIDE DEF S
      <4>2. s.up \o ws \in Seq(S)
        BY <4>1, ConcatParts
      <4>3. Len(s.up \o ws) = Len(s.up) + Len(ws)
        BY <4>1, ConcatParts
      <4>4. \A k \in 1..Len(s.up) : (s.up \o ws)[k] = s.up[k]
        BY <4>1, ConcatParts
      <4>5. \A k \in 1..Len(ws) : (s.up \o ws)[Len(s.up) + k] = ws[k]
        BY <4>1, ConcatParts
      <4> QED BY <4>2, <4>3, <4>4, <4>5 DEF S
    <3> QED BY <2>3, <3>1
  <2>6. /\ t \in RemoteStore /\ t.pipeline = p /\ t.state = a.state /\ t.asks = a.asks
        /\ t.timers = a.timers \ {"idle"} /\ t.up = s.up \o ws
    BY <1>5, <2>2, <2>5 DEF RemoteStore
  <2>7. Same(a, t)
    BY <1>5, <2>2 DEF RemoteStore, Same
  <2>8. Same(s, t)
    BY <1>5, <2>7 DEF Same
  <2>9. StreamOK(t)
    BY <1>4, <1>5, <1>9, <2>6, <2>8 DEF StreamOK, Same, IsOpen
  <2>10. WireOK(t)
    <3> DEFINE d == Len(s.down)
               u == Len(s.up)
               n == Len(s.pipeline)
               m == Len(new)
               v == s.up \o ws
    <3>1. d + u = n /\ \A k \in 1..u : s.up[k] = s.pipeline[d + k].write
      BY <1>9 DEF WireOK, IsOpen
    <3>2. \A k \in 1..d : \/ s.down[k] = MutationResult
                          \/ k = d /\ s.down[k] = "PermissionDenied"
      BY <1>9 DEF WireOK, IsOpen
    <3>3. /\ d \in Nat /\ u \in Nat /\ n \in Nat /\ m \in Nat
          /\ Len(v) = u + m /\ Len(p) = n + m
          /\ \A k \in 1..u : v[k] = s.up[k]
          /\ \A k \in 1..m : v[u + k] = new[k].write
          /\ \A k \in 1..n : p[k] = s.pipeline[k]
          /\ \A k \in 1..m : p[n + k] = new[k]
      BY <1>1, <1>2, <1>3, <2>4, <2>5
    <3>4. t.pipeline = p /\ t.up = v /\ t.down = s.down /\ t.state = "Open" /\ t.handshake
      BY <1>5, <1>9, <2>6, <2>8 DEF Same, IsOpen
    <3> HIDE DEF d, u, n, m, v, p
    <3>5. d + Len(v) = Len(p)
      BY <3>1, <3>3
    <3>6. \A k \in 1..Len(v) : v[k] = p[d + k].write
      <4> SUFFICES ASSUME NEW k \in 1..Len(v) PROVE v[k] = p[d + k].write
        OBVIOUS
      <4>0. k \in 1..(u + m)
        BY <3>3
      <4>1. CASE k <= u
        <5>1. k \in 1..u /\ d + k \in 1..n
          BY <3>1, <3>3, <4>0, <4>1
        <5>2. v[k] = s.up[k] /\ p[d + k] = s.pipeline[d + k]
          BY <3>3, <5>1
        <5> QED BY <3>1, <5>1, <5>2
      <4>2. CASE k > u
        <5> DEFINE j == k - u
        <5>1. j \in 1..m /\ k = u + j /\ d + k = n + j
          BY <3>1, <3>3, <4>0, <4>2
        <5>2. v[u + j] = new[j].write /\ p[n + j] = new[j]
          BY <3>3, <5>1
        <5> QED BY <5>1, <5>2
      <4> QED BY <3>3, <4>0, <4>1, <4>2
    <3> QED BY <3>2, <3>4, <3>5, <3>6 DEF WireOK, d
  <2> QED BY <1>5, <2>6, <2>8, <2>9, <2>10 DEF t
<1> QED BY <1>7, <1>8, <1>9

\* A stream that is open with nothing to send is marked idle.
Rested(s, room) == IF room > 0 /\ s.pipeline = << >> THEN MarkIdle(s) ELSE s

LEMMA RestedOK ==
  ASSUME NEW s, NEW room, StreamOK(s), WireOK(s)
  PROVE  LET t == Rested(s, room) IN
         /\ StreamOK(t) /\ WireOK(t) /\ Same(s, t)
         /\ t.pipeline = s.pipeline /\ t.state = s.state /\ t.asks = s.asks
<1> DEFINE t == Rested(s, room)
<1>0. s \in RemoteStore
  BY DEF StreamOK
<1>1. CASE t = s
  BY <1>1 DEF Same
<1>2. CASE s.pipeline = << >> /\ IsOpen(s) /\ t = [s EXCEPT !.timers = @ \cup {"idle"}]
  <2> HIDE DEF t
  <2>1. t \in RemoteStore /\ t.pipeline = s.pipeline /\ t.state = s.state /\ t.asks = s.asks
    BY <1>0, <1>2 DEF RemoteStore, Timers
  <2>2. Same(s, t) /\ t.timers = s.timers \cup {"idle"} /\ t.up = s.up
    BY <1>0, <1>2 DEF RemoteStore, Same
  <2>3. s.state = "Open" /\ s.handshake /\ s.pipeline = << >>
    BY <1>2 DEF StreamOK, IsOpen
  <2>4. StreamOK(t)
    BY <2>1, <2>2, <2>3 DEF StreamOK, Same
  <2>5. WireOK(t)
    <3>1. t.state = "Open" /\ t.handshake
      BY <2>1, <2>2, <2>3 DEF Same
    <3>2. t.up = s.up /\ t.down = s.down /\ t.pipeline = s.pipeline
      BY <2>1, <2>2 DEF Same
    <3> QED BY <2>3, <3>1, <3>2 DEF WireOK
  <2> QED BY <2>1, <2>2, <2>4, <2>5 DEF t
<1>3. t = s \/ (s.pipeline = << >> /\ IsOpen(s) /\ t = [s EXCEPT !.timers = @ \cup {"idle"}])
  BY DEF Rested, MarkIdle
<1> QED BY <1>1, <1>2, <1>3

\* FillWritePipeline is those three steps.
LEMMA FillIs ==
  ASSUME NEW s, NEW q
  PROVE  FillWritePipeline(s, q) = StartIfNeeded(Rested(Sent(s, New(s, q)), Room(s)))
BY ThenIs DEF FillWritePipeline, Sent, Rested, New

\* FillWritePipeline appends to the pipeline what comes next in the queue; it
\* starts a stream that is not started and sends on one past its handshake.
LEMMA FillOK ==
  ASSUME NEW s, NEW q, StreamOK(s), WireOK(s), PipelineOK(s, q), QueueOK(q)
  PROVE  LET t == FillWritePipeline(s, q) IN
         /\ StreamOK(t) /\ WireOK(t) /\ PipelineOK(t, q) /\ Same(s, t)
         /\ IsStarted(s) => t.state = s.state /\ t.asks = s.asks
         /\ ~IsStarted(s) => t.state # "Open"
         /\ Len(s.pipeline) <= Len(t.pipeline)
<1> DEFINE new == New(s, q)
           a == Sent(s, new)
           b == Rested(a, Room(s))
           t == StartIfNeeded(b)
<1>0. s \in RemoteStore
  BY DEF StreamOK
<1>1. new \in Seq(Batch)
  BY <1>0, NewBatches
<1> HIDE DEF new
<1>2. /\ StreamOK(a) /\ WireOK(a) /\ Same(s, a)
      /\ a.pipeline = s.pipeline \o new /\ a.state = s.state /\ a.asks = s.asks
  BY <1>1, SentOK
<1> HIDE DEF a
<1>3. /\ StreamOK(b) /\ WireOK(b) /\ Same(a, b)
      /\ b.pipeline = a.pipeline /\ b.state = a.state /\ b.asks = a.asks
  BY <1>2, RestedOK
<1> HIDE DEF b
<1>4. /\ StreamOK(t) /\ Same(b, t) /\ t.pipeline = b.pipeline /\ t.up = b.up
      /\ IsStarted(b) => t = b
      /\ ~IsStarted(b) => t.state # "Open"
  BY <1>3, StartOK
<1> HIDE DEF t
<1>5. Same(s, t) /\ t.pipeline = s.pipeline \o new
  BY <1>2, <1>3, <1>4 DEF Same
<1>6. (IsStarted(s) => t.state = s.state /\ t.asks = s.asks) /\ (~IsStarted(s) => t.state # "Open")
  BY <1>2, <1>3, <1>4 DEF IsStarted
<1>7. WireOK(t)
  <2>1. CASE IsStarted(b)
    BY <1>3, <1>4, <2>1
  <2>2. CASE ~IsStarted(b)
    BY <1>4, <2>2 DEF WireOK
  <2> QED BY <2>1, <2>2
<1>8. PipelineOK(t, q) /\ Len(s.pipeline) <= Len(t.pipeline)
  <2> DEFINE p == s.pipeline
             n == Len(p)
             r == p \o new
             m == Len(new)
  <2>1. p \in Seq(Batch) /\ n \in Nat /\ m \in Nat
    BY <1>0, <1>1, RemoteFacts, LenProperties
  <2>2. /\ Len(r) = n + m
        /\ \A k \in 1..n : r[k] = p[k]
        /\ \A k \in 1..m : r[n + k] = new[k]
    BY <1>1, <2>1, ConcatParts
  <2>3. /\ n + m <= Len(q) /\ n + m <= kMaxPendingWrites
        /\ \A k \in 1..m : new[k] = q[n + k]
    BY <1>0, NewBatches DEF new
  <2>4. \A k \in 1..n : p[k] = q[k]
    BY DEF PipelineOK
  <2>5. t.pipeline = r
    BY <1>5
  <2> HIDE DEF r, n, m, p
  <2>6. \A k \in 1..(n + m) : r[k] = q[k]
    <3> SUFFICES ASSUME NEW k \in 1..(n + m) PROVE r[k] = q[k]
      OBVIOUS
    <3>1. CASE k <= n
      BY <2>1, <2>2, <2>4, <3>1
    <3>2. CASE k > n
      <4> DEFINE j == k - n
      <4>1. j \in 1..m /\ k = n + j
        BY <2>1, <3>2
      <4> QED BY <2>2, <2>3, <4>1
    <3> QED BY <2>1, <3>1, <3>2
  <2>7. PipelineOK(t, q)
    BY <2>2, <2>3, <2>5, <2>6 DEF PipelineOK
  <2>8. n <= Len(t.pipeline)
    BY <2>1, <2>2, <2>5
  <2> QED BY <2>7, <2>8 DEF n, p
<1>9. FillWritePipeline(s, q) = t
  BY FillIs DEF t, b, a, new
<1> QED BY <1>4, <1>5, <1>6, <1>7, <1>8, <1>9

\* What a close leaves behind: no stream, nothing on the wire, another close
\* count, and not even the handshake of a stream that may be starting again.
Closed(s, t) ==
  /\ StreamOK(t) /\ t.state # "Open" /\ t.credentials = NoStream
  /\ t.up = << >> /\ t.down = << >> /\ ~t.handshake
  /\ t.close_count = s.close_count + 1 /\ t.enabled = s.enabled

\* The stream when the subclass is told of the close.
Cut(s, code) == [Shut(s, code) EXCEPT !.up = << >>, !.down = << >>]

LEMMA CutOK ==
  ASSUME NEW s, NEW code, StreamOK(s), IsStarted(s)
  PROVE  LET t == Cut(s, code) IN
         /\ StreamOK(t) /\ t.state = (IF code = "Ok" THEN "Initial" ELSE "Error")
         /\ t.credentials = NoStream /\ t.up = << >> /\ t.down = << >>
         /\ t.close_count = s.close_count + 1
         /\ t.enabled = s.enabled /\ t.handshake = s.handshake /\ t.pipeline = s.pipeline
<1> DEFINE t == Cut(s, code)
           e == IF code = "Ok" THEN "Initial" ELSE "Error"
<1>0. s \in RemoteStore
  BY DEF StreamOK
<1>1. HARD_ASSERT(s, IsStarted(s)) = s
  BY <1>0, AssertHolds
<1>2. t = [s EXCEPT !.timers = {}, !.close_count = @ + 1, !.credentials = NoStream,
                    !.state = e, !.up = << >>, !.down = << >>]
  BY <1>0, <1>1 DEF Cut, Shut, RemoteStore
<1> HIDE DEF t
<1>3. e \in States
  BY DEF States
<1> HIDE DEF e
<1>4. /\ t.state = e /\ t.timers = {} /\ t.close_count = s.close_count + 1
      /\ t.credentials = NoStream /\ t.up = << >> /\ t.down = << >>
      /\ t.asks = s.asks /\ t.handshake = s.handshake /\ t.enabled = s.enabled
      /\ t.pipeline = s.pipeline
  BY <1>0, <1>2 DEF RemoteStore
<1>5. t \in RemoteStore
  <2>1. << >> \in Seq(0..MaxWrites) /\ << >> \in Seq(Responses)
    OBVIOUS
  <2>2. s.close_count + 1 \in Nat
    BY <1>0 DEF RemoteStore
  <2>3. [s EXCEPT !.timers = {}, !.close_count = s.close_count + 1, !.credentials = NoStream,
                  !.state = e, !.up = << >>, !.down = << >>] \in RemoteStore
    BY <1>0, <1>3, <2>1, <2>2, ZenonT(30) DEF RemoteStore
  <2> QED BY <1>2, <2>3
<1>6. s.close_count \in Nat /\ s.asks \subseteq Nat
  BY <1>0 DEF RemoteStore
<1>7. \A n \in t.asks : n <= t.close_count
  BY <1>4, <1>6 DEF StreamOK
<1>8. t.close_count \notin t.asks
  BY <1>4, <1>6 DEF StreamOK
<1>9. t.state \in {"Initial", "Error"}
  BY <1>4 DEF e
<1>10. StreamOK(t)
  BY <1>4, <1>5, <1>7, <1>8, <1>9 DEF StreamOK
<1> QED BY <1>4, <1>10 DEF t, e

\* Popping the refused batch.
Popped(s) == InhibitBackoff([s EXCEPT !.pipeline = Tail(@)])

LEMMA PoppedOK ==
  ASSUME NEW s, StreamOK(s), s.state = "Error", s.pipeline # << >>
  PROVE  LET t == Popped(s) IN
         /\ StreamOK(t) /\ t.state = "Initial" /\ Same(s, t) /\ t.pipeline = Tail(s.pipeline)
<1> DEFINE a == [s EXCEPT !.pipeline = Tail(@)]
           t == Popped(s)
<1>0. s \in RemoteStore
  BY DEF StreamOK
<1>1. Tail(s.pipeline) \in Seq(Batch)
  BY <1>0, RemoteFacts, HeadTailProperties
<1>2. a \in RemoteStore /\ a.state = "Error"
  BY <1>0, <1>1 DEF RemoteStore
<1>3. HARD_ASSERT(a, ~IsStarted(a)) = a
  BY <1>2, AssertHolds DEF IsStarted
<1>4. t = [a EXCEPT !.state = "Initial"]
  BY <1>3 DEF Popped, InhibitBackoff
<1>5. t = [s EXCEPT !.pipeline = Tail(@), !.state = "Initial"]
  BY <1>0, <1>4 DEF RemoteStore
<1> HIDE DEF t
<1>6. /\ t \in RemoteStore /\ t.timers = s.timers /\ t.asks = s.asks /\ t.up = s.up
      /\ t.pipeline = Tail(s.pipeline) /\ t.state = "Initial"
  BY <1>0, <1>1, <1>5 DEF RemoteStore, States
<1>7. Same(s, t)
  BY <1>0, <1>5 DEF RemoteStore, Same
<1>8. StreamOK(t)
  BY <1>6, <1>7 DEF StreamOK, Same
<1> QED BY <1>6, <1>7, <1>8 DEF t

\* The last statement of Close.
LEMMA HandshakeReset ==
  ASSUME NEW s, StreamOK(s), s.state # "Open"
  PROVE  LET t == [s EXCEPT !.handshake = FALSE] IN
         /\ StreamOK(t) /\ ~t.handshake /\ t.state = s.state /\ t.credentials = s.credentials
         /\ t.up = s.up /\ t.down = s.down /\ t.close_count = s.close_count
         /\ t.enabled = s.enabled /\ t.pipeline = s.pipeline
<1> DEFINE t == [s EXCEPT !.handshake = FALSE]
<1>0. s \in RemoteStore
  BY DEF StreamOK
<1>1. /\ t \in RemoteStore /\ ~t.handshake /\ t.state = s.state /\ t.credentials = s.credentials
      /\ t.up = s.up /\ t.down = s.down /\ t.close_count = s.close_count
      /\ t.enabled = s.enabled /\ t.pipeline = s.pipeline /\ t.timers = s.timers
      /\ t.asks = s.asks
  BY <1>0 DEF RemoteStore
<1> HIDE DEF t
<1>2. StreamOK(t)
  BY <1>1 DEF StreamOK
<1> QED BY <1>1, <1>2 DEF t

\* A stream that ends with an error is closed; a refused front has left the
\* pipeline, which goes on being the beginning of the queue.
LEMMA CloseWithError ==
  ASSUME NEW s, NEW q, NEW code, StreamOK(s), IsStarted(s), code # "Ok", QueueOK(q),
         RefusesFront(s, code) => PipelineOK([s EXCEPT !.pipeline = Tail(@)], q),
         ~RefusesFront(s, code) => PipelineOK(s, q)
  PROVE  LET t == CloseWriteStream(s, q, code) IN Closed(s, t) /\ PipelineOK(t, q)
<1> DEFINE a == Cut(s, code)
           b == IF RefusesFront(a, code) THEN FillWritePipeline(Popped(a), q) ELSE a
           c == StartIfNeeded(b)
           t == [c EXCEPT !.handshake = FALSE]
<1>0. s \in RemoteStore
  BY DEF StreamOK
<1>1. CloseWriteStream(s, q, code) = t
  <2>1. ~IgnoresClose(s, code)
    BY DEF IgnoresClose
  <2>2. OnWriteStreamClose(a, q, code) = c
    BY ThenIs DEF OnWriteStreamClose, Popped
  <2> QED BY <2>1, <2>2, ThenIs DEF CloseWriteStream, Cut
<1>2. /\ StreamOK(a) /\ a.state = "Error"
      /\ a.credentials = NoStream /\ a.up = << >> /\ a.down = << >>
      /\ a.close_count = s.close_count + 1
      /\ a.enabled = s.enabled /\ a.handshake = s.handshake /\ a.pipeline = s.pipeline
  BY CutOK
<1> HIDE DEF a
<1>3. RefusesFront(a, code) <=> RefusesFront(s, code)
  BY <1>2 DEF RefusesFront
<1>4. StreamOK(b) /\ b.state # "Open" /\ Same(a, b) /\ PipelineOK(b, q)
  <2>1. CASE RefusesFront(a, code)
    <3> DEFINE x == Popped(a)
    <3>1. StreamOK(x) /\ x.state = "Initial" /\ Same(a, x) /\ x.pipeline = Tail(a.pipeline)
      BY <1>2, <2>1, PoppedOK DEF RefusesFront
    <3>2. b = FillWritePipeline(x, q)
      BY <2>1
    <3> HIDE DEF x, b
    <3>3. x.pipeline = [s EXCEPT !.pipeline = Tail(@)].pipeline
      BY <1>0, <1>2, <3>1 DEF RemoteStore
    <3>4. PipelineOK(x, q) /\ WireOK(x)
      BY <1>3, <2>1, <3>1, <3>3 DEF PipelineOK, WireOK
    <3>5. StreamOK(b) /\ PipelineOK(b, q) /\ Same(x, b) /\ (~IsStarted(x) => b.state # "Open")
      BY <3>1, <3>2, <3>4, FillOK
    <3> QED BY <3>1, <3>5 DEF Same, IsStarted
  <2>2. CASE ~RefusesFront(a, code)
    <3>1. b = a
      BY <2>2
    <3>2. PipelineOK(a, q)
      BY <1>2, <1>3, <2>2 DEF PipelineOK
    <3> QED BY <1>2, <3>1, <3>2 DEF Same
  <2> QED BY <2>1, <2>2
<1> HIDE DEF b
<1>5. StreamOK(c) /\ c.state # "Open" /\ Same(b, c) /\ c.pipeline = b.pipeline /\ c.up = b.up
  BY <1>4, StartOK
<1> HIDE DEF c
<1>6. /\ StreamOK(t) /\ ~t.handshake /\ t.state = c.state /\ t.credentials = c.credentials
      /\ t.up = c.up /\ t.down = c.down /\ t.close_count = c.close_count
      /\ t.enabled = c.enabled /\ t.pipeline = c.pipeline
  BY <1>5, HandshakeReset
<1> HIDE DEF t
<1>7. Closed(s, t)
  <2>1. t.up = << >> /\ t.down = << >>
    BY <1>5, <1>6 DEF StreamOK
  <2> QED BY <1>2, <1>4, <1>5, <1>6, <2>1 DEF Closed, Same
<1>8. PipelineOK(t, q)
  BY <1>4, <1>5, <1>6 DEF PipelineOK
<1> QED BY <1>1, <1>7, <1>8

\* A graceful stop, with nothing to send or with the network disabled, does
\* not start the stream again.
LEMMA CloseGracefully ==
  ASSUME NEW s, NEW q, StreamOK(s), IsStarted(s), ~s.enabled \/ s.pipeline = << >>
  PROVE  LET t == CloseWriteStream(s, q, "Ok") IN
         Closed(s, t) /\ t.state = "Initial" /\ t.pipeline = s.pipeline
<1> DEFINE a == Cut(s, "Ok")
           t == [a EXCEPT !.handshake = FALSE]
<1>1. /\ StreamOK(a) /\ a.state = "Initial"
      /\ a.credentials = NoStream /\ a.up = << >> /\ a.down = << >>
      /\ a.close_count = s.close_count + 1
      /\ a.enabled = s.enabled /\ a.handshake = s.handshake /\ a.pipeline = s.pipeline
  BY CutOK
<1>2. CloseWriteStream(s, q, "Ok") = t
  <2>1. ~IgnoresClose(s, "Ok")
    BY DEF IgnoresClose
  <2>2. ~ShouldStartWriteStream(a)
    BY <1>1 DEF ShouldStartWriteStream
  <2>3. HARD_ASSERT(a, ~ShouldStartWriteStream(a)) = a
    BY <1>1, <2>2, AssertHolds DEF StreamOK
  <2>4. OnWriteStreamClose(a, q, "Ok") = a
    BY <2>2, <2>3, ThenIs DEF OnWriteStreamClose, RefusesFront, StartIfNeeded
  <2> QED BY <2>1, <2>4, ThenIs DEF CloseWriteStream, Cut
<1> HIDE DEF a
<1>3. /\ StreamOK(t) /\ ~t.handshake /\ t.state = a.state /\ t.credentials = a.credentials
      /\ t.up = a.up /\ t.down = a.down /\ t.close_count = a.close_count
      /\ t.enabled = a.enabled /\ t.pipeline = a.pipeline
  BY <1>1, HandshakeReset
<1> HIDE DEF t
<1>4. Closed(s, t)
  BY <1>1, <1>3 DEF Closed
<1> QED BY <1>1, <1>2, <1>3, <1>4

\* A remote store with the network enabled and no stream yet.
Fresh(t, q) ==
  /\ StreamOK(t) /\ WireOK(t) /\ PipelineOK(t, q) /\ t.enabled /\ ~t.handshake
  /\ t.state # "Open" /\ t.credentials = NoStream /\ t.up = << >> /\ t.down = << >>

\* EnableNetwork fills the empty pipeline from the queue.
LEMMA EnableOK ==
  ASSUME NEW s, NEW q, StreamOK(s), ~IsStarted(s), s.pipeline = << >>, ~s.handshake, QueueOK(q)
  PROVE  LET t == EnableNetwork(s, q) IN Fresh(t, q) /\ t.close_count = s.close_count
<1> DEFINE a == [s EXCEPT !.enabled = TRUE]
           t == EnableNetwork(s, q)
<1>0. s \in RemoteStore
  BY DEF StreamOK
<1>1. /\ a \in RemoteStore /\ ~a.handshake /\ a.state = s.state /\ a.credentials = s.credentials
      /\ a.up = s.up /\ a.down = s.down /\ a.close_count = s.close_count
      /\ a.enabled /\ a.pipeline = s.pipeline /\ a.timers = s.timers
      /\ a.asks = s.asks
  BY <1>0 DEF RemoteStore
<1>2. t = FillWritePipeline(a, q)
  BY DEF EnableNetwork
<1> HIDE DEF a, t
<1>3. StreamOK(a)
  BY <1>1 DEF StreamOK, IsStarted
<1>4. s.state # "Open" /\ s.credentials = NoStream
  BY DEF StreamOK, IsStarted
<1>5. ~IsStarted(a) /\ WireOK(a)
  BY <1>1, <1>4 DEF IsStarted, WireOK
<1>6. PipelineOK(a, q)
  <2>1. Len(a.pipeline) = 0 /\ Len(q) \in Nat /\ kMaxPendingWrites \in Nat
    BY <1>1, QueueFacts, EmptySeq, BoundsAssumption
  <2> QED BY <2>1 DEF PipelineOK
<1>7. StreamOK(t) /\ WireOK(t) /\ PipelineOK(t, q) /\ Same(a, t) /\ t.state # "Open"
  BY <1>2, <1>3, <1>5, <1>6, FillOK
<1>8. t.up = << >> /\ t.down = << >>
  BY <1>7 DEF StreamOK
<1> QED BY <1>1, <1>4, <1>7, <1>8 DEF Fresh, Same, t

\* The remote store of a process that has just started.
LEMMA NewOK ==
  ASSUME NEW q, QueueOK(q)
  PROVE  Fresh(EnableNetwork(NewRemoteStore, q), q)
<1> DEFINE s == NewRemoteStore
<1>1. << >> \in Seq(Batch) /\ << >> \in Seq(0..MaxWrites) /\ << >> \in Seq(Responses)
  OBVIOUS
<1>2. s \in RemoteStore
  BY <1>1 DEF NewRemoteStore, NewStream, RemoteStore, States
<1>3. /\ s.state = "Initial" /\ s.credentials = NoStream /\ s.timers = {} /\ s.asks = {}
      /\ s.pipeline = << >> /\ s.up = << >> /\ s.down = << >> /\ ~s.handshake
  BY DEF NewRemoteStore, NewStream
<1> HIDE DEF s
<1>4. StreamOK(s) /\ ~IsStarted(s)
  BY <1>2, <1>3 DEF StreamOK, IsStarted
<1> QED BY <1>3, <1>4, EnableOK DEF s

\* RestartNetwork drops the stream and the pipeline and begins with queue q.
LEMMA RestartOK ==
  ASSUME NEW s, NEW q, StreamOK(s), s.handshake => s.state = "Open", QueueOK(q)
  PROVE  LET t == RestartNetwork(s, q) IN
         /\ Fresh(t, q)
         /\ t.close_count = IF IsStarted(s) THEN s.close_count + 1 ELSE s.close_count
<1> DEFINE a == [s EXCEPT !.enabled = FALSE]
           b == CloseWriteStream(a, q, "Ok")
           c == [b EXCEPT !.pipeline = << >>]
           d == InhibitBackoff(c)
           t == EnableNetwork(d, q)
           n == IF IsStarted(s) THEN s.close_count + 1 ELSE s.close_count
<1>0. s \in RemoteStore
  BY DEF StreamOK
<1>1. RestartNetwork(s, q) = t
  BY ThenIs DEF RestartNetwork, DisableNetworkInternal
<1>2. /\ a \in RemoteStore /\ a.handshake = s.handshake /\ a.state = s.state
      /\ a.credentials = s.credentials /\ a.up = s.up /\ a.down = s.down
      /\ a.close_count = s.close_count /\ ~a.enabled /\ a.pipeline = s.pipeline
      /\ a.timers = s.timers /\ a.asks = s.asks
  BY <1>0 DEF RemoteStore
<1> HIDE DEF a
<1>3. StreamOK(a) /\ (IsStarted(a) <=> IsStarted(s))
  BY <1>2 DEF StreamOK, IsStarted
<1>4. StreamOK(b) /\ ~IsStarted(b) /\ ~b.handshake /\ b.close_count = n
  <2>1. CASE IsStarted(a)
    <3>1. Closed(a, b) /\ b.state = "Initial"
      BY <1>2, <1>3, <2>1, CloseGracefully
    <3> QED BY <1>2, <1>3, <2>1, <3>1 DEF Closed, IsStarted
  <2>2. CASE ~IsStarted(a)
    <3>1. b = a
      BY <2>2 DEF CloseWriteStream, IgnoresClose
    <3> QED BY <1>2, <1>3, <2>2, <3>1 DEF IsStarted
  <2> QED BY <2>1, <2>2
<1> HIDE DEF b, n
<1>5. b \in RemoteStore
  BY <1>4 DEF StreamOK
<1>6. /\ c \in RemoteStore /\ c.handshake = b.handshake /\ c.state = b.state
      /\ c.credentials = b.credentials /\ c.up = b.up /\ c.down = b.down
      /\ c.close_count = b.close_count /\ c.pipeline = << >>
      /\ c.timers = b.timers /\ c.asks = b.asks
  <2>1. << >> \in Seq(Batch)
    OBVIOUS
  <2> QED BY <1>5, <2>1 DEF RemoteStore
<1> HIDE DEF c
<1>7. d = [c EXCEPT !.state = "Initial"]
  <2>1. ~IsStarted(c)
    BY <1>4, <1>6 DEF IsStarted
  <2>2. HARD_ASSERT(c, ~IsStarted(c)) = c
    BY <1>6, <2>1, AssertHolds
  <2> QED BY <2>2 DEF InhibitBackoff
<1> HIDE DEF d
<1>8. /\ d \in RemoteStore /\ d.handshake = c.handshake /\ d.state = "Initial"
      /\ d.credentials = c.credentials /\ d.up = c.up /\ d.down = c.down
      /\ d.close_count = c.close_count /\ d.pipeline = << >>
      /\ d.timers = c.timers /\ d.asks = c.asks
  BY <1>6, <1>7 DEF RemoteStore, States
<1>9. StreamOK(d)
  <2>1. b.credentials = NoStream /\ b.up = << >> /\ b.down = << >> /\ b.timers = {}
    <3>1. \A x \in b.timers : x \in {"idle", "backoff"}
      BY <1>5 DEF RemoteStore, Timers
    <3>2. b.state \notin {"Starting", "Open", "Backoff"}
      BY <1>4 DEF IsStarted
    <3>3. b.credentials = NoStream /\ b.up = << >> /\ b.down = << >>
      BY <1>4, <3>2 DEF StreamOK
    <3>4. "idle" \notin b.timers /\ "backoff" \notin b.timers
      BY <1>4, <3>2 DEF StreamOK
    <3> QED BY <3>1, <3>3, <3>4
  <2>2. b.close_count \notin b.asks
    BY <1>4 DEF StreamOK, IsStarted
  <2>3. \A k \in b.asks : k <= b.close_count
    BY <1>4 DEF StreamOK
  <2> QED BY <1>4, <1>6, <1>8, <2>1, <2>2, <2>3 DEF StreamOK
<1>10. ~IsStarted(d) /\ ~d.handshake /\ d.close_count = n
  BY <1>4, <1>6, <1>8 DEF IsStarted
<1>11. Fresh(t, q) /\ t.close_count = n
  BY <1>8, <1>9, <1>10, EnableOK
<1> QED BY <1>1, <1>11 DEF n

\* The backoff timer starts the stream.
LEMMA BackoffOK ==
  ASSUME NEW s, StreamOK(s), "backoff" \in s.timers
  PROVE  LET t == BackoffElapsed(s) IN
         /\ StreamOK(t) /\ t.state = "Starting" /\ Same(s, t) /\ t.pipeline = s.pipeline
         /\ t.up = s.up
<1> DEFINE a == [s EXCEPT !.state = "Initial", !.timers = @ \ {"backoff"}]
           t == [s EXCEPT !.state = "Starting", !.timers = @ \ {"backoff"},
                          !.asks = @ \cup {s.close_count}]
<1>0. s \in RemoteStore /\ s.state = "Backoff"
  BY DEF StreamOK
<1>1. HARD_ASSERT(s, s.state = "Backoff") = s
  BY <1>0, AssertHolds
<1>2. a \in RemoteStore /\ a.state = "Initial"
  BY <1>0 DEF RemoteStore, States, Timers
<1>3. HARD_ASSERT(a, a.state = "Initial") = a
  BY <1>2, AssertHolds
<1>4. Start(a) = t
  BY <1>0, <1>2, <1>3 DEF Start, RequestCredentials, RemoteStore
<1>5. /\ t \in RemoteStore /\ t.state = "Starting" /\ t.pipeline = s.pipeline /\ t.up = s.up
      /\ t.timers = s.timers \ {"backoff"} /\ t.asks = s.asks \cup {s.close_count}
      /\ s.close_count \in Nat
  BY <1>0 DEF RemoteStore, States
<1>6. Same(s, t)
  BY <1>0 DEF RemoteStore, Same
<1> HIDE DEF t
<1>7. HARD_ASSERT(t, IsStarted(t)) = t
  BY <1>5, AssertHolds DEF IsStarted
<1>8. BackoffElapsed(s) = t
  BY <1>1, <1>4, <1>7, ThenIs DEF BackoffElapsed
<1>9. \A k \in t.asks : k <= t.close_count
  BY <1>5, <1>6 DEF StreamOK, Same
<1>10. StreamOK(t)
  BY <1>0, <1>5, <1>6, <1>9 DEF StreamOK, Same
<1> QED BY <1>5, <1>6, <1>8, <1>10

-----------------------------------------------------------------------------
(***************************************************************************)
(* Facts about the states of the invariant.                                *)
(***************************************************************************)

\* What a task on the worker queue carries.
LEMMA TaskFields ==
  ASSUME NEW t \in Task
  PROVE  /\ t.kind \in {"write", "user", "token"}
         /\ IsWrite(t) => t.write \in 1..MaxWrites
         /\ t.kind = "user" => t.user \in Users
         /\ t.kind = "token" =>
              t.close_count \in Nat /\ t.code \in {"Ok", "Unknown"} /\ t.user \in Users
BY DEF Task, IsWrite, Writes

\* The tasks when there is one more, and when the oldest has run.
LEMMA TasksAre ==
  ASSUME StateOK
  PROVE  /\ tasks \in Seq(Task) /\ Len(tasks) \in Nat
         /\ \A i \in 1..Len(tasks) : tasks[i] \in Task
<1>1. tasks \in Seq(Task)
  BY DEF StateOK
<1> QED BY <1>1, LenProperties, ElementOfSeq

LEMMA TaskEnqueued ==
  ASSUME StateOK, NEW t \in Task, Enqueue(t)
  PROVE  /\ tasks' \in Seq(Task) /\ Len(tasks') = Len(tasks) + 1
         /\ \A i \in 1..Len(tasks) : tasks'[i] = tasks[i]
         /\ tasks'[Len(tasks) + 1] = t
<1>1. tasks \in Seq(Task)
  BY DEF StateOK
<1>2. tasks' = Append(tasks, t)
  BY DEF Enqueue
<1> QED BY <1>1, <1>2, AppendParts

LEMMA TaskRun ==
  ASSUME StateOK, tasks # << >>, tasks' = Tail(tasks)
  PROVE  /\ tasks' \in Seq(Task) /\ Len(tasks) \in Nat \ {0} /\ Len(tasks') = Len(tasks) - 1
         /\ Head(tasks) = tasks[1] /\ Head(tasks) \in Task
         /\ \A i \in 1..Len(tasks') : tasks'[i] = tasks[i + 1]
<1>1. tasks \in Seq(Task)
  BY DEF StateOK
<1> QED BY <1>1, TailParts

\* The type invariant follows.
LEMMA Typed ==
  ASSUME IInv
  PROVE  TypeOK
<1>1. rs \in RemoteStore /\ Len(rs.pipeline) <= kMaxPendingWrites
  BY DEF IInv, RemoteOK, StreamOK, PipelineOK
<1>2. /\ rs.state \in States /\ rs.timers \subseteq Timers
      /\ rs.close_count \in Nat /\ rs.asks \subseteq Nat
      /\ rs.credentials \in Users \cup {NoStream}
  BY <1>1 DEF RemoteStore
<1>3. rs.pipeline \in Seq(Batch) /\ rs.up \in Seq(0..MaxWrites)
  BY <1>1 DEF RemoteStore
<1>4. rs.down \in Seq({HandshakeResponse, MutationResult} \cup Codes)
  BY <1>1 DEF RemoteStore, Responses
<1> QED BY <1>1, <1>2, <1>3, <1>4 DEF IInv, StateOK, TypeOK

\* A remote store without a stream satisfies what is said of it.
LEMMA FreshRemote ==
  ASSUME Fresh(rs', queue'[user'])
  PROVE  RemoteOK' /\ AnswersOK' /\ ResultsOK'
<1>1. RemoteOK'
  BY DEF Fresh, RemoteOK
<1> QED BY <1>1 DEF Fresh, AnswersOK, ResultsOK

\* A step that closes a started stream or finds none outdates every token.
LEMMA TokensOutdated ==
  ASSUME StateOK, RemoteOK, TokensOK,
         rs'.close_count = IF IsStarted(rs) THEN rs.close_count + 1 ELSE rs.close_count,
         \A i \in 1..Len(tasks') : tasks'[i].kind = "token" =>
            \E j \in 1..Len(tasks) : tasks'[i] = tasks[j]
  PROVE  TokensOK'
<1>0. rs.close_count \in Nat
  BY DEF RemoteOK, StreamOK, RemoteStore
<1>1. ASSUME NEW i \in 1..Len(tasks'), tasks'[i].kind = "token"
      PROVE  tasks'[i].close_count <= rs'.close_count /\ tasks'[i].close_count # rs'.close_count
  <2>1. PICK j \in 1..Len(tasks) : tasks'[i] = tasks[j]
    BY <1>1
  <2> DEFINE n == tasks[j].close_count
  <2>2. tasks[j] \in Task /\ tasks[j].kind = "token"
    BY <1>1, <2>1, TasksAre
  <2>3. n \in Nat
    BY <2>2, TaskFields
  <2>4. n <= rs.close_count /\ (n = rs.close_count => rs.state = "Starting")
    BY <2>2 DEF TokensOK
  <2> HIDE DEF n
  <2>5. n <= rs'.close_count /\ n # rs'.close_count
    <3>1. CASE IsStarted(rs)
      BY <1>0, <2>3, <2>4, <3>1
    <3>2. CASE ~IsStarted(rs)
      BY <1>0, <2>3, <2>4, <3>2 DEF IsStarted
    <3> QED BY <3>1, <3>2
  <2> QED BY <2>1, <2>5 DEF n
<1> QED BY <1>1 DEF TokensOK

\* A step of the stream alone.
LEMMA OnlyRemote ==
  ASSUME IInv, UNCHANGED <<appVars, tasks, engineVars, server>>,
         disturbances' \in 0..MaxDisturbances, RemoteOK', AnswersOK', TokensOK', ResultsOK'
  PROVE  IInv'
<1>1. /\ calls' = calls /\ authUser' = authUser /\ tasks' = tasks /\ user' = user
      /\ queue' = queue /\ nextBatchId' = nextBatchId /\ callbacks' = callbacks
      /\ told' = told /\ acked' = acked /\ server' = server
  BY DEF appVars, engineVars
<1>2. StateOK'
  BY <1>1 DEF IInv, StateOK
<1>3. QueuesOK' /\ WaitingOK'
  BY <1>1 DEF IInv, QueuesOK, WaitingOK
<1>4. TurnsOK'
  BY <1>1 DEF IInv, TurnsOK, InTurn
<1>5. CallbacksOK' /\ ToldOK' /\ WrittenOK' /\ ServerAgrees'
  BY <1>1 DEF IInv, CallbacksOK, ToldOK, WrittenOK, ServerAgrees, DocOf, Pending
<1> QED BY <1>2, <1>3, <1>4, <1>5 DEF IInv

\* The worker queue grows: the turns go on.
LEMMA TurnsAppended ==
  ASSUME StateOK, TurnsOK, NEW t \in Task, Enqueue(t), user' = user,
         \A i \in 1..Len(tasks) :
            IsWrite(tasks[i]) => calls'[tasks[i].write].user = calls[tasks[i].write].user,
         authUser' = (IF t.kind = "user" THEN t.user ELSE authUser),
         authUser' \in Users,
         IsWrite(t) => calls'[t.write].user = authUser',
         t.kind = "token" => t.user = authUser'
  PROVE  TurnsOK'
<1>0. /\ Len(tasks) \in Nat /\ Len(tasks') = Len(tasks) + 1
      /\ \A i \in 1..Len(tasks) : tasks'[i] = tasks[i]
      /\ tasks'[Len(tasks) + 1] = t
  BY TasksAre, TaskEnqueued
<1> DEFINE n == Len(tasks)
<1>1. PICK turn \in [0..n -> Users] : InTurn(turn)
  BY DEF TurnsOK
<1> HIDE DEF n
<1>2. PICK next \in [0..(n + 1) -> Users] :
        next = [i \in 0..(n + 1) |-> IF i = n + 1 THEN authUser' ELSE turn[i]]
  <2> DEFINE g == [i \in 0..(n + 1) |-> IF i = n + 1 THEN authUser' ELSE turn[i]]
  <2>1. ASSUME NEW i \in 0..(n + 1)
        PROVE  (IF i = n + 1 THEN authUser' ELSE turn[i]) \in Users
    <3>1. i # n + 1 => i \in 0..n
      BY <1>0 DEF n
    <3> QED BY <1>1, <3>1
  <2>2. g \in [0..(n + 1) -> Users]
    BY <2>1
  <2> HIDE DEF g
  <2>3. \E next \in [0..(n + 1) -> Users] : next = g
    BY <2>2
  <2> QED BY <2>3 DEF g
<1>3. (\A i \in 0..n : next[i] = turn[i]) /\ next[n + 1] = authUser'
  BY <1>0, <1>2 DEF n
<1>4. turn[0] = user /\ turn[n] = authUser
  BY <1>1 DEF InTurn, n
<1>5. next[0] = user' /\ next[n + 1] = authUser'
  BY <1>0, <1>3, <1>4 DEF n
<1>6. ASSUME NEW i \in 1..(n + 1)
      PROVE  /\ next[i] = IF tasks'[i].kind = "user" THEN tasks'[i].user ELSE next[i - 1]
             /\ IsWrite(tasks'[i]) => calls'[tasks'[i].write].user = next[i]
             /\ tasks'[i].kind = "token" => tasks'[i].user = next[i]
  <2>1. CASE i = n + 1
    <3>1. tasks'[i] = t /\ next[i] = authUser'
      BY <1>0, <1>3, <2>1 DEF n
    <3>2. next[i - 1] = authUser
      BY <1>0, <1>3, <1>4, <2>1 DEF n
    <3> QED BY <3>1, <3>2
  <2>2. CASE i # n + 1
    <3>1. i \in 1..n /\ i - 1 \in 0..n /\ i \in 0..n
      BY <1>0, <2>2 DEF n
    <3>2. tasks'[i] = tasks[i] /\ next[i] = turn[i] /\ next[i - 1] = turn[i - 1]
      BY <1>0, <1>3, <3>1 DEF n
    <3>3. /\ turn[i] = IF tasks[i].kind = "user" THEN tasks[i].user ELSE turn[i - 1]
          /\ IsWrite(tasks[i]) => calls[tasks[i].write].user = turn[i]
          /\ tasks[i].kind = "token" => tasks[i].user = turn[i]
      BY <1>1, <3>1 DEF InTurn, n
    <3>4. IsWrite(tasks[i]) => calls'[tasks[i].write].user = turn[i]
      BY <3>1, <3>3 DEF n
    <3> QED BY <3>2, <3>3, <3>4
  <2> QED BY <2>1, <2>2
<1>7. Len(tasks') = n + 1
  BY <1>0 DEF n
<1>8. InTurn(next)'
  BY <1>5, <1>6, <1>7 DEF InTurn
<1>9. next \in [0..Len(tasks') -> Users]
  BY <1>7
<1> QED BY <1>8, <1>9 DEF TurnsOK

\* The oldest task runs: the turns move on.
LEMMA TurnsRun ==
  ASSUME StateOK, TurnsOK, tasks # << >>, tasks' = Tail(tasks),
         calls' = calls, authUser' = authUser,
         user' = IF Head(tasks).kind = "user" THEN Head(tasks).user ELSE user
  PROVE  TurnsOK'
<1>0. /\ Len(tasks) \in Nat \ {0} /\ Len(tasks') = Len(tasks) - 1
      /\ Head(tasks) = tasks[1] /\ \A i \in 1..Len(tasks') : tasks'[i] = tasks[i + 1]
  BY TaskRun
<1> DEFINE n == Len(tasks)
<1>1. PICK turn \in [0..n -> Users] : InTurn(turn)
  BY DEF TurnsOK
<1> HIDE DEF n
<1>2. PICK next \in [0..(n - 1) -> Users] : next = [i \in 0..(n - 1) |-> turn[i + 1]]
  <2> DEFINE g == [i \in 0..(n - 1) |-> turn[i + 1]]
  <2>1. \A i \in 0..(n - 1) : turn[i + 1] \in Users
    BY <1>0, <1>1 DEF n
  <2>2. g \in [0..(n - 1) -> Users]
    BY <2>1
  <2> HIDE DEF g
  <2>3. \E next \in [0..(n - 1) -> Users] : next = g
    BY <2>2
  <2> QED BY <2>3 DEF g
<1>3. \A i \in 0..(n - 1) : next[i] = turn[i + 1]
  BY <1>2
<1>4. /\ turn[0] = user /\ turn[n] = authUser
      /\ turn[1] = IF tasks[1].kind = "user" THEN tasks[1].user ELSE turn[1 - 1]
  BY <1>0, <1>1 DEF InTurn, n
<1>5. next[0] = user' /\ next[n - 1] = authUser'
  <2>1. next[0] = turn[1] /\ next[n - 1] = turn[n]
    <3>1. 0 \in 0..(n - 1) /\ n - 1 \in 0..(n - 1) /\ 0 + 1 = 1 /\ n - 1 + 1 = n
      BY <1>0 DEF n
    <3> QED BY <1>3, <3>1
  <2>2. turn[1 - 1] = user
    BY <1>4
  <2> QED BY <1>0, <1>4, <2>1, <2>2
<1>6. ASSUME NEW i \in 1..(n - 1)
      PROVE  /\ next[i] = IF tasks'[i].kind = "user" THEN tasks'[i].user ELSE next[i - 1]
             /\ IsWrite(tasks'[i]) => calls'[tasks'[i].write].user = next[i]
             /\ tasks'[i].kind = "token" => tasks'[i].user = next[i]
  <2>1. i + 1 \in 1..n /\ i - 1 \in 0..(n - 1) /\ i \in 0..(n - 1) /\ i - 1 + 1 = i /\ i + 1 - 1 = i
    BY <1>0 DEF n
  <2>2. tasks'[i] = tasks[i + 1] /\ next[i] = turn[i + 1] /\ next[i - 1] = turn[i]
    BY <1>0, <1>3, <2>1 DEF n
  <2>3. /\ turn[i + 1] = IF tasks[i + 1].kind = "user" THEN tasks[i + 1].user ELSE turn[i + 1 - 1]
        /\ IsWrite(tasks[i + 1]) => calls[tasks[i + 1].write].user = turn[i + 1]
        /\ tasks[i + 1].kind = "token" => tasks[i + 1].user = turn[i + 1]
    BY <1>1, <2>1 DEF InTurn, n
  <2>4. turn[i + 1 - 1] = turn[i]
    BY <2>1
  <2> QED BY <2>2, <2>3, <2>4
<1>7. Len(tasks') = n - 1
  BY <1>0 DEF n
<1>8. InTurn(next)'
  BY <1>5, <1>6, <1>7 DEF InTurn
<1>9. next \in [0..Len(tasks') -> Users]
  BY <1>7
<1> QED BY <1>8, <1>9 DEF TurnsOK

\* The oldest task runs in the turn of the current user.
LEMMA FirstTurn ==
  ASSUME StateOK, TurnsOK, tasks # << >>
  PROVE  /\ IsWrite(Head(tasks)) => calls[Head(tasks).write].user = user
         /\ Head(tasks).kind = "token" => Head(tasks).user = user
<1>0. Len(tasks) \in Nat \ {0} /\ Head(tasks) = tasks[1]
  BY TailParts DEF StateOK
<1>1. PICK turn \in [0..Len(tasks) -> Users] : InTurn(turn)
  BY DEF TurnsOK
<1>2. 1 \in 1..Len(tasks) /\ 1 - 1 = 0
  BY <1>0
<1>3. /\ turn[0] = user
      /\ turn[1] = IF tasks[1].kind = "user" THEN tasks[1].user ELSE turn[0]
      /\ IsWrite(tasks[1]) => calls[tasks[1].write].user = turn[1]
      /\ tasks[1].kind = "token" => tasks[1].user = turn[1]
  BY <1>1, <1>2 DEF InTurn
<1> QED BY <1>0, <1>3 DEF IsWrite

\* The oldest task runs: the other writes go on waiting.
LEMMA WaitingRun ==
  ASSUME StateOK, WaitingOK, tasks # << >>, tasks' = Tail(tasks), calls' = calls, told' = told,
         \A i \in 2..Len(tasks) : IsWrite(tasks[i]) =>
           /\ nextBatchId' <= tasks[i].write
           /\ \A u \in Users : \A k \in 1..Len(queue'[u]) : queue'[u][k].write < tasks[i].write
  PROVE  WaitingOK'
<1>0. /\ Len(tasks) \in Nat \ {0} /\ Len(tasks') = Len(tasks) - 1
      /\ \A i \in 1..Len(tasks') : tasks'[i] = tasks[i + 1]
  BY TaskRun
<1> DEFINE n == Len(tasks)
           m == Len(tasks')
<1>1. ASSUME NEW i \in 1..m, IsWrite(tasks'[i])
      PROVE  /\ tasks'[i].write <= Len(calls') /\ told'[tasks'[i].write] = << >>
             /\ nextBatchId' <= tasks'[i].write
             /\ \A u \in Users : \A k \in 1..Len(queue'[u]) : queue'[u][k].write < tasks'[i].write
             /\ \A j \in 1..m : i < j /\ IsWrite(tasks'[j]) => tasks'[i].write < tasks'[j].write
             /\ \/ tasks'[i].write = Len(calls')
                \/ \E j \in 1..m :
                     i < j /\ IsWrite(tasks'[j]) /\ tasks'[j].write = tasks'[i].write + 1
  <2>0. i + 1 \in 1..n /\ i + 1 \in 2..n /\ tasks'[i] = tasks[i + 1]
    BY <1>0
  <2>1. /\ tasks[i + 1].write <= Len(calls) /\ told[tasks[i + 1].write] = << >>
        /\ \A j \in 1..n : i + 1 < j /\ IsWrite(tasks[j]) => tasks[i + 1].write < tasks[j].write
        /\ \/ tasks[i + 1].write = Len(calls)
           \/ \E j \in 1..n :
                i + 1 < j /\ IsWrite(tasks[j]) /\ tasks[j].write = tasks[i + 1].write + 1
    BY <1>1, <2>0 DEF WaitingOK
  <2>2. /\ nextBatchId' <= tasks[i + 1].write
        /\ \A u \in Users : \A k \in 1..Len(queue'[u]) : queue'[u][k].write < tasks[i + 1].write
    BY <1>1, <2>0
  <2>3. \A j \in 1..m : i < j /\ IsWrite(tasks'[j]) => tasks'[i].write < tasks'[j].write
    <3> SUFFICES ASSUME NEW j \in 1..m, i < j, IsWrite(tasks'[j])
                 PROVE  tasks'[i].write < tasks'[j].write
      OBVIOUS
    <3>1. j + 1 \in 1..n /\ i + 1 < j + 1 /\ tasks'[j] = tasks[j + 1]
      BY <1>0
    <3> QED BY <2>0, <2>1, <3>1
  <2>4. ASSUME NEW j \in 1..n, i + 1 < j, IsWrite(tasks[j]), tasks[j].write = tasks[i + 1].write + 1
        PROVE  \E l \in 1..m : i < l /\ IsWrite(tasks'[l]) /\ tasks'[l].write = tasks'[i].write + 1
    <3>1. j - 1 \in 1..m /\ i < j - 1 /\ j - 1 + 1 = j
      BY <1>0, <2>4
    <3>2. tasks'[j - 1] = tasks[j]
      BY <1>0, <3>1
    <3> QED BY <2>0, <2>4, <3>1, <3>2
  <2> QED BY <2>0, <2>1, <2>2, <2>3, <2>4
<1> QED BY <1>1 DEF WaitingOK

\* The oldest task runs, or none: tokens are kept as long as the stream waits.
LEMMA TokensKept ==
  ASSUME TokensOK, tasks' = tasks, rs'.close_count = rs.close_count,
         rs.state = "Starting" /\ rs.credentials = NoStream =>
           rs'.state = "Starting" /\ rs'.credentials = NoStream /\ rs'.asks = rs.asks
  PROVE  TokensOK'
BY DEF TokensOK

LEMMA TokensRun ==
  ASSUME StateOK, TokensOK, tasks # << >>, tasks' = Tail(tasks), rs'.close_count = rs.close_count,
         rs.state = "Starting" /\ rs.credentials = NoStream =>
           rs'.state = "Starting" /\ rs'.credentials = NoStream /\ rs'.asks = rs.asks
  PROVE  TokensOK'
<1>0. /\ Len(tasks) \in Nat \ {0} /\ Len(tasks') = Len(tasks) - 1
      /\ \A i \in 1..Len(tasks') : tasks'[i] = tasks[i + 1]
  BY TaskRun
<1>1. ASSUME NEW i \in 1..Len(tasks'), tasks'[i].kind = "token"
      PROVE  /\ tasks'[i].close_count <= rs'.close_count
             /\ tasks'[i].close_count = rs'.close_count =>
                  /\ rs'.state = "Starting" /\ rs'.credentials = NoStream
                  /\ rs'.close_count \notin rs'.asks
                  /\ \A j \in 1..Len(tasks') :
                       tasks'[j].kind = "token" /\ tasks'[j].close_count = rs'.close_count => j = i
  <2>1. i + 1 \in 1..Len(tasks) /\ tasks'[i] = tasks[i + 1]
    BY <1>0
  <2>2. /\ tasks[i + 1].close_count <= rs.close_count
        /\ tasks[i + 1].close_count = rs.close_count =>
             /\ rs.state = "Starting" /\ rs.credentials = NoStream /\ rs.close_count \notin rs.asks
             /\ \A j \in 1..Len(tasks) :
                  tasks[j].kind = "token" /\ tasks[j].close_count = rs.close_count => j = i + 1
    BY <1>1, <2>1 DEF TokensOK
  <2>3. ASSUME tasks[i + 1].close_count = rs.close_count,
               NEW j \in 1..Len(tasks'), tasks'[j].kind = "token",
               tasks'[j].close_count = rs.close_count
        PROVE  j = i
    <3>1. j + 1 \in 1..Len(tasks) /\ tasks'[j] = tasks[j + 1]
      BY <1>0
    <3>2. j + 1 = i + 1
      BY <2>2, <2>3, <3>1
    <3> QED BY <1>0, <3>2
  <2> QED BY <2>1, <2>2, <2>3
<1> QED BY <1>1 DEF TokensOK

\* The writes in the queues and in the pipeline have been called.
LEMMA QueuedWrites ==
  ASSUME StateOK, QueuesOK
  PROVE  \A u \in Users : \A k \in 1..Len(queue[u]) : queue[u][k].write \in 1..Len(calls)
<1> SUFFICES ASSUME NEW u \in Users, NEW k \in 1..Len(queue[u])
             PROVE  queue[u][k].write \in 1..Len(calls)
  OBVIOUS
<1>1. QueueOK(queue[u]) /\ queue[u][k].write <= Len(calls)
  BY DEF QueuesOK
<1>2. queue[u][k].write \in 1..MaxWrites
  BY <1>1, QueueFacts
<1>3. Len(calls) \in Nat
  BY LenProperties DEF StateOK
<1> QED BY <1>1, <1>2, <1>3, BoundsAssumption

LEMMA PipelineFacts ==
  ASSUME IInv
  PROVE  /\ rs \in RemoteStore /\ rs.pipeline \in Seq(Batch) /\ Len(rs.pipeline) \in Nat
         /\ user \in Users /\ QueueOK(queue[user])
         /\ \A k \in 1..Len(rs.pipeline) : k \in 1..Len(queue[user]) /\ rs.pipeline[k] = queue[user][k]
         /\ \A k \in 1..Len(rs.pipeline) : rs.pipeline[k].write \in 1..Len(calls)
<1>1. user \in Users /\ PipelineOK(rs, queue[user]) /\ QueueOK(queue[user])
  BY DEF IInv, StateOK, RemoteOK, QueuesOK
<1>2. rs \in RemoteStore
  BY DEF IInv, RemoteOK, StreamOK
<1>3. rs.pipeline \in Seq(Batch) /\ Len(rs.pipeline) \in Nat
  BY <1>2, RemoteFacts
<1>4. Len(queue[user]) \in Nat
  BY <1>1, QueueFacts
<1>5. \A k \in 1..Len(rs.pipeline) : k \in 1..Len(queue[user]) /\ rs.pipeline[k] = queue[user][k]
  BY <1>1, <1>3, <1>4 DEF PipelineOK
<1>6. \A k \in 1..Len(rs.pipeline) : rs.pipeline[k].write \in 1..Len(calls)
  BY <1>1, <1>5, QueuedWrites DEF IInv
<1> QED BY <1>1, <1>2, <1>3, <1>5, <1>6

\* A response belongs to a batch of the pipeline.
LEMMA WireFacts ==
  ASSUME RemoteOK, rs.handshake
  PROVE  /\ Len(rs.down) \in Nat /\ Len(rs.up) \in Nat /\ Len(rs.pipeline) \in Nat
         /\ rs.state = "Open" /\ Len(rs.down) + Len(rs.up) = Len(rs.pipeline)
         /\ \A k \in 1..Len(rs.down) : k \in 1..Len(rs.pipeline)
<1>1. rs \in RemoteStore
  BY DEF RemoteOK, StreamOK
<1>2. Len(rs.pipeline) \in Nat /\ Len(rs.down) \in Nat /\ Len(rs.up) \in Nat
  BY <1>1, RemoteFacts
<1>3. rs.state = "Open" /\ Len(rs.down) + Len(rs.up) = Len(rs.pipeline)
  BY DEF RemoteOK, WireOK
<1>4. \A k \in 1..Len(rs.down) : k \in 1..Len(rs.pipeline)
  <2> DEFINE d == Len(rs.down)
             u == Len(rs.up)
             p == Len(rs.pipeline)
  <2>1. d \in Nat /\ u \in Nat /\ p \in Nat /\ d + u = p
    BY <1>2, <1>3
  <2> HIDE DEF d, u, p
  <2>2. \A k \in 1..d : k \in 1..p
    BY <2>1
  <2> QED BY <2>2 DEF d, p
<1> QED BY <1>2, <1>3, <1>4

\* The queues' ids are below the next one, whether it is counted or loaded.
LEMMA NextBatchId ==
  ASSUME StateOK, QueuesOK
  PROVE  /\ LoadNextBatchIdFromDb \in 1..nextBatchId
         /\ \A u \in Users : \A k \in 1..Len(queue[u]) : queue[u][k].batch_id < LoadNextBatchIdFromDb
<1> DEFINE Ids(u) == {queue[u][k].batch_id : k \in DOMAIN queue[u]}
           ids == UNION {Ids(u) : u \in Users}
           n == nextBatchId - 1
<1>0. nextBatchId \in Nat \ {0} /\ n \in Nat
  BY BoundsAssumption DEF StateOK
<1>1. \A u \in Users : \A k \in 1..Len(queue[u]) : queue[u][k].batch_id \in 1..n
  <2> SUFFICES ASSUME NEW u \in Users, NEW k \in 1..Len(queue[u])
               PROVE  queue[u][k].batch_id \in 1..n
    OBVIOUS
  <2>1. QueueOK(queue[u]) /\ queue[u][k].batch_id < nextBatchId
    BY DEF QueuesOK
  <2>2. queue[u][k].batch_id \in 1..MaxWrites
    BY <2>1, QueueFacts
  <2> QED BY <1>0, <2>1, <2>2, BoundsAssumption
<1>2. \A u \in Users : DOMAIN queue[u] = 1..Len(queue[u])
  BY QueueFacts DEF QueuesOK
<1>3. ids \subseteq 1..n
  BY <1>1, <1>2
<1>4. \A u \in Users : \A k \in 1..Len(queue[u]) : queue[u][k].batch_id \in ids
  BY <1>2
<1>5. LoadNextBatchIdFromDb = IF ids = {} THEN 1 ELSE Max(ids) + 1
  BY DEF LoadNextBatchIdFromDb
<1> HIDE DEF ids
<1>6. CASE ids = {}
  BY <1>0, <1>4, <1>5, <1>6
<1>7. CASE ids # {}
  <2>1. \E x \in ids : \A y \in ids : y <= x
    BY <1>0, <1>3, <1>7, LastPosition
  <2>2. \E x \in ids : \A y \in ids : x >= y
    BY <1>0, <1>3, <2>1
  <2>3. Max(ids) \in ids /\ \A y \in ids : Max(ids) >= y
    BY <2>2 DEF Max
  <2> DEFINE m == Max(ids)
  <2>4. m \in 1..n /\ \A y \in ids : y \in Int /\ m >= y
    <3>1. m \in ids /\ \A y \in ids : m >= y
      BY <2>3
    <3> HIDE DEF m, n
    <3> QED BY <1>3, <3>1
  <2>5. LoadNextBatchIdFromDb = m + 1
    BY <1>5, <1>7
  <2> HIDE DEF m
  <2>6. m + 1 \in 1..nextBatchId /\ \A y \in ids : y < m + 1
    BY <1>0, <2>4
  <2> QED BY <1>4, <2>5, <2>6
<1> QED BY <1>6, <1>7

-----------------------------------------------------------------------------
(***************************************************************************)
(* Every action preserves the invariant.                                   *)
(***************************************************************************)
LEMMA CallWriteOK ==
  ASSUME IInv, NEW d \in Docs, CallWrite(d)
  PROVE  IInv'
<1> DEFINE c == [user |-> authUser, doc |-> d]
           w == Len(calls) + 1
           t == [kind |-> "write", write |-> w]
           n == Len(tasks)
<1>1. /\ Len(calls) < MaxWrites /\ calls' = Append(calls, c) /\ Enqueue(t)
      /\ authUser' = authUser /\ user' = user /\ queue' = queue /\ nextBatchId' = nextBatchId
      /\ callbacks' = callbacks /\ told' = told /\ acked' = acked /\ rs' = rs
      /\ server' = server /\ disturbances' = disturbances
  BY DEF CallWrite, engineVars
<1>2. calls \in Seq([user : Users, doc : Docs]) /\ authUser \in Users
  BY DEF IInv, StateOK
<1>3. /\ calls' \in Seq([user : Users, doc : Docs]) /\ Len(calls) \in Nat /\ Len(calls') = w
      /\ \A k \in 1..Len(calls) : calls'[k] = calls[k]
      /\ calls'[w] = c
  <2> DEFINE S == [user : Users, doc : Docs]
  <2>1. c \in S /\ calls \in Seq(S)
    BY <1>2
  <2> HIDE DEF S, c
  <2>2. Append(calls, c) \in Seq(S)
    BY <2>1, AppendParts
  <2>3. /\ Len(calls) \in Nat /\ Len(Append(calls, c)) = Len(calls) + 1
        /\ \A k \in 1..Len(calls) : Append(calls, c)[k] = calls[k]
        /\ Append(calls, c)[Len(calls) + 1] = c
    BY <2>1, AppendParts
  <2> QED BY <1>1, <2>2, <2>3 DEF S
<1>4. w \in Writes /\ w \in 1..MaxWrites
  BY <1>1, <1>3, BoundsAssumption DEF Writes
<1>5. t \in Task
  BY <1>4 DEF Task
<1>6. /\ tasks' \in Seq(Task) /\ n \in Nat /\ Len(tasks') = n + 1
      /\ \A i \in 1..n : tasks'[i] = tasks[i]
      /\ tasks'[n + 1] = t
  BY <1>1, <1>5, TaskEnqueued, TasksAre DEF IInv
<1>7. IsWrite(t) /\ t.write = w /\ t.kind = "write"
  BY DEF IsWrite
<1>8. \A i \in 1..n : tasks[i] \in Task
  BY TasksAre DEF IInv
<1>9. \A i \in 1..n : IsWrite(tasks[i]) => tasks[i].write \in 1..Len(calls)
  <2> SUFFICES ASSUME NEW i \in 1..n, IsWrite(tasks[i]) PROVE tasks[i].write \in 1..Len(calls)
    OBVIOUS
  <2>1. tasks[i].write \in 1..MaxWrites
    BY <1>8, TaskFields
  <2>2. tasks[i].write <= Len(calls)
    BY DEF IInv, WaitingOK
  <2> QED BY <1>3, <2>1, <2>2
<1> HIDE DEF t, n, w
<1>10. \A k \in 1..Len(calls) : DocOf(k)' = DocOf(k)
  BY <1>3 DEF DocOf
<1>11. \A u \in Users : QueueOK(queue[u])
  BY DEF IInv, QueuesOK
<1>12. \A u \in Users : \A k \in 1..Len(queue[u]) : queue[u][k].write \in 1..Len(calls)
  BY QueuedWrites DEF IInv
<1>13. StateOK'
  <2>1. /\ Len(calls') <= MaxWrites /\ nextBatchId' <= Len(calls') + 1
        /\ nextBatchId' \in 1..(MaxWrites + 1)
    BY <1>1, <1>3, BoundsAssumption DEF IInv, StateOK, w
  <2> QED BY <1>1, <1>3, <1>6, <2>1 DEF IInv, StateOK
<1>14. RemoteOK'
  BY <1>1 DEF IInv, RemoteOK
<1>15. \A k \in 1..Len(rs.pipeline) : rs.pipeline[k].write \in 1..Len(calls)
  BY PipelineFacts
<1>16. rs.handshake => \A k \in 1..Len(rs.down) : k \in 1..Len(rs.pipeline)
  BY WireFacts DEF IInv
<1>17. AnswersOK'
  BY <1>1, <1>10, <1>15, <1>16 DEF IInv, AnswersOK
<1>18. QueuesOK'
  <2> SUFFICES ASSUME NEW u \in Users, NEW k \in 1..Len(queue[u])
               PROVE  /\ queue[u][k].batch_id < nextBatchId /\ queue[u][k].write <= Len(calls')
                      /\ calls'[queue[u][k].write].user = u /\ told[queue[u][k].write] = << >>
    BY <1>1, <1>11 DEF QueuesOK
  <2>1. /\ queue[u][k].batch_id < nextBatchId /\ queue[u][k].write <= Len(calls)
        /\ calls[queue[u][k].write].user = u /\ told[queue[u][k].write] = << >>
    BY DEF IInv, QueuesOK
  <2>2. queue[u][k].write <= Len(calls')
    BY <1>3, <1>12 DEF w
  <2> QED BY <1>3, <1>12, <2>1, <2>2
<1>19. WaitingOK'
  <2>1. ASSUME NEW i \in 1..(n + 1), IsWrite(tasks'[i])
        PROVE  /\ tasks'[i].write <= w /\ told[tasks'[i].write] = << >>
               /\ nextBatchId <= tasks'[i].write
               /\ \A u \in Users : \A k \in 1..Len(queue[u]) : queue[u][k].write < tasks'[i].write
               /\ \A j \in 1..(n + 1) :
                    i < j /\ IsWrite(tasks'[j]) => tasks'[i].write < tasks'[j].write
               /\ \/ tasks'[i].write = w
                  \/ \E j \in 1..(n + 1) :
                       i < j /\ IsWrite(tasks'[j]) /\ tasks'[j].write = tasks'[i].write + 1
    <3>1. CASE i = n + 1
      <4>1. tasks'[i].write = w
        BY <1>6, <1>7, <3>1
      <4>2. told[w] = << >>
        <5>1. ~(w <= Len(calls))
          BY <1>3 DEF w
        <5> QED BY <1>4, <5>1 DEF IInv, ToldOK
      <4>3. nextBatchId <= w
        BY DEF IInv, StateOK, w
      <4>4. \A u \in Users : \A k \in 1..Len(queue[u]) : queue[u][k].write < w
        BY <1>3, <1>12 DEF w
      <4>5. \A j \in 1..(n + 1) : ~(i < j)
        BY <1>6, <3>1
      <4>6. w <= w
        BY <1>4
      <4> QED BY <4>1, <4>2, <4>3, <4>4, <4>5, <4>6
    <3>2. CASE i # n + 1
      <4>1. i \in 1..n /\ tasks'[i] = tasks[i]
        BY <1>6, <3>2
      <4> DEFINE v == tasks[i].write
      <4>2. v \in 1..Len(calls)
        BY <1>9, <2>1, <4>1
      <4>3. /\ told[v] = << >> /\ nextBatchId <= v
            /\ \A u \in Users : \A k \in 1..Len(queue[u]) : queue[u][k].write < v
            /\ \A j \in 1..n : i < j /\ IsWrite(tasks[j]) => v < tasks[j].write
            /\ \/ v = Len(calls)
               \/ \E j \in 1..n : i < j /\ IsWrite(tasks[j]) /\ tasks[j].write = v + 1
        BY <2>1, <4>1 DEF IInv, WaitingOK, n
      <4>4. \A j \in 1..(n + 1) : i < j /\ IsWrite(tasks'[j]) => v < tasks'[j].write
        <5> SUFFICES ASSUME NEW j \in 1..(n + 1), i < j, IsWrite(tasks'[j])
                     PROVE  v < tasks'[j].write
          OBVIOUS
        <5>1. CASE j = n + 1
          <6>1. tasks'[j].write = w
            BY <1>6, <1>7, <5>1
          <6> QED BY <1>3, <4>2, <6>1 DEF w
        <5>2. CASE j # n + 1
          <6>1. j \in 1..n /\ tasks'[j] = tasks[j]
            BY <1>6, <5>2
          <6> QED BY <4>3, <6>1
        <5> QED BY <5>1, <5>2
      <4>5. \E j \in 1..(n + 1) : i < j /\ IsWrite(tasks'[j]) /\ tasks'[j].write = v + 1
        <5>1. CASE v = Len(calls)
          <6>1. n + 1 \in 1..(n + 1) /\ i < n + 1
            BY <1>6, <4>1
          <6>2. IsWrite(tasks'[n + 1]) /\ tasks'[n + 1].write = v + 1
            BY <1>6, <1>7, <5>1 DEF w
          <6> QED BY <6>1, <6>2
        <5>2. CASE \E j \in 1..n : i < j /\ IsWrite(tasks[j]) /\ tasks[j].write = v + 1
          <6>1. \A j \in 1..n : j \in 1..(n + 1)
            BY <1>6
          <6> QED BY <1>6, <5>2, <6>1
        <5> QED BY <4>3, <5>1, <5>2
      <4>6. v <= w
        BY <1>3, <4>2 DEF w
      <4> QED BY <4>1, <4>3, <4>4, <4>5, <4>6
    <3> QED BY <3>1, <3>2
  <2> QED BY <1>1, <1>3, <1>6, <2>1 DEF WaitingOK
<1>20. TurnsOK'
  <2>1. \A i \in 1..Len(tasks) :
           IsWrite(tasks[i]) => calls'[tasks[i].write].user = calls[tasks[i].write].user
    BY <1>3, <1>9 DEF n
  <2>2. calls'[t.write].user = authUser'
    BY <1>1, <1>3, <1>7
  <2> QED BY <1>1, <1>2, <1>5, <1>7, <2>1, <2>2, TurnsAppended DEF IInv
<1>21. TokensOK'
  <2>1. \A i \in 1..(n + 1) : tasks'[i].kind = "token" => i \in 1..n /\ tasks'[i] = tasks[i]
    <3> SUFFICES ASSUME NEW i \in 1..(n + 1), tasks'[i].kind = "token"
                 PROVE  i \in 1..n /\ tasks'[i] = tasks[i]
      OBVIOUS
    <3>1. i # n + 1
      BY <1>6, <1>7
    <3> QED BY <1>6, <3>1
  <2> QED BY <1>1, <1>6, <2>1 DEF IInv, TokensOK, n
<1>22. CallbacksOK'
  BY <1>1 DEF IInv, CallbacksOK
<1>23. ToldOK'
  <2> SUFFICES ASSUME NEW v \in Writes, told[v] # << >>
               PROVE  /\ v <= Len(calls')
                      /\ told[v] = IF DocOf(v)' \in RefusedDocs THEN <<"error">> ELSE <<"ok">>
    BY <1>1 DEF ToldOK
  <2>1. /\ v <= Len(calls)
        /\ told[v] = IF DocOf(v) \in RefusedDocs THEN <<"error">> ELSE <<"ok">>
    BY DEF IInv, ToldOK
  <2>2. v \in 1..Len(calls) /\ v <= Len(calls')
    BY <1>3, <2>1, BoundsAssumption DEF Writes, w
  <2> QED BY <1>10, <2>1, <2>2
<1>24. WrittenOK'
  <2> SUFFICES ASSUME NEW e \in Docs, server[e] # 0
               PROVE  server[e] <= Len(calls') /\ DocOf(server[e])' = e /\ e \notin RefusedDocs
    BY <1>1 DEF WrittenOK
  <2>1. server[e] <= Len(calls) /\ DocOf(server[e]) = e /\ e \notin RefusedDocs
    BY DEF IInv, WrittenOK
  <2>2. server[e] \in 0..MaxWrites
    BY DEF IInv, StateOK
  <2>3. server[e] \in 1..Len(calls) /\ server[e] <= Len(calls')
    BY <1>3, <2>1, <2>2, BoundsAssumption DEF w
  <2>4. calls'[server[e]] = calls[server[e]]
    BY <1>3, <2>3
  <2> QED BY <1>1, <2>1, <2>3, <2>4 DEF DocOf
<1>25. ResultsOK'
  BY <1>1, <1>10, <1>15, <1>16 DEF IInv, ResultsOK
<1>26. ServerAgrees'
  BY <1>1 DEF IInv, ServerAgrees, Pending
<1> QED
  BY <1>13, <1>14, <1>17, <1>18, <1>19, <1>20, <1>21, <1>22, <1>23, <1>24, <1>25, <1>26 DEF IInv

\* Anything but a write is enqueued.
LEMMA OtherEnqueued ==
  ASSUME IInv, NEW t \in Task, ~IsWrite(t), Enqueue(t), UNCHANGED <<calls, engineVars, server>>,
         disturbances' \in 0..MaxDisturbances, authUser' \in Users,
         authUser' = (IF t.kind = "user" THEN t.user ELSE authUser),
         t.kind = "token" => t.user = authUser',
         RemoteOK', AnswersOK', ResultsOK', TokensOK'
  PROVE  IInv'
<1> DEFINE n == Len(tasks)
<1>1. /\ calls' = calls /\ user' = user /\ server' = server
      /\ queue' = queue /\ nextBatchId' = nextBatchId /\ callbacks' = callbacks
      /\ told' = told /\ acked' = acked
  BY DEF engineVars
<1>2. /\ tasks' \in Seq(Task) /\ n \in Nat /\ Len(tasks') = n + 1
      /\ \A i \in 1..n : tasks'[i] = tasks[i]
      /\ tasks'[n + 1] = t
  BY TaskEnqueued, TasksAre DEF IInv
<1>3. StateOK'
  BY <1>1, <1>2 DEF IInv, StateOK
<1>4. QueuesOK'
  BY <1>1 DEF IInv, QueuesOK
<1>5. WaitingOK'
  <2>1. \A i \in 1..Len(tasks') : IsWrite(tasks'[i]) => i \in 1..n /\ tasks'[i] = tasks[i]
    <3> SUFFICES ASSUME NEW i \in 1..(n + 1), IsWrite(tasks'[i])
                 PROVE  i \in 1..n /\ tasks'[i] = tasks[i]
      BY <1>2
    <3>1. i # n + 1
      BY <1>2
    <3> QED BY <1>2, <3>1
  <2>2. \A i \in 1..n : i \in 1..Len(tasks') /\ tasks'[i] = tasks[i]
    BY <1>2
  <2> QED BY <1>1, <2>1, <2>2 DEF IInv, WaitingOK
<1>6. TurnsOK'
  BY <1>1, TurnsAppended DEF IInv
<1>7. CallbacksOK' /\ ToldOK' /\ WrittenOK' /\ ServerAgrees'
  BY <1>1 DEF IInv, CallbacksOK, ToldOK, WrittenOK, ServerAgrees, DocOf, Pending
<1> QED BY <1>3, <1>4, <1>5, <1>6, <1>7 DEF IInv

LEMMA AuthStateDidChangeOK ==
  ASSUME IInv, NEW u \in Users, AuthStateDidChange(u)
  PROVE  IInv'
<1> DEFINE t == [kind |-> "user", user |-> u]
           n == Len(tasks)
<1>1. /\ Disturb /\ authUser' = u /\ Enqueue(t) /\ UNCHANGED <<calls, engineVars, server>>
      /\ rs' = rs /\ user' = user /\ queue' = queue /\ calls' = calls /\ server' = server
  BY DEF AuthStateDidChange, engineVars
<1>2. t \in Task /\ ~IsWrite(t) /\ t.kind = "user" /\ t.user = u
  BY DEF Task, IsWrite
<1> HIDE DEF t
<1>3. disturbances' \in 0..MaxDisturbances
  BY <1>1, BoundsAssumption DEF IInv, StateOK, Disturb
<1>4. RemoteOK' /\ AnswersOK' /\ ResultsOK'
  BY <1>1 DEF IInv, RemoteOK, AnswersOK, ResultsOK, DocOf
<1>5. TokensOK'
  <2>1. /\ n \in Nat /\ Len(tasks') = n + 1
        /\ \A i \in 1..n : tasks'[i] = tasks[i]
        /\ tasks'[n + 1] = t
    BY <1>1, <1>2, TaskEnqueued, TasksAre DEF IInv
  <2>2. \A i \in 1..Len(tasks') : tasks'[i].kind = "token" => i \in 1..n /\ tasks'[i] = tasks[i]
    <3> SUFFICES ASSUME NEW i \in 1..(n + 1), tasks'[i].kind = "token"
                 PROVE  i \in 1..n /\ tasks'[i] = tasks[i]
      BY <2>1
    <3>1. i # n + 1
      BY <1>2, <2>1
    <3> QED BY <2>1, <3>1
  <2> QED BY <1>1, <2>2 DEF IInv, TokensOK
<1> QED BY <1>1, <1>2, <1>3, <1>4, <1>5, OtherEnqueued

LEMMA GetTokenAnsweredOK ==
  ASSUME IInv, NEW n, NEW code \in {"Ok", "Unknown"}, GetTokenAnswered(n, code)
  PROVE  IInv'
<1> DEFINE t == [kind |-> "token", close_count |-> n, code |-> code, user |-> authUser]
           l == Len(tasks)
<1>1. /\ n \in rs.asks /\ Enqueue(t) /\ rs' = [rs EXCEPT !.asks = @ \ {n}]
      /\ UNCHANGED <<calls, engineVars, server>> /\ authUser' = authUser
      /\ user' = user /\ queue' = queue /\ calls' = calls /\ server' = server
      /\ disturbances' = disturbances \/ Disturb
  BY DEF GetTokenAnswered, engineVars, appVars
<1>2. StreamOK(rs) /\ rs \in RemoteStore /\ authUser \in Users
  BY DEF IInv, RemoteOK, StreamOK, StateOK
<1>3. n \in Nat /\ rs.close_count \in Nat
  BY <1>1, <1>2 DEF RemoteStore
<1>4. t \in Task /\ ~IsWrite(t) /\ t.kind = "token" /\ t.user = authUser /\ t.close_count = n
  BY <1>2, <1>3 DEF Task, IsWrite
<1> HIDE DEF t
<1>5. disturbances' \in 0..MaxDisturbances
  BY <1>1, BoundsAssumption DEF IInv, StateOK, Disturb
<1>6. /\ rs' \in RemoteStore /\ rs'.asks = rs.asks \ {n} /\ rs'.state = rs.state
      /\ rs'.timers = rs.timers /\ rs'.up = rs.up /\ rs'.pipeline = rs.pipeline
  BY <1>1, <1>2 DEF RemoteStore
<1>7. Same(rs, rs')
  BY <1>1, <1>2 DEF RemoteStore, Same
<1>8. StreamOK(rs')
  <2>1. \A k \in rs'.asks : k <= rs'.close_count
    BY <1>2, <1>6, <1>7 DEF StreamOK, Same
  <2>2. rs'.close_count \in rs'.asks => rs.close_count \in rs.asks
    BY <1>6, <1>7 DEF Same
  <2> QED BY <1>2, <1>6, <1>7, <2>1, <2>2 DEF StreamOK, Same
<1>9. RemoteOK'
  <2>1. WireOK(rs)'
    BY <1>6, <1>7, WireKept DEF IInv, RemoteOK, Same
  <2>2. PipelineOK(rs, queue[user])'
    BY <1>1, <1>6 DEF IInv, RemoteOK, PipelineOK
  <2> QED BY <1>1, <1>6, <1>7, <1>8, <2>1, <2>2 DEF IInv, RemoteOK, Same
<1>10. AnswersOK' /\ ResultsOK'
  BY <1>1, <1>6, <1>7 DEF IInv, AnswersOK, ResultsOK, Same, DocOf
<1>11. TokensOK'
  <2>0. /\ l \in Nat /\ Len(tasks') = l + 1
        /\ \A i \in 1..l : tasks'[i] = tasks[i]
        /\ tasks'[l + 1] = t
    BY <1>1, <1>4, TaskEnqueued, TasksAre DEF IInv
  <2>1. rs'.close_count = rs.close_count /\ rs'.credentials = rs.credentials
    BY <1>7 DEF Same
  <2>2. n <= rs.close_count
    BY <1>1, <1>2 DEF StreamOK
  <2>3. n = rs.close_count => \A i \in 1..l :
          tasks[i].kind = "token" => tasks[i].close_count # rs.close_count
    BY <1>1 DEF IInv, TokensOK
  <2>4. n = rs.close_count => rs.state = "Starting" /\ rs.credentials = NoStream
    BY <1>1, <1>2 DEF StreamOK
  <2>5. ASSUME NEW i \in 1..(l + 1), tasks'[i].kind = "token"
        PROVE  /\ tasks'[i].close_count <= rs.close_count
               /\ tasks'[i].close_count = rs.close_count =>
                    /\ rs.state = "Starting" /\ rs.credentials = NoStream
                    /\ rs.close_count \notin rs'.asks
                    /\ \A j \in 1..(l + 1) :
                         tasks'[j].kind = "token" /\ tasks'[j].close_count = rs.close_count => j = i
    <3>1. CASE i = l + 1
      <4>1. tasks'[i].close_count = n
        BY <1>4, <2>0, <3>1
      <4>2. ASSUME n = rs.close_count, NEW j \in 1..(l + 1), tasks'[j].kind = "token",
                   tasks'[j].close_count = rs.close_count
            PROVE  j = i
        <5>1. j \notin 1..l
          BY <2>0, <2>3, <4>2
        <5> QED BY <2>0, <3>1, <5>1
      <4> QED BY <1>6, <2>2, <2>4, <4>1, <4>2
    <3>2. CASE i # l + 1
      <4>1. i \in 1..l /\ tasks'[i] = tasks[i]
        BY <2>0, <3>2
      <4>2. /\ tasks[i].close_count <= rs.close_count
            /\ tasks[i].close_count = rs.close_count =>
                 /\ rs.state = "Starting" /\ rs.credentials = NoStream
                 /\ rs.close_count \notin rs.asks
                 /\ \A j \in 1..l :
                      tasks[j].kind = "token" /\ tasks[j].close_count = rs.close_count => j = i
        BY <2>5, <4>1 DEF IInv, TokensOK
      <4>3. ASSUME tasks[i].close_count = rs.close_count,
                   NEW j \in 1..(l + 1), tasks'[j].kind = "token",
                   tasks'[j].close_count = rs.close_count
            PROVE  j = i
        <5>1. n # rs.close_count
          BY <1>1, <4>2, <4>3
        <5>2. j # l + 1
          BY <1>4, <2>0, <4>3, <5>1
        <5>3. j \in 1..l /\ tasks'[j] = tasks[j]
          BY <2>0, <5>2
        <5> QED BY <4>2, <4>3, <5>3
      <4> QED BY <1>6, <4>1, <4>2, <4>3
    <3> QED BY <3>1, <3>2
  <2> QED BY <1>6, <2>0, <2>1, <2>5 DEF TokensOK
<1> QED BY <1>1, <1>2, <1>4, <1>5, <1>9, <1>10, <1>11, OtherEnqueued

LEMMA BackoffTimeoutOK ==
  ASSUME IInv, BackoffTimeout
  PROVE  IInv'
<1>1. /\ "backoff" \in rs.timers /\ rs' = BackoffElapsed(rs) /\ disturbances' = disturbances
      /\ UNCHANGED <<appVars, tasks, engineVars, server>>
      /\ user' = user /\ queue' = queue /\ tasks' = tasks /\ calls' = calls
  BY DEF BackoffTimeout, appVars, engineVars
<1>2. StreamOK(rs) /\ rs.state = "Backoff"
  BY <1>1 DEF IInv, RemoteOK, StreamOK
<1>3. /\ StreamOK(rs') /\ rs'.state = "Starting" /\ Same(rs, rs') /\ rs'.pipeline = rs.pipeline
      /\ rs'.up = rs.up
  BY <1>1, <1>2, BackoffOK
<1>4. ~rs'.handshake /\ rs'.credentials = NoStream /\ rs'.enabled
  BY <1>2, <1>3 DEF IInv, RemoteOK, StreamOK, Same
<1>5. PipelineOK(rs', queue'[user'])
  BY <1>1, <1>3 DEF IInv, RemoteOK, PipelineOK
<1>6. WireOK(rs') /\ rs'.up = << >> /\ rs'.down = << >>
  BY <1>3 DEF WireOK, StreamOK
<1>7. RemoteOK' /\ AnswersOK' /\ ResultsOK'
  BY <1>3, <1>4, <1>5, <1>6, FreshRemote DEF Fresh
<1>8. TokensOK'
  BY <1>1, <1>2, <1>3, TokensKept DEF IInv, Same
<1>9. disturbances' \in 0..MaxDisturbances
  BY <1>1 DEF IInv, StateOK
<1> QED BY <1>1, <1>7, <1>8, <1>9, OnlyRemote

LEMMA IdleTimeoutOK ==
  ASSUME IInv, IdleTimeout
  PROVE  IInv'
<1> DEFINE s == [rs EXCEPT !.timers = @ \ {"idle"}]
<1>1. /\ "idle" \in rs.timers /\ rs' = CloseWriteStream(s, queue[user], "Ok")
      /\ disturbances' = disturbances
      /\ UNCHANGED <<appVars, tasks, engineVars, server>>
      /\ user' = user /\ queue' = queue /\ tasks' = tasks
  BY DEF IdleTimeout, appVars, engineVars
<1>2. StreamOK(rs) /\ rs \in RemoteStore /\ rs.state = "Open" /\ rs.handshake /\ rs.pipeline = << >>
  BY <1>1 DEF IInv, RemoteOK, StreamOK
<1>3. /\ s \in RemoteStore /\ s.timers = rs.timers \ {"idle"} /\ s.state = "Open"
      /\ s.pipeline = << >> /\ s.up = rs.up /\ s.asks = rs.asks /\ Same(rs, s)
  BY <1>2 DEF RemoteStore, Same
<1> HIDE DEF s
<1>4. StreamOK(s) /\ IsStarted(s)
  BY <1>2, <1>3 DEF StreamOK, IsStarted, Same
<1>5. Closed(s, rs') /\ rs'.pipeline = << >>
  BY <1>1, <1>3, <1>4, CloseGracefully
<1>6. rs'.close_count = rs.close_count + 1 /\ rs'.enabled
  BY <1>3, <1>5 DEF Closed, Same, IInv, RemoteOK
<1>7. PipelineOK(rs', queue'[user'])
  <2>1. Len(rs'.pipeline) = 0
    BY <1>5
  <2>2. Len(queue[user]) \in Nat
    BY PipelineFacts, QueueFacts
  <2> QED BY <1>1, <2>1, <2>2, BoundsAssumption DEF PipelineOK
<1>8. Fresh(rs', queue'[user'])
  BY <1>5, <1>6, <1>7 DEF Fresh, Closed, WireOK
<1>9. TokensOK'
  <2>1. rs'.close_count = IF IsStarted(rs) THEN rs.close_count + 1 ELSE rs.close_count
    BY <1>2, <1>6 DEF IsStarted
  <2> QED BY <1>1, <2>1, TokensOutdated DEF IInv
<1>10. disturbances' \in 0..MaxDisturbances
  BY <1>1 DEF IInv, StateOK
<1> QED BY <1>1, <1>8, <1>9, <1>10, FreshRemote, OnlyRemote

LEMMA ConnectivityChangeOK ==
  ASSUME IInv, ConnectivityChange
  PROVE  IInv'
<1>1. /\ rs' = RestartNetwork(rs, queue[user]) /\ Disturb
      /\ UNCHANGED <<appVars, tasks, engineVars, server>>
      /\ user' = user /\ queue' = queue /\ tasks' = tasks
  BY DEF ConnectivityChange, appVars, engineVars
<1>2. StreamOK(rs) /\ (rs.handshake => rs.state = "Open") /\ QueueOK(queue[user])
  BY PipelineFacts DEF IInv, RemoteOK
<1>3. /\ Fresh(rs', queue'[user'])
      /\ rs'.close_count = IF IsStarted(rs) THEN rs.close_count + 1 ELSE rs.close_count
  BY <1>1, <1>2, RestartOK
<1>4. TokensOK'
  BY <1>1, <1>3, TokensOutdated DEF IInv
<1>5. disturbances' \in 0..MaxDisturbances
  BY <1>1, BoundsAssumption DEF IInv, StateOK, Disturb
<1> QED BY <1>1, <1>3, <1>4, <1>5, FreshRemote, OnlyRemote

LEMMA RestartActionOK ==
  ASSUME IInv, Restart
  PROVE  IInv'
<1>1. /\ tasks' = << >> /\ callbacks' = {} /\ user' = authUser /\ Disturb
      /\ nextBatchId' = LoadNextBatchIdFromDb
      /\ rs' = EnableNetwork(NewRemoteStore, queue[authUser])
      /\ calls' = calls /\ authUser' = authUser /\ queue' = queue /\ told' = told
      /\ acked' = acked /\ server' = server
  BY DEF Restart, appVars
<1>2. authUser \in Users /\ QueueOK(queue[authUser])
  BY DEF IInv, StateOK, QueuesOK
<1>3. RemoteOK' /\ AnswersOK' /\ ResultsOK'
  BY <1>1, <1>2, NewOK, FreshRemote
<1>4. /\ nextBatchId' \in 1..nextBatchId
      /\ \A u \in Users : \A k \in 1..Len(queue[u]) : queue[u][k].batch_id < nextBatchId'
  BY <1>1, NextBatchId DEF IInv
<1>5. StateOK'
  <2>1. nextBatchId \in 1..(MaxWrites + 1) /\ nextBatchId <= Len(calls) + 1 /\ Len(calls) \in Nat
    BY LenProperties DEF IInv, StateOK
  <2>2. nextBatchId' \in 1..(MaxWrites + 1) /\ nextBatchId' <= Len(calls') + 1
    BY <1>1, <1>4, <2>1, BoundsAssumption
  <2>3. disturbances' \in 0..MaxDisturbances
    BY <1>1, BoundsAssumption DEF IInv, StateOK, Disturb
  <2>4. tasks' \in Seq(Task) /\ callbacks' \subseteq [user : Users, batch_id : 1..MaxWrites, write : Writes]
    BY <1>1
  <2> QED BY <1>1, <1>2, <2>2, <2>3, <2>4 DEF IInv, StateOK
<1>6. QueuesOK'
  BY <1>1, <1>4 DEF IInv, QueuesOK
<1>7. Len(tasks') = 0
  BY <1>1
<1>8. WaitingOK' /\ TokensOK'
  BY <1>7 DEF WaitingOK, TokensOK
<1>9. TurnsOK'
  <2>1. PICK next \in [0..0 -> Users] : next[0] = authUser
    <3> DEFINE g == [i \in 0..0 |-> authUser]
    <3>1. g \in [0..0 -> Users] /\ g[0] = authUser
      BY <1>2
    <3> QED BY <3>1
  <2>2. InTurn(next)'
    BY <1>1, <1>7, <2>1 DEF InTurn
  <2> QED BY <1>7, <2>1, <2>2 DEF TurnsOK
<1>10. CallbacksOK'
  BY <1>1 DEF CallbacksOK
<1>11. ToldOK' /\ WrittenOK' /\ ServerAgrees'
  BY <1>1 DEF IInv, ToldOK, WrittenOK, ServerAgrees, DocOf, Pending
<1> QED BY <1>3, <1>5, <1>6, <1>8, <1>9, <1>10, <1>11 DEF IInv

LEMMA RunCredentialChangeOK ==
  ASSUME IInv, RunCredentialChange
  PROVE  IInv'
<1> DEFINE t == Head(tasks)
<1>1. /\ tasks # << >> /\ t.kind = "user" /\ user' = t.user /\ tasks' = Tail(tasks)
      /\ nextBatchId' = IF user' = user THEN nextBatchId ELSE LoadNextBatchIdFromDb
      /\ rs' = RestartNetwork(rs, queue[user'])
      /\ calls' = calls /\ authUser' = authUser /\ queue' = queue /\ told' = told
      /\ callbacks' = callbacks /\ acked' = acked /\ server' = server
      /\ disturbances' = disturbances
  BY DEF RunCredentialChange, appVars
<1>2. /\ tasks' \in Seq(Task) /\ Len(tasks) \in Nat \ {0} /\ Len(tasks') = Len(tasks) - 1
      /\ t = tasks[1] /\ t \in Task
      /\ \A i \in 1..Len(tasks') : tasks'[i] = tasks[i + 1]
  BY <1>1, TaskRun DEF IInv
<1>3. user' \in Users
  BY <1>1, <1>2, TaskFields
<1>4. StreamOK(rs) /\ (rs.handshake => rs.state = "Open") /\ QueueOK(queue[user'])
  BY <1>3 DEF IInv, RemoteOK, QueuesOK
<1>5. /\ Fresh(rs', queue'[user'])
      /\ rs'.close_count = IF IsStarted(rs) THEN rs.close_count + 1 ELSE rs.close_count
  BY <1>1, <1>4, RestartOK
<1>6. TokensOK'
  <2>1. \A i \in 1..Len(tasks') : i + 1 \in 1..Len(tasks)
    BY <1>2
  <2> QED BY <1>2, <1>5, <2>1, TokensOutdated DEF IInv
<1>7. /\ nextBatchId' \in 1..nextBatchId
      /\ \A u \in Users : \A k \in 1..Len(queue[u]) : queue[u][k].batch_id < nextBatchId'
  <2>1. CASE user' = user
    <3>1. nextBatchId' = nextBatchId
      BY <1>1, <2>1
    <3>2. nextBatchId \in 1..nextBatchId
      BY BoundsAssumption DEF IInv, StateOK
    <3> QED BY <3>1, <3>2 DEF IInv, QueuesOK
  <2>2. CASE user' # user
    <3>1. nextBatchId' = LoadNextBatchIdFromDb
      BY <1>1, <2>2
    <3> QED BY <3>1, NextBatchId DEF IInv
  <2> QED BY <2>1, <2>2
<1>8. StateOK'
  <2>1. nextBatchId \in 1..(MaxWrites + 1) /\ nextBatchId <= Len(calls) + 1 /\ Len(calls) \in Nat
    BY LenProperties DEF IInv, StateOK
  <2>2. nextBatchId' \in 1..(MaxWrites + 1) /\ nextBatchId' <= Len(calls') + 1
    <3>1. nextBatchId' \in 1..nextBatchId /\ calls' = calls
      BY <1>1, <1>7
    <3> QED BY <2>1, <3>1, BoundsAssumption
  <2> QED BY <1>1, <1>2, <1>3, <2>2 DEF IInv, StateOK
<1>9. QueuesOK'
  BY <1>1, <1>7 DEF IInv, QueuesOK
<1>10. WaitingOK'
  <2>1. ASSUME NEW i \in 2..Len(tasks), IsWrite(tasks[i])
        PROVE  /\ nextBatchId' <= tasks[i].write
               /\ \A u \in Users : \A k \in 1..Len(queue'[u]) : queue'[u][k].write < tasks[i].write
    <3>1. i \in 1..Len(tasks)
      BY <1>2
    <3>2. /\ nextBatchId <= tasks[i].write
          /\ \A u \in Users : \A k \in 1..Len(queue[u]) : queue[u][k].write < tasks[i].write
      BY <2>1, <3>1 DEF IInv, WaitingOK
    <3>3. tasks[i].write \in Nat /\ nextBatchId \in Nat
      <4>1. tasks[i] \in Task
        BY <3>1, TasksAre DEF IInv
      <4> QED BY <2>1, <4>1, TaskFields DEF IInv, StateOK
    <3> QED BY <1>1, <1>7, <3>2, <3>3
  <2> QED BY <1>1, <2>1, WaitingRun DEF IInv
<1>11. TurnsOK'
  BY <1>1, TurnsRun DEF IInv
<1>12. CallbacksOK' /\ ToldOK' /\ WrittenOK' /\ ServerAgrees'
  BY <1>1 DEF IInv, CallbacksOK, ToldOK, WrittenOK, ServerAgrees, DocOf, Pending
<1> QED BY <1>5, <1>6, <1>8, <1>9, <1>10, <1>11, <1>12, FreshRemote DEF IInv

LEMMA StreamOpensOK ==
  ASSUME IInv, StreamOpens
  PROVE  IInv'
<1> DEFINE a == [rs EXCEPT !.state = "Open"]
<1>1. /\ rs.credentials # NoStream /\ rs.state = "Starting" /\ rs' = WriteHandshake(a)
      /\ disturbances' = disturbances /\ UNCHANGED <<appVars, tasks, engineVars, server>>
      /\ user' = user /\ queue' = queue /\ tasks' = tasks /\ calls' = calls /\ server' = server
  BY DEF StreamOpens, OnStreamStart, appVars, engineVars
<1>2. StreamOK(rs) /\ rs \in RemoteStore /\ rs.up = << >> /\ rs.down = << >> /\ rs.pipeline # << >>
  BY <1>1 DEF IInv, RemoteOK, StreamOK
<1>3. ~rs.handshake
  BY <1>1 DEF IInv, RemoteOK
<1>4. /\ a \in RemoteStore /\ a.state = "Open" /\ a.timers = rs.timers /\ a.asks = rs.asks
      /\ a.pipeline = rs.pipeline /\ a.up = << >> /\ a.down = << >> /\ Same(rs, a)
  BY <1>2 DEF RemoteStore, States, Same
<1> HIDE DEF a
<1>5. rs' = [a EXCEPT !.timers = @ \ {"idle"}, !.up = <<HandshakeRequest>>]
  <2>1. HARD_ASSERT(a, IsOpen(a) /\ ~a.handshake) = a
    BY <1>3, <1>4, AssertHolds DEF IsOpen, Same
  <2>2. a.up \o <<HandshakeRequest>> = <<HandshakeRequest>>
    BY <1>4
  <2> QED BY <1>1, <1>4, <2>1, <2>2 DEF WriteHandshake, SendAll, CancelIdleCheck, RemoteStore
<1>6. <<HandshakeRequest>> \in Seq(0..MaxWrites)
  BY BoundsAssumption DEF HandshakeRequest
<1>7. /\ rs' \in RemoteStore /\ rs'.state = "Open" /\ rs'.timers = rs.timers \ {"idle"}
      /\ rs'.asks = rs.asks /\ rs'.pipeline = rs.pipeline
      /\ rs'.up = <<HandshakeRequest>> /\ rs'.down = << >>
  BY <1>4, <1>5, <1>6 DEF RemoteStore
<1>8. Same(rs, rs')
  BY <1>4, <1>5 DEF Same, RemoteStore
<1>9. StreamOK(rs')
  <2>1. \A n \in rs'.asks : n <= rs'.close_count
    BY <1>2, <1>7, <1>8 DEF StreamOK, Same
  <2>2. rs'.close_count \notin rs'.asks
    BY <1>1, <1>2, <1>7, <1>8 DEF StreamOK, Same
  <2>3. "backoff" \notin rs'.timers /\ "idle" \notin rs'.timers
    BY <1>1, <1>2, <1>7 DEF StreamOK
  <2> QED BY <1>1, <1>2, <1>7, <1>8, <2>1, <2>2, <2>3 DEF StreamOK, Same
<1>10. ~rs'.handshake /\ rs'.enabled /\ rs'.credentials = rs.credentials
  BY <1>3, <1>8 DEF Same, IInv, RemoteOK
<1>11. RemoteOK'
  <2>1. WireOK(rs')
    BY <1>7, <1>10 DEF WireOK
  <2>2. PipelineOK(rs', queue'[user'])
    BY <1>1, <1>7 DEF IInv, RemoteOK, PipelineOK
  <2> QED BY <1>1, <1>9, <1>10, <2>1, <2>2 DEF IInv, RemoteOK
<1>12. AnswersOK' /\ ResultsOK'
  BY <1>10 DEF AnswersOK, ResultsOK
<1>13. TokensOK'
  BY <1>1, <1>8, TokensKept DEF IInv, Same
<1>14. disturbances' \in 0..MaxDisturbances
  BY <1>1 DEF IInv, StateOK
<1> QED BY <1>1, <1>11, <1>12, <1>13, <1>14, OnlyRemote

LEMMA OnHandshakeCompleteOK ==
  ASSUME IInv, OnHandshakeComplete
  PROVE  IInv'
<1> DEFINE a == [rs EXCEPT !.down = << >>, !.handshake = TRUE]
           p == rs.pipeline
           ws == [k \in DOMAIN p |-> p[k].write]
<1>1. /\ rs.down # << >> /\ ~rs.handshake
      /\ rs' = WriteMutations([Received EXCEPT !.handshake = TRUE], rs.pipeline)
      /\ disturbances' = disturbances /\ UNCHANGED <<appVars, tasks, engineVars, server>>
      /\ user' = user /\ queue' = queue /\ tasks' = tasks /\ calls' = calls /\ server' = server
  BY DEF OnHandshakeComplete, appVars, engineVars
<1>2. StreamOK(rs) /\ rs \in RemoteStore /\ rs.state = "Open" /\ p # << >>
  BY <1>1 DEF IInv, RemoteOK, StreamOK
<1>3. rs.up = << >> /\ rs.down = <<HandshakeResponse>>
  BY <1>1, <1>2 DEF IInv, RemoteOK, WireOK
<1>4. [Received EXCEPT !.handshake = TRUE] = a
  <2>1. Tail(rs.down) = << >>
    BY <1>3
  <2>2. rs.ok = TRUE
    BY <1>2 DEF RemoteStore
  <2> QED BY <1>2, <2>1, <2>2 DEF Received, IsStarted, RemoteStore
<1>5. /\ a \in RemoteStore /\ a.state = "Open" /\ a.handshake /\ a.up = << >> /\ a.down = << >>
      /\ a.timers = rs.timers /\ a.asks = rs.asks /\ a.pipeline = p
      /\ a.credentials = rs.credentials /\ a.close_count = rs.close_count /\ a.enabled = rs.enabled
  <2>1. << >> \in Seq(Responses)
    OBVIOUS
  <2> QED BY <1>2, <1>3, <2>1 DEF RemoteStore
<1> HIDE DEF a
<1>6. /\ p \in Seq(Batch) /\ Len(p) \in Nat
  BY <1>2, RemoteFacts
<1>7. ws \in Seq(0..MaxWrites) /\ Len(ws) = Len(p) /\ \A k \in 1..Len(p) : ws[k] = p[k].write
  BY <1>6, RequestsOf
<1>8. rs' = [a EXCEPT !.timers = @ \ {"idle"}, !.up = ws]
  <2>1. HARD_ASSERT(a, IsOpen(a) /\ a.handshake) = a
    BY <1>5, AssertHolds DEF IsOpen
  <2>2. a.up \o ws = ws
    <3> HIDE DEF ws
    <3> QED BY <1>5, <1>7
  <2>3. rs' = SendAll(a, ws)
    BY <1>1, <1>2, <1>4, <2>1 DEF WriteMutations
  <2> HIDE DEF ws
  <2> QED BY <1>5, <2>2, <2>3 DEF SendAll, CancelIdleCheck, RemoteStore
<1> HIDE DEF ws
<1>9. /\ rs' \in RemoteStore /\ rs'.state = "Open" /\ rs'.handshake /\ rs'.up = ws
      /\ rs'.down = << >> /\ rs'.timers = rs.timers \ {"idle"} /\ rs'.asks = rs.asks
      /\ rs'.pipeline = p /\ rs'.credentials = rs.credentials
      /\ rs'.close_count = rs.close_count /\ rs'.enabled = rs.enabled
  BY <1>5, <1>7, <1>8 DEF RemoteStore
<1>10. StreamOK(rs')
  BY <1>2, <1>9 DEF StreamOK
<1>11. WireOK(rs')
  <2> HIDE DEF p
  <2>1. Len(rs'.down) = 0
    BY <1>9
  <2>2. Len(rs'.down) + Len(rs'.up) = Len(rs'.pipeline)
    BY <1>6, <1>7, <1>9, <2>1
  <2>3. \A k \in 1..Len(rs'.up) : rs'.up[k] = rs'.pipeline[Len(rs'.down) + k].write
    BY <1>6, <1>7, <1>9, <2>1
  <2>4. \A k \in 1..Len(rs'.down) : FALSE
    BY <2>1
  <2> QED BY <1>9, <2>2, <2>3, <2>4 DEF WireOK
<1>12. RemoteOK'
  <2>1. PipelineOK(rs', queue'[user'])
    BY <1>1, <1>9 DEF IInv, RemoteOK, PipelineOK
  <2> QED BY <1>1, <1>9, <1>10, <1>11, <2>1 DEF IInv, RemoteOK
<1>13. AnswersOK' /\ ResultsOK'
  <2>1. \A k \in 1..Len(rs'.down) : FALSE
    <3>1. Len(rs'.down) = 0
      BY <1>9
    <3> QED BY <3>1
  <2> QED BY <2>1 DEF AnswersOK, ResultsOK
<1>14. TokensOK'
  BY <1>1, <1>2, <1>9, TokensKept DEF IInv
<1>15. disturbances' \in 0..MaxDisturbances
  BY <1>1 DEF IInv, StateOK
<1> QED BY <1>1, <1>12, <1>13, <1>14, <1>15, OnlyRemote

\* The front of a queue is removed.
LEMMA FrontRemoved ==
  ASSUME NEW q, QueueOK(q), q # << >>
  PROVE  RemoveMutationBatch(q, Head(q).batch_id) = Tail(q) /\ QueueOK(Tail(q))
<1> DEFINE l == Len(q)
           found == {k \in DOMAIN q : q[k].batch_id = Head(q).batch_id}
           r == Tail(q)
<1>1. /\ q \in Seq(Batch) /\ DOMAIN q = 1..l
      /\ \A k \in 1..l : q[k].batch_id \in 1..MaxWrites
  BY QueueFacts
<1>2. /\ l \in Nat \ {0} /\ Head(q) = q[1] /\ r \in Seq(Batch) /\ Len(r) = l - 1
      /\ \A k \in 1..(l - 1) : r[k] = q[k + 1]
  BY <1>1, TailParts
<1>3. \A k \in 1..l : q[k].batch_id = q[1].batch_id => k = 1
  <2> SUFFICES ASSUME NEW k \in 1..l, k # 1 PROVE q[k].batch_id # q[1].batch_id
    OBVIOUS
  <2>1. 1 \in 1..l /\ 1 < k
    BY <1>2
  <2>2. q[1].batch_id < q[k].batch_id
    BY <2>1 DEF QueueOK
  <2> QED BY <1>1, <2>1, <2>2
<1>4. found = {1}
  <2>1. 1 \in 1..l
    BY <1>2
  <2> QED BY <1>1, <1>2, <1>3, <2>1
<1>5. Min(found) = 1
  <2>1. Min({1}) = 1
    BY DEF Min
  <2> QED BY <1>4, <2>1
<1>6. RemoveMutationBatch(q, Head(q).batch_id) = RemoveAt(q, 1)
  BY <1>4, <1>5 DEF RemoveMutationBatch
<1>7. RemoveAt(q, 1) = Tail(q)
  <2>1. SubSeq(q, 1, 0) = << >>
    BY <1>1, SubSeqEmpty
  <2>2. RemoveAt(q, 1) = SubSeq(q, 1, 1 - 1) \o SubSeq(q, 1 + 1, Len(q))
    BY DEF RemoveAt
  <2>3. SubSeq(q, 2, Len(q)) = Tail(q)
    BY <1>1, <1>2
  <2>4. << >> \o Tail(q) = Tail(q)
    BY <1>2
  <2> QED BY <2>1, <2>2, <2>3, <2>4
<1> HIDE DEF r
<1>8. QueueOK(r)
  <2>1. ASSUME NEW i \in 1..Len(r), NEW j \in 1..Len(r), i < j
        PROVE  r[i].batch_id < r[j].batch_id /\ r[i].write < r[j].write
    <3>1. i + 1 \in 1..l /\ j + 1 \in 1..l /\ i + 1 < j + 1 /\ r[i] = q[i + 1] /\ r[j] = q[j + 1]
      BY <1>2, <2>1
    <3>2. q[i + 1].batch_id < q[j + 1].batch_id /\ q[i + 1].write < q[j + 1].write
      BY <3>1 DEF QueueOK
    <3> QED BY <3>1, <3>2
  <2> QED BY <1>2, <2>1 DEF QueueOK
<1> QED BY <1>6, <1>7, <1>8 DEF r

\* The front of the pipeline is the front of the queue, and what is behind it
\* is the beginning of what is behind that.
LEMMA PipelineFront ==
  ASSUME NEW s \in RemoteStore, NEW q, s.pipeline # << >>, PipelineOK(s, q), QueueOK(q)
  PROVE  /\ q # << >> /\ Head(s.pipeline) = Head(q) /\ Head(q) = q[1] /\ 1 \in 1..Len(q)
         /\ \A t : t.pipeline = Tail(s.pipeline) => PipelineOK(t, Tail(q))
<1> DEFINE p == s.pipeline
           n == Len(p)
           l == Len(q)
<1>1. p \in Seq(Batch) /\ q \in Seq(Batch) /\ l \in Nat
  BY RemoteFacts, QueueFacts
<1>2. /\ n \in Nat \ {0} /\ Head(p) = p[1] /\ Len(Tail(p)) = n - 1
      /\ \A k \in 1..(n - 1) : Tail(p)[k] = p[k + 1]
  BY <1>1, TailParts
<1>3. n <= l /\ n <= kMaxPendingWrites /\ \A k \in 1..n : p[k] = q[k]
  BY DEF PipelineOK
<1>4. q # << >>
  <2>1. l # 0
    BY <1>1, <1>2, <1>3
  <2> QED BY <2>1
<1>5. /\ Head(q) = q[1] /\ Len(Tail(q)) = l - 1 /\ \A k \in 1..(l - 1) : Tail(q)[k] = q[k + 1]
  BY <1>1, <1>4, TailParts
<1> HIDE DEF n, l, p
<1>6. p[1] = q[1] /\ 1 \in 1..l
  BY <1>1, <1>2, <1>3
<1>7. ASSUME NEW t, t.pipeline = Tail(p)
      PROVE  PipelineOK(t, Tail(q))
  <2>1. Len(Tail(p)) <= Len(Tail(q)) /\ Len(Tail(p)) <= kMaxPendingWrites
    BY <1>1, <1>2, <1>3, <1>5, BoundsAssumption
  <2>2. \A k \in 1..(n - 1) : Tail(p)[k] = Tail(q)[k]
    <3> SUFFICES ASSUME NEW k \in 1..(n - 1) PROVE Tail(p)[k] = Tail(q)[k]
      OBVIOUS
    <3>1. k \in 1..(l - 1) /\ k + 1 \in 1..n
      BY <1>1, <1>2, <1>3
    <3> QED BY <1>2, <1>3, <1>5, <3>1
  <2> QED BY <1>2, <1>7, <2>1, <2>2 DEF PipelineOK
<1> QED BY <1>2, <1>4, <1>5, <1>6, <1>7 DEF p, l

\* The front of the pipeline is acknowledged or rejected: its batch leaves the
\* queue, and the handler found by its id, if there is one, is its own.
LEMMA Settled ==
  ASSUME IInv, rs.pipeline # << >>, NEW status \in {"ok", "error"},
         status = "error" <=> DocOf(Head(rs.pipeline).write) \in RefusedDocs,
         NotifyUser(Head(rs.pipeline).batch_id, status),
         queue' = [queue EXCEPT ![user] = RemoveMutationBatch(@, Head(rs.pipeline).batch_id)],
         calls' = calls, tasks' = tasks, user' = user, authUser' = authUser,
         nextBatchId' = nextBatchId
  PROVE  /\ queue' \in [Users -> Seq(Batch)] /\ queue'[user] = Tail(queue[user])
         /\ \A u \in Users : u # user => queue'[u] = queue[u]
         /\ callbacks' \subseteq [user : Users, batch_id : 1..MaxWrites, write : Writes]
         /\ told' \in [Writes -> Seq({"ok", "error"})]
         /\ QueuesOK' /\ WaitingOK' /\ TurnsOK' /\ CallbacksOK' /\ ToldOK'
<1> DEFINE q == queue[user]
           b == Head(rs.pipeline)
           w == b.write
           i == b.batch_id
           mine == {c \in callbacks : c.user = user /\ c.batch_id = i}
<1>0. user \in Users /\ rs \in RemoteStore /\ PipelineOK(rs, q) /\ QueueOK(q)
  BY PipelineFacts DEF IInv, RemoteOK
<1>1. q # << >> /\ b = q[1] /\ 1 \in 1..Len(q) /\ b = Head(q)
  BY <1>0, PipelineFront
<1>2. /\ w \in 1..MaxWrites /\ i \in 1..MaxWrites /\ q \in Seq(Batch) /\ Len(q) \in Nat
      /\ \A k \in 1..Len(q) : q[k].batch_id \in 1..MaxWrites /\ q[k].write \in 1..MaxWrites
  BY <1>0, <1>1, QueueFacts
<1>3. /\ i < nextBatchId /\ w <= Len(calls) /\ calls[w].user = user /\ told[w] = << >>
  BY <1>0, <1>1 DEF IInv, QueuesOK
<1>4. \A k \in 1..Len(q) : (q[k].batch_id = i \/ q[k].write = w) => k = 1
  <2> SUFFICES ASSUME NEW k \in 1..Len(q), k # 1 PROVE q[k].batch_id # i /\ q[k].write # w
    OBVIOUS
  <2>1. 1 < k
    BY <1>2
  <2>2. q[1].batch_id < q[k].batch_id /\ q[1].write < q[k].write
    BY <1>0, <1>1, <2>1 DEF QueueOK
  <2> QED BY <1>1, <1>2, <2>2
<1>5. /\ callbacks' = callbacks \ mine
      /\ told' = [v \in Writes |-> IF \E c \in mine : c.write = v THEN Append(told[v], status)
                                                                 ELSE told[v]]
  BY DEF NotifyUser
<1>6. \A c \in mine : c.write = w
  <2> SUFFICES ASSUME NEW c \in mine PROVE c.write = w
    OBVIOUS
  <2>1. PICK k \in 1..Len(q) : q[k] = [batch_id |-> c.batch_id, write |-> c.write]
    BY DEF IInv, CallbacksOK
  <2>2. q[k].batch_id = i
    BY <2>1
  <2>3. k = 1
    BY <1>4, <2>2
  <2> QED BY <1>1, <2>1, <2>3
<1>7. RemoveMutationBatch(q, i) = Tail(q) /\ QueueOK(Tail(q))
  BY <1>0, <1>1, FrontRemoved
<1>8. queue \in [Users -> Seq(Batch)]
  BY DEF IInv, StateOK
<1>9. /\ Tail(q) \in Seq(Batch) /\ Len(Tail(q)) = Len(q) - 1
      /\ \A k \in 1..(Len(q) - 1) : Tail(q)[k] = q[k + 1]
  BY <1>1, <1>2, TailParts
<1>10. /\ queue' \in [Users -> Seq(Batch)] /\ queue'[user] = Tail(q)
       /\ \A u \in Users : u # user => queue'[u] = queue[u]
  BY <1>0, <1>7, <1>8, <1>9
<1>11. callbacks \subseteq [user : Users, batch_id : 1..MaxWrites, write : Writes]
  BY DEF IInv, StateOK
<1>12. told \in [Writes -> Seq({"ok", "error"})]
  BY DEF IInv, StateOK
<1>13. /\ \A v \in Writes : v # w => told'[v] = told[v]
       /\ told'[w] = << >> \/ told'[w] = <<status>>
       /\ told' \in [Writes -> Seq({"ok", "error"})]
  <2>1. w \in Writes
    BY <1>2 DEF Writes
  <2>2. \A v \in Writes : told'[v] = IF \E c \in mine : c.write = v THEN Append(told[v], status)
                                                                  ELSE told[v]
    BY <1>5
  <2>3. \A v \in Writes : v # w => told'[v] = told[v]
    BY <1>6, <2>2
  <2>4. Append(<< >>, status) = <<status>>
    OBVIOUS
  <2>5. told'[w] = << >> \/ told'[w] = <<status>>
    BY <1>3, <2>1, <2>2, <2>4
  <2>6. << >> \in Seq({"ok", "error"}) /\ <<status>> \in Seq({"ok", "error"})
    OBVIOUS
  <2>7. \A v \in Writes : told'[v] \in Seq({"ok", "error"})
    BY <1>12, <2>3, <2>5, <2>6
  <2>8. told' = [v \in Writes |-> told'[v]]
    BY <1>5
  <2> QED BY <2>3, <2>5, <2>7, <2>8
<1> HIDE DEF q, b, w, i, mine
<1>14. \A u \in Users : QueueOK(queue'[u])
  BY <1>7, <1>10 DEF IInv, QueuesOK
<1>15. ASSUME NEW u \in Users, NEW k \in 1..Len(queue'[u])
       PROVE  /\ \E j \in 1..Len(queue[u]) : queue'[u][k] = queue[u][j]
              /\ queue'[u][k].write # w
  <2>1. CASE u = user
    <3>1. k \in 1..(Len(q) - 1) /\ k + 1 \in 1..Len(q) /\ k + 1 # 1
      BY <1>2, <1>9, <1>10, <2>1
    <3>2. queue'[u][k] = q[k + 1]
      BY <1>9, <1>10, <2>1, <3>1
    <3>3. q[k + 1].write # w
      BY <1>4, <3>1
    <3> QED BY <2>1, <3>1, <3>2, <3>3 DEF q
  <2>2. CASE u # user
    <3>1. queue'[u] = queue[u] /\ k \in 1..Len(queue[u])
      BY <1>10, <1>15, <2>2
    <3>2. calls[queue[u][k].write].user = u
      BY <3>1 DEF IInv, QueuesOK
    <3>3. queue[u][k].write # w
      BY <1>3, <2>2, <3>2
    <3> QED BY <3>1, <3>3
  <2> QED BY <2>1, <2>2
<1>16. QueuesOK'
  <2>1. ASSUME NEW u \in Users, NEW k \in 1..Len(queue'[u])
        PROVE  /\ queue'[u][k].batch_id < nextBatchId /\ queue'[u][k].write <= Len(calls)
               /\ calls[queue'[u][k].write].user = u /\ told'[queue'[u][k].write] = << >>
    <3>1. PICK j \in 1..Len(queue[u]) : queue'[u][k] = queue[u][j]
      BY <1>15
    <3> DEFINE x == queue[u][j]
    <3>2. /\ x.batch_id < nextBatchId /\ x.write <= Len(calls)
          /\ calls[x.write].user = u /\ told[x.write] = << >>
      BY DEF IInv, QueuesOK
    <3>3. x.write \in Writes
      BY QueueFacts DEF IInv, QueuesOK, Writes
    <3>4. x.write # w
      BY <1>15, <3>1
    <3> QED BY <1>13, <3>1, <3>2, <3>3, <3>4
  <2> QED BY <1>14, <2>1, SMTT(30) DEF QueuesOK
<1>17. WaitingOK'
  <2>1. ASSUME NEW m \in 1..Len(tasks), IsWrite(tasks[m])
        PROVE  /\ told'[tasks[m].write] = << >>
               /\ \A u \in Users : \A k \in 1..Len(queue'[u]) : queue'[u][k].write < tasks[m].write
    <3>1. /\ told[tasks[m].write] = << >>
          /\ \A u \in Users : \A k \in 1..Len(queue[u]) : queue[u][k].write < tasks[m].write
      BY <2>1 DEF IInv, WaitingOK
    <3>2. tasks[m].write \in Writes
      BY <2>1, TasksAre, TaskFields DEF IInv, Writes
    <3>3. w < tasks[m].write
      BY <1>0, <1>1, <3>1 DEF q, w
    <3>4. tasks[m].write # w
      BY <1>2, <3>2, <3>3, BoundsAssumption DEF Writes
    <3>5. told'[tasks[m].write] = << >>
      BY <1>13, <3>1, <3>2, <3>4
    <3>6. \A u \in Users : \A k \in 1..Len(queue'[u]) : queue'[u][k].write < tasks[m].write
      BY <1>15, <3>1
    <3> QED BY <3>5, <3>6
  <2> QED BY <2>1 DEF IInv, WaitingOK
<1>18. TurnsOK'
  BY DEF IInv, TurnsOK, InTurn
<1>19. CallbacksOK'
  <2>1. ASSUME NEW c \in callbacks'
        PROVE  \E k \in 1..Len(queue'[c.user]) :
                 queue'[c.user][k] = [batch_id |-> c.batch_id, write |-> c.write]
    <3>1. c \in callbacks /\ c.user \in Users /\ ~(c.user = user /\ c.batch_id = i)
      BY <1>5, <1>11, <2>1 DEF mine
    <3>2. PICK k \in 1..Len(queue[c.user]) :
            queue[c.user][k] = [batch_id |-> c.batch_id, write |-> c.write]
      BY <3>1 DEF IInv, CallbacksOK
    <3>3. CASE c.user # user
      BY <1>10, <3>1, <3>2, <3>3
    <3>4. CASE c.user = user
      <4>1. q[k] = [batch_id |-> c.batch_id, write |-> c.write] /\ k \in 1..Len(q)
        BY <3>2, <3>4 DEF q
      <4>2. q[k].batch_id = c.batch_id
        BY <4>1
      <4>3. k # 1
        BY <1>1, <3>1, <3>4, <4>2 DEF i
      <4>4. k - 1 \in 1..(Len(q) - 1) /\ k - 1 + 1 = k
        BY <1>2, <4>1, <4>3
      <4>5. Tail(q)[k - 1] = q[k] /\ k - 1 \in 1..Len(queue'[user])
        BY <1>9, <1>10, <4>4
      <4> QED BY <1>10, <3>4, <4>1, <4>5
    <3> QED BY <3>3, <3>4
  <2> QED BY <2>1 DEF CallbacksOK
<1>20. ToldOK'
  <2>1. ASSUME NEW v \in Writes, told'[v] # << >>
        PROVE  /\ v <= Len(calls)
               /\ told'[v] = IF DocOf(v) \in RefusedDocs THEN <<"error">> ELSE <<"ok">>
    <3>1. CASE v = w
      <4>1. told'[v] = <<status>>
        BY <1>13, <2>1, <3>1
      <4>2. status = "error" <=> DocOf(w) \in RefusedDocs
        BY DEF w, b
      <4>3. CASE status = "error"
        BY <1>3, <3>1, <4>1, <4>2, <4>3
      <4>4. CASE status = "ok"
        BY <1>3, <3>1, <4>1, <4>2, <4>4
      <4> QED BY <4>3, <4>4
    <3>2. CASE v # w
      BY <1>13, <2>1, <3>2 DEF IInv, ToldOK
    <3> QED BY <3>1, <3>2
  <2> QED BY <2>1 DEF ToldOK, DocOf
<1>21. callbacks' \subseteq [user : Users, batch_id : 1..MaxWrites, write : Writes]
  BY <1>5, <1>11
<1> QED BY <1>10, <1>13, <1>16, <1>17, <1>18, <1>19, <1>20, <1>21 DEF q

LEMMA OnMutationResultOK ==
  ASSUME IInv, OnMutationResult
  PROVE  IInv'
<1> DEFINE p == rs.pipeline
           n == Len(p)
           d == Len(rs.down)
           q == queue[user]
           b == Head(p)
           w == b.write
           a == [rs EXCEPT !.down = Tail(@), !.pipeline = Tail(@)]
<1>1. rs.down # << >> /\ Head(rs.down) \notin Codes /\ rs.handshake
  BY DEF OnMutationResult
<1>2. rs \in RemoteStore /\ StreamOK(rs) /\ WireOK(rs) /\ PipelineOK(rs, q) /\ QueueOK(q)
      /\ user \in Users /\ p \in Seq(Batch)
  BY PipelineFacts DEF IInv, RemoteOK
<1>3. rs.down \in Seq(Responses) /\ rs.up \in Seq(0..MaxWrites)
  BY <1>2, RemoteFacts
<1>4. /\ d \in Nat \ {0} /\ Head(rs.down) = rs.down[1]
      /\ Tail(rs.down) \in Seq(Responses) /\ Len(Tail(rs.down)) = d - 1
      /\ \A k \in 1..(d - 1) : Tail(rs.down)[k] = rs.down[k + 1]
  BY <1>1, <1>3, TailParts
<1>5. /\ d + Len(rs.up) = n /\ n \in Nat /\ Len(rs.up) \in Nat /\ rs.state = "Open"
      /\ \A k \in 1..d : k \in 1..n
  BY <1>1, WireFacts DEF IInv
<1>6. p # << >>
  <2>1. n # 0
    BY <1>4, <1>5
  <2> QED BY <2>1
<1>7. /\ Tail(p) \in Seq(Batch) /\ Len(Tail(p)) = n - 1 /\ b = p[1]
      /\ \A k \in 1..(n - 1) : Tail(p)[k] = p[k + 1]
  BY <1>2, <1>6, TailParts
<1>8. q # << >> /\ b = q[1] /\ b = Head(q) /\ 1 \in 1..Len(q)
  BY <1>2, <1>6, PipelineFront
<1>9. /\ NotifyUser(b.batch_id, "ok")
      /\ queue' = [queue EXCEPT ![user] = RemoveMutationBatch(@, b.batch_id)]
      /\ acked' = [acked EXCEPT ![DocOf(w)] = w]
      /\ rs' = FillWritePipeline([HARD_ASSERT(Received, b.batch_id \in BatchIds(q))
                                    EXCEPT !.pipeline = Tail(@)], queue'[user])
      /\ user' = user /\ nextBatchId' = nextBatchId /\ calls' = calls /\ authUser' = authUser
      /\ tasks' = tasks /\ server' = server /\ disturbances' = disturbances
  BY <1>6 DEF OnMutationResult, appVars
<1>10. rs.down[1] = MutationResult
  <2>1. 1 \in 1..d
    BY <1>4
  <2>2. rs.down[1] = MutationResult \/ rs.down[1] = "PermissionDenied"
    BY <1>1, <1>2, <1>5, <2>1 DEF WireOK
  <2> QED BY <1>1, <1>4, <2>2 DEF Codes, PermanentCodes
<1>11. DocOf(w) \notin RefusedDocs
  <2>1. 1 \in 1..d
    BY <1>4
  <2> QED BY <1>1, <1>7, <1>10, <2>1 DEF IInv, AnswersOK
<1>12. /\ queue' \in [Users -> Seq(Batch)] /\ queue'[user] = Tail(q)
       /\ \A u \in Users : u # user => queue'[u] = queue[u]
       /\ callbacks' \subseteq [user : Users, batch_id : 1..MaxWrites, write : Writes]
       /\ told' \in [Writes -> Seq({"ok", "error"})]
       /\ QueuesOK' /\ WaitingOK' /\ TurnsOK' /\ CallbacksOK' /\ ToldOK'
  BY <1>6, <1>9, <1>11, Settled
<1>13. [HARD_ASSERT(Received, b.batch_id \in BatchIds(q)) EXCEPT !.pipeline = Tail(@)] = a
  <2>1. b.batch_id \in BatchIds(q)
    <3>1. DOMAIN q = 1..Len(q)
      BY <1>2, QueueFacts
    <3> QED BY <1>8, <3>1 DEF BatchIds
  <2>2. Received = [rs EXCEPT !.down = Tail(@)]
    <3>1. rs.ok = TRUE /\ IsStarted(rs)
      BY <1>2, <1>5 DEF RemoteStore, IsStarted
    <3> QED BY <1>2, <3>1 DEF Received, RemoteStore
  <2>3. Received \in RemoteStore
    BY <1>2, <1>4, <2>2 DEF RemoteStore
  <2>4. HARD_ASSERT(Received, b.batch_id \in BatchIds(q)) = Received
    BY <2>1, <2>3, AssertHolds
  <2> QED BY <1>2, <2>2, <2>4 DEF RemoteStore
<1>14. /\ a \in RemoteStore /\ a.down = Tail(rs.down) /\ a.pipeline = Tail(p)
       /\ a.state = "Open" /\ a.handshake /\ a.timers = rs.timers /\ a.asks = rs.asks
       /\ a.up = rs.up /\ a.credentials = rs.credentials /\ a.close_count = rs.close_count
       /\ a.enabled = rs.enabled
  BY <1>1, <1>2, <1>4, <1>5, <1>7 DEF RemoteStore
<1> HIDE DEF a
<1>15. StreamOK(a)
  BY <1>1, <1>2, <1>5, <1>6, <1>14 DEF StreamOK
<1>16. PipelineOK(a, Tail(q)) /\ QueueOK(Tail(q))
  <2>1. PipelineOK(a, Tail(q))
    BY <1>2, <1>6, <1>14, PipelineFront
  <2> QED BY <1>2, <1>8, <2>1, FrontRemoved
<1>17. WireOK(a)
  <2> DEFINE u == Len(rs.up)
             x == Tail(rs.down)
             y == Tail(p)
  <2>1. \A k \in 1..u : rs.up[k] = p[d + k].write
    BY <1>1, <1>2, <1>5 DEF WireOK
  <2>2. \A k \in 1..d : rs.down[k] = MutationResult \/ (k = d /\ rs.down[k] = "PermissionDenied")
    BY <1>1, <1>2, <1>5 DEF WireOK
  <2>3. Len(x) + u = Len(y)
    <3>1. Len(x) = d - 1 /\ Len(y) = n - 1 /\ d + u = n /\ d \in Nat /\ n \in Nat /\ u \in Nat
      BY <1>4, <1>5, <1>7
    <3> HIDE DEF n, d, u, x, y
    <3> QED BY <3>1
  <2> HIDE DEF n, d, u, p, x, y
  <2>4. \A k \in 1..u : rs.up[k] = y[Len(x) + k].write
    <3> SUFFICES ASSUME NEW k \in 1..u PROVE rs.up[k] = y[Len(x) + k].write
      OBVIOUS
    <3>1. Len(x) + k \in 1..(n - 1) /\ Len(x) + k + 1 = d + k
      BY <1>4, <1>5 DEF x, u
    <3> QED BY <1>7, <2>1, <3>1 DEF y
  <2>5. \A k \in 1..Len(x) : x[k] = MutationResult \/ (k = Len(x) /\ x[k] = "PermissionDenied")
    <3> SUFFICES ASSUME NEW k \in 1..Len(x)
                 PROVE  x[k] = MutationResult \/ (k = Len(x) /\ x[k] = "PermissionDenied")
      OBVIOUS
    <3>1. k + 1 \in 1..d /\ x[k] = rs.down[k + 1] /\ (k + 1 = d => k = Len(x))
      BY <1>4 DEF x
    <3> QED BY <2>2, <3>1
  <2> QED BY <1>14, <2>3, <2>4, <2>5, ZenonT(60) DEF WireOK, x, y, u
<1>18. rs' = FillWritePipeline(a, Tail(q))
  BY <1>9, <1>12, <1>13
<1>19. /\ StreamOK(rs') /\ WireOK(rs') /\ PipelineOK(rs', Tail(q)) /\ Same(a, rs')
       /\ rs'.state = "Open" /\ Len(Tail(p)) <= Len(rs'.pipeline)
  BY <1>14, <1>15, <1>16, <1>17, <1>18, FillOK DEF IsStarted
<1>20. /\ rs'.down = Tail(rs.down) /\ rs'.handshake /\ rs'.credentials = rs.credentials
       /\ rs'.enabled = rs.enabled /\ rs'.close_count = rs.close_count
  BY <1>14, <1>19 DEF Same
<1>21. RemoteOK'
  BY <1>9, <1>12, <1>19, <1>20 DEF IInv, RemoteOK
<1>22. \A k \in 1..(d - 1) : k + 1 \in 1..d /\ rs'.down[k] = rs.down[k + 1]
                             /\ rs'.pipeline[k] = p[k + 1]
  <2> SUFFICES ASSUME NEW k \in 1..(d - 1)
               PROVE  k + 1 \in 1..d /\ rs'.down[k] = rs.down[k + 1] /\ rs'.pipeline[k] = p[k + 1]
    OBVIOUS
  <2>1. rs' \in RemoteStore
    BY <1>19 DEF StreamOK
  <2>2. Len(rs'.pipeline) \in Nat
    BY <2>1, RemoteFacts
  <2> HIDE DEF n, d
  <2>3. k \in 1..(n - 1) /\ k + 1 \in 1..d
    BY <1>4, <1>5
  <2>4. k \in 1..Len(rs'.pipeline) /\ k \in 1..Len(Tail(p))
    BY <1>5, <1>7, <1>19, <2>2, <2>3
  <2>5. rs'.pipeline[k] = Tail(q)[k]
    BY <1>19, <2>4 DEF PipelineOK
  <2>6. Tail(p)[k] = Tail(q)[k]
    BY <1>14, <1>16, <2>4 DEF PipelineOK
  <2>7. rs'.down[k] = rs.down[k + 1]
    BY <1>4, <1>20
  <2> QED BY <1>7, <2>3, <2>5, <2>6, <2>7
<1>23. Len(rs'.down) = d - 1
  BY <1>4, <1>20
<1>24. AnswersOK'
  <2>1. ASSUME NEW k \in 1..(d - 1)
        PROVE  rs'.down[k] = MutationResult <=> DocOf(rs'.pipeline[k].write) \notin RefusedDocs
    BY <1>1, <1>22 DEF IInv, AnswersOK
  <2> QED BY <1>9, <1>23, <2>1 DEF AnswersOK, DocOf
<1>25. ResultsOK'
  <2>1. ASSUME NEW k \in 1..(d - 1), rs'.down[k] = MutationResult
        PROVE  \E j \in k..(d - 1) :
                 /\ rs'.down[j] = MutationResult
                 /\ server[DocOf(rs'.pipeline[k].write)] = rs'.pipeline[j].write
    <3>1. k + 1 \in 1..d /\ rs.down[k + 1] = MutationResult /\ rs'.pipeline[k] = p[k + 1]
      BY <1>22, <2>1
    <3>2. PICK j \in (k + 1)..d :
            rs.down[j] = MutationResult /\ server[DocOf(p[k + 1].write)] = p[j].write
      BY <1>1, <3>1 DEF IInv, ResultsOK
    <3>3. j - 1 \in 1..(d - 1) /\ j - 1 \in k..(d - 1) /\ j - 1 + 1 = j
      BY <1>4, <3>2
    <3>4. rs'.down[j - 1] = MutationResult /\ rs'.pipeline[j - 1] = p[j]
      BY <1>22, <3>2, <3>3
    <3> QED BY <3>1, <3>2, <3>3, <3>4
  <2>2. server' = server /\ calls' = calls
    BY <1>9
  <2> HIDE DEF d
  <2> QED BY <1>23, <2>1, <2>2 DEF ResultsOK, DocOf
<1>26. w \in 1..Len(calls) /\ w \in 1..MaxWrites
  <2>1. 1 \in 1..n
    BY <1>4, <1>5
  <2>2. w \in 1..Len(calls)
    BY <1>7, <2>1, PipelineFacts
  <2>3. w \in 1..MaxWrites
    BY <1>2, <1>8, QueueFacts
  <2> QED BY <2>2, <2>3
<1>27. DocOf(w) \in Docs
  <2>1. calls \in Seq([user : Users, doc : Docs])
    BY DEF IInv, StateOK
  <2>2. calls[w] \in [user : Users, doc : Docs]
    BY <1>26, <2>1, ElementOfSeq
  <2> QED BY <2>2 DEF DocOf
<1>28. acked' \in [Docs -> 0..MaxWrites]
  <2>1. acked \in [Docs -> 0..MaxWrites]
    BY DEF IInv, StateOK
  <2> HIDE DEF w
  <2>2. w \in 0..MaxWrites
    BY <1>26, BoundsAssumption
  <2> QED BY <1>9, <1>27, <2>1, <2>2
<1>29. StateOK'
  BY <1>9, <1>12, <1>28 DEF IInv, StateOK
<1>30. TokensOK'
  BY <1>5, <1>9, <1>20, TokensKept DEF IInv
<1>31. WrittenOK'
  BY <1>9 DEF IInv, WrittenOK, DocOf
<1>32. ServerAgrees'
  <2>0. \A u \in Users : DOMAIN queue'[u] = 1..Len(queue'[u]) /\ DOMAIN queue[u] = 1..Len(queue[u])
    BY <1>12, QueueFacts DEF IInv, QueuesOK
  <2>1. ASSUME NEW u \in Users, NEW k \in 1..Len(queue[u]), queue[u][k].write # w
        PROVE  \E j \in 1..Len(queue'[u]) : queue'[u][j].write = queue[u][k].write
    <3>1. CASE u # user
      BY <1>12, <2>1, <3>1
    <3>2. CASE u = user
      <4>1. q \in Seq(Batch) /\ Len(q) \in Nat
        BY <1>2, QueueFacts
      <4>2. /\ Len(Tail(q)) = Len(q) - 1
            /\ \A j \in 1..(Len(q) - 1) : Tail(q)[j] = q[j + 1]
        BY <1>8, <4>1, TailParts
      <4>3. k # 1 /\ k \in 1..Len(q)
        BY <1>8, <2>1, <3>2
      <4>4. k - 1 \in 1..(Len(q) - 1) /\ k - 1 + 1 = k
        BY <4>1, <4>3
      <4>5. k - 1 \in 1..Len(queue'[u]) /\ queue'[u][k - 1] = q[k]
        BY <1>12, <3>2, <4>2, <4>4
      <4> QED BY <3>2, <4>5
    <3> QED BY <3>1, <3>2
  <2>2. ASSUME NEW e \in Docs
        PROVE  \/ server[e] = acked'[e]
               \/ \E u \in Users : \E j \in 1..Len(queue'[u]) : queue'[u][j].write = server[e]
    <3>1. CASE e = DocOf(w)
      <4>1. 1 \in 1..d
        BY <1>4
      <4>2. PICK j \in 1..d : rs.down[j] = MutationResult /\ server[e] = p[j].write
        BY <1>1, <1>7, <1>10, <3>1, <4>1 DEF IInv, ResultsOK
      <4>3. CASE p[j].write = w
        <5>1. acked \in [Docs -> 0..MaxWrites]
          BY DEF IInv, StateOK
        <5> QED BY <1>9, <1>27, <3>1, <4>2, <4>3, <5>1
      <4>4. CASE p[j].write # w
        <5>1. j \in 1..n
          BY <1>5
        <5>2. j \in 1..Len(q) /\ p[j] = q[j]
          BY <5>1, PipelineFacts
        <5>3. q[j].write # w /\ q[j].write = server[e]
          BY <4>2, <4>4, <5>2
        <5> QED BY <1>2, <2>1, <5>2, <5>3
      <4> QED BY <4>3, <4>4
    <3>2. CASE e # DocOf(w)
      <4>1. acked'[e] = acked[e]
        <5>1. acked \in [Docs -> 0..MaxWrites]
          BY DEF IInv, StateOK
        <5> QED BY <1>9, <3>2, <5>1
      <4>2. server[e] # w
        <5>1. w # 0
          BY <1>26
        <5> QED BY <3>2, <5>1 DEF IInv, WrittenOK
      <4>3. server[e] = acked[e] \/ \E u \in Users : Pending(u, server[e])
        BY DEF IInv, ServerAgrees
      <4>4. ASSUME NEW u \in Users, Pending(u, server[e])
            PROVE  \E j \in 1..Len(queue'[u]) : queue'[u][j].write = server[e]
        <5>1. PICK k \in 1..Len(queue[u]) : queue[u][k].write = server[e]
          BY <2>0, <4>4 DEF Pending
        <5> QED BY <2>1, <4>2, <5>1
      <4> QED BY <4>1, <4>3, <4>4
    <3> QED BY <3>1, <3>2
  <2> QED BY <1>9, <2>0, <2>2 DEF ServerAgrees, Pending
<1> QED BY <1>12, <1>21, <1>24, <1>25, <1>29, <1>30, <1>31, <1>32 DEF IInv

\* The stream ends with an error that refuses nothing: only the stream is lost.
LEMMA FinishWithoutRefusal ==
  ASSUME IInv, NEW code, code # "Ok", IsStarted(rs), ~RefusesFront(rs, code),
         OnStreamFinish(rs, code)
  PROVE  /\ UNCHANGED engineVars /\ Fresh(rs', queue'[user'])
         /\ rs'.close_count = rs.close_count + 1
<1>1. /\ rs' = CloseWriteStream(rs, queue[user], code)
      /\ queue' = queue /\ callbacks' = callbacks /\ told' = told /\ user' = user
      /\ nextBatchId' = nextBatchId /\ acked' = acked
  BY DEF OnStreamFinish
<1>2. StreamOK(rs) /\ PipelineOK(rs, queue[user]) /\ QueueOK(queue[user]) /\ rs.enabled
  BY PipelineFacts DEF IInv, RemoteOK
<1>3. Closed(rs, rs') /\ PipelineOK(rs', queue[user])
  BY <1>1, <1>2, CloseWithError
<1>4. Fresh(rs', queue'[user'])
  BY <1>1, <1>2, <1>3 DEF Closed, Fresh, WireOK
<1> QED BY <1>1, <1>3, <1>4 DEF Closed, engineVars

LEMMA StreamBreaksOK ==
  ASSUME IInv, NEW code \in {"Unavailable", "Aborted", "InvalidArgument"}, StreamBreaks(code)
  PROVE  IInv'
<1>1. /\ rs.credentials # NoStream /\ (code \in {"Unavailable", "Aborted"} \/ ~rs.handshake)
      /\ Disturb /\ OnStreamFinish(rs, code) /\ UNCHANGED <<appVars, tasks, server>>
      /\ tasks' = tasks
  BY DEF StreamBreaks
<1>2. IsStarted(rs)
  BY <1>1 DEF IInv, RemoteOK, StreamOK, IsStarted
<1>3. ~RefusesFront(rs, code)
  BY <1>1 DEF RefusesFront, IsPermanentWriteError, IsPermanentError, PermanentCodes
<1>4. /\ UNCHANGED engineVars /\ Fresh(rs', queue'[user'])
      /\ rs'.close_count = rs.close_count + 1
  BY <1>1, <1>2, <1>3, FinishWithoutRefusal
<1>5. TokensOK'
  BY <1>1, <1>2, <1>4, TokensOutdated DEF IInv
<1>6. disturbances' \in 0..MaxDisturbances
  BY <1>1, BoundsAssumption DEF IInv, StateOK, Disturb
<1> QED BY <1>1, <1>4, <1>5, <1>6, FreshRemote, OnlyRemote

LEMMA OnServerErrorOK ==
  ASSUME IInv, OnServerError
  PROVE  IInv'
<1> DEFINE p == rs.pipeline
           q == queue[user]
           b == Head(p)
           w == b.write
           code == "PermissionDenied"
<1>1. /\ rs.down # << >> /\ Head(rs.down) \in Codes /\ OnStreamFinish(rs, Head(rs.down))
      /\ calls' = calls /\ authUser' = authUser /\ tasks' = tasks /\ server' = server
      /\ disturbances' = disturbances
  BY DEF OnServerError, appVars
<1>2. rs \in RemoteStore /\ StreamOK(rs) /\ WireOK(rs) /\ PipelineOK(rs, q) /\ QueueOK(q)
      /\ user \in Users /\ rs.enabled
  BY PipelineFacts DEF IInv, RemoteOK
<1>3. rs.down \in Seq(Responses)
  BY <1>2, RemoteFacts
<1>4. Len(rs.down) \in Nat \ {0} /\ Head(rs.down) = rs.down[1] /\ 1 \in 1..Len(rs.down)
  <2>1. Len(rs.down) \in Nat \ {0} /\ Head(rs.down) = rs.down[1]
    BY <1>1, <1>3, TailParts
  <2> QED BY <2>1
<1>5. rs.state = "Open"
  BY <1>1, <1>2 DEF StreamOK
<1>6. rs.handshake
  <2>1. HandshakeResponse \notin Codes
    BY DEF HandshakeResponse, Codes, TransientCodes, PermanentCodes
  <2>2. ~rs.handshake => rs.down = <<HandshakeResponse>>
    BY <1>1, <1>2, <1>5 DEF WireOK
  <2>3. Head(<<HandshakeResponse>>) = HandshakeResponse
    OBVIOUS
  <2> QED BY <1>1, <2>1, <2>2, <2>3
<1>7. Head(rs.down) = code
  <2>1. rs.down[1] = MutationResult \/ rs.down[1] = code
    BY <1>2, <1>4, <1>5, <1>6 DEF WireOK
  <2>2. MutationResult \notin Codes
    BY DEF MutationResult, Codes, TransientCodes, PermanentCodes
  <2> QED BY <1>1, <1>4, <2>1, <2>2
<1>8. p # << >> /\ 1 \in 1..Len(p)
  <2>1. 1 \in 1..Len(p) /\ Len(p) \in Nat
    BY <1>4, <1>6, WireFacts DEF IInv
  <2>2. Len(p) # 0
    BY <2>1
  <2> QED BY <2>1, <2>2
<1>9. RefusesFront(rs, code)
  BY <1>6, <1>8 DEF RefusesFront, IsPermanentWriteError, IsPermanentError, PermanentCodes
<1>10. /\ queue' = [queue EXCEPT ![user] = RemoveMutationBatch(@, b.batch_id)]
       /\ NotifyUser(b.batch_id, "error")
       /\ rs' = CloseWriteStream(HARD_ASSERT(rs, b.batch_id \in BatchIds(q)), queue'[user], code)
       /\ user' = user /\ nextBatchId' = nextBatchId /\ acked' = acked
  BY <1>1, <1>7, <1>9 DEF OnStreamFinish
<1>11. q # << >> /\ b = q[1] /\ b = Head(q) /\ 1 \in 1..Len(q)
  BY <1>2, <1>8, PipelineFront
<1>12. b = p[1]
  BY <1>2, <1>8, RemoteFacts, TailParts
<1>13. DocOf(w) \in RefusedDocs
  <2>1. rs.down[1] # MutationResult
    BY <1>4, <1>7 DEF MutationResult
  <2> QED BY <1>4, <1>6, <1>12, <2>1 DEF IInv, AnswersOK
<1>14. /\ queue' \in [Users -> Seq(Batch)] /\ queue'[user] = Tail(q)
       /\ \A u \in Users : u # user => queue'[u] = queue[u]
       /\ callbacks' \subseteq [user : Users, batch_id : 1..MaxWrites, write : Writes]
       /\ told' \in [Writes -> Seq({"ok", "error"})]
       /\ QueuesOK' /\ WaitingOK' /\ TurnsOK' /\ CallbacksOK' /\ ToldOK'
  BY <1>1, <1>8, <1>10, <1>13, Settled
<1>15. HARD_ASSERT(rs, b.batch_id \in BatchIds(q)) = rs
  <2>1. DOMAIN q = 1..Len(q)
    BY <1>2, QueueFacts
  <2>2. b.batch_id \in BatchIds(q)
    BY <1>11, <2>1 DEF BatchIds
  <2> QED BY <1>2, <2>2, AssertHolds
<1>16. Closed(rs, rs') /\ PipelineOK(rs', Tail(q))
  <2>1. PipelineOK([rs EXCEPT !.pipeline = Tail(@)], Tail(q))
    <3> DEFINE a == [rs EXCEPT !.pipeline = Tail(@)]
    <3>1. a.pipeline = Tail(rs.pipeline)
      BY <1>2 DEF RemoteStore
    <3> HIDE DEF a
    <3>2. PipelineOK(a, Tail(q))
      BY <1>2, <1>8, <3>1, PipelineFront
    <3> QED BY <3>2 DEF a
  <2>2. QueueOK(Tail(q))
    BY <1>2, <1>11, FrontRemoved
  <2>3. rs' = CloseWriteStream(rs, Tail(q), code)
    BY <1>10, <1>14, <1>15
  <2>4. IsStarted(rs) /\ code # "Ok"
    BY <1>5 DEF IsStarted
  <2> QED BY <1>2, <1>9, <2>1, <2>2, <2>3, <2>4, CloseWithError
<1>17. Fresh(rs', queue'[user'])
  BY <1>2, <1>10, <1>14, <1>16 DEF Closed, Fresh, WireOK
<1>18. TokensOK'
  <2>1. rs'.close_count = IF IsStarted(rs) THEN rs.close_count + 1 ELSE rs.close_count
    BY <1>5, <1>16 DEF Closed, IsStarted
  <2> QED BY <1>1, <2>1, TokensOutdated DEF IInv
<1>19. StateOK'
  BY <1>1, <1>10, <1>14 DEF IInv, StateOK
<1>20. WrittenOK'
  BY <1>1 DEF IInv, WrittenOK, DocOf
<1>21. ServerAgrees'
  <2>0. \A u \in Users : DOMAIN queue'[u] = 1..Len(queue'[u]) /\ DOMAIN queue[u] = 1..Len(queue[u])
    BY <1>14, QueueFacts DEF IInv, QueuesOK
  <2>1. w \in 1..MaxWrites
    BY <1>2, <1>11, QueueFacts
  <2>2. ASSUME NEW e \in Docs, NEW u \in Users, NEW k \in 1..Len(queue[u]),
               queue[u][k].write = server[e]
        PROVE  \E j \in 1..Len(queue'[u]) : queue'[u][j].write = server[e]
    <3>0. server[e] # w
      <4>1. w # 0
        BY <2>1
      <4> QED BY <1>13, <4>1 DEF IInv, WrittenOK
    <3>1. CASE u # user
      BY <1>14, <2>2, <3>1
    <3>2. CASE u = user
      <4>1. q \in Seq(Batch) /\ Len(q) \in Nat
        BY <1>2, QueueFacts
      <4>2. /\ Len(Tail(q)) = Len(q) - 1
            /\ \A j \in 1..(Len(q) - 1) : Tail(q)[j] = q[j + 1]
        BY <1>11, <4>1, TailParts
      <4>3. k # 1 /\ k \in 1..Len(q)
        BY <1>11, <2>2, <3>0, <3>2
      <4>4. k - 1 \in 1..(Len(q) - 1) /\ k - 1 + 1 = k
        BY <4>1, <4>3
      <4>5. k - 1 \in 1..Len(queue'[u]) /\ queue'[u][k - 1] = q[k]
        BY <1>14, <3>2, <4>2, <4>4
      <4> QED BY <2>2, <3>2, <4>5
    <3> QED BY <3>1, <3>2
  <2> QED BY <1>1, <1>10, <2>0, <2>2 DEF IInv, ServerAgrees, Pending
<1> QED BY <1>14, <1>17, <1>18, <1>19, <1>20, <1>21, FreshRemote DEF IInv

\* A task that is not a write and leaves the engine alone.
LEMMA OtherRun ==
  ASSUME IInv, tasks # << >>, tasks' = Tail(tasks), Head(tasks).kind = "token",
         UNCHANGED <<appVars, engineVars, server, disturbances>>,
         RemoteOK', AnswersOK', TokensOK', ResultsOK'
  PROVE  IInv'
<1>1. /\ calls' = calls /\ authUser' = authUser /\ user' = user
      /\ queue' = queue /\ nextBatchId' = nextBatchId /\ callbacks' = callbacks
      /\ told' = told /\ acked' = acked /\ server' = server /\ disturbances' = disturbances
  BY DEF appVars, engineVars
<1>2. tasks' \in Seq(Task) /\ Len(tasks) \in Nat
  BY TaskRun DEF IInv
<1>3. StateOK'
  BY <1>1, <1>2 DEF IInv, StateOK
<1>4. QueuesOK'
  BY <1>1 DEF IInv, QueuesOK
<1>5. WaitingOK'
  <2>1. \A i \in 2..Len(tasks) : i \in 1..Len(tasks)
    BY <1>2
  <2>2. \A i \in 2..Len(tasks) : IsWrite(tasks[i]) =>
          /\ nextBatchId' <= tasks[i].write
          /\ \A u \in Users : \A k \in 1..Len(queue'[u]) : queue'[u][k].write < tasks[i].write
    BY <1>1, <2>1 DEF IInv, WaitingOK
  <2> QED BY <1>1, <2>2, WaitingRun DEF IInv
<1>6. TurnsOK'
  BY <1>1, TurnsRun DEF IInv
<1>7. CallbacksOK' /\ ToldOK' /\ WrittenOK' /\ ServerAgrees'
  BY <1>1 DEF IInv, CallbacksOK, ToldOK, WrittenOK, ServerAgrees, DocOf, Pending
<1> QED BY <1>3, <1>4, <1>5, <1>6, <1>7 DEF IInv

LEMMA RunTokenOK ==
  ASSUME IInv, RunToken
  PROVE  IInv'
<1> DEFINE t == Head(tasks)
<1>1. /\ tasks # << >> /\ t.kind = "token" /\ tasks' = Tail(tasks)
      /\ UNCHANGED <<appVars, server, disturbances>> /\ calls' = calls /\ server' = server
  BY DEF RunToken, appVars
<1>2. /\ Len(tasks) \in Nat \ {0} /\ Len(tasks') = Len(tasks) - 1 /\ t = tasks[1] /\ t \in Task
      /\ \A i \in 1..Len(tasks') : tasks'[i] = tasks[i + 1]
      /\ 1 \in 1..Len(tasks)
  <2>1. /\ Len(tasks) \in Nat \ {0} /\ Len(tasks') = Len(tasks) - 1 /\ t = tasks[1] /\ t \in Task
        /\ \A i \in 1..Len(tasks') : tasks'[i] = tasks[i + 1]
    BY <1>1, TaskRun DEF IInv
  <2> QED BY <2>1
<1>3. \A i \in 1..Len(tasks') : i + 1 \in 1..Len(tasks) /\ i + 1 # 1
  BY <1>2
<1>4. t.user = user /\ user \in Users
  BY <1>1, FirstTurn DEF IInv, StateOK
<1>5. StreamOK(rs) /\ rs \in RemoteStore
  BY DEF IInv, RemoteOK, StreamOK
<1>6. CASE ~IsCurrent(rs, t.close_count)
  <2>1. rs' = rs /\ UNCHANGED engineVars /\ user' = user /\ queue' = queue
    BY <1>6 DEF RunToken, engineVars
  <2>2. RemoteOK' /\ AnswersOK' /\ ResultsOK'
    BY <1>1, <2>1 DEF IInv, RemoteOK, AnswersOK, ResultsOK, DocOf
  <2>3. TokensOK'
    BY <1>1, <2>1, TokensRun DEF IInv
  <2> QED BY <1>1, <2>1, <2>2, <2>3, OtherRun
<1>7. CASE IsCurrent(rs, t.close_count)
  <2>0. t.close_count = rs.close_count
    BY <1>7 DEF IsCurrent
  <2>1. /\ rs.state = "Starting" /\ rs.credentials = NoStream /\ rs.close_count \notin rs.asks
        /\ \A j \in 1..Len(tasks) :
             tasks[j].kind = "token" /\ tasks[j].close_count = rs.close_count => j = 1
    BY <1>1, <1>2, <2>0 DEF IInv, TokensOK
  <2>2. HARD_ASSERT(rs, rs.state = "Starting") = rs
    BY <1>5, <2>1, AssertHolds
  <2>3. CASE t.code = "Ok"
    <3>1. /\ rs' = [rs EXCEPT !.credentials = user] /\ UNCHANGED engineVars
          /\ user' = user /\ queue' = queue
      BY <1>4, <1>7, <2>2, <2>3 DEF RunToken, ResumeStartWithCredentials, engineVars
    <3>2. /\ rs' \in RemoteStore /\ rs'.credentials = user /\ rs'.state = "Starting"
          /\ rs'.timers = rs.timers /\ rs'.asks = rs.asks /\ rs'.close_count = rs.close_count
          /\ rs'.handshake = rs.handshake /\ rs'.enabled = rs.enabled
          /\ rs'.pipeline = rs.pipeline /\ rs'.up = rs.up /\ rs'.down = rs.down
      BY <1>4, <1>5, <2>1, <3>1 DEF RemoteStore
    <3>3. StreamOK(rs')
      BY <1>5, <2>1, <3>2 DEF StreamOK
    <3>4. WireOK(rs') /\ ~rs'.handshake /\ rs'.enabled
      BY <2>1, <3>2 DEF WireOK, IInv, RemoteOK
    <3>5. PipelineOK(rs', queue'[user'])
      BY <3>1, <3>2 DEF IInv, RemoteOK, PipelineOK
    <3>6. RemoteOK'
      BY <3>1, <3>2, <3>3, <3>4, <3>5 DEF RemoteOK
    <3>7. AnswersOK' /\ ResultsOK'
      BY <3>4 DEF AnswersOK, ResultsOK
    <3>8. TokensOK'
      <4>1. ASSUME NEW i \in 1..Len(tasks'), tasks'[i].kind = "token"
            PROVE  tasks'[i].close_count <= rs'.close_count /\ tasks'[i].close_count # rs'.close_count
        <5>1. tasks'[i] = tasks[i + 1] /\ i + 1 \in 1..Len(tasks) /\ i + 1 # 1
          BY <1>2, <1>3
        <5>2. tasks[i + 1].close_count <= rs.close_count
          BY <4>1, <5>1 DEF IInv, TokensOK
        <5>3. tasks[i + 1].close_count # rs.close_count
          BY <2>1, <4>1, <5>1
        <5> QED BY <3>2, <5>1, <5>2, <5>3
      <4> QED BY <4>1 DEF TokensOK
    <3> QED BY <1>1, <3>1, <3>6, <3>7, <3>8, OtherRun
  <2>4. CASE t.code # "Ok"
    <3>1. t.code = "Unknown"
      BY <1>1, <1>2, <2>4, TaskFields
    <3>2. OnStreamFinish(rs, "Unknown")
      BY <1>7, <2>2, <2>4, <3>1 DEF RunToken
    <3>3. IsStarted(rs) /\ ~RefusesFront(rs, "Unknown")
      BY <2>1 DEF IsStarted, RefusesFront, IInv, RemoteOK
    <3>4. /\ UNCHANGED engineVars /\ Fresh(rs', queue'[user'])
          /\ rs'.close_count = rs.close_count + 1
      BY <3>2, <3>3, FinishWithoutRefusal
    <3>5. TokensOK'
      BY <1>2, <1>3, <3>3, <3>4, TokensOutdated DEF IInv
    <3> QED BY <1>1, <3>4, <3>5, FreshRemote, OtherRun
  <2> QED BY <2>3, <2>4
<1> QED BY <1>6, <1>7

LEMMA RunWriteOK ==
  ASSUME IInv, RunWrite
  PROVE  IInv'
<1> DEFINE t == Head(tasks)
           w == t.write
           q == queue[user]
           b == [batch_id |-> nextBatchId, write |-> w]
           r == Append(q, b)
           l == Len(q)
<1>1. /\ tasks # << >> /\ t.kind = "write" /\ tasks' = Tail(tasks)
      /\ queue' = [queue EXCEPT ![user] = r]
      /\ nextBatchId' = nextBatchId + 1 /\ rs' = FillWritePipeline(rs, queue'[user])
      /\ calls' = calls /\ authUser' = authUser /\ user' = user /\ told' = told
      /\ acked' = acked /\ server' = server /\ disturbances' = disturbances
  BY DEF RunWrite, appVars
<1>2. callbacks' \subseteq callbacks \cup {[user |-> user, batch_id |-> nextBatchId, write |-> w]}
  BY DEF RunWrite
<1>3. /\ Len(tasks) \in Nat \ {0} /\ t = tasks[1] /\ t \in Task /\ tasks' \in Seq(Task)
      /\ 1 \in 1..Len(tasks)
  <2>1. Len(tasks) \in Nat \ {0} /\ t = tasks[1] /\ t \in Task /\ tasks' \in Seq(Task)
    BY <1>1, TaskRun DEF IInv
  <2> QED BY <2>1
<1>4. IsWrite(t) /\ w \in 1..MaxWrites /\ calls[w].user = user
  <2>1. IsWrite(t)
    BY <1>1 DEF IsWrite
  <2> QED BY <1>1, <1>3, <2>1, TaskFields, FirstTurn DEF IInv
<1>5. /\ w <= Len(calls) /\ told[w] = << >> /\ nextBatchId <= w
      /\ \A u \in Users : \A k \in 1..Len(queue[u]) : queue[u][k].write < w
      /\ \A j \in 1..Len(tasks) : 1 < j /\ IsWrite(tasks[j]) => w < tasks[j].write
  BY <1>3, <1>4 DEF IInv, WaitingOK
<1>6. user \in Users /\ QueueOK(q) /\ rs \in RemoteStore /\ PipelineOK(rs, q)
  BY PipelineFacts DEF IInv, RemoteOK
<1>7. q \in Seq(Batch) /\ l \in Nat
  BY <1>6, QueueFacts
<1>8. nextBatchId \in 1..MaxWrites /\ nextBatchId \in Nat
  BY <1>4, <1>5, BoundsAssumption DEF IInv, StateOK
<1>9. b \in Batch /\ b.batch_id = nextBatchId /\ b.write = w
  BY <1>4, <1>8 DEF Batch, Writes
<1> HIDE DEF b
<1>10. /\ r \in Seq(Batch) /\ Len(r) = l + 1 /\ r[l + 1] = b
       /\ \A k \in 1..l : r[k] = q[k]
  BY <1>7, <1>9, AppendParts
<1>11. queue \in [Users -> Seq(Batch)]
  BY DEF IInv, StateOK
<1>12. /\ queue' \in [Users -> Seq(Batch)] /\ queue'[user] = r
       /\ \A u \in Users : u # user => queue'[u] = queue[u]
  <2> HIDE DEF r
  <2> QED BY <1>1, <1>6, <1>10, <1>11
<1> HIDE DEF r, w, q, l, t
<1>13. \A k \in 1..l : q[k].batch_id < nextBatchId /\ q[k].write < w
  BY <1>5, <1>6 DEF IInv, QueuesOK, q, l
<1>14. QueueOK(r)
  <2>1. ASSUME NEW i \in 1..Len(r), NEW j \in 1..Len(r), i < j
        PROVE  r[i].batch_id < r[j].batch_id /\ r[i].write < r[j].write
    <3>1. i \in 1..l
      BY <1>7, <1>10, <2>1
    <3>2. CASE j = l + 1
      BY <1>9, <1>10, <1>13, <3>1, <3>2
    <3>3. CASE j # l + 1
      <4>1. j \in 1..l
        BY <1>7, <1>10, <3>3
      <4>2. q[i].batch_id < q[j].batch_id /\ q[i].write < q[j].write
        BY <1>6, <2>1, <3>1, <4>1 DEF QueueOK, l
      <4> QED BY <1>10, <3>1, <4>1, <4>2
    <3> QED BY <3>2, <3>3
  <2> QED BY <1>10, <2>1 DEF QueueOK
<1>15. PipelineOK(rs, r)
  <2>1. Len(rs.pipeline) \in Nat
    BY <1>6, RemoteFacts
  <2>2. Len(rs.pipeline) <= l /\ \A k \in 1..Len(rs.pipeline) : rs.pipeline[k] = q[k]
    BY <1>6 DEF PipelineOK, l
  <2>3. Len(rs.pipeline) <= Len(r) /\ \A k \in 1..Len(rs.pipeline) : k \in 1..l
    BY <1>7, <1>10, <2>1, <2>2
  <2>4. \A k \in 1..Len(rs.pipeline) : rs.pipeline[k] = r[k]
    BY <1>10, <2>2, <2>3
  <2> QED BY <1>6, <2>3, <2>4 DEF PipelineOK
<1>16. StreamOK(rs) /\ WireOK(rs)
  BY DEF IInv, RemoteOK
<1>17. /\ StreamOK(rs') /\ WireOK(rs') /\ PipelineOK(rs', r) /\ Same(rs, rs')
       /\ IsStarted(rs) => rs'.state = rs.state /\ rs'.asks = rs.asks
       /\ Len(rs.pipeline) <= Len(rs'.pipeline)
  BY <1>1, <1>12, <1>14, <1>15, <1>16, FillOK
<1>18. RemoteOK'
  BY <1>1, <1>12, <1>17 DEF IInv, RemoteOK, Same, IsStarted
<1>19. \A k \in 1..Len(rs.pipeline) : rs'.pipeline[k] = rs.pipeline[k]
  <2>1. rs' \in RemoteStore
    BY <1>17 DEF StreamOK
  <2>2. Len(rs.pipeline) \in Nat /\ Len(rs'.pipeline) \in Nat
    BY <1>6, <2>1, RemoteFacts
  <2>3. \A k \in 1..Len(rs.pipeline) : k \in 1..Len(rs'.pipeline)
    BY <1>17, <2>2
  <2> QED BY <1>15, <1>17, <2>3 DEF PipelineOK
<1>20. rs'.down = rs.down /\ rs'.handshake = rs.handshake
  BY <1>17 DEF Same
<1>21. AnswersOK' /\ ResultsOK'
  <2>1. CASE rs.handshake
    <3>1. \A k \in 1..Len(rs.down) : k \in 1..Len(rs.pipeline)
      BY <2>1, WireFacts DEF IInv
    <3>2. \A k \in 1..Len(rs.down) : rs'.pipeline[k] = rs.pipeline[k]
      BY <1>19, <3>1
    <3>3. ASSUME NEW k \in 1..Len(rs.down)
          PROVE  rs.down[k] = MutationResult <=> DocOf(rs'.pipeline[k].write) \notin RefusedDocs
      BY <2>1, <3>2 DEF IInv, AnswersOK
    <3>4. ASSUME NEW i \in 1..Len(rs.down), rs.down[i] = MutationResult
          PROVE  \E j \in i..Len(rs.down) :
                   /\ rs.down[j] = MutationResult
                   /\ server[DocOf(rs'.pipeline[i].write)] = rs'.pipeline[j].write
      <4>1. PICK j \in i..Len(rs.down) :
              /\ rs.down[j] = MutationResult
              /\ server[DocOf(rs.pipeline[i].write)] = rs.pipeline[j].write
        BY <2>1, <3>4 DEF IInv, ResultsOK
      <4>2. j \in 1..Len(rs.down)
        BY <4>1
      <4> QED BY <3>2, <4>1, <4>2
    <3>5. server' = server /\ calls' = calls
      BY <1>1
    <3>6. AnswersOK'
      BY <1>20, <3>3, <3>5 DEF AnswersOK, DocOf
    <3>7. ResultsOK'
      BY <1>20, <3>4, <3>5 DEF ResultsOK, DocOf
    <3> QED BY <3>6, <3>7
  <2>2. CASE ~rs.handshake
    BY <1>20, <2>2 DEF AnswersOK, ResultsOK
  <2> QED BY <2>1, <2>2
<1>22. StateOK'
  <2>1. nextBatchId' \in 1..(MaxWrites + 1) /\ nextBatchId' <= Len(calls') + 1
    <3>1. nextBatchId' = nextBatchId + 1 /\ calls' = calls
      BY <1>1
    <3>2. Len(calls) \in Nat
      BY LenProperties DEF IInv, StateOK
    <3> QED BY <1>4, <1>5, <1>8, <3>1, <3>2, BoundsAssumption
  <2>2. callbacks' \subseteq [user : Users, batch_id : 1..MaxWrites, write : Writes]
    <3>1. callbacks \subseteq [user : Users, batch_id : 1..MaxWrites, write : Writes]
      BY DEF IInv, StateOK
    <3>2. [user |-> user, batch_id |-> nextBatchId, write |-> w]
            \in [user : Users, batch_id : 1..MaxWrites, write : Writes]
      BY <1>4, <1>6, <1>8 DEF Writes
    <3> QED BY <1>2, <3>1, <3>2
  <2> QED BY <1>1, <1>3, <1>12, <2>1, <2>2 DEF IInv, StateOK
<1>23. \A u \in Users : \A k \in 1..Len(queue'[u]) :
         (k \in 1..Len(queue[u]) /\ queue'[u][k] = queue[u][k]) \/ (u = user /\ queue'[u][k] = b)
  <2> SUFFICES ASSUME NEW u \in Users, NEW k \in 1..Len(queue'[u])
               PROVE  \/ k \in 1..Len(queue[u]) /\ queue'[u][k] = queue[u][k]
                      \/ u = user /\ queue'[u][k] = b
    OBVIOUS
  <2>1. CASE u # user
    BY <1>12, <2>1
  <2>2. CASE u = user
    <3>1. k \in 1..(l + 1) /\ queue'[u][k] = r[k]
      BY <1>10, <1>12, <2>2
    <3>2. k = l + 1 \/ k \in 1..l
      BY <1>7, <3>1
    <3> QED BY <1>10, <2>2, <3>1, <3>2 DEF q, l
  <2> QED BY <2>1, <2>2
<1>24. QueuesOK'
  <2>1. ASSUME NEW u \in Users, NEW k \in 1..Len(queue'[u])
        PROVE  /\ queue'[u][k].batch_id < nextBatchId + 1 /\ queue'[u][k].write <= Len(calls)
               /\ calls[queue'[u][k].write].user = u /\ told[queue'[u][k].write] = << >>
    <3>1. CASE k \in 1..Len(queue[u]) /\ queue'[u][k] = queue[u][k]
      <4>1. /\ queue[u][k].batch_id < nextBatchId /\ queue[u][k].write <= Len(calls)
            /\ calls[queue[u][k].write].user = u /\ told[queue[u][k].write] = << >>
        BY <3>1 DEF IInv, QueuesOK
      <4>2. queue[u][k].batch_id \in 1..MaxWrites
        BY <3>1, QueueFacts DEF IInv, QueuesOK
      <4>3. queue[u][k].batch_id < nextBatchId + 1
        BY <1>8, <4>1, <4>2
      <4> QED BY <3>1, <4>1, <4>3
    <3>2. CASE u = user /\ queue'[u][k] = b
      <4>1. nextBatchId < nextBatchId + 1
        BY <1>8
      <4> QED BY <1>4, <1>5, <1>9, <3>2, <4>1
    <3> QED BY <1>23, <3>1, <3>2
  <2>2. \A u \in Users : QueueOK(queue'[u])
    BY <1>12, <1>14 DEF IInv, QueuesOK
  <2> QED BY <1>1, <2>1, <2>2 DEF QueuesOK
<1>25. WaitingOK'
  <2>1. ASSUME NEW i \in 2..Len(tasks), IsWrite(tasks[i])
        PROVE  /\ nextBatchId + 1 <= tasks[i].write
               /\ \A u \in Users : \A k \in 1..Len(queue'[u]) : queue'[u][k].write < tasks[i].write
    <3>1. i \in 1..Len(tasks) /\ 1 < i
      BY <1>3
    <3>2. w < tasks[i].write
      BY <1>5, <2>1, <3>1
    <3>3. tasks[i].write \in 1..MaxWrites
      BY <2>1, <3>1, TasksAre, TaskFields DEF IInv
    <3>4. nextBatchId + 1 <= tasks[i].write
      BY <1>4, <1>5, <1>8, <3>2, <3>3
    <3>5. \A u \in Users : \A k \in 1..Len(queue[u]) : queue[u][k].write < tasks[i].write
      BY <2>1, <3>1 DEF IInv, WaitingOK
    <3>6. \A u \in Users : \A k \in 1..Len(queue'[u]) : queue'[u][k].write < tasks[i].write
      BY <1>9, <1>23, <3>2, <3>5
    <3> QED BY <3>4, <3>6
  <2> QED BY <1>1, <2>1, WaitingRun DEF IInv
<1>26. TurnsOK'
  <2>1. Head(tasks).kind # "user"
    BY <1>1 DEF t
  <2> QED BY <1>1, <2>1, TurnsRun DEF IInv
<1>27. TokensOK'
  <2>1. rs'.close_count = rs.close_count /\ rs'.credentials = rs.credentials
    BY <1>17 DEF Same
  <2>2. rs.state = "Starting" => rs'.state = rs.state /\ rs'.asks = rs.asks
    BY <1>17 DEF IsStarted
  <2> QED BY <1>1, <2>1, <2>2, TokensRun DEF IInv
<1>28. CallbacksOK'
  <2>1. ASSUME NEW c \in callbacks'
        PROVE  \E k \in 1..Len(queue'[c.user]) :
                 queue'[c.user][k] = [batch_id |-> c.batch_id, write |-> c.write]
    <3>1. CASE c \in callbacks
      <4>1. c.user \in Users
        BY <3>1 DEF IInv, StateOK
      <4>2. PICK k \in 1..Len(queue[c.user]) :
              queue[c.user][k] = [batch_id |-> c.batch_id, write |-> c.write]
        BY <3>1 DEF IInv, CallbacksOK
      <4>3. k \in 1..Len(queue'[c.user]) /\ queue'[c.user][k] = queue[c.user][k]
        <5>1. CASE c.user # user
          BY <1>12, <4>1, <4>2, <5>1
        <5>2. CASE c.user = user
          <6>1. k \in 1..l /\ k \in 1..(l + 1)
            BY <1>7, <4>2, <5>2 DEF l, q
          <6> QED BY <1>10, <1>12, <5>2, <6>1 DEF q
        <5> QED BY <5>1, <5>2
      <4> QED BY <4>2, <4>3
    <3>2. CASE c = [user |-> user, batch_id |-> nextBatchId, write |-> w]
      <4>1. c.user = user /\ b = [batch_id |-> c.batch_id, write |-> c.write]
        BY <3>2 DEF b, w
      <4>2. l + 1 \in 1..Len(queue'[user]) /\ queue'[user][l + 1] = b
        BY <1>7, <1>10, <1>12
      <4> QED BY <4>1, <4>2
    <3> QED BY <1>2, <2>1, <3>1, <3>2
  <2> QED BY <2>1 DEF CallbacksOK
<1>29. ToldOK' /\ WrittenOK'
  BY <1>1 DEF IInv, ToldOK, WrittenOK, DocOf
<1>30. ServerAgrees'
  <2>1. \A u \in Users : DOMAIN queue'[u] = 1..Len(queue'[u]) /\ DOMAIN queue[u] = 1..Len(queue[u])
    BY <1>24, QueueFacts DEF IInv, QueuesOK
  <2>2. \A u \in Users : \A k \in 1..Len(queue[u]) :
          k \in 1..Len(queue'[u]) /\ queue'[u][k] = queue[u][k]
    <3> SUFFICES ASSUME NEW u \in Users, NEW k \in 1..Len(queue[u])
                 PROVE  k \in 1..Len(queue'[u]) /\ queue'[u][k] = queue[u][k]
      OBVIOUS
    <3>1. CASE u # user
      BY <1>12, <3>1
    <3>2. CASE u = user
      <4>1. k \in 1..l /\ k \in 1..(l + 1)
        BY <1>7, <3>2 DEF l, q
      <4> QED BY <1>10, <1>12, <3>2, <4>1 DEF q
    <3> QED BY <3>1, <3>2
  <2> QED BY <1>1, <2>1, <2>2 DEF IInv, ServerAgrees, Pending
<1> QED BY <1>18, <1>21, <1>22, <1>24, <1>25, <1>26, <1>27, <1>28, <1>29, <1>30 DEF IInv

LEMMA ServerProcessesOK ==
  ASSUME IInv, ServerProcesses
  PROVE  IInv'
<1> DEFINE x == Head(rs.up)
           answer == IF x = HandshakeRequest THEN HandshakeResponse
                     ELSE IF DocOf(x) \in RefusedDocs THEN "PermissionDenied" ELSE MutationResult
           d == Len(rs.down)
           u == Len(rs.up)
           n == Len(rs.pipeline)
           p == rs.pipeline
<1>1. /\ rs.up # << >> /\ ~Ended
      /\ rs' = [rs EXCEPT !.up = Tail(@), !.down = Append(@, answer)]
      /\ server' = IF answer = MutationResult THEN [server EXCEPT ![DocOf(x)] = x] ELSE server
      /\ calls' = calls /\ authUser' = authUser /\ tasks' = tasks /\ user' = user
      /\ queue' = queue /\ nextBatchId' = nextBatchId /\ callbacks' = callbacks
      /\ told' = told /\ acked' = acked /\ disturbances' = disturbances
  BY DEF ServerProcesses, appVars, engineVars, MutationResult, HandshakeRequest, HandshakeResponse
<1>2. rs \in RemoteStore /\ StreamOK(rs) /\ WireOK(rs) /\ PipelineOK(rs, queue[user]) /\ p \in Seq(Batch)
  BY PipelineFacts DEF IInv, RemoteOK
<1>3. rs.up \in Seq(0..MaxWrites) /\ rs.down \in Seq(Responses) /\ d \in Nat /\ u \in Nat /\ n \in Nat
  BY <1>2, RemoteFacts
<1>4. /\ u \in Nat \ {0} /\ x = rs.up[1] /\ Tail(rs.up) \in Seq(0..MaxWrites)
      /\ Len(Tail(rs.up)) = u - 1 /\ \A k \in 1..(u - 1) : Tail(rs.up)[k] = rs.up[k + 1]
  <2> DEFINE S == 0..MaxWrites
  <2>1. rs.up \in Seq(S)
    BY <1>3
  <2> HIDE DEF S
  <2>2. Tail(rs.up) \in Seq(S)
    BY <1>1, <2>1, TailParts
  <2>3. /\ u \in Nat \ {0} /\ x = rs.up[1]
        /\ Len(Tail(rs.up)) = u - 1 /\ \A k \in 1..(u - 1) : Tail(rs.up)[k] = rs.up[k + 1]
    BY <1>1, <2>1, TailParts
  <2> QED BY <2>2, <2>3 DEF S
<1>5. rs.state = "Open"
  BY <1>1, <1>2 DEF StreamOK
<1>6. answer \in Responses
  BY DEF Responses, Codes, PermanentCodes
<1> HIDE DEF answer
<1>7. /\ Append(rs.down, answer) \in Seq(Responses) /\ Len(Append(rs.down, answer)) = d + 1
      /\ \A k \in 1..d : Append(rs.down, answer)[k] = rs.down[k]
      /\ Append(rs.down, answer)[d + 1] = answer
  BY <1>3, <1>6, AppendParts
<1>8. /\ rs' \in RemoteStore /\ rs'.up = Tail(rs.up) /\ rs'.down = Append(rs.down, answer)
      /\ rs'.state = "Open" /\ rs'.handshake = rs.handshake /\ rs'.enabled = rs.enabled
      /\ rs'.timers = rs.timers /\ rs'.asks = rs.asks /\ rs'.pipeline = p
      /\ rs'.credentials = rs.credentials /\ rs'.close_count = rs.close_count
  BY <1>1, <1>2, <1>4, <1>5, <1>7 DEF RemoteStore
<1>9. StreamOK(rs')
  BY <1>2, <1>5, <1>8 DEF StreamOK
<1>10. PipelineOK(rs', queue'[user'])
  BY <1>1, <1>2, <1>8 DEF PipelineOK
<1>11. TokensOK'
  BY <1>1, <1>5, <1>8, TokensKept DEF IInv
<1>12. QueuesOK' /\ WaitingOK'
  BY <1>1 DEF IInv, QueuesOK, WaitingOK
<1>13. TurnsOK'
  BY <1>1 DEF IInv, TurnsOK, InTurn
<1>14. CallbacksOK' /\ ToldOK'
  BY <1>1 DEF IInv, CallbacksOK, ToldOK, DocOf
<1>15. CASE ~rs.handshake
  <2>1. rs.up = <<HandshakeRequest>> /\ rs.down = << >>
    BY <1>1, <1>2, <1>5, <1>15 DEF WireOK
  <2>2. x = HandshakeRequest /\ Tail(rs.up) = << >>
    BY <2>1
  <2>3. answer = HandshakeResponse /\ answer # MutationResult
    BY <2>2 DEF answer, HandshakeResponse, MutationResult
  <2>4. server' = server /\ rs'.up = << >> /\ rs'.down = <<HandshakeResponse>> /\ ~rs'.handshake
    <3>1. Append(<< >>, answer) = <<answer>>
      OBVIOUS
    <3> QED BY <1>1, <1>8, <1>15, <2>1, <2>2, <2>3, <3>1
  <2>5. WireOK(rs')
    BY <1>8, <2>4 DEF WireOK
  <2>6. RemoteOK'
    BY <1>1, <1>8, <1>9, <1>10, <2>4, <2>5 DEF IInv, RemoteOK
  <2>7. AnswersOK' /\ ResultsOK'
    BY <2>4 DEF AnswersOK, ResultsOK
  <2>8. StateOK'
    BY <1>1, <2>4 DEF IInv, StateOK
  <2>9. WrittenOK' /\ ServerAgrees'
    BY <1>1, <2>4 DEF IInv, WrittenOK, ServerAgrees, DocOf, Pending
  <2> QED BY <1>11, <1>12, <1>13, <1>14, <2>6, <2>7, <2>8, <2>9 DEF IInv
<1>16. CASE rs.handshake
  <2>1. d + u = n /\ \A k \in 1..d : k \in 1..n
    BY <1>16, WireFacts DEF IInv
  <2>2. /\ \A k \in 1..u : rs.up[k] = p[d + k].write
        /\ \A k \in 1..d : rs.down[k] = MutationResult \/ (k = d /\ rs.down[k] = "PermissionDenied")
    BY <1>2, <1>5, <1>16 DEF WireOK
  <2>3. d + 1 \in 1..n /\ 1 \in 1..u
    <3>1. u \in Nat \ {0} /\ d \in Nat /\ n \in Nat /\ d + u = n
      BY <1>3, <1>4, <2>1
    <3> HIDE DEF d, u, n
    <3> QED BY <3>1
  <2>4. x = p[d + 1].write /\ x \in 1..Len(calls)
    BY <1>4, <2>2, <2>3, PipelineFacts
  <2>5. d + 1 \in 1..Len(queue[user]) /\ p[d + 1] = queue[user][d + 1] /\ user \in Users
    BY <2>3, PipelineFacts
  <2>6. x \in 1..MaxWrites
    BY <2>4, <2>5, QueueFacts DEF IInv, QueuesOK
  <2>7. DocOf(x) \in Docs
    <3>1. calls \in Seq([user : Users, doc : Docs])
      BY DEF IInv, StateOK
    <3>2. calls[x] \in [user : Users, doc : Docs]
      BY <2>4, <3>1, ElementOfSeq
    <3> QED BY <3>2 DEF DocOf
  <2>8. answer = IF DocOf(x) \in RefusedDocs THEN "PermissionDenied" ELSE MutationResult
    BY <2>6 DEF answer, HandshakeRequest
  <2>9. answer = MutationResult <=> DocOf(x) \notin RefusedDocs
    BY <2>8 DEF MutationResult
  <2>10. \A k \in 1..d : rs.down[k] = MutationResult
    <3> SUFFICES ASSUME NEW k \in 1..d, rs.down[k] # MutationResult PROVE FALSE
      OBVIOUS
    <3>1. k = d /\ rs.down[d] = "PermissionDenied"
      BY <2>2
    <3>2. rs.down # << >>
      <4>1. d # 0
        BY <1>3
      <4> QED BY <4>1
    <3>3. Last(rs.down) = rs.down[d]
      BY DEF Last
    <3> QED BY <1>1, <3>1, <3>2, <3>3 DEF Ended, Codes, PermanentCodes
  <2>11. rs'.handshake
    BY <1>8, <1>16
  <2>12. /\ Len(rs'.down) = d + 1 /\ Len(rs'.up) = u - 1 /\ rs'.down[d + 1] = answer
         /\ \A k \in 1..d : rs'.down[k] = MutationResult
         /\ \A k \in 1..(u - 1) : rs'.up[k] = rs.up[k + 1]
    BY <1>4, <1>7, <1>8, <2>10
  <2>13. \A k \in 1..(d + 1) : k \in 1..d \/ k = d + 1
    BY <1>3
  <2>14. WireOK(rs')
    <3>1. Len(rs'.down) + Len(rs'.up) = n
      <4> HIDE DEF d, u, n
      <4> QED BY <1>3, <2>1, <2>12
    <3>2. \A k \in 1..(u - 1) : rs'.up[k] = p[d + 1 + k].write
      <4> SUFFICES ASSUME NEW k \in 1..(u - 1) PROVE rs'.up[k] = p[d + 1 + k].write
        OBVIOUS
      <4>1. k + 1 \in 1..u /\ d + (k + 1) = d + 1 + k
        <5>1. u \in Nat /\ d \in Nat
          BY <1>3
        <5> HIDE DEF d, u
        <5> QED BY <5>1
      <4> QED BY <2>2, <2>12, <4>1
    <3>3. answer = MutationResult \/ answer = "PermissionDenied"
      BY <2>8
    <3> HIDE DEF d, u, n, p
    <3> QED BY <1>8, <2>11, <2>12, <2>13, <3>1, <3>2, <3>3 DEF WireOK, n, p
  <2>15. RemoteOK'
    BY <1>1, <1>8, <1>9, <1>10, <2>14 DEF IInv, RemoteOK
  <2>16. AnswersOK'
    <3>1. ASSUME NEW k \in 1..(d + 1)
          PROVE  rs'.down[k] = MutationResult <=> DocOf(p[k].write) \notin RefusedDocs
      <4>1. CASE k = d + 1
        BY <2>4, <2>9, <2>12, <4>1
      <4>2. CASE k \in 1..d
        BY <1>16, <2>10, <2>12, <4>2 DEF IInv, AnswersOK
      <4> QED BY <2>13, <4>1, <4>2
    <3>2. rs'.pipeline = p /\ calls' = calls /\ Len(rs'.down) = d + 1
      BY <1>1, <1>8, <2>12
    <3> HIDE DEF p, d
    <3> QED BY <3>1, <3>2 DEF AnswersOK, DocOf
  <2>17. CASE answer # MutationResult
    <3>1. server' = server
      BY <1>1, <2>17
    <3>2. ResultsOK'
      <4>1. ASSUME NEW i \in 1..(d + 1), rs'.down[i] = MutationResult
            PROVE  \E j \in i..(d + 1) : rs'.down[j] = MutationResult
                                         /\ server[DocOf(p[i].write)] = p[j].write
        <5>1. i \in 1..d /\ rs.down[i] = MutationResult
          BY <2>10, <2>12, <2>13, <2>17, <4>1
        <5>2. PICK j \in i..d : server[DocOf(p[i].write)] = p[j].write
          BY <1>16, <5>1 DEF IInv, ResultsOK
        <5>3. j \in 1..d /\ j \in i..(d + 1)
          BY <1>3, <5>1, <5>2
        <5> QED BY <2>12, <5>2, <5>3
      <4>2. rs'.pipeline = p /\ calls' = calls /\ Len(rs'.down) = d + 1
        BY <1>1, <1>8, <2>12
      <4> HIDE DEF p, d
      <4> QED BY <3>1, <4>1, <4>2 DEF ResultsOK, DocOf
    <3>3. StateOK'
      BY <1>1, <3>1 DEF IInv, StateOK
    <3>4. WrittenOK' /\ ServerAgrees'
      BY <1>1, <3>1 DEF IInv, WrittenOK, ServerAgrees, DocOf, Pending
    <3> QED BY <1>11, <1>12, <1>13, <1>14, <2>15, <2>16, <3>2, <3>3, <3>4 DEF IInv
  <2>18. CASE answer = MutationResult
    <3>0. server \in [Docs -> 0..MaxWrites] /\ x \in 0..MaxWrites
      <4>1. server \in [Docs -> 0..MaxWrites]
        BY DEF IInv, StateOK
      <4> HIDE DEF x
      <4>2. x \in 0..MaxWrites
        BY <2>6, BoundsAssumption
      <4> QED BY <4>1, <4>2
    <3>1. /\ server' = [server EXCEPT ![DocOf(x)] = x] /\ DocOf(x) \notin RefusedDocs
      BY <1>1, <2>9, <2>18
    <3>2. /\ server' \in [Docs -> 0..MaxWrites] /\ server'[DocOf(x)] = x
          /\ \A e \in Docs : e # DocOf(x) => server'[e] = server[e]
      <4> HIDE DEF x
      <4> QED BY <2>7, <3>0, <3>1
    <3>3. ResultsOK'
      <4>1. ASSUME NEW i \in 1..(d + 1), rs'.down[i] = MutationResult
            PROVE  \E j \in i..(d + 1) : rs'.down[j] = MutationResult
                                         /\ server'[DocOf(p[i].write)] = p[j].write
        <5>1. d + 1 \in i..(d + 1) /\ rs'.down[d + 1] = MutationResult
          BY <1>3, <2>12, <2>18
        <5>2. CASE DocOf(p[i].write) = DocOf(x)
          BY <2>4, <3>2, <5>1, <5>2
        <5>3. CASE DocOf(p[i].write) # DocOf(x)
          <6>1. i \in 1..d /\ rs.down[i] = MutationResult
            BY <2>4, <2>10, <2>13, <5>3
          <6>2. PICK j \in i..d : server[DocOf(p[i].write)] = p[j].write
            BY <1>16, <6>1 DEF IInv, ResultsOK
          <6>3. j \in 1..d /\ j \in i..(d + 1)
            BY <1>3, <6>1, <6>2
          <6>4. DocOf(p[i].write) \in Docs
            <7>1. calls \in Seq([user : Users, doc : Docs])
              BY DEF IInv, StateOK
            <7>2. p[i].write \in 1..Len(calls)
              BY <2>1, <6>1, PipelineFacts
            <7>3. calls[p[i].write] \in [user : Users, doc : Docs]
              BY <7>1, <7>2, ElementOfSeq
            <7> QED BY <7>3 DEF DocOf
          <6> QED BY <2>12, <3>2, <5>3, <6>2, <6>3, <6>4
        <5> QED BY <5>2, <5>3
      <4>2. rs'.pipeline = p /\ calls' = calls /\ Len(rs'.down) = d + 1
        BY <1>1, <1>8, <2>12
      <4> HIDE DEF p, d, x
      <4> QED BY <4>1, <4>2 DEF ResultsOK, DocOf
    <3>4. StateOK'
      BY <1>1, <3>2 DEF IInv, StateOK
    <3>5. WrittenOK'
      <4>1. ASSUME NEW e \in Docs, server'[e] # 0
            PROVE  server'[e] <= Len(calls) /\ DocOf(server'[e]) = e /\ e \notin RefusedDocs
        <5>1. CASE e = DocOf(x)
          BY <2>4, <3>1, <3>2, <5>1
        <5>2. CASE e # DocOf(x)
          BY <3>2, <4>1, <5>2 DEF IInv, WrittenOK
        <5> QED BY <5>1, <5>2
      <4>2. calls' = calls
        BY <1>1
      <4> QED BY <4>1, <4>2 DEF WrittenOK, DocOf
    <3>6. ServerAgrees'
      <4>1. ASSUME NEW e \in Docs
            PROVE  server'[e] = acked[e] \/ \E v \in Users : \E k \in DOMAIN queue[v] : queue[v][k].write = server'[e]
        <5>1. CASE e = DocOf(x)
          <6>1. DOMAIN queue[user] = 1..Len(queue[user])
            BY <2>5, QueueFacts DEF IInv, QueuesOK
          <6> QED BY <2>4, <2>5, <3>2, <5>1, <6>1
        <5>2. CASE e # DocOf(x)
          BY <3>2, <4>1, <5>2 DEF IInv, ServerAgrees, Pending
        <5> QED BY <5>1, <5>2
      <4>2. queue' = queue /\ acked' = acked
        BY <1>1
      <4> QED BY <4>1, <4>2 DEF ServerAgrees, Pending
    <3> QED BY <1>11, <1>12, <1>13, <1>14, <2>15, <2>16, <3>3, <3>4, <3>5, <3>6 DEF IInv
  <2> QED BY <2>17, <2>18
<1> QED BY <1>15, <1>16

-----------------------------------------------------------------------------
(***************************************************************************)
(* The invariant, and what follows from it.                                *)
(***************************************************************************)

\* What has just been started satisfies the invariant.
LEMMA InitIInv ==
  ASSUME Init
  PROVE  IInv
<1>1. /\ calls = << >> /\ authUser \in Users /\ tasks = << >> /\ user = authUser
      /\ queue = [u \in Users |-> << >>] /\ nextBatchId = 1 /\ callbacks = {}
      /\ told = [w \in Writes |-> << >>] /\ acked = [d \in Docs |-> 0]
      /\ server = [d \in Docs |-> 0] /\ disturbances = 0
      /\ rs = EnableNetwork(NewRemoteStore, << >>)
  BY DEF Init
<1>2. Len(calls) = 0 /\ Len(tasks) = 0 /\ \A u \in Users : queue[u] = << >> /\ Len(queue[u]) = 0
  BY <1>1
<1>3. QueueOK(<< >>)
  <2>1. << >> \in Seq(Batch) /\ Len(<< >>) = 0
    OBVIOUS
  <2> QED BY <2>1 DEF QueueOK
<1>4. RemoteOK /\ AnswersOK /\ ResultsOK
  <2>1. Fresh(rs, queue[user])
    BY <1>1, <1>2, <1>3, NewOK
  <2>2. RemoteOK
    BY <2>1 DEF Fresh, RemoteOK
  <2> QED BY <2>1, <2>2 DEF Fresh, AnswersOK, ResultsOK
<1>5. StateOK
  <2>1. /\ calls \in Seq([user : Users, doc : Docs]) /\ tasks \in Seq(Task)
        /\ queue \in [Users -> Seq(Batch)] /\ told \in [Writes -> Seq({"ok", "error"})]
    BY <1>1
  <2>2. /\ nextBatchId \in 1..(MaxWrites + 1) /\ nextBatchId <= Len(calls) + 1
        /\ Len(calls) <= MaxWrites /\ disturbances \in 0..MaxDisturbances
        /\ 0 \in 0..MaxWrites
    BY <1>1, <1>2, BoundsAssumption
  <2>3. server \in [Docs -> 0..MaxWrites] /\ acked \in [Docs -> 0..MaxWrites]
    BY <1>1, <2>2
  <2> QED BY <1>1, <2>1, <2>2, <2>3 DEF StateOK
<1>6. QueuesOK
  BY <1>2, <1>3 DEF QueuesOK
<1>7. WaitingOK /\ TokensOK
  BY <1>2 DEF WaitingOK, TokensOK
<1>8. TurnsOK
  <2> DEFINE turn == [i \in 0..Len(tasks) |-> user]
  <2>1. turn \in [0..Len(tasks) -> Users]
    BY <1>1
  <2>2. turn[0] = user /\ turn[Len(tasks)] = authUser
    BY <1>1, <1>2
  <2> HIDE DEF turn
  <2>3. InTurn(turn)
    BY <1>2, <2>2 DEF InTurn
  <2> QED BY <2>1, <2>3 DEF TurnsOK
<1>9. CallbacksOK /\ ToldOK
  BY <1>1 DEF CallbacksOK, ToldOK
<1>10. WrittenOK /\ ServerAgrees
  BY <1>1 DEF WrittenOK, ServerAgrees
<1> QED BY <1>4, <1>5, <1>6, <1>7, <1>8, <1>9, <1>10 DEF IInv

\* Every step keeps the invariant.
LEMMA NextIInv ==
  ASSUME IInv, [Next]_vars
  PROVE  IInv'
<1>1. CASE RunWrite
  BY <1>1, RunWriteOK
<1>2. CASE RunCredentialChange
  BY <1>2, RunCredentialChangeOK
<1>3. CASE RunToken
  BY <1>3, RunTokenOK
<1>4. CASE StreamOpens
  BY <1>4, StreamOpensOK
<1>5. CASE OnHandshakeComplete
  BY <1>5, OnHandshakeCompleteOK
<1>6. CASE OnMutationResult
  BY <1>6, OnMutationResultOK
<1>7. CASE OnServerError
  BY <1>7, OnServerErrorOK
<1>8. CASE IdleTimeout
  BY <1>8, IdleTimeoutOK
<1>9. CASE BackoffTimeout
  BY <1>9, BackoffTimeoutOK
<1>10. CASE ServerProcesses
  BY <1>10, ServerProcessesOK
<1>11. ASSUME NEW n \in rs.asks, NEW code \in {"Ok", "Unknown"}, GetTokenAnswered(n, code)
       PROVE  IInv'
  BY <1>11, GetTokenAnsweredOK
<1>12. ASSUME NEW u \in Users, AuthStateDidChange(u)
       PROVE  IInv'
  BY <1>12, AuthStateDidChangeOK
<1>13. ASSUME NEW code \in {"Unavailable", "Aborted", "InvalidArgument"}, StreamBreaks(code)
       PROVE  IInv'
  BY <1>13, StreamBreaksOK
<1>14. CASE ConnectivityChange
  BY <1>14, ConnectivityChangeOK
<1>15. CASE Restart
  BY <1>15, RestartActionOK
<1>16. ASSUME NEW d \in Docs, CallWrite(d)
       PROVE  IInv'
  BY <1>16, CallWriteOK
<1>17. CASE UNCHANGED vars
  <2>1. /\ calls' = calls /\ authUser' = authUser /\ tasks' = tasks /\ user' = user
        /\ queue' = queue /\ nextBatchId' = nextBatchId /\ callbacks' = callbacks
        /\ told' = told /\ acked' = acked /\ rs' = rs /\ server' = server
        /\ disturbances' = disturbances
    BY <1>17 DEF vars, appVars, engineVars
  <2>2. StateOK' /\ QueuesOK' /\ CallbacksOK'
    <3>1. StateOK'
      BY <2>1 DEF IInv, StateOK
    <3> QED BY <2>1, <3>1 DEF IInv, QueuesOK, CallbacksOK
  <2>3. WaitingOK'
    BY <2>1 DEF IInv, WaitingOK
  <2>4. RemoteOK'
    BY <2>1 DEF IInv, RemoteOK
  <2>5. AnswersOK' /\ ResultsOK'
    BY <2>1 DEF IInv, AnswersOK, ResultsOK, DocOf
  <2>6. TurnsOK' /\ TokensOK'
    BY <2>1 DEF IInv, TurnsOK, InTurn, TokensOK
  <2>7. ToldOK' /\ WrittenOK' /\ ServerAgrees'
    BY <2>1 DEF IInv, ToldOK, WrittenOK, ServerAgrees, Pending, DocOf
  <2> QED BY <2>2, <2>3, <2>4, <2>5, <2>6, <2>7 DEF IInv
<1> QED
  BY <1>1, <1>2, <1>3, <1>4, <1>5, <1>6, <1>7, <1>8, <1>9, <1>10, <1>11, <1>12, <1>13,
     <1>14, <1>15, <1>16, <1>17 DEF Next, ClientStep, EnvironmentStep, Disturbance

LEMMA AlwaysIInv == Spec => []IInv
<1>1. Init => IInv
  BY InitIInv
<1>2. IInv /\ [Next]_vars => IInv'
  BY NextIInv
<1> QED BY <1>1, <1>2, PTL DEF Spec

\* Every variable keeps its type and the pipeline its limit, whatever breaks,
\* restarts and changes of user the RemoteStore goes through.
THEOREM TypeCorrect == Spec => []TypeOK
BY AlwaysIInv, Typed, PTL

\* No HARD_ASSERT on the way of a write fails: neither the stream's (started
\* only when stopped, resumed only while starting, written to only when open and
\* after the handshake) nor those on the pipeline and the mutation queue.
THEOREM NoAssertionFails == Spec => []AssertionsHold
<1>1. IInv => AssertionsHold
  BY PipelineFacts DEF RemoteStore, AssertionsHold
<1> QED BY AlwaysIInv, <1>1, PTL

\* Pairing each result with the front of the pipeline is right: the server's
\* documents are the acknowledged ones, or those of a write still in a queue.
THEOREM ServerAndClientAgree == Spec => []ServerAgrees
<1>1. IInv => ServerAgrees
  BY DEF IInv
<1> QED BY AlwaysIInv, <1>1, PTL

\* A write travels only under the credentials of the user who called it.
THEOREM WritesTravelAsTheirUser == Spec => []OwnCredentials
<1>1. ASSUME IInv PROVE OwnCredentials
  <2> SUFFICES ASSUME NEW k \in DOMAIN rs.up, rs.up[k] # HandshakeRequest
               PROVE  calls[rs.up[k]].user = rs.credentials
    BY DEF OwnCredentials
  <2> DEFINE d == Len(rs.down)
             u == Len(rs.up)
             n == Len(rs.pipeline)
  <2>1. rs \in RemoteStore /\ StreamOK(rs) /\ WireOK(rs)
    BY <1>1, PipelineFacts DEF IInv, RemoteOK
  <2>2. rs.up \in Seq(0..MaxWrites) /\ u \in Nat
    BY <2>1, RemoteFacts
  <2>3. k \in 1..u
    BY <2>2, LenProperties
  <2>4. rs.state = "Open"
    <3>1. rs.up # << >>
      BY <2>3
    <3> QED BY <2>1, <3>1 DEF StreamOK
  <2>5. rs.handshake
    <3> SUFFICES ASSUME ~rs.handshake PROVE FALSE
      OBVIOUS
    <3>1. rs.up = <<HandshakeRequest>> \/ rs.up = << >>
      BY <2>1, <2>4 DEF WireOK
    <3>2. Len(<<HandshakeRequest>>) = 1 /\ <<HandshakeRequest>>[1] = HandshakeRequest /\ Len(<< >>) = 0
      OBVIOUS
    <3> QED BY <2>3, <3>1, <3>2
  <2>6. d \in Nat /\ n \in Nat /\ d + u = n
    BY <1>1, <2>5, WireFacts DEF IInv
  <2>7. rs.up[k] = rs.pipeline[d + k].write
    BY <2>1, <2>3, <2>4, <2>5 DEF WireOK
  <2>8. d + k \in 1..n
    <3> HIDE DEF d, u, n
    <3> QED BY <2>2, <2>3, <2>6
  <2>9. d + k \in 1..Len(queue[user]) /\ rs.pipeline[d + k] = queue[user][d + k] /\ user \in Users
    BY <1>1, <2>8, PipelineFacts
  <2>10. calls[rs.up[k]].user = user
    BY <1>1, <2>7, <2>9 DEF IInv, QueuesOK
  <2>11. rs.credentials = user
    BY <1>1, <2>1, <2>4 DEF IInv, RemoteOK, StreamOK
  <2> QED BY <2>10, <2>11
<1> QED BY AlwaysIInv, <1>1, PTL

\* A completion handler runs once, when its write is settled, and reports what
\* the server decided, although handlers are found by batch ids that come back.
THEOREM HandlersTellTheTruth == Spec => []ToldTheTruth
<1>1. ASSUME IInv PROVE ToldTheTruth
  <2> SUFFICES ASSUME NEW w \in Writes, told[w] # << >>
               PROVE  /\ \A u \in Users : ~Pending(u, w)
                      /\ told[w] = IF DocOf(w) \in RefusedDocs THEN <<"error">> ELSE <<"ok">>
    BY DEF ToldTheTruth
  <2>1. ASSUME NEW u \in Users, NEW k \in DOMAIN queue[u], queue[u][k].write = w
        PROVE  FALSE
    <3>1. DOMAIN queue[u] = 1..Len(queue[u])
      BY <1>1, QueueFacts DEF IInv, QueuesOK
    <3> QED BY <1>1, <2>1, <3>1 DEF IInv, QueuesOK
  <2>2. told[w] = IF DocOf(w) \in RefusedDocs THEN <<"error">> ELSE <<"ok">>
    BY <1>1 DEF IInv, ToldOK
  <2> QED BY <2>1, <2>2 DEF Pending
<1> QED BY AlwaysIInv, <1>1, PTL

-----------------------------------------------------------------------------
(***************************************************************************)
(* The client implements PendingWrites.  The mapping, spelled out for any  *)
(* tasks ts and calls cs: what is called and not executed begins with the  *)
(* oldest write among the tasks, and a queue is seen batch by batch.       *)
(***************************************************************************)
FirstOf(ts, n) == Min({ts[k].write : k \in {j \in DOMAIN ts : IsWrite(ts[j])}} \cup {n + 1})

AsWrite(cs) == [b \in Batch |-> [doc |-> cs[b.write].doc, value |-> b.write]]

CallAt(cs, w) == [user |-> cs[w].user, write |-> [doc |-> cs[w].doc, value |-> w]]
CalledFrom(cs, f) == [k \in 1..(Len(cs) + 1 - f) |-> CallAt(cs, f + k - 1)]

AppCall == [user : Users, doc : Docs]
AbstractCalls == [user : Users, write : [doc : Docs, value : 0..MaxWrites]]

\* The oldest write among the tasks, or the one that is called next.
Oldest(f, ts, n) ==
  /\ f \in 1..(n + 1)
  /\ f = n + 1 \/ \E i \in 1..Len(ts) : IsWrite(ts[i]) /\ ts[i].write = f
  /\ \A i \in 1..Len(ts) : IsWrite(ts[i]) => f <= ts[i].write

LEMMA FirstOfIs ==
  ASSUME NEW ts \in Seq(Task), NEW n \in Nat, NEW f, Oldest(f, ts, n)
  PROVE  FirstOf(ts, n) = f
<1> DEFINE W == {ts[k].write : k \in {j \in DOMAIN ts : IsWrite(ts[j])}} \cup {n + 1}
<1>1. DOMAIN ts = 1..Len(ts)
  BY LenProperties
<1>2. f \in W /\ f \in Int
  BY <1>1 DEF Oldest
<1>3. ASSUME NEW x \in W PROVE x \in Int /\ f <= x
  <2>1. CASE x = n + 1
    BY <2>1 DEF Oldest
  <2>2. CASE \E k \in 1..Len(ts) : IsWrite(ts[k]) /\ x = ts[k].write
    <3>1. PICK k \in 1..Len(ts) : IsWrite(ts[k]) /\ x = ts[k].write
      BY <2>2
    <3>2. ts[k] \in Task
      BY ElementOfSeq
    <3>3. ts[k].write \in 1..MaxWrites
      BY <3>1, <3>2, TaskFields
    <3> QED BY <3>1, <3>3 DEF Oldest
  <2> QED BY <1>1, <2>1, <2>2
<1> HIDE DEF W
<1>4. \A x \in W : (\A y \in W : x <= y) => x = f
  BY <1>2, <1>3
<1>5. Min(W) = f
  BY <1>2, <1>3, <1>4 DEF Min
<1> QED BY <1>5 DEF FirstOf, W

LEMMA FirstOfFacts ==
  ASSUME NEW ts \in Seq(Task), NEW n \in Nat
  PROVE  Oldest(FirstOf(ts, n), ts, n)
<1> DEFINE W == {ts[k].write : k \in {j \in DOMAIN ts : IsWrite(ts[j])}} \cup {n + 1}
<1>1. DOMAIN ts = 1..Len(ts)
  BY LenProperties
<1>2. \A k \in 1..Len(ts) : IsWrite(ts[k]) => ts[k].write \in Nat \ {0}
  <2> SUFFICES ASSUME NEW k \in 1..Len(ts), IsWrite(ts[k]) PROVE ts[k].write \in Nat \ {0}
    OBVIOUS
  <2>1. ts[k] \in Task
    BY ElementOfSeq
  <2>2. ts[k].write \in 1..MaxWrites
    BY <2>1, TaskFields
  <2> QED BY <2>2
<1>3. W \subseteq Nat /\ W # {} /\ n + 1 \in W /\ 0 \notin W
  BY <1>1, <1>2
<1>4. PICK f \in W : \A x \in W : f <= x
  <2> HIDE DEF W
  <2> QED BY <1>3, FirstPosition
<1>5. f \in 1..(n + 1)
  <2>1. f <= n + 1
    BY <1>3, <1>4
  <2>2. f \in Nat /\ f # 0
    BY <1>3, <1>4
  <2> QED BY <2>1, <2>2
<1>6. f = n + 1 \/ \E i \in 1..Len(ts) : IsWrite(ts[i]) /\ ts[i].write = f
  BY <1>1, <1>4
<1>7. \A i \in 1..Len(ts) : IsWrite(ts[i]) => f <= ts[i].write
  BY <1>1, <1>4
<1>8. Oldest(f, ts, n)
  BY <1>5, <1>6, <1>7 DEF Oldest
<1>9. FirstOf(ts, n) = f
  BY <1>8, FirstOfIs
<1> QED BY <1>8, <1>9

\* What is called and not executed is a sequence of calls.
LEMMA CalledFromIs ==
  ASSUME NEW cs \in Seq(AppCall), Len(cs) <= MaxWrites, NEW f \in 1..(Len(cs) + 1)
  PROVE  /\ CalledFrom(cs, f) \in Seq(AbstractCalls)
         /\ Len(CalledFrom(cs, f)) = Len(cs) + 1 - f
         /\ \A k \in 1..(Len(cs) + 1 - f) : CalledFrom(cs, f)[k] = CallAt(cs, f + k - 1)
<1> DEFINE n == Len(cs)
           m == n + 1 - f
<1>1. n \in Nat /\ m \in Nat
  <2>1. n \in Nat
    BY LenProperties
  <2> QED BY <2>1
<1>2. \A k \in 1..m : CalledFrom(cs, f)[k] = CallAt(cs, f + k - 1)
  BY DEF CalledFrom
<1>3. ASSUME NEW k \in 1..m PROVE CallAt(cs, f + k - 1) \in AbstractCalls
  <2> DEFINE w == f + k - 1
  <2>1. w \in 1..n
    <3> HIDE DEF n
    <3> QED BY <1>1
  <2>2. w \in 0..MaxWrites
    BY <1>1, <2>1, BoundsAssumption
  <2> HIDE DEF w
  <2>3. cs[w] \in AppCall
    BY <2>1, ElementOfSeq
  <2>4. CallAt(cs, w) \in AbstractCalls
    BY <2>2, <2>3 DEF CallAt, AppCall, AbstractCalls
  <2> QED BY <2>4 DEF w
<1>4. CalledFrom(cs, f) \in [1..m -> AbstractCalls]
  BY <1>3 DEF CalledFrom
<1> HIDE DEF m
<1>5. CalledFrom(cs, f) \in Seq(AbstractCalls) /\ Len(CalledFrom(cs, f)) = m
  BY <1>1, <1>4, FcnIsSeq
<1> QED BY <1>2, <1>5 DEF m

\* A call is put at the end,
LEMMA CalledMore ==
  ASSUME NEW cs \in Seq(AppCall), NEW ds \in Seq(AppCall), NEW f \in 1..(Len(cs) + 1),
         Len(ds) = Len(cs) + 1, Len(ds) <= MaxWrites, \A k \in 1..Len(cs) : ds[k] = cs[k]
  PROVE  IsPrefix(CalledFrom(cs, f), CalledFrom(ds, f)) /\ CalledFrom(cs, f) # CalledFrom(ds, f)
<1> DEFINE a == CalledFrom(cs, f)
           b == CalledFrom(ds, f)
           n == Len(cs)
<1>1. n \in Nat /\ n <= MaxWrites /\ f \in 1..(n + 1) /\ f \in 1..(Len(ds) + 1)
  <2>1. n \in Nat
    BY LenProperties
  <2> QED BY <2>1, BoundsAssumption
<1>2. /\ a \in Seq(AbstractCalls) /\ Len(a) = n + 1 - f
      /\ \A k \in 1..(n + 1 - f) : a[k] = CallAt(cs, f + k - 1)
  BY <1>1, CalledFromIs
<1>3. /\ b \in Seq(AbstractCalls) /\ Len(b) = n + 1 + 1 - f
      /\ \A k \in 1..(n + 1 + 1 - f) : b[k] = CallAt(ds, f + k - 1)
  BY <1>1, CalledFromIs
<1> HIDE DEF a, b, n
<1>4. Len(a) < Len(b)
  BY <1>1, <1>2, <1>3
<1>5. ASSUME NEW k \in 1..Len(a) PROVE b[k] = a[k]
  <2>1. k \in 1..(n + 1 - f) /\ k \in 1..(n + 1 + 1 - f) /\ f + k - 1 \in 1..n
    BY <1>1, <1>2
  <2>2. ds[f + k - 1] = cs[f + k - 1]
    BY <2>1 DEF n
  <2> QED BY <1>2, <1>3, <2>1, <2>2 DEF CallAt
<1>6. IsPrefix(a, b) /\ a # b
  BY <1>2, <1>3, <1>4, <1>5, ExtensionIsPrefix
<1> QED BY <1>6 DEF a, b

\* and executed from the front.
LEMMA CalledNext ==
  ASSUME NEW cs \in Seq(AppCall), Len(cs) <= MaxWrites, NEW f \in 1..Len(cs)
  PROVE  /\ CalledFrom(cs, f) # << >> /\ Head(CalledFrom(cs, f)) = CallAt(cs, f)
         /\ CalledFrom(cs, f + 1) = Tail(CalledFrom(cs, f))
<1> DEFINE a == CalledFrom(cs, f)
           b == CalledFrom(cs, f + 1)
           n == Len(cs)
<1>1. n \in Nat /\ f \in 1..n /\ f \in 1..(n + 1) /\ f + 1 \in 1..(n + 1)
  <2>1. n \in Nat /\ f \in 1..n
    BY LenProperties
  <2> QED BY <2>1
<1>2. /\ a \in Seq(AbstractCalls) /\ Len(a) = n + 1 - f
      /\ \A k \in 1..(n + 1 - f) : a[k] = CallAt(cs, f + k - 1)
  BY <1>1, CalledFromIs
<1>3. /\ b \in Seq(AbstractCalls) /\ Len(b) = n + 1 - (f + 1)
      /\ \A k \in 1..(n + 1 - (f + 1)) : b[k] = CallAt(cs, (f + 1) + k - 1)
  BY <1>1, CalledFromIs
<1> HIDE DEF a, b, n
<1>4. 1 \in 1..(n + 1 - f) /\ f + 1 - 1 = f /\ n + 1 - (f + 1) = (n + 1 - f) - 1 /\ n + 1 - f # 0
  BY <1>1
<1>5. a # << >>
  BY <1>2, <1>4
<1>6. /\ Head(a) = a[1] /\ Tail(a) \in Seq(AbstractCalls) /\ Len(Tail(a)) = Len(a) - 1
      /\ \A k \in 1..(Len(a) - 1) : Tail(a)[k] = a[k + 1]
  BY <1>2, <1>5, TailParts
<1>7. Head(a) = CallAt(cs, f)
  BY <1>2, <1>4, <1>6
<1>8. ASSUME NEW k \in 1..Len(b) PROVE b[k] = Tail(a)[k]
  <2>1. /\ k \in 1..(n + 1 - (f + 1)) /\ k \in 1..(Len(a) - 1) /\ k + 1 \in 1..(n + 1 - f)
        /\ (f + 1) + k - 1 = f + (k + 1) - 1
    BY <1>1, <1>2, <1>3
  <2> QED BY <1>2, <1>3, <1>6, <2>1
<1>9. Len(b) = Len(Tail(a))
  BY <1>2, <1>3, <1>4, <1>6
<1>10. b = Tail(a)
  BY <1>3, <1>6, <1>8, <1>9, SeqEqual
<1> QED BY <1>5, <1>7, <1>10 DEF a, b

Called(ts, cs) == CalledFrom(cs, FirstOf(ts, Len(cs)))
PendingIn(cs, qs) == [u \in Users |-> MapSeq(AsWrite(cs), qs[u])]

LEMMA QueueSeen ==
  ASSUME NEW cs, NEW q \in Seq(Batch)
  PROVE  [k \in DOMAIN q |-> [doc |-> cs[q[k].write].doc, value |-> q[k].write]]
           = MapSeq(AsWrite(cs), q)
<1>1. \A k \in DOMAIN q : q[k] \in Batch
  BY LenProperties, ElementOfSeq
<1> QED BY <1>1 DEF MapSeq, AsWrite

LEMMA Mapping ==
  ASSUME IInv, IInv'
  PROVE  /\ AbstractCalled = Called(tasks, calls) /\ AbstractCalled' = Called(tasks', calls')
         /\ AbstractPending = PendingIn(calls, queue) /\ AbstractPending' = PendingIn(calls', queue')
<1>1. AbstractCalled = Called(tasks, calls)
  BY DEF AbstractCalled, AbstractCall, AbstractWrite, FirstWaiting, DocOf, Called, CalledFrom,
         CallAt, FirstOf
<1>2. AbstractCalled' = Called(tasks', calls')
  BY DEF AbstractCalled, AbstractCall, AbstractWrite, FirstWaiting, DocOf, Called, CalledFrom,
         CallAt, FirstOf
<1>3. AbstractPending = PendingIn(calls, queue)
  <2>1. \A u \in Users : queue[u] \in Seq(Batch)
    BY DEF IInv, StateOK
  <2>2. \A u \in Users : [k \in DOMAIN queue[u] |->
                            [doc |-> calls[queue[u][k].write].doc, value |-> queue[u][k].write]]
                         = MapSeq(AsWrite(calls), queue[u])
    BY <2>1, QueueSeen
  <2> QED BY <2>2 DEF AbstractPending, AbstractWrite, DocOf, PendingIn
<1>4. AbstractPending' = PendingIn(calls', queue')
  <2>1. \A u \in Users : queue'[u] \in Seq(Batch)
    BY DEF IInv, StateOK
  <2>2. \A u \in Users : [k \in DOMAIN queue'[u] |->
                            [doc |-> calls'[queue'[u][k].write].doc, value |-> queue'[u][k].write]]
                         = MapSeq(AsWrite(calls'), queue'[u])
    BY <2>1, QueueSeen
  <2> QED BY <2>2 DEF AbstractPending, AbstractWrite, DocOf, PendingIn
<1> QED BY <1>1, <1>2, <1>3, <1>4

\* A step that calls, executes and settles nothing.
LEMMA NothingHappens ==
  ASSUME IInv, IInv', calls' = calls, queue' = queue, acked' = acked,
         Oldest(FirstOf(tasks, Len(calls)), tasks', Len(calls))
  PROVE  UNCHANGED Abstract!vars
<1>1. tasks' \in Seq(Task) /\ Len(calls) \in Nat
  <2>1. tasks' \in Seq(Task)
    BY DEF IInv, StateOK
  <2>2. calls \in Seq([user : Users, doc : Docs])
    BY DEF IInv, StateOK
  <2> QED BY <2>1, <2>2, LenProperties
<1>2. FirstOf(tasks', Len(calls)) = FirstOf(tasks, Len(calls))
  BY <1>1, FirstOfIs
<1>3. AbstractCalled' = AbstractCalled /\ AbstractPending' = AbstractPending
  BY <1>2, Mapping DEF Called
<1> QED BY <1>3 DEF Abstract!vars

LEMMA TasksTyped ==
  ASSUME IInv
  PROVE  /\ tasks \in Seq(Task) /\ calls \in Seq(AppCall) /\ Len(calls) \in Nat
         /\ Len(calls) <= MaxWrites /\ Len(tasks) \in Nat
         /\ Oldest(FirstOf(tasks, Len(calls)), tasks, Len(calls))
<1>1. tasks \in Seq(Task) /\ Len(calls) <= MaxWrites
  BY DEF IInv, StateOK
<1>2. calls \in Seq(AppCall)
  BY DEF IInv, StateOK, AppCall
<1>3. Len(calls) \in Nat
  BY <1>2, LenProperties
<1>4. Len(tasks) \in Nat
  BY <1>1, LenProperties
<1> QED BY <1>1, <1>2, <1>3, <1>4, FirstOfFacts

LEMMA NoTaskMoves ==
  ASSUME IInv, IInv', UNCHANGED <<calls, tasks, queue, acked>>
  PROVE  UNCHANGED Abstract!vars
BY TasksTyped, NothingHappens

\* A token or a new user is put behind the writes
LEMMA OtherTaskEnqueued ==
  ASSUME IInv, IInv', NEW t \in Task, ~IsWrite(t), Enqueue(t), UNCHANGED <<calls, queue, acked>>
  PROVE  UNCHANGED Abstract!vars
<1> DEFINE f == FirstOf(tasks, Len(calls))
           n == Len(tasks)
<1>1. Oldest(f, tasks, Len(calls)) /\ n \in Nat
  BY TasksTyped
<1>2. /\ Len(tasks') = n + 1 /\ tasks'[n + 1] = t
      /\ \A i \in 1..n : tasks'[i] = tasks[i]
  BY TaskEnqueued DEF IInv
<1>3. \A i \in 1..(n + 1) : IsWrite(tasks'[i]) => i \in 1..n /\ tasks'[i] = tasks[i]
  <2> SUFFICES ASSUME NEW i \in 1..(n + 1), IsWrite(tasks'[i]), i \notin 1..n PROVE FALSE
    BY <1>2
  <2>1. i = n + 1
    BY <1>1
  <2> QED BY <1>2, <2>1
<1>4. \A i \in 1..n : i \in 1..(n + 1)
  BY <1>1
<1> HIDE DEF f, n
<1>5. Oldest(f, tasks', Len(calls))
  <2>1. f = Len(calls) + 1 \/ \E i \in 1..(n + 1) : IsWrite(tasks'[i]) /\ tasks'[i].write = f
    BY <1>1, <1>2, <1>4 DEF Oldest, n
  <2>2. \A i \in 1..(n + 1) : IsWrite(tasks'[i]) => f <= tasks'[i].write
    BY <1>1, <1>3 DEF Oldest, n
  <2> QED BY <1>1, <1>2, <2>1, <2>2 DEF Oldest
<1> QED BY <1>5, NothingHappens DEF f

\* or run before the next of them.
LEMMA OtherTaskRun ==
  ASSUME IInv, IInv', tasks # << >>, ~IsWrite(Head(tasks)), tasks' = Tail(tasks),
         UNCHANGED <<calls, queue, acked>>
  PROVE  UNCHANGED Abstract!vars
<1> DEFINE f == FirstOf(tasks, Len(calls))
           n == Len(tasks)
<1>1. Oldest(f, tasks, Len(calls))
  BY TasksTyped
<1>2. /\ n \in Nat \ {0} /\ Len(tasks') = n - 1 /\ ~IsWrite(tasks[1])
      /\ \A i \in 1..(n - 1) : tasks'[i] = tasks[i + 1]
  BY TaskRun DEF IInv
<1> HIDE DEF f, n
<1>3. \A i \in 1..(n - 1) : i + 1 \in 1..n
  BY <1>2
<1>4. \A i \in 1..n : IsWrite(tasks[i]) => i - 1 \in 1..(n - 1) /\ tasks'[i - 1] = tasks[i]
  <2> SUFFICES ASSUME NEW i \in 1..n, IsWrite(tasks[i])
               PROVE  i - 1 \in 1..(n - 1) /\ tasks'[i - 1] = tasks[i]
    OBVIOUS
  <2>1. i # 1
    BY <1>2
  <2>2. i - 1 \in 1..(n - 1) /\ (i - 1) + 1 = i
    BY <1>2, <2>1
  <2> QED BY <1>2, <2>2
<1>5. Oldest(f, tasks', Len(calls))
  <2>1. f = Len(calls) + 1 \/ \E i \in 1..(n - 1) : IsWrite(tasks'[i]) /\ tasks'[i].write = f
    BY <1>1, <1>4 DEF Oldest, n
  <2>2. \A i \in 1..(n - 1) : IsWrite(tasks'[i]) => f <= tasks'[i].write
    BY <1>1, <1>2, <1>3 DEF Oldest, n
  <2> QED BY <1>1, <1>2, <2>1, <2>2 DEF Oldest
<1> QED BY <1>5, NothingHappens DEF f

\* CallWrite is Call.
LEMMA CallWriteCalls ==
  ASSUME IInv, IInv', NEW d \in Docs, CallWrite(d)
  PROVE  Abstract!Call
<1> DEFINE f == FirstOf(tasks, Len(calls))
           c == Len(calls)
           n == Len(tasks)
           t == [kind |-> "write", write |-> c + 1]
<1>1. /\ c < MaxWrites /\ calls' = Append(calls, [user |-> authUser, doc |-> d])
      /\ Enqueue(t) /\ queue' = queue /\ acked' = acked
  BY DEF CallWrite, engineVars
<1>2. calls \in Seq(AppCall) /\ c \in Nat /\ n \in Nat /\ Oldest(f, tasks, c)
  BY TasksTyped
<1>3. /\ calls' \in Seq(AppCall) /\ Len(calls') = c + 1 /\ \A k \in 1..c : calls'[k] = calls[k]
  <2>1. [user |-> authUser, doc |-> d] \in AppCall
    BY DEF IInv, StateOK, AppCall
  <2> QED BY <1>1, <1>2, <2>1, AppendParts
<1>4. c + 1 <= MaxWrites /\ c + 1 \in Writes
  BY <1>1, <1>2, BoundsAssumption DEF Writes
<1>5. /\ tasks' \in Seq(Task) /\ Len(tasks') = n + 1 /\ tasks'[n + 1] = t
      /\ \A i \in 1..n : tasks'[i] = tasks[i]
  <2>1. t \in Task
    BY <1>4 DEF Task
  <2> QED BY <1>1, <2>1, TaskEnqueued DEF IInv
<1>6. IsWrite(t) /\ t.write = c + 1
  BY DEF IsWrite
<1> HIDE DEF f, c, n, t
<1>7. Oldest(f, tasks', c + 1)
  <2>1. f \in 1..(c + 1) /\ f \in 1..(c + 1 + 1) /\ f <= c + 1
    BY <1>2 DEF Oldest
  <2>2. n + 1 \in 1..(n + 1) /\ \A i \in 1..n : i \in 1..(n + 1)
    BY <1>2
  <2>3. \E i \in 1..(n + 1) : IsWrite(tasks'[i]) /\ tasks'[i].write = f
    <3>1. CASE f = c + 1
      BY <1>5, <1>6, <2>2, <3>1
    <3>2. CASE f # c + 1
      <4>1. PICK i \in 1..n : IsWrite(tasks[i]) /\ tasks[i].write = f
        BY <1>2, <3>2 DEF Oldest, n
      <4> QED BY <1>5, <2>2, <4>1
    <3> QED BY <3>1, <3>2
  <2>4. ASSUME NEW i \in 1..(n + 1), IsWrite(tasks'[i]) PROVE f <= tasks'[i].write
    <3>1. CASE i \in 1..n
      BY <1>2, <1>5, <2>4, <3>1 DEF Oldest, n
    <3>2. CASE i = n + 1
      BY <1>5, <1>6, <2>1, <3>2
    <3> QED BY <1>2, <3>1, <3>2
  <2> QED BY <1>5, <2>1, <2>3, <2>4 DEF Oldest
<1>8. FirstOf(tasks', c + 1) = f /\ f \in 1..(c + 1) /\ f \in 1..(c + 1 + 1)
  <2>1. c + 1 \in Nat
    BY <1>2
  <2>2. FirstOf(tasks', c + 1) = f
    BY <1>5, <1>7, <2>1, FirstOfIs
  <2> QED BY <1>2, <2>2 DEF Oldest
<1>9. AbstractCalled = CalledFrom(calls, f) /\ AbstractCalled' = CalledFrom(calls', f)
  BY <1>3, <1>8, Mapping DEF Called, f, c
<1>10. AbstractCalled # AbstractCalled' /\ IsPrefix(AbstractCalled, AbstractCalled')
  BY <1>2, <1>3, <1>4, <1>8, <1>9, CalledMore DEF c
<1>11. AbstractCalled' \in Seq(AbstractCalls)
  BY <1>3, <1>4, <1>8, <1>9, CalledFromIs
<1>12. \A k \in DOMAIN AbstractCalled' :
          AbstractCalled'[k].user \in Users /\ AbstractCalled'[k].write \in Abstract!Write
  <2>1. \A k \in DOMAIN AbstractCalled' : AbstractCalled'[k] \in AbstractCalls
    BY <1>11, LenProperties, ElementOfSeq
  <2> QED BY <2>1 DEF AbstractCalls, Abstract!Write
<1>13. AbstractPending' = AbstractPending
  <2>1. ASSUME NEW u \in Users
        PROVE  MapSeq(AsWrite(calls'), queue[u]) = MapSeq(AsWrite(calls), queue[u])
    <3>1. QueueOK(queue[u])
      BY DEF IInv, QueuesOK
    <3>2. DOMAIN queue[u] = 1..Len(queue[u]) /\ \A k \in 1..Len(queue[u]) : queue[u][k] \in Batch
      BY <3>1, QueueFacts
    <3>3. \A k \in 1..Len(queue[u]) : queue[u][k].write \in 1..c
      BY QueuedWrites DEF IInv, c
    <3>4. \A k \in 1..Len(queue[u]) : AsWrite(calls')[queue[u][k]] = AsWrite(calls)[queue[u][k]]
      BY <1>3, <3>2, <3>3 DEF AsWrite
    <3> QED BY <3>2, <3>4 DEF MapSeq
  <2> QED BY <1>1, <2>1, Mapping DEF PendingIn
<1>14. Abstract!IsPrefix(AbstractCalled, AbstractCalled')
  <2>1. /\ Len(AbstractCalled) <= Len(AbstractCalled')
        /\ SubSeq(AbstractCalled, 1, Len(AbstractCalled)) = SubSeq(AbstractCalled', 1, Len(AbstractCalled))
    BY <1>10 DEF IsPrefix
  <2> QED BY <2>1 DEF Abstract!IsPrefix
<1> QED BY <1>1, <1>10, <1>12, <1>13, <1>14 DEF Abstract!Call

\* RunWrite is Persist: the task is the oldest call, and its user's turn.
LEMMA RunWritePersists ==
  ASSUME IInv, IInv', RunWrite
  PROVE  Abstract!Persist
<1> DEFINE w == Head(tasks).write
           c == Len(calls)
           n == Len(tasks)
           b == [batch_id |-> nextBatchId, write |-> w]
<1>1. /\ tasks # << >> /\ IsWrite(Head(tasks)) /\ tasks' = Tail(tasks) /\ calls' = calls
      /\ queue' = [queue EXCEPT ![user] = Append(@, b)] /\ acked' = acked
  BY DEF RunWrite, IsWrite, appVars
<1>2. calls \in Seq(AppCall) /\ c \in Nat /\ c <= MaxWrites /\ tasks \in Seq(Task)
  BY TasksTyped
<1>3. /\ n \in Nat \ {0} /\ Len(tasks') = n - 1 /\ Head(tasks) = tasks[1] /\ Head(tasks) \in Task
      /\ tasks' \in Seq(Task) /\ \A i \in 1..(n - 1) : tasks'[i] = tasks[i + 1]
  BY <1>1, TaskRun DEF IInv
<1>4. w \in 1..MaxWrites
  BY <1>1, <1>3, TaskFields
<1>5. /\ w <= c /\ nextBatchId <= w
      /\ \A j \in 1..n : 1 < j /\ IsWrite(tasks[j]) => w < tasks[j].write
      /\ \/ w = c
         \/ \E j \in 1..n : 1 < j /\ IsWrite(tasks[j]) /\ tasks[j].write = w + 1
  <2>1. 1 \in 1..n
    BY <1>3
  <2> QED BY <1>1, <1>3, <2>1 DEF IInv, WaitingOK
<1>6. \A i \in 1..n : IsWrite(tasks[i]) => tasks[i].write \in 1..MaxWrites
  <2>1. \A i \in 1..n : tasks[i] \in Task
    BY <1>2, ElementOfSeq
  <2> QED BY <2>1, TaskFields
<1>7. calls[w].user = user /\ user \in Users
  BY <1>1, FirstTurn DEF IInv, StateOK
<1>8. b \in Batch
  <2>1. nextBatchId \in 1..MaxWrites
    <3>1. nextBatchId \in 1..(MaxWrites + 1)
      BY DEF IInv, StateOK
    <3> HIDE DEF w
    <3> QED BY <1>4, <1>5, <3>1, BoundsAssumption
  <2> QED BY <1>4, <2>1 DEF Batch, Writes
<1> HIDE DEF w, c, n, b
<1>9. FirstOf(tasks, c) = w
  <2>1. w \in 1..(c + 1) /\ 1 \in 1..n
    BY <1>2, <1>3, <1>4, <1>5
  <2>2. ASSUME NEW i \in 1..n, IsWrite(tasks[i]) PROVE w <= tasks[i].write
    <3>1. CASE i = 1
      BY <1>3, <1>4, <3>1 DEF w
    <3>2. CASE 1 < i
      BY <1>4, <1>5, <1>6, <2>2, <3>2
    <3> QED BY <1>3, <3>1, <3>2
  <2>3. IsWrite(tasks[1]) /\ tasks[1].write = w
    BY <1>1, <1>3 DEF w
  <2>4. Oldest(w, tasks, c)
    BY <2>1, <2>2, <2>3 DEF Oldest, n
  <2> QED BY <1>2, <2>4, FirstOfIs
<1>10. FirstOf(tasks', c) = w + 1
  <2>1. w + 1 \in 1..(c + 1)
    BY <1>2, <1>4, <1>5
  <2>2. w + 1 = c + 1 \/ \E i \in 1..(n - 1) : IsWrite(tasks'[i]) /\ tasks'[i].write = w + 1
    <3>1. CASE w = c
      BY <3>1
    <3>2. CASE \E j \in 1..n : 1 < j /\ IsWrite(tasks[j]) /\ tasks[j].write = w + 1
      <4>1. PICK j \in 1..n : 1 < j /\ IsWrite(tasks[j]) /\ tasks[j].write = w + 1
        BY <3>2
      <4>2. j - 1 \in 1..(n - 1) /\ (j - 1) + 1 = j
        BY <1>3, <4>1
      <4>3. tasks'[j - 1] = tasks[j]
        BY <1>3, <4>2
      <4> QED BY <4>1, <4>2, <4>3
    <3> QED BY <1>5, <3>1, <3>2
  <2>3. ASSUME NEW i \in 1..(n - 1), IsWrite(tasks'[i]) PROVE w + 1 <= tasks'[i].write
    <3>1. i + 1 \in 1..n /\ 1 < i + 1
      BY <1>3
    <3>2. IsWrite(tasks[i + 1]) /\ tasks'[i].write = tasks[i + 1].write
      BY <1>3, <2>3
    <3>3. w < tasks[i + 1].write /\ tasks[i + 1].write \in 1..MaxWrites
      BY <1>5, <1>6, <3>1, <3>2
    <3> QED BY <1>4, <3>2, <3>3
  <2>4. Oldest(w + 1, tasks', c)
    BY <1>3, <2>1, <2>2, <2>3 DEF Oldest
  <2> QED BY <1>2, <1>3, <2>4, FirstOfIs
<1>11. AbstractCalled = CalledFrom(calls, w) /\ AbstractCalled' = CalledFrom(calls, w + 1)
  BY <1>1, <1>9, <1>10, Mapping DEF Called, c
<1>12. /\ AbstractCalled # << >> /\ Head(AbstractCalled) = CallAt(calls, w)
       /\ AbstractCalled' = Tail(AbstractCalled)
  <2>1. w \in 1..Len(calls)
    BY <1>2, <1>4, <1>5 DEF c
  <2> QED BY <1>2, <1>11, <2>1, CalledNext DEF c
<1>13. Head(AbstractCalled).user = user /\ Head(AbstractCalled).write = AsWrite(calls)[b]
  <2>1. b.write = w
    BY DEF b
  <2> QED BY <1>7, <1>8, <1>12, <2>1 DEF CallAt, AsWrite
<1>14. AbstractPending' = [AbstractPending EXCEPT ![user] = Append(@, AsWrite(calls)[b])]
  <2> DEFINE g == AsWrite(calls)
             T == {g[x] : x \in Batch}
  <2>1. g \in [Batch -> T]
    BY DEF AsWrite
  <2>2. queue[user] \in Seq(Batch) /\ queue \in [Users -> Seq(Batch)]
    BY <1>7 DEF IInv, StateOK
  <2>3. MapSeq(g, Append(queue[user], b)) = Append(MapSeq(g, queue[user]), g[b])
    <3> HIDE DEF g, T
    <3> QED BY <1>8, <2>1, <2>2, MapSeqAppend, ZenonT(60)
  <2>4. queue'[user] = Append(queue[user], b) /\ \A u \in Users : u # user => queue'[u] = queue[u]
    BY <1>1, <1>7, <2>2
  <2>5. \A u \in Users : MapSeq(g, queue'[u]) =
          IF u = user THEN Append(MapSeq(g, queue[u]), g[b]) ELSE MapSeq(g, queue[u])
    <3> HIDE DEF g
    <3> QED BY <2>3, <2>4
  <2>6. AbstractPending = PendingIn(calls, queue) /\ AbstractPending' = PendingIn(calls, queue')
    BY <1>1, Mapping
  <2> HIDE DEF g
  <2> QED BY <1>7, <2>5, <2>6 DEF PendingIn, g
<1> QED BY <1>1, <1>12, <1>13, <1>14 DEF Abstract!Persist

\* Settling a write takes the front from the queue of the current user.
LEMMA SettlingMapped ==
  ASSUME IInv, IInv', queue[user] # << >>, calls' = calls, tasks' = tasks,
         queue'[user] = Tail(queue[user]), \A u \in Users : u # user => queue'[u] = queue[u]
  PROVE  /\ AbstractPending[user] # << >> /\ AbstractCalled' = AbstractCalled
         /\ Head(AbstractPending[user]) = AsWrite(calls)[Head(queue[user])]
         /\ AbstractPending' = [AbstractPending EXCEPT ![user] = Tail(@)]
<1> DEFINE g == AsWrite(calls)
<1>1. user \in Users /\ queue[user] \in Seq(Batch)
  BY DEF IInv, StateOK
<1>2. /\ AbstractPending = PendingIn(calls, queue) /\ AbstractPending' = PendingIn(calls, queue')
      /\ AbstractCalled' = AbstractCalled
  BY Mapping
<1> HIDE DEF g
<1>3. /\ MapSeq(g, queue[user]) # << >> /\ Head(MapSeq(g, queue[user])) = g[Head(queue[user])]
      /\ MapSeq(g, Tail(queue[user])) = Tail(MapSeq(g, queue[user]))
  BY <1>1, MapSeqHeadTail
<1>4. \A u \in Users : MapSeq(g, queue'[u]) =
        IF u = user THEN Tail(MapSeq(g, queue[u])) ELSE MapSeq(g, queue[u])
  BY <1>3
<1>5. AbstractPending[user] = MapSeq(g, queue[user])
  BY <1>1, <1>2 DEF PendingIn, g
<1>6. AbstractPending' = [AbstractPending EXCEPT ![user] = Tail(@)]
  BY <1>1, <1>2, <1>4 DEF PendingIn, g
<1> QED BY <1>2, <1>3, <1>5, <1>6 DEF g

\* OnMutationResult is Acknowledge for the current user.
LEMMA OnMutationResultAcknowledges ==
  ASSUME IInv, IInv', OnMutationResult
  PROVE  Abstract!Acknowledge(user)
<1> DEFINE p == rs.pipeline
           q == queue[user]
           b == Head(p)
           d == Len(rs.down)
<1>1. rs.down # << >> /\ Head(rs.down) \notin Codes /\ rs.handshake
  BY DEF OnMutationResult
<1>2. rs \in RemoteStore /\ WireOK(rs) /\ PipelineOK(rs, q) /\ QueueOK(q) /\ p \in Seq(Batch)
  BY PipelineFacts DEF IInv, RemoteOK
<1>3. d \in Nat \ {0} /\ Head(rs.down) = rs.down[1]
  BY <1>1, <1>2, RemoteFacts, TailParts
<1>4. 1 \in 1..d
  BY <1>3
<1>5. 1 \in 1..Len(p) /\ Len(p) \in Nat /\ rs.state = "Open"
  BY <1>1, <1>4, WireFacts DEF IInv
<1>6. p # << >>
  <2>1. Len(p) # 0
    BY <1>5
  <2> QED BY <2>1
<1>7. q # << >> /\ b = Head(q) /\ b = q[1] /\ 1 \in 1..Len(q)
  BY <1>2, <1>6, PipelineFront
<1>8. b = p[1]
  BY <1>2, <1>6, TailParts
<1>9. /\ NotifyUser(b.batch_id, "ok")
      /\ queue' = [queue EXCEPT ![user] = RemoveMutationBatch(@, b.batch_id)]
      /\ acked' = [acked EXCEPT ![DocOf(b.write)] = b.write]
      /\ user' = user /\ nextBatchId' = nextBatchId /\ calls' = calls /\ authUser' = authUser
      /\ tasks' = tasks
  BY <1>6 DEF OnMutationResult, appVars
<1>10. DocOf(b.write) \notin RefusedDocs
  <2>1. rs.down[1] = MutationResult \/ rs.down[1] = "PermissionDenied"
    BY <1>1, <1>2, <1>4, <1>5 DEF WireOK
  <2>2. rs.down[1] = MutationResult
    BY <1>1, <1>3, <2>1 DEF Codes, PermanentCodes
  <2> QED BY <1>1, <1>4, <1>8, <2>2 DEF IInv, AnswersOK
<1>11. queue'[user] = Tail(q) /\ \A u \in Users : u # user => queue'[u] = queue[u]
  BY <1>6, <1>9, <1>10, Settled
<1>12. /\ AbstractPending[user] # << >> /\ AbstractCalled' = AbstractCalled
       /\ Head(AbstractPending[user]) = AsWrite(calls)[b]
       /\ AbstractPending' = [AbstractPending EXCEPT ![user] = Tail(@)]
  BY <1>7, <1>9, <1>11, SettlingMapped
<1>13. b \in Batch
  BY <1>2, <1>7, QueueFacts
<1>14. AsWrite(calls)[b].doc = DocOf(b.write) /\ AsWrite(calls)[b].value = b.write
  <2> HIDE DEF b
  <2> QED BY <1>13 DEF AsWrite, DocOf
<1> QED BY <1>9, <1>12, <1>14 DEF Abstract!Acknowledge

\* OnServerError is Reject for the current user.
LEMMA OnServerErrorRejects ==
  ASSUME IInv, IInv', OnServerError
  PROVE  Abstract!Reject(user)
<1> DEFINE p == rs.pipeline
           q == queue[user]
           b == Head(p)
           d == Len(rs.down)
           code == "PermissionDenied"
<1>1. /\ rs.down # << >> /\ Head(rs.down) \in Codes /\ OnStreamFinish(rs, Head(rs.down))
      /\ calls' = calls /\ authUser' = authUser /\ tasks' = tasks
  BY DEF OnServerError, appVars
<1>2. /\ rs \in RemoteStore /\ StreamOK(rs) /\ WireOK(rs) /\ PipelineOK(rs, q) /\ QueueOK(q)
      /\ p \in Seq(Batch)
  BY PipelineFacts DEF IInv, RemoteOK
<1>3. d \in Nat \ {0} /\ Head(rs.down) = rs.down[1]
  BY <1>1, <1>2, RemoteFacts, TailParts
<1>4. 1 \in 1..d
  BY <1>3
<1>5. rs.state = "Open"
  BY <1>1, <1>2 DEF StreamOK
<1>6. rs.handshake
  <2>1. HandshakeResponse \notin Codes
    BY DEF HandshakeResponse, Codes, TransientCodes, PermanentCodes
  <2>2. ~rs.handshake => rs.down = <<HandshakeResponse>>
    BY <1>1, <1>2, <1>5 DEF WireOK
  <2>3. Head(<<HandshakeResponse>>) = HandshakeResponse
    OBVIOUS
  <2> QED BY <1>1, <2>1, <2>2, <2>3
<1>7. Head(rs.down) = code /\ rs.down[1] # MutationResult
  <2>1. rs.down[1] = MutationResult \/ rs.down[1] = code
    BY <1>2, <1>4, <1>5, <1>6 DEF WireOK
  <2>2. MutationResult \notin Codes
    BY DEF MutationResult, Codes, TransientCodes, PermanentCodes
  <2> QED BY <1>1, <1>3, <2>1, <2>2
<1>8. p # << >>
  <2>1. 1 \in 1..Len(p) /\ Len(p) \in Nat
    BY <1>4, <1>6, WireFacts DEF IInv
  <2>2. Len(p) # 0
    BY <2>1
  <2> QED BY <2>2
<1>9. RefusesFront(rs, code)
  BY <1>6, <1>8 DEF RefusesFront, IsPermanentWriteError, IsPermanentError, PermanentCodes
<1>10. /\ queue' = [queue EXCEPT ![user] = RemoveMutationBatch(@, b.batch_id)]
       /\ NotifyUser(b.batch_id, "error")
       /\ user' = user /\ nextBatchId' = nextBatchId /\ acked' = acked
  BY <1>1, <1>7, <1>9 DEF OnStreamFinish
<1>11. q # << >> /\ b = p[1]
  BY <1>2, <1>8, PipelineFront, TailParts
<1>12. DocOf(b.write) \in RefusedDocs
  BY <1>4, <1>6, <1>7, <1>11 DEF IInv, AnswersOK
<1>13. queue'[user] = Tail(q) /\ \A u \in Users : u # user => queue'[u] = queue[u]
  BY <1>1, <1>8, <1>10, <1>12, Settled
<1>14. /\ AbstractPending[user] # << >> /\ AbstractCalled' = AbstractCalled
       /\ AbstractPending' = [AbstractPending EXCEPT ![user] = Tail(@)]
  BY <1>1, <1>11, <1>13, SettlingMapped
<1> QED BY <1>10, <1>14 DEF Abstract!Reject

\* The death of the process is Crash.
LEMMA RestartCrashes ==
  ASSUME IInv, IInv', Restart
  PROVE  Abstract!Crash
<1> DEFINE c == Len(calls)
<1>1. tasks' = << >> /\ calls' = calls /\ queue' = queue /\ acked' = acked
  BY DEF Restart, appVars
<1>2. calls \in Seq(AppCall) /\ c \in Nat /\ c <= MaxWrites
  BY TasksTyped
<1>3. FirstOf(tasks', c) = c + 1
  <2>1. tasks' \in Seq(Task) /\ Len(tasks') = 0
    BY <1>1
  <2> HIDE DEF c
  <2>2. c + 1 \in 1..(c + 1)
    BY <1>2
  <2>3. Oldest(c + 1, tasks', c)
    BY <2>1, <2>2 DEF Oldest
  <2> QED BY <1>2, <2>1, <2>3, FirstOfIs
<1>4. c + 1 \in 1..(c + 1) /\ c + 1 - (c + 1) = 0
  <2> HIDE DEF c
  <2> QED BY <1>2
<1>5. AbstractCalled' = CalledFrom(calls, c + 1)
  BY <1>1, <1>3, Mapping DEF Called
<1>6. AbstractCalled' \in Seq(AbstractCalls) /\ Len(AbstractCalled') = 0
  BY <1>2, <1>4, <1>5, CalledFromIs
<1>7. AbstractCalled' = << >>
  BY <1>6, EmptySeq
<1>8. AbstractPending' = AbstractPending
  BY <1>1, Mapping
<1> QED BY <1>1, <1>7, <1>8 DEF Abstract!Crash

\* Every step of the client is a step of PendingWrites or changes nothing there.
LEMMA AbstractStep ==
  ASSUME IInv, IInv', [Next]_vars
  PROVE  [Abstract!Next]_(Abstract!vars)
<1>1. CASE RunWrite
  BY <1>1, RunWritePersists DEF Abstract!Next
<1>2. CASE OnMutationResult
  <2>1. user \in Users
    BY DEF IInv, StateOK
  <2> QED BY <1>2, <2>1, OnMutationResultAcknowledges DEF Abstract!Next
<1>3. CASE OnServerError
  <2>1. user \in Users
    BY DEF IInv, StateOK
  <2> QED BY <1>3, <2>1, OnServerErrorRejects DEF Abstract!Next
<1>4. CASE Restart
  BY <1>4, RestartCrashes DEF Abstract!Next
<1>5. ASSUME NEW d \in Docs, CallWrite(d) PROVE Abstract!Next
  BY <1>5, CallWriteCalls DEF Abstract!Next
<1>6. CASE RunCredentialChange
  <2>1. /\ tasks # << >> /\ Head(tasks).kind = "user" /\ tasks' = Tail(tasks)
        /\ UNCHANGED <<calls, queue, acked>>
    BY <1>6 DEF RunCredentialChange, appVars
  <2>2. ~IsWrite(Head(tasks))
    BY <2>1 DEF IsWrite
  <2> QED BY <2>1, <2>2, OtherTaskRun
<1>7. CASE RunToken
  <2>1. /\ tasks # << >> /\ Head(tasks).kind = "token" /\ tasks' = Tail(tasks) /\ calls' = calls
    BY <1>7 DEF RunToken, appVars
  <2>2. ~IsWrite(Head(tasks))
    BY <2>1 DEF IsWrite
  <2>3. queue' = queue /\ acked' = acked
    <3> DEFINE t == Head(tasks)
               s == HARD_ASSERT(rs, rs.state = "Starting")
    <3>1. CASE ~IsCurrent(rs, t.close_count) \/ t.code = "Ok"
      BY <1>7, <3>1 DEF RunToken, engineVars
    <3>2. CASE IsCurrent(rs, t.close_count) /\ t.code # "Ok"
      <4>1. OnStreamFinish(s, t.code)
        BY <1>7, <3>2 DEF RunToken
      <4>2. t \in Task
        BY <2>1, TaskRun DEF IInv
      <4>3. t.code = "Unknown"
        BY <2>1, <3>2, <4>2, TaskFields
      <4>4. ~RefusesFront(s, t.code)
        BY <4>3 DEF RefusesFront, IsPermanentWriteError, IsPermanentError, PermanentCodes
      <4> QED BY <4>1, <4>4 DEF OnStreamFinish
    <3> QED BY <3>1, <3>2
  <2> QED BY <2>1, <2>2, <2>3, OtherTaskRun
<1>8. ASSUME NEW n \in rs.asks, NEW code \in {"Ok", "Unknown"}, GetTokenAnswered(n, code)
      PROVE  UNCHANGED Abstract!vars
  <2> DEFINE t == [kind |-> "token", close_count |-> n, code |-> code, user |-> authUser]
  <2>1. Enqueue(t) /\ UNCHANGED <<calls, queue, acked>>
    BY <1>8 DEF GetTokenAnswered, appVars, engineVars
  <2>2. n \in Nat /\ authUser \in Users
    BY PipelineFacts DEF IInv, StateOK, RemoteStore
  <2>3. t \in Task
    BY <2>2 DEF Task
  <2>4. ~IsWrite(t)
    BY DEF IsWrite
  <2> HIDE DEF t
  <2> QED BY <2>1, <2>3, <2>4, OtherTaskEnqueued
<1>9. ASSUME NEW u \in Users, AuthStateDidChange(u) PROVE UNCHANGED Abstract!vars
  <2> DEFINE t == [kind |-> "user", user |-> u]
  <2>1. Enqueue(t) /\ UNCHANGED <<calls, queue, acked>>
    BY <1>9 DEF AuthStateDidChange, engineVars
  <2>2. t \in Task
    BY DEF Task
  <2>3. ~IsWrite(t)
    BY DEF IsWrite
  <2> HIDE DEF t
  <2> QED BY <2>1, <2>2, <2>3, OtherTaskEnqueued
<1>10. ASSUME NEW code \in {"Unavailable", "Aborted", "InvalidArgument"}, StreamBreaks(code)
       PROVE  UNCHANGED Abstract!vars
  <2>1. UNCHANGED <<calls, tasks>> /\ OnStreamFinish(rs, code)
        /\ (code \in {"Unavailable", "Aborted"} \/ ~rs.handshake)
    BY <1>10 DEF StreamBreaks, appVars
  <2>2. ~RefusesFront(rs, code)
    BY <2>1 DEF RefusesFront, IsPermanentWriteError, IsPermanentError, PermanentCodes
  <2>3. UNCHANGED <<queue, acked>>
    BY <2>1, <2>2 DEF OnStreamFinish
  <2> QED BY <2>1, <2>3, NoTaskMoves
<1>11. CASE \/ StreamOpens \/ OnHandshakeComplete \/ IdleTimeout \/ BackoffTimeout
            \/ ServerProcesses \/ ConnectivityChange \/ UNCHANGED vars
  <2>1. UNCHANGED <<calls, tasks, queue, acked>>
    BY <1>11 DEF StreamOpens, OnHandshakeComplete, IdleTimeout, BackoffTimeout,
       ServerProcesses, ConnectivityChange, vars, appVars, engineVars
  <2> QED BY <2>1, NoTaskMoves
<1> QED
  BY <1>1, <1>2, <1>3, <1>4, <1>5, <1>6, <1>7, <1>8, <1>9, <1>10, <1>11
  DEF Next, ClientStep, EnvironmentStep, Disturbance

\* A client that has just been started has called nothing and owes nothing.
LEMMA AbstractInit ==
  ASSUME Init
  PROVE  Abstract!Init
<1>1. calls = << >> /\ tasks = << >> /\ queue = [u \in Users |-> << >>]
      /\ acked = [d \in Docs |-> 0]
  BY DEF Init
<1>2. FirstOf(tasks, 0) = 1
  <2>1. tasks \in Seq(Task) /\ Len(tasks) = 0
    BY <1>1
  <2> DEFINE n == 0
  <2>2. n \in Nat /\ Oldest(1, tasks, n)
    BY <2>1 DEF Oldest
  <2> HIDE DEF n
  <2>3. FirstOf(tasks, n) = 1
    BY <2>1, <2>2, FirstOfIs
  <2> QED BY <2>3 DEF n
<1>3. AbstractCalled = << >>
  <2>1. AbstractCalled = CalledFrom(calls, FirstOf(tasks, Len(calls)))
    BY DEF AbstractCalled, AbstractCall, AbstractWrite, FirstWaiting, DocOf, CalledFrom,
           CallAt, FirstOf
  <2>2. Len(calls) = 0
    BY <1>1
  <2>3. 1..(Len(calls) + 1 - 1) = {}
    BY <2>2
  <2>4. CalledFrom(calls, 1) = [k \in {} |-> CallAt(calls, 1 + k - 1)]
    BY <2>3 DEF CalledFrom
  <2>5. CalledFrom(calls, 1) = << >>
    <3> DEFINE e == [k \in {} |-> CallAt(calls, 1 + k - 1)]
    <3>1. e = << >>
      OBVIOUS
    <3> QED BY <2>4, <3>1
  <2> QED BY <1>2, <2>1, <2>2, <2>5
<1>4. AbstractPending = [u \in Users |-> << >>]
  BY <1>1 DEF AbstractPending
<1>5. acked \in [Docs -> 0..MaxWrites]
  BY InitIInv DEF IInv, StateOK
<1> QED BY <1>3, <1>4, <1>5 DEF Abstract!Init

\* Whatever happens to the stream, the user and the process: SyncEngine and
\* LocalStore execute the writes in the order of the calls, each in the queue of
\* the user who called it, and RemoteStore settles each once, oldest first.
THEOREM WritesImplemented == Spec => ImplementsPendingWrites
<1>1. Init => Abstract!Init
  BY AbstractInit
<1>2. IInv /\ IInv' /\ [Next]_vars => [Abstract!Next]_(Abstract!vars)
  BY AbstractStep
<1> QED BY <1>1, <1>2, AlwaysIInv, PTL DEF Spec, ImplementsPendingWrites, Abstract!Spec

=============================================================================
