------------------------ MODULE FirestoreGets_proofs ------------------------
(***************************************************************************)
(* Proofs about FirestoreGets, for any number of gets and disturbances and *)
(* any limit of failed attempts.                                           *)
(***************************************************************************)
EXTENDS FirestoreGets, SequenceLemmas, TLAPS

(***************************************************************************)
(* The inductive invariant.                                                *)
(***************************************************************************)
Requests == [kind : {"watch", "unwatch"}, listen : Nat]
Responses ==
  [kind : {"Added", "Removed", "Denied", "Current", "Reset", "Snapshot"}, listen : Nat]
Phases == {"none", "added", "early", "current", "done"}
TargetStates == [known : BOOLEAN, outstanding : Int, current : Nat, changed : BOOLEAN]
Views == [on : BOOLEAN, current : Nat]
Watches == [listen : Nat, phase : Phases]
Failures == 0..kMaxWatchStreamFailures
Tasks == [kind : {"listen", "remove"}, get : Gets]
           \cup [kind : {"token"}, close_count : Nat, code : TokenCodes]

Client ==
  [state : States, timers : SUBSET Timers, asks : SUBSET Nat, close_count : Nat,
   credentials : {"user", NoStream}, ok : {TRUE}, listeners : Seq(Gets),
   raised : SUBSET Gets, snap : Snapshots \cup {NoSnapshot}, em_online : Online,
   out : Seq(Event), view : Views, target : BOOLEAN,
   enabled : BOOLEAN, agg : TargetStates, online : Online,
   failures : Failures, online_timer : BOOLEAN, listens : Nat,
   up : Seq(Requests), down : Seq(Responses),
   watched : Watches, kept : BOOLEAN]

\* The stream: who has a gRPC stream, which timers run, whether a GetToken of
\* this start is out.  Without an open stream nothing is on the wire and the
\* target state is a new one; with a target the stream is started, and an idle
\* stream has none.
StreamOK(s) ==
  /\ s.credentials # NoStream => s.state \in {"Starting", "Open"}
  /\ "backoff" \in s.timers => s.state = "Backoff"
  /\ "idle" \in s.timers => s.state = "Open" /\ ~s.target
  /\ s.target => IsStarted(s)
  /\ s.state # "Open" => /\ s.up = << >> /\ s.down = << >> /\ s.watched = Unwatched
                         /\ s.agg.outstanding = 0 /\ s.agg.current = 0
  /\ \A n \in s.asks : n <= s.close_count
  /\ s.close_count \in s.asks => s.state = "Starting" /\ s.credentials = NoStream

\* The timer only runs while the state is unknown and a stream is wanted.
OnlineOK(s) ==
  /\ s.em_online = s.online
  /\ s.online_timer => s.online = "Unknown"
  /\ s.online = "Online" => s.failures = 0
  /\ ~IsStarted(s) => ~s.online_timer /\ s.failures = 0

\* Listeners, view and target come and go together; and once a snapshot is in
\* sync, every listener has raised it.
ListenersOK(s) ==
  /\ s.target = s.view.on /\ s.view.on = (s.listeners # << >>)
  /\ ~s.view.on => s.view.current = 0
  /\ s.listeners = << >> => s.snap = NoSnapshot
  /\ s.snap = "server" => ToSet(s.listeners) \subseteq s.raised
  /\ \A i, j \in 1..Len(s.listeners) : s.listeners[i] = s.listeners[j] => i = j

\* The last request is about the latest listen, and the server watches an
\* earlier one only while a request is on its way.
RequestsOK(s) ==
  /\ \A k \in 1..Len(s.up) : s.up[k].listen <= s.listens
  /\ s.up # << >> => s.up[Len(s.up)].listen = s.listens
  /\ s.watched.phase # "none" =>
       s.watched.listen <= s.listens /\ (s.watched.listen = s.listens \/ s.up # << >>)

\* c[k] is the number of requests that are answered behind the k-th response:
\* the target state counts them all, and a report about an earlier listen has
\* one behind it.
IsAnswer(r) == r.kind \in {"Added", "Removed"}
Counts(s, c) ==
  /\ c[0] = s.agg.outstanding /\ c[Len(s.down)] = Len(s.up)
  /\ \A k \in 1..Len(s.down) :
       /\ c[k - 1] = c[k] + (IF IsAnswer(s.down[k]) THEN 1 ELSE 0)
       /\ s.down[k].kind = "Current" => s.down[k].listen = s.listens \/ c[k] > 0

\* What the server may have said, which depends on its rules.
ResponsesOK(s, refused) ==
  /\ \A k \in 1..Len(s.down) : s.down[k].listen <= s.listens
  /\ refused => /\ \A k \in 1..Len(s.down) : s.down[k].kind # "Current"
                /\ s.watched.phase = "none"
  /\ ~refused => /\ \A k \in 1..Len(s.down) : s.down[k].kind # "Denied"
                 /\ ~s.agg.known => s.agg.outstanding = 0
                 /\ \E c \in [0..Len(s.down) -> Nat] : Counts(s, c)

\* What was reported current is the latest listen, except for what was kept.
CurrentOK(s) ==
  /\ s.view.current <= s.listens /\ s.agg.current <= s.listens
  /\ s.kept \/ (s.view.current \in {0, s.listens} /\ s.agg.current \in {0, s.listens})

\* A snapshot that was posted has been raised.  An error is the last event of a
\* get, which is no listener any more.
EventsOK(s) ==
  \A k \in 1..Len(s.out) :
    IF s.out[k].what # "error" THEN s.out[k].get \in s.raised
    ELSE /\ s.out[k].get \notin ToSet(s.listeners)
         /\ \A j \in 1..Len(s.out) : s.out[j].get = s.out[k].get => j <= k

ClientOK(s, refused) ==
  /\ s \in Client /\ s.enabled
  /\ StreamOK(s) /\ OnlineOK(s) /\ ListenersOK(s) /\ RequestsOK(s)
  /\ ResponsesOK(s, refused) /\ CurrentOK(s) /\ EventsOK(s)

\* A token for this start is the only one, and the stream waits for it.
TokensOK(ts, s) ==
  \A i \in 1..Len(ts) : ts[i].kind = "token" =>
    /\ ts[i].close_count <= s.close_count
    /\ ts[i].close_count = s.close_count =>
         /\ s.state = "Starting" /\ s.credentials = NoStream /\ s.close_count \notin s.asks
         /\ \A j \in 1..Len(ts) :
              ts[j].kind = "token" /\ ts[j].close_count = s.close_count => j = i

\* The gets up to m have become listeners, and only they are heard of.
HeardOK(s, ans, m) ==
  /\ s.listeners \in Seq(1..m) /\ s.listens <= m
  /\ \A k \in 1..Len(s.out) : s.out[k].get <= m
  /\ \A g \in Gets : ans[g] # << >> => g <= m

\* The later ones, up to n, wait on the worker queue in their order.
QueueOK(ts, n, m) ==
  \A i \in 1..Len(ts) : ts[i].kind = "listen" =>
    /\ m < ts[i].get /\ ts[i].get <= n
    /\ \A j \in 1..Len(ts) : i < j /\ ts[j].kind = "listen" => ts[i].get < ts[j].get

\* A get that was answered is muted, or will hear no more.
AnswersOK(s, ans, mu) ==
  \A g \in Gets :
    /\ Len(ans[g]) <= 1
    /\ ans[g] # << >> =>
         \/ g \in mu
         \/ g \notin ToSet(s.listeners) /\ \A k \in 1..Len(s.out) : s.out[k].get # g

StateOK ==
  /\ called \in 0..MaxGets /\ disturbances \in 0..MaxDisturbances
  /\ muted \subseteq Gets /\ denied \in BOOLEAN
  /\ tasks \in Seq(Tasks)
  /\ answers \in [Gets -> Seq(Snapshots \cup {"error"})]

IInv ==
  /\ StateOK /\ ClientOK(cl, denied) /\ TokensOK(tasks, cl) /\ AnswersOK(cl, answers, muted)
  /\ \E m \in 0..called : HeardOK(cl, answers, m) /\ QueueOK(tasks, called, m)

-----------------------------------------------------------------------------
(***************************************************************************)
(* The listeners of a query.                                               *)
(***************************************************************************)

\* Among picks listeners that are due, and every one of them.
LEMMA AmongIs ==
  ASSUME NEW S, NEW ls \in Seq(S), NEW due
  PROVE  /\ Among(ls, due) \in Seq(S \cap due)
         /\ \A i \in 1..Len(ls) : ls[i] \in due =>
              \E j \in 1..Len(Among(ls, due)) : Among(ls, due)[j] = ls[i]
<1> DEFINE T == S \cap due
           n == Len(ls)
           Step(f, k) == IF k = 0 THEN << >>
                         ELSE IF ls[k] \in due THEN Append(f[k - 1], ls[k]) ELSE f[k - 1]
           Defined(m) == \E f \in [0..m -> Seq(T)] : \A k \in 0..m : f[k] = Step(f, k)
           F == CHOOSE f : f = [k \in 0..n |-> Step(f, k)]
<1>1. n \in Nat /\ \A k \in 1..n : ls[k] \in S
  BY LenProperties, ElementOfSeq
<1>2. \A m \in 0..n : Defined(m)
  <2> DEFINE W == {m \in 0..n : ~Defined(m)}
  <2> SUFFICES ASSUME W # {} PROVE FALSE
    OBVIOUS
  <2>1. W \in SUBSET Nat
    OBVIOUS
  <2>2. PICK m \in W : \A j \in W : m <= j
    <3> HIDE DEF W
    <3> QED BY <2>1, FirstPosition
  <2>3. CASE m = 0
    <3>1. << >> \in Seq(T)
      OBVIOUS
    <3>2. [k \in 0..0 |-> << >>] \in [0..0 -> Seq(T)]
          /\ \A k \in 0..0 : [i \in 0..0 |-> << >>][k] = Step([i \in 0..0 |-> << >>], k)
      BY <3>1
    <3>3. Defined(0)
      BY <3>2
    <3> QED BY <2>2, <2>3, <3>3
  <2>4. CASE m # 0
    <3>1. m \in 1..n /\ m - 1 \in 0..n /\ m - 1 \notin W
      <4>1. m \in 0..n
        BY <2>2
      <4> HIDE DEF W, n
      <4> QED BY <1>1, <2>2, <2>4, <4>1
    <3>2. PICK f \in [0..(m - 1) -> Seq(T)] : \A k \in 0..(m - 1) : f[k] = Step(f, k)
      BY <3>1
    <3> DEFINE e == IF ls[m] \in due THEN Append(f[m - 1], ls[m]) ELSE f[m - 1]
               g == [k \in 0..m |-> IF k < m THEN f[k] ELSE e]
    <3>3. f[m - 1] \in Seq(T)
      BY <3>1, <3>2
    <3>4. e \in Seq(T)
      BY <1>1, <3>1, <3>3, AppendProperties
    <3> HIDE DEF e
    <3>5. g \in [0..m -> Seq(T)]
      <4>1. \A k \in 0..m : k < m => f[k] \in Seq(T)
        BY <3>1, <3>2
      <4> HIDE DEF T, n, W
      <4> QED BY <3>4, <4>1
    <3>6. \A k \in 0..m : g[k] = Step(g, k)
      <4> SUFFICES ASSUME NEW k \in 0..m PROVE g[k] = Step(g, k)
        OBVIOUS
      <4>1. CASE k = m
        <5>1. g[m] = e /\ g[m - 1] = f[m - 1]
          BY <3>1
        <5> HIDE DEF g
        <5> QED BY <3>1, <4>1, <5>1 DEF e
      <4>2. CASE k # m /\ k # 0
        <5>1. g[k] = f[k] /\ g[k - 1] = f[k - 1] /\ k \in 0..(m - 1)
          BY <3>1, <4>2
        <5>2. f[k] = Step(f, k)
          BY <3>2, <5>1
        <5> HIDE DEF g
        <5> QED BY <4>2, <5>1, <5>2
      <4>3. CASE k # m /\ k = 0
        <5>1. g[k] = f[k] /\ k \in 0..(m - 1)
          BY <3>1, <4>3
        <5>2. f[k] = Step(f, k)
          BY <3>2, <5>1
        <5> HIDE DEF g
        <5> QED BY <4>3, <5>1, <5>2
      <4> QED BY <4>1, <4>2, <4>3
    <3>7. Defined(m)
      <4> HIDE DEF g
      <4> QED BY <3>5, <3>6
    <3> QED BY <2>2, <3>7
  <2> QED BY <2>3, <2>4
<1>3. F = [k \in 0..n |-> Step(F, k)]
  <2>1. PICK f \in [0..n -> Seq(T)] : \A k \in 0..n : f[k] = Step(f, k)
    <3>1. n \in 0..n
      BY <1>1
    <3>2. Defined(n)
      <4> HIDE DEF Defined
      <4> QED BY <1>2, <3>1
    <3> QED BY <3>2
  <2>2. f = [k \in 0..n |-> Step(f, k)]
    BY <2>1
  <2> QED BY <2>2
<1>4. Among(ls, due) = F[n]
  BY DEF Among
<1> HIDE DEF F
<1> DEFINE Picked(k) == /\ F[k] \in Seq(T)
                        /\ \A i \in 1..k : ls[i] \in due => \E j \in 1..Len(F[k]) : F[k][j] = ls[i]
<1>5. \A m \in 0..n : Picked(m)
  <2> DEFINE W == {m \in 0..n : ~Picked(m)}
  <2> SUFFICES ASSUME W # {} PROVE FALSE
    OBVIOUS
  <2>1. W \in SUBSET Nat
    OBVIOUS
  <2>2. PICK m \in W : \A j \in W : m <= j
    <3> HIDE DEF W
    <3> QED BY <2>1, FirstPosition
  <2>3. CASE m = 0
    <3>1. F[0] = << >>
      BY <1>1, <1>3
    <3>2. Picked(0)
      BY <3>1
    <3> QED BY <2>2, <2>3, <3>2
  <2>4. CASE m # 0
    <3>1. m \in 1..n /\ m - 1 \in 0..n /\ m - 1 \notin W
      <4>1. m \in 0..n
        BY <2>2
      <4> HIDE DEF W, n
      <4> QED BY <1>1, <2>2, <2>4, <4>1
    <3>2. Picked(m - 1)
      BY <3>1
    <3>3. F[m] = IF ls[m] \in due THEN Append(F[m - 1], ls[m]) ELSE F[m - 1]
      <4>1. m \in 0..n /\ m # 0
        BY <1>1, <3>1
      <4>2. F[m] = Step(F, m)
        <5> HIDE DEF Step, W, Picked, n
        <5> QED BY <1>3, <4>1
      <4> QED BY <4>1, <4>2
    <3> DEFINE a == F[m - 1]
    <3>4. CASE ls[m] \in due
      <4>1. F[m] = Append(a, ls[m]) /\ ls[m] \in T
        BY <1>1, <3>1, <3>3, <3>4
      <4>2. a \in Seq(T)
        BY <3>2
      <4>3. /\ F[m] \in Seq(T) /\ Len(a) \in Nat /\ Len(F[m]) = Len(a) + 1
            /\ \A k \in 1..Len(a) : F[m][k] = a[k]
            /\ F[m][Len(a) + 1] = ls[m]
        <5> HIDE DEF a, T
        <5> QED BY <4>1, <4>2, AppendParts
      <4>4. ASSUME NEW i \in 1..m, ls[i] \in due PROVE \E j \in 1..Len(F[m]) : F[m][j] = ls[i]
        <5>1. CASE i = m
          <6>1. Len(a) + 1 \in 1..Len(F[m])
            BY <4>3
          <6> QED BY <4>3, <5>1, <6>1
        <5>2. CASE i # m
          <6>1. i \in 1..(m - 1)
            BY <3>1, <5>2
          <6>2. PICK j \in 1..Len(a) : a[j] = ls[i]
            BY <3>2, <4>4, <6>1
          <6> HIDE DEF a
          <6>3. j \in 1..Len(F[m]) /\ F[m][j] = a[j]
            BY <4>3, <6>2
          <6> QED BY <6>2, <6>3
        <5> QED BY <5>1, <5>2
      <4>5. Picked(m)
        BY <4>3, <4>4
      <4> QED BY <2>2, <4>5
    <3>5. CASE ls[m] \notin due
      <4>1. F[m] = a
        BY <3>3, <3>5
      <4>2. ASSUME NEW i \in 1..m, ls[i] \in due PROVE \E j \in 1..Len(F[m]) : F[m][j] = ls[i]
        <5>1. i # m
          BY <3>5, <4>2
        <5>2. i \in 1..(m - 1)
          BY <3>1, <5>1
        <5> QED BY <3>2, <4>1, <4>2, <5>2
      <4>3. Picked(m)
        BY <3>2, <4>1, <4>2
      <4> QED BY <2>2, <4>3
    <3> QED BY <3>4, <3>5
  <2> QED BY <2>3, <2>4
<1>6. Picked(n)
  BY <1>1, <1>5
<1> QED BY <1>4, <1>6

\* Nobody is among nobody.
LEMMA NobodyDue ==
  ASSUME NEW S, NEW ls \in Seq(S), NEW due, S \cap due = {}
  PROVE  Among(ls, due) = << >>
<1>1. Among(ls, due) \in Seq({})
  BY AmongIs
<1>2. \A t \in Seq({}) : t = << >>
  <2> SUFFICES ASSUME NEW t \in Seq({}), t # << >> PROVE FALSE
    OBVIOUS
  <2>1. Head(t) \in {}
    BY HeadTailProperties
  <2> QED BY <2>1
<1> QED BY <1>1, <1>2

-----------------------------------------------------------------------------
(***************************************************************************)
(* Events.                                                                 *)
(***************************************************************************)

\* Sequential composition.
LEMMA ThenIs ==
  ASSUME NEW s, NEW F(_)
  PROVE  Then(s, F) = F(s)
BY DEF Then

\* An assertion that holds changes nothing.
LEMMA AssertHolds ==
  ASSUME NEW s \in Client, NEW fact, fact
  PROVE  HARD_ASSERT(s, fact) = s
BY DEF HARD_ASSERT, Client

\* The sequences of a client.
LEMMA ClientSeqs ==
  ASSUME NEW s \in Client
  PROVE  /\ s.listeners \in Seq(Gets) /\ Len(s.listeners) \in Nat
         /\ s.out \in Seq(Event) /\ Len(s.out) \in Nat
         /\ s.up \in Seq(Requests) /\ Len(s.up) \in Nat
         /\ s.down \in Seq(Responses) /\ Len(s.down) \in Nat
         /\ s.listeners \in Seq(ToSet(s.listeners))
         /\ DOMAIN s.listeners = 1..Len(s.listeners) /\ ToSet(s.listeners) \subseteq Gets
<1>1. s.listeners \in Seq(Gets)
  BY DEF Client
<1>2. s.out \in Seq(Event)
  BY DEF Client
<1>3. s.up \in Seq(Requests)
  BY DEF Client
<1>4. s.down \in Seq(Responses)
  BY DEF Client
<1>5. Len(s.listeners) \in Nat /\ DOMAIN s.listeners = 1..Len(s.listeners)
  BY <1>1, LenProperties
<1>6. Len(s.out) \in Nat
  BY <1>2, LenProperties
<1>7. Len(s.up) \in Nat
  BY <1>3, LenProperties
<1>8. Len(s.down) \in Nat
  BY <1>4, LenProperties
<1>9. s.listeners \in [1..Len(s.listeners) -> Gets]
  BY <1>1, <1>5, ElementOfSeq
<1>10. s.listeners \in [1..Len(s.listeners) -> ToSet(s.listeners)] /\ ToSet(s.listeners) \subseteq Gets
  BY <1>5, <1>9 DEF ToSet
<1>11. s.listeners \in Seq(ToSet(s.listeners))
  BY <1>5, <1>10, FcnIsSeq
<1> QED BY <1>1, <1>2, <1>3, <1>4, <1>5, <1>6, <1>7, <1>8, <1>10, <1>11

\* The events o and the raised listeners r, compared with those of s: further
\* snapshots have been posted for listeners of s.
Posted(s, o, r) ==
  /\ o \in Seq(Event) /\ r \in SUBSET Gets /\ s.raised \subseteq r
  /\ Len(s.out) <= Len(o) /\ \A k \in 1..Len(s.out) : o[k] = s.out[k]
  /\ \A k \in (Len(s.out) + 1)..Len(o) :
       o[k].get \in ToSet(s.listeners) /\ o[k].what # "error" /\ o[k].get \in r

\* A first event that was posted is from the cache only if the client is offline.
CacheOnly(s, o, online) ==
  \A k \in (Len(s.out) + 1)..Len(o) :
    o[k].what = "cache" /\ o[k].get \notin s.raised => online = "Offline"

LEMMA NothingPosted ==
  ASSUME NEW s \in Client, NEW online
  PROVE  Posted(s, s.out, s.raised) /\ CacheOnly(s, s.out, online)
<1>1. s.raised \in SUBSET Gets
  BY DEF Client
<1>2. Len(s.out) \in Nat /\ s.out \in Seq(Event)
  BY ClientSeqs
<1> QED BY <1>1, <1>2 DEF Posted, CacheOnly

\* The events the listeners gs raise.
LEMMA RaiseIs ==
  ASSUME NEW s \in Client, NEW G, G \subseteq ToSet(s.listeners), NEW gs \in Seq(G),
         NEW what \in Snapshots
  PROVE  LET o == Raise(s, gs, what).out
             r == s.raised \cup ToSet(gs)
         IN  /\ Raise(s, gs, what) = [s EXCEPT !.out = o, !.raised = r]
             /\ Posted(s, o, r) /\ ToSet(gs) \subseteq G
             /\ \A k \in (Len(s.out) + 1)..Len(o) : o[k].what = what /\ o[k].get \in G
<1> DEFINE e == [k \in DOMAIN gs |-> [get |-> gs[k], what |-> what]]
           o == s.out \o e
           r == s.raised \cup ToSet(gs)
<1>1. Len(gs) \in Nat /\ DOMAIN gs = 1..Len(gs) /\ \A k \in 1..Len(gs) : gs[k] \in G
  BY LenProperties, ElementOfSeq
<1>2. G \subseteq Gets /\ s.out \in Seq(Event) /\ Len(s.out) \in Nat
  BY ClientSeqs
<1>3. \A k \in 1..Len(gs) : [get |-> gs[k], what |-> what] \in Event
  BY <1>1, <1>2 DEF Event
<1>4. e \in [1..Len(gs) -> Event] /\ \A k \in 1..Len(gs) : e[k] = [get |-> gs[k], what |-> what]
  BY <1>1, <1>3
<1> HIDE DEF e
<1>5. e \in Seq(Event) /\ Len(e) = Len(gs)
  BY <1>1, <1>4, FcnIsSeq
<1>6. /\ o \in Seq(Event) /\ Len(o) = Len(s.out) + Len(gs)
      /\ \A k \in 1..Len(s.out) : o[k] = s.out[k]
      /\ \A k \in 1..Len(gs) : o[Len(s.out) + k] = e[k]
  <2> DEFINE a == s.out
  <2>1. a \in Seq(Event)
    BY <1>2
  <2> HIDE DEF a
  <2>2. a \o e \in Seq(Event)
    BY <1>5, <2>1, ConcatParts
  <2>3. Len(a \o e) = Len(a) + Len(e)
    BY <1>5, <2>1, ConcatParts
  <2>4. \A k \in 1..Len(a) : (a \o e)[k] = a[k]
    BY <1>5, <2>1, ConcatParts
  <2>5. \A k \in 1..Len(e) : (a \o e)[Len(a) + k] = e[k]
    BY <1>5, <2>1, ConcatParts
  <2> QED BY <1>5, <2>2, <2>3, <2>4, <2>5 DEF a
<1>7. what # "error"
  BY DEF Snapshots
<1>8. Raise(s, gs, what) = [s EXCEPT !.out = o, !.raised = r]
  BY <1>7 DEF Raise, e
<1>9. Raise(s, gs, what).out = o
  BY <1>8 DEF Client
<1>10. ToSet(gs) \subseteq G
  BY <1>1 DEF ToSet
<1>11. r \in SUBSET Gets /\ s.raised \subseteq r
  BY <1>2, <1>10 DEF Client
<1> HIDE DEF o
<1>12. ASSUME NEW k \in (Len(s.out) + 1)..Len(o)
       PROVE  o[k].what = what /\ o[k].get \in G /\ o[k].get \in ToSet(gs)
  <2>1. k - Len(s.out) \in 1..Len(gs) /\ Len(s.out) + (k - Len(s.out)) = k
    BY <1>1, <1>2, <1>6
  <2>2. o[k] = [get |-> gs[k - Len(s.out)], what |-> what]
    BY <1>4, <1>6, <2>1
  <2>3. gs[k - Len(s.out)] \in ToSet(gs) /\ gs[k - Len(s.out)] \in G
    BY <1>1, <2>1 DEF ToSet
  <2> QED BY <2>2, <2>3
<1>13. Posted(s, o, r)
  <2>1. Len(s.out) <= Len(o)
    BY <1>1, <1>2, <1>6
  <2> HIDE DEF r
  <2>2. ToSet(gs) \subseteq r
    BY DEF r
  <2> QED BY <1>6, <1>7, <1>11, <1>12, <2>1, <2>2 DEF Posted
<1> QED BY <1>8, <1>9, <1>10, <1>12, <1>13

LEMMA RaiseNobody ==
  ASSUME NEW s \in Client, NEW what
  PROVE  Raise(s, << >>, what) = s
<1> DEFINE e == [k \in DOMAIN << >> |-> [get |-> << >>[k], what |-> what]]
<1>1. e \in [1..0 -> Event]
  OBVIOUS
<1>2. e = << >>
  <2> HIDE DEF e
  <2>1. e \in Seq(Event) /\ Len(e) = 0
    BY <1>1, FcnIsSeq
  <2> QED BY <2>1, EmptySeq
<1>3. s.out \o e = s.out
  BY <1>2, ClientSeqs, ConcatEmptySeq
<1>4. ToSet(<< >>) = {}
  BY DEF ToSet
<1>5. Raise(s, << >>, what) = [s EXCEPT !.out = s.out \o e,
                                        !.raised = IF what = "error" THEN s.raised ELSE s.raised \cup {}]
  BY <1>4 DEF Raise
<1>6. [s EXCEPT !.out = s.out, !.raised = s.raised] = s
  BY DEF Client
<1>7. (IF what = "error" THEN s.raised ELSE s.raised \cup {}) = s.raised
  OBVIOUS
<1> HIDE DEF e
<1> QED BY <1>3, <1>5, <1>6, <1>7

-----------------------------------------------------------------------------
(***************************************************************************)
(* The online state.                                                       *)
(***************************************************************************)

\* Once a snapshot is in sync, every listener has raised it.
SnapOK(s) == s.snap = "server" => ToSet(s.listeners) \subseteq s.raised

\* Nobody waits for a change of the online state to anything but offline.
LEMMA QuietBroadcast ==
  ASSUME NEW s \in Client, s.em_online = s.online, SnapOK(s), NEW online \in {"Unknown", "Online"}
  PROVE  SetAndBroadcast(s, online) = [s EXCEPT !.online = online, !.em_online = online]
<1>1. CASE online = s.online
  <2>1. [s EXCEPT !.online = s.online, !.em_online = s.em_online] = s
    BY DEF Client
  <2> QED BY <1>1, <2>1 DEF SetAndBroadcast
<1>2. CASE online # s.online
  <2> DEFINE t == [s EXCEPT !.online = online]
             due == IF t.snap # NoSnapshot /\ ShouldRaiseInitialEvent(t.snap, online)
                    THEN Gets \ t.raised ELSE {}
  <2>1. online \in Online /\ online # "Offline"
    BY DEF Online
  <2>2. t \in Client /\ t.snap = s.snap /\ t.listeners = s.listeners /\ t.raised = s.raised
    BY <2>1 DEF Client
  <2> HIDE DEF t
  <2>3. ViewOnline(t, online) = t
    BY <2>1 DEF ViewOnline
  <2>4. SetAndBroadcast(s, online) = EventManagerOnline(t, online)
    BY <1>2, <2>3, ThenIs DEF SetAndBroadcast, t
  <2>5. ToSet(t.listeners) \cap due = {}
    BY <2>1, <2>2 DEF ShouldRaiseInitialEvent, SnapOK
  <2>6. Among(t.listeners, due) = << >>
    <3>1. t.listeners \in Seq(ToSet(t.listeners))
      BY <2>2, ClientSeqs
    <3> HIDE DEF due
    <3> QED BY <2>5, <3>1, NobodyDue
  <2>7. EventManagerOnline(t, online) = [t EXCEPT !.em_online = online]
    BY <2>2, <2>6, RaiseNobody DEF EventManagerOnline
  <2> QED BY <2>4, <2>7 DEF t
<1> QED BY <1>1, <1>2

\* What remains of the tracker when a stream has stopped or a message came.
Settled(s, online) ==
  [s EXCEPT !.failures = 0, !.online_timer = FALSE, !.online = online, !.em_online = online]

LEMMA UpdateStateIs ==
  ASSUME NEW s \in Client, s.em_online = s.online, SnapOK(s), NEW online \in {"Unknown", "Online"}
  PROVE  UpdateState(s, online) = Settled(s, online)
<1> DEFINE t == [s EXCEPT !.failures = 0, !.online_timer = FALSE]
<1>0. 0 \in Failures
  BY BoundsAssumption DEF Failures
<1>1. t \in Client
  BY <1>0 DEF Client
<1>2. t.em_online = t.online /\ t.snap = s.snap /\ t.listeners = s.listeners /\ t.raised = s.raised
  BY DEF Client
<1> HIDE DEF t
<1>3. SetAndBroadcast(t, online) = [t EXCEPT !.online = online, !.em_online = online]
  BY <1>1, <1>2, QuietBroadcast DEF SnapOK
<1> QED BY <1>3 DEF UpdateState, Settled, t

\* The tracker when a stream is started.
Awaiting(s) == [s EXCEPT !.online = "Unknown", !.em_online = "Unknown", !.online_timer = TRUE]

LEMMA HandleStartIs ==
  ASSUME NEW s \in Client, s.em_online = s.online, SnapOK(s), s.failures = 0 => ~s.online_timer
  PROVE  HandleWatchStreamStart(s) = IF s.failures # 0 THEN s ELSE Awaiting(s)
<1>1. CASE s.failures # 0
  BY <1>1 DEF HandleWatchStreamStart
<1>2. CASE s.failures = 0
  <2> DEFINE t == [s EXCEPT !.online = "Unknown", !.em_online = "Unknown"]
  <2>1. SetAndBroadcast(s, "Unknown") = t
    BY QuietBroadcast
  <2>2. t \in Client
    BY DEF Client, Online
  <2>3. ~t.online_timer
    BY <1>2 DEF Client
  <2>4. HARD_ASSERT(t, ~t.online_timer) = t
    <3> HIDE DEF t
    <3> QED BY <2>2, <2>3, AssertHolds
  <2>5. HandleWatchStreamStart(s) = [HARD_ASSERT(t, ~t.online_timer) EXCEPT !.online_timer = TRUE]
    <3> HIDE DEF t
    <3> QED BY <1>2, <2>1, ThenIs DEF HandleWatchStreamStart
  <2>6. HandleWatchStreamStart(s) = Awaiting(s)
    BY <2>4, <2>5 DEF Awaiting
  <2> QED BY <1>2, <2>6
<1> QED BY <1>1, <1>2

LEMMA PostedMore ==
  ASSUME NEW s \in Client, NEW t \in Client, NEW o, NEW r,
         t.listeners = s.listeners, Posted(s, t.out, t.raised), Posted(t, o, r)
  PROVE  Posted(s, o, r)
<1>1. /\ Len(s.out) \in Nat /\ Len(t.out) \in Nat /\ Len(o) \in Nat
      /\ Len(s.out) <= Len(t.out) /\ Len(t.out) <= Len(o)
  <2>1. o \in Seq(Event)
    BY DEF Posted
  <2>2. Len(o) \in Nat
    BY <2>1, LenProperties
  <2> QED BY <2>2, ClientSeqs DEF Posted
<1>2. ASSUME NEW k \in 1..Len(s.out) PROVE o[k] = s.out[k]
  <2>1. k \in 1..Len(t.out)
    BY <1>1
  <2> QED BY <2>1 DEF Posted
<1>3. ASSUME NEW k \in (Len(s.out) + 1)..Len(o)
      PROVE  o[k].get \in ToSet(s.listeners) /\ o[k].what # "error" /\ o[k].get \in r
  <2>1. CASE k <= Len(t.out)
    <3>1. k \in 1..Len(t.out) /\ k \in (Len(s.out) + 1)..Len(t.out)
      BY <1>1, <2>1
    <3> QED BY <3>1 DEF Posted
  <2>2. CASE k > Len(t.out)
    <3>1. k \in (Len(t.out) + 1)..Len(o)
      BY <1>1, <2>2
    <3> QED BY <3>1 DEF Posted
  <2> QED BY <1>1, <2>1, <2>2
<1>4. Len(s.out) <= Len(o)
  BY <1>1
<1>5. o \in Seq(Event) /\ r \in SUBSET Gets /\ s.raised \subseteq r
  BY DEF Posted
<1> QED BY <1>2, <1>3, <1>4, <1>5 DEF Posted

\* A snapshot of the view, with the rules about first events.
LEMMA OnViewSnapshotsIs ==
  ASSUME NEW s \in Client, s.listeners # << >>, NEW snapshot \in Snapshots
  PROVE  \E o, r :
           /\ OnViewSnapshots(s, snapshot) = [s EXCEPT !.out = o, !.raised = r, !.snap = snapshot]
           /\ Posted(s, o, r) /\ CacheOnly(s, o, s.em_online)
           /\ snapshot = "server" => ToSet(s.listeners) \subseteq r
<1> DEFINE L == ToSet(s.listeners)
           due == IF ShouldRaiseInitialEvent(snapshot, s.em_online) THEN Gets ELSE s.raised
           gs == Among(s.listeners, due)
           o == Raise(s, gs, snapshot).out
           r == s.raised \cup ToSet(gs)
<1>1. s.listeners \in Seq(L) /\ DOMAIN s.listeners = 1..Len(s.listeners) /\ L \subseteq Gets
  BY ClientSeqs
<1>2. OnViewSnapshots(s, snapshot) = [Raise(s, gs, snapshot) EXCEPT !.snap = snapshot]
  BY DEF OnViewSnapshots
<1>3. /\ gs \in Seq(L \cap due)
      /\ \A i \in 1..Len(s.listeners) : s.listeners[i] \in due =>
           \E j \in 1..Len(gs) : gs[j] = s.listeners[i]
  <2> HIDE DEF L, due
  <2> QED BY <1>1, AmongIs
<1> HIDE DEF due, gs
<1>4. /\ Raise(s, gs, snapshot) = [s EXCEPT !.out = o, !.raised = r]
      /\ Posted(s, o, r) /\ ToSet(gs) \subseteq L \cap due
      /\ \A k \in (Len(s.out) + 1)..Len(o) : o[k].what = snapshot /\ o[k].get \in L \cap due
  <2> DEFINE G == L \cap due
  <2>1. G \subseteq ToSet(s.listeners) /\ gs \in Seq(G)
    BY <1>3
  <2> HIDE DEF G
  <2>2. /\ Raise(s, gs, snapshot) = [s EXCEPT !.out = o, !.raised = r]
        /\ Posted(s, o, r) /\ ToSet(gs) \subseteq G
        /\ \A k \in (Len(s.out) + 1)..Len(o) : o[k].what = snapshot /\ o[k].get \in G
    BY <2>1, RaiseIs
  <2> QED BY <2>2 DEF G
<1> HIDE DEF o
<1>5. CacheOnly(s, o, s.em_online)
  <2> SUFFICES ASSUME NEW k \in (Len(s.out) + 1)..Len(o), o[k].what = "cache", o[k].get \notin s.raised
               PROVE  s.em_online = "Offline"
    BY DEF CacheOnly
  <2>1. snapshot = "cache" /\ o[k].get \in due
    BY <1>4
  <2> QED BY <2>1 DEF due, ShouldRaiseInitialEvent
<1>6. ASSUME snapshot = "server" PROVE L \subseteq r
  <2> SUFFICES ASSUME NEW g \in L PROVE g \in ToSet(gs)
    OBVIOUS
  <2>1. PICK i \in 1..Len(s.listeners) : s.listeners[i] = g
    BY <1>1 DEF ToSet
  <2>2. g \in due
    BY <1>1, <1>6 DEF due, ShouldRaiseInitialEvent
  <2>3. PICK j \in 1..Len(gs) : gs[j] = g
    BY <1>3, <2>1, <2>2
  <2>4. DOMAIN gs = 1..Len(gs)
    BY <1>3, LenProperties
  <2> QED BY <2>3, <2>4 DEF ToSet
<1> QED BY <1>2, <1>4, <1>5, <1>6

LEMMA EventManagerOfflineIs ==
  ASSUME NEW s \in Client
  PROVE  \E o, r :
           /\ EventManagerOnline(s, "Offline") = [s EXCEPT !.out = o, !.raised = r,
                                                            !.em_online = "Offline"]
           /\ Posted(s, o, r)
<1> DEFINE due == IF s.snap # NoSnapshot /\ ShouldRaiseInitialEvent(s.snap, "Offline")
                  THEN Gets \ s.raised ELSE {}
           L == ToSet(s.listeners)
           gs == Among(s.listeners, due)
           o == Raise(s, gs, s.snap).out
           r == s.raised \cup ToSet(gs)
<1>1. s.listeners \in Seq(L)
  BY ClientSeqs
<1>2. EventManagerOnline(s, "Offline") = [Raise(s, gs, s.snap) EXCEPT !.em_online = "Offline"]
  BY DEF EventManagerOnline
<1>3. gs \in Seq(L \cap due)
  <2> HIDE DEF L, due
  <2> QED BY <1>1, AmongIs
<1>4. CASE s.snap = NoSnapshot
  <2>1. L \cap due = {}
    BY <1>4
  <2>2. gs = << >>
    <3> HIDE DEF L, due
    <3> QED BY <1>1, <2>1, NobodyDue
  <2> HIDE DEF gs
  <2>3. Raise(s, gs, s.snap) = s
    BY <2>2, RaiseNobody
  <2>4. [s EXCEPT !.out = s.out, !.raised = s.raised] = s
    BY DEF Client
  <2>5. Posted(s, s.out, s.raised)
    BY NothingPosted
  <2>6. EventManagerOnline(s, "Offline") = [s EXCEPT !.out = s.out, !.raised = s.raised,
                                                       !.em_online = "Offline"]
    BY <1>2, <2>3, <2>4
  <2> QED BY <2>5, <2>6
<1>5. CASE s.snap # NoSnapshot
  <2> DEFINE G == L \cap due
  <2>1. G \subseteq ToSet(s.listeners) /\ gs \in Seq(G)
    BY <1>3
  <2>2. s.snap \in Snapshots
    BY <1>5 DEF Client
  <2> HIDE DEF G, gs
  <2>3. Raise(s, gs, s.snap) = [s EXCEPT !.out = o, !.raised = r] /\ Posted(s, o, r)
    BY <2>1, <2>2, RaiseIs
  <2> HIDE DEF o, r
  <2> QED BY <1>2, <2>3
<1> QED BY <1>4, <1>5

\* Going offline: the view is out of sync, and everybody has raised an event.
LEMMA OfflineIs ==
  ASSUME NEW s \in Client, s.em_online = s.online, SnapOK(s),
         s.view.current # 0 => s.listeners # << >>
  PROVE  \E o, r, sn, v :
           /\ SetAndBroadcast(s, "Offline") =
                [s EXCEPT !.online = "Offline", !.em_online = "Offline", !.view = v,
                          !.snap = sn, !.out = o, !.raised = r]
           /\ Posted(s, o, r)
           /\ sn \in {s.snap, "cache"} /\ (s.listeners = << >> => sn = s.snap)
           /\ sn = "server" => ToSet(s.listeners) \subseteq r
           /\ v \in {s.view, [s.view EXCEPT !.current = 0]}
<1>1. CASE s.online = "Offline"
  <2>1. SetAndBroadcast(s, "Offline") = s
    BY <1>1 DEF SetAndBroadcast
  <2>2. [s EXCEPT !.online = s.online, !.em_online = s.em_online, !.view = s.view,
                  !.snap = s.snap, !.out = s.out, !.raised = s.raised] = s
    BY DEF Client
  <2>3. Posted(s, s.out, s.raised)
    BY NothingPosted
  <2> DEFINE o == s.out
             r == s.raised
             sn == s.snap
             v == s.view
  <2>4. /\ SetAndBroadcast(s, "Offline") =
                [s EXCEPT !.online = "Offline", !.em_online = "Offline", !.view = v,
                          !.snap = sn, !.out = o, !.raised = r]
    BY <1>1, <2>1, <2>2
  <2>5. Posted(s, o, r) /\ sn \in {s.snap, "cache"} /\ (s.listeners = << >> => sn = s.snap)
    BY <2>3
  <2>6. sn = "server" => ToSet(s.listeners) \subseteq r
    BY DEF SnapOK
  <2>7. v \in {s.view, [s.view EXCEPT !.current = 0]}
    OBVIOUS
  <2> HIDE DEF o, r, sn, v
  <2> QED BY <2>4, <2>5, <2>6, <2>7
<1>2. CASE s.online # "Offline" /\ s.view.current = 0
  <2> DEFINE t == [s EXCEPT !.online = "Offline"]
  <2>1. t \in Client /\ t.view = s.view /\ t.out = s.out /\ t.raised = s.raised
        /\ t.listeners = s.listeners
    BY DEF Client, Online
  <2>2. [t EXCEPT !.em_online = "Offline", !.view = s.view, !.snap = s.snap] = [t EXCEPT !.em_online = "Offline"]
    BY DEF Client
  <2>3. ViewOnline(t, "Offline") = t
    BY <1>2, <2>1 DEF ViewOnline
  <2>4. SetAndBroadcast(s, "Offline") = EventManagerOnline(t, "Offline")
    <3> HIDE DEF t
    <3> QED BY <1>2, <2>3, ThenIs DEF SetAndBroadcast, t
  <2>5. PICK o, r : /\ EventManagerOnline(t, "Offline") = [t EXCEPT !.out = o, !.raised = r,
                                                                    !.em_online = "Offline"]
                    /\ Posted(t, o, r)
    <3> HIDE DEF t
    <3> QED BY <2>1, EventManagerOfflineIs
  <2>6. SetAndBroadcast(s, "Offline") =
                [s EXCEPT !.online = "Offline", !.em_online = "Offline", !.view = s.view,
                          !.snap = s.snap, !.out = o, !.raised = r]
    BY <2>4, <2>5 DEF Client
  <2>7. Posted(s, o, r)
    BY <2>1, <2>5 DEF Posted
  <2>8. s.snap = "server" => ToSet(s.listeners) \subseteq r
    BY <2>7 DEF SnapOK, Posted
  <2> HIDE DEF t
  <2> QED BY <2>6, <2>7, <2>8
<1>3. CASE s.online # "Offline" /\ s.view.current # 0
  <2> DEFINE v == [s.view EXCEPT !.current = 0]
             t == [s EXCEPT !.online = "Offline"]
             w == [s EXCEPT !.online = "Offline", !.view = v]
  <2>0. t \in Client /\ t.view = s.view
    BY DEF Client, Online
  <2>1. v \in Views
    BY DEF Client, Views
  <2>2. w \in Client /\ w.out = s.out /\ w.raised = s.raised /\ w.listeners = s.listeners
    <3> HIDE DEF v
    <3> QED BY <2>1 DEF Client, Online
  <2>3. ViewOnline(t, "Offline") = OnViewSnapshots(w, "cache")
    <3>1. [t EXCEPT !.view.current = 0] = w
      BY <2>0
    <3> HIDE DEF t, w
    <3> QED BY <1>3, <2>0, <3>1 DEF ViewOnline
  <2> HIDE DEF v, w
  <2>4. PICK o1, r1 : /\ OnViewSnapshots(w, "cache") = [w EXCEPT !.out = o1, !.raised = r1, !.snap = "cache"]
                      /\ Posted(w, o1, r1)
    BY <1>3, <2>2, OnViewSnapshotsIs DEF Snapshots
  <2> DEFINE x == [w EXCEPT !.out = o1, !.raised = r1, !.snap = "cache"]
  <2>5. o1 \in Seq(Event) /\ r1 \in SUBSET Gets /\ Posted(s, o1, r1)
    BY <2>2, <2>4 DEF Posted
  <2>6. x \in Client /\ x.out = o1 /\ x.raised = r1 /\ x.listeners = s.listeners
    BY <2>2, <2>5 DEF Client, Snapshots
  <2> HIDE DEF x
  <2>7. SetAndBroadcast(s, "Offline") = EventManagerOnline(x, "Offline")
    <3> HIDE DEF t
    <3> QED BY <1>3, <2>3, <2>4, ThenIs DEF SetAndBroadcast, t, x
  <2>8. PICK o, r : /\ EventManagerOnline(x, "Offline") = [x EXCEPT !.out = o, !.raised = r,
                                                                    !.em_online = "Offline"]
                    /\ Posted(x, o, r)
    BY <2>6, EventManagerOfflineIs
  <2>9. SetAndBroadcast(s, "Offline") =
                [s EXCEPT !.online = "Offline", !.em_online = "Offline", !.view = v,
                          !.snap = "cache", !.out = o, !.raised = r]
    BY <2>7, <2>8, ZenonT(60) DEF x, w, Client
  <2>10. Posted(s, o, r)
    BY <2>5, <2>6, <2>8, PostedMore
  <2>11. "cache" # "server" /\ v = [s.view EXCEPT !.current = 0] /\ s.listeners # << >>
    BY <1>3 DEF v
  <2> QED BY <2>9, <2>10, <2>11
<1> QED BY <1>1, <1>2, <1>3

-----------------------------------------------------------------------------
(***************************************************************************)
(* What a step leaves alone.  The parts of the invariant depend on groups  *)
(* of fields.                                                              *)
(***************************************************************************)
SameStream(s, t) ==
  /\ t.state = s.state /\ t.timers = s.timers /\ t.asks = s.asks
  /\ t.close_count = s.close_count /\ t.credentials = s.credentials

SameWire(s, t) ==
  /\ t.up = s.up /\ t.down = s.down /\ t.watched = s.watched
  /\ t.agg = s.agg /\ t.listens = s.listens

SameTracker(s, t) ==
  /\ t.online = s.online /\ t.em_online = s.em_online
  /\ t.failures = s.failures /\ t.online_timer = s.online_timer

SameView(s, t) ==
  t.target = s.target /\ t.view = s.view /\ t.listeners = s.listeners /\ t.snap = s.snap

SameEvents(s, t) == t.out = s.out /\ t.raised = s.raised

LEMMA StreamKept ==
  ASSUME NEW s, NEW t, StreamOK(s), SameStream(s, t), SameWire(s, t), t.target = s.target
  PROVE  StreamOK(t)
BY DEF StreamOK, SameStream, SameWire, IsStarted

LEMMA TrackerKept ==
  ASSUME NEW s, NEW t, OnlineOK(s), SameTracker(s, t), IsStarted(s) => IsStarted(t)
  PROVE  OnlineOK(t)
BY DEF OnlineOK, SameTracker

LEMMA ViewKept ==
  ASSUME NEW s, NEW t, ListenersOK(s), SameView(s, t), s.raised \subseteq t.raised
  PROVE  ListenersOK(t)
BY DEF ListenersOK, SameView

LEMMA WireKept ==
  ASSUME NEW s, NEW t, NEW refused, RequestsOK(s), ResponsesOK(s, refused), SameWire(s, t)
  PROVE  RequestsOK(t) /\ ResponsesOK(t, refused)
<1>1. t.up = s.up /\ t.down = s.down /\ t.watched = s.watched /\ t.agg = s.agg /\ t.listens = s.listens
  BY DEF SameWire
<1>2. RequestsOK(t)
  BY <1>1 DEF RequestsOK
<1>3. \A c : Counts(s, c) <=> Counts(t, c)
  BY <1>1 DEF Counts
<1>4. ResponsesOK(t, refused)
  BY <1>1, <1>3 DEF ResponsesOK
<1> QED BY <1>2, <1>4

LEMMA CurrentKept ==
  ASSUME NEW s, NEW t, CurrentOK(s), t.listens = s.listens, t.agg.current \in {s.agg.current, 0},
         t.view.current \in {s.view.current, 0}, t.kept = s.kept, s.listens \in Nat
  PROVE  CurrentOK(t)
<1>1. 0 <= s.listens
  OBVIOUS
<1>2. s.view.current <= s.listens /\ s.agg.current <= s.listens
  BY DEF CurrentOK
<1>3. t.view.current <= t.listens /\ t.agg.current <= t.listens
  BY <1>1, <1>2
<1>4. s.kept \/ (s.view.current \in {0, s.listens} /\ s.agg.current \in {0, s.listens})
  BY DEF CurrentOK
<1>5. t.kept \/ (t.view.current \in {0, t.listens} /\ t.agg.current \in {0, t.listens})
  BY <1>4
<1> QED BY <1>3, <1>5 DEF CurrentOK

LEMMA EventsPosted ==
  ASSUME NEW s \in Client, NEW t \in Client, EventsOK(s), Posted(s, t.out, t.raised),
         ToSet(t.listeners) \subseteq ToSet(s.listeners)
  PROVE  EventsOK(t)
<1>1. Len(s.out) \in Nat /\ Len(t.out) \in Nat /\ Len(s.out) <= Len(t.out)
  BY ClientSeqs DEF Posted
<1>2. ASSUME NEW k \in 1..Len(t.out), k > Len(s.out)
      PROVE  /\ t.out[k].get \in ToSet(s.listeners) /\ t.out[k].what # "error"
             /\ t.out[k].get \in t.raised
  <2>1. k \in (Len(s.out) + 1)..Len(t.out)
    BY <1>1, <1>2
  <2> QED BY <2>1 DEF Posted
<1>3. ASSUME NEW k \in 1..Len(t.out), k <= Len(s.out) PROVE k \in 1..Len(s.out) /\ t.out[k] = s.out[k]
  <2>1. k \in 1..Len(s.out)
    BY <1>1, <1>3
  <2> QED BY <2>1 DEF Posted
<1> SUFFICES ASSUME NEW k \in 1..Len(t.out)
             PROVE  IF t.out[k].what # "error" THEN t.out[k].get \in t.raised
                    ELSE /\ t.out[k].get \notin ToSet(t.listeners)
                         /\ \A j \in 1..Len(t.out) : t.out[j].get = t.out[k].get => j <= k
  BY DEF EventsOK
<1>4. CASE k > Len(s.out)
  BY <1>2, <1>4
<1>5. CASE k <= Len(s.out)
  <2>1. k \in 1..Len(s.out) /\ t.out[k] = s.out[k]
    BY <1>3, <1>5
  <2>2. CASE s.out[k].what # "error"
    BY <2>1, <2>2 DEF EventsOK, Posted
  <2>3. CASE s.out[k].what = "error"
    <3>1. s.out[k].get \notin ToSet(s.listeners)
      BY <2>1, <2>3 DEF EventsOK
    <3>2. ASSUME NEW j \in 1..Len(t.out), t.out[j].get = t.out[k].get PROVE j <= k
      <4>1. ~(j > Len(s.out))
        BY <1>2, <2>1, <3>1, <3>2
      <4>2. j \in 1..Len(s.out) /\ t.out[j] = s.out[j]
        BY <1>1, <1>3, <4>1
      <4> QED BY <2>1, <2>3, <3>2, <4>2 DEF EventsOK
    <3> QED BY <2>1, <2>3, <3>1, <3>2
  <2> QED BY <2>2, <2>3
<1> QED BY <1>1, <1>4, <1>5

LEMMA EventsKept ==
  ASSUME NEW s \in Client, NEW t \in Client, EventsOK(s), SameEvents(s, t),
         ToSet(t.listeners) \subseteq ToSet(s.listeners)
  PROVE  EventsOK(t)
<1>1. Posted(s, t.out, t.raised)
  BY NothingPosted DEF SameEvents
<1> QED BY <1>1, EventsPosted

-----------------------------------------------------------------------------
(***************************************************************************)
(* The wire.                                                               *)
(***************************************************************************)

LEMMA WireCut ==
  ASSUME NEW t \in Client, NEW refused, t.up = << >>, t.down = << >>, t.watched = Unwatched,
         t.agg.outstanding = 0
  PROVE  RequestsOK(t) /\ ResponsesOK(t, refused)
<1>1. Len(t.up) = 0 /\ Len(t.down) = 0
  OBVIOUS
<1>2. RequestsOK(t)
  BY <1>1 DEF RequestsOK, Unwatched
<1> DEFINE c == [k \in 0..Len(t.down) |-> 0]
<1>3. Counts(t, c)
  BY <1>1 DEF Counts
<1>4. c \in [0..Len(t.down) -> Nat]
  OBVIOUS
<1> HIDE DEF c
<1>5. ResponsesOK(t, refused)
  BY <1>1, <1>3, <1>4 DEF ResponsesOK, Unwatched
<1> QED BY <1>2, <1>5

\* A request for the same listen or a later one.
LEMMA RequestSent ==
  ASSUME NEW s \in Client, NEW t \in Client, NEW refused, RequestsOK(s), ResponsesOK(s, refused),
         NEW kind \in {"watch", "unwatch"}, s.listens <= t.listens,
         t.up = Append(s.up, [kind |-> kind, listen |-> t.listens]),
         t.down = s.down, t.watched = s.watched, t.agg.known,
         t.agg.outstanding = s.agg.outstanding + 1
  PROVE  RequestsOK(t) /\ ResponsesOK(t, refused)
<1>0. s.listens \in Nat /\ t.listens \in Nat /\ s.watched \in Watches
  BY DEF Client
<1>1. /\ s.up \in Seq(Requests) /\ Len(s.up) \in Nat
      /\ s.down \in Seq(Responses) /\ Len(s.down) \in Nat
  BY ClientSeqs
<1>2. [kind |-> kind, listen |-> t.listens] \in Requests
  BY <1>0 DEF Requests
<1> DEFINE e == [kind |-> kind, listen |-> t.listens]
<1>3. e.listen = t.listens
  OBVIOUS
<1> HIDE DEF e
<1>4. /\ Len(t.up) = Len(s.up) + 1 /\ t.up[Len(s.up) + 1] = e
      /\ \A k \in 1..Len(s.up) : t.up[k] = s.up[k]
  <2> DEFINE a == s.up
  <2>1. a \in Seq(Requests) /\ e \in Requests /\ t.up = Append(a, e)
    BY <1>1, <1>2 DEF e
  <2> HIDE DEF a
  <2>2. /\ Len(Append(a, e)) = Len(a) + 1 /\ Append(a, e)[Len(a) + 1] = e
        /\ \A k \in 1..Len(a) : Append(a, e)[k] = a[k]
    BY <2>1, AppendParts
  <2> QED BY <2>1, <2>2 DEF a
<1>5. \A k \in 1..Len(s.up) : s.up[k].listen \in Nat /\ s.up[k].listen <= s.listens
  <2> SUFFICES ASSUME NEW k \in 1..Len(s.up) PROVE s.up[k].listen \in Nat /\ s.up[k].listen <= s.listens
    OBVIOUS
  <2>1. s.up[k] \in Requests
    BY <1>1, ElementOfSeq
  <2> QED BY <2>1 DEF Requests, RequestsOK
<1>6. \A k \in 1..Len(t.up) : t.up[k].listen <= t.listens
  <2> SUFFICES ASSUME NEW k \in 1..Len(t.up) PROVE t.up[k].listen <= t.listens
    OBVIOUS
  <2>1. CASE k = Len(s.up) + 1
    BY <1>0, <1>3, <1>4, <2>1
  <2>2. CASE k # Len(s.up) + 1
    <3>1. k \in 1..Len(s.up)
      BY <1>1, <1>4, <2>2
    <3> QED BY <1>0, <1>4, <1>5, <3>1
  <2> QED BY <2>1, <2>2
<1>7. t.up # << >> /\ t.up[Len(t.up)].listen = t.listens
  BY <1>1, <1>3, <1>4
<1>8. s.watched.phase # "none" => s.watched.listen <= t.listens
  BY <1>0 DEF RequestsOK, Watches
<1>9. RequestsOK(t)
  BY <1>6, <1>7, <1>8 DEF RequestsOK
<1>10. \A k \in 1..Len(t.down) : t.down[k].listen <= t.listens
  <2> SUFFICES ASSUME NEW k \in 1..Len(s.down) PROVE s.down[k].listen <= t.listens
    OBVIOUS
  <2>1. s.down[k] \in Responses
    BY <1>1, ElementOfSeq
  <2>2. s.down[k].listen \in Nat /\ s.down[k].listen <= s.listens
    BY <2>1 DEF Responses, ResponsesOK
  <2> QED BY <1>0, <2>2
<1>11. ASSUME ~refused PROVE \E c \in [0..Len(t.down) -> Nat] : Counts(t, c)
  <2>1. PICK c \in [0..Len(s.down) -> Nat] : Counts(s, c)
    BY <1>11 DEF ResponsesOK
  <2> DEFINE d == [k \in 0..Len(s.down) |-> c[k] + 1]
             n == Len(s.down)
  <2>2. n \in Nat /\ \A k \in 0..n : d[k] = c[k] + 1 /\ c[k] \in Nat
    BY <1>1
  <2>3. d \in [0..n -> Nat]
    BY <2>2
  <2> HIDE DEF d
  <2>4. d[0] = t.agg.outstanding /\ d[n] = Len(t.up)
    <3>1. c[0] = s.agg.outstanding /\ c[n] = Len(s.up)
      BY <2>1 DEF Counts
    <3>2. 0 \in 0..n /\ n \in 0..n
      BY <2>2
    <3> HIDE DEF n
    <3> QED BY <1>4, <2>2, <3>1, <3>2
  <2>5. ASSUME NEW k \in 1..n
        PROVE  /\ d[k - 1] = d[k] + (IF IsAnswer(s.down[k]) THEN 1 ELSE 0)
               /\ d[k] > 0
    <3>1. c[k - 1] = c[k] + (IF IsAnswer(s.down[k]) THEN 1 ELSE 0)
      BY <2>1 DEF Counts
    <3>2. k \in 0..n /\ k - 1 \in 0..n
      BY <2>2
    <3> HIDE DEF n
    <3> QED BY <2>2, <3>1, <3>2, SMTT(30)
  <2>6. Counts(t, d)
    BY <2>4, <2>5 DEF Counts
  <2> QED BY <2>3, <2>6
<1>12. ResponsesOK(t, refused)
  BY <1>10, <1>11 DEF ResponsesOK
<1> QED BY <1>9, <1>12

\* A response of the server.
LEMMA ResponseSent ==
  ASSUME NEW s \in Client, NEW t \in Client, NEW refused, NEW e \in Responses,
         ResponsesOK(s, refused), t.listens = s.listens, t.agg = s.agg,
         t.down = Append(s.down, e), e.listen <= s.listens,
         refused => e.kind # "Current" /\ t.watched.phase = "none",
         ~refused => /\ e.kind # "Denied" /\ Len(s.up) = Len(t.up) + (IF IsAnswer(e) THEN 1 ELSE 0)
                     /\ e.kind = "Current" => e.listen = s.listens \/ Len(t.up) > 0
  PROVE  ResponsesOK(t, refused)
<1> DEFINE n == Len(s.down)
<1>1. /\ s.down \in Seq(Responses) /\ n \in Nat /\ Len(t.up) \in Nat
  BY ClientSeqs
<1>2. /\ Len(t.down) = n + 1 /\ t.down[n + 1] = e
      /\ \A k \in 1..n : t.down[k] = s.down[k]
  <2> DEFINE a == s.down
  <2>1. a \in Seq(Responses) /\ t.down = Append(a, e)
    BY <1>1
  <2> HIDE DEF a
  <2>2. /\ Len(Append(a, e)) = Len(a) + 1 /\ Append(a, e)[Len(a) + 1] = e
        /\ \A k \in 1..Len(a) : Append(a, e)[k] = a[k]
    BY <2>1, AppendParts
  <2> QED BY <2>1, <2>2 DEF a
<1> HIDE DEF n
<1>3. ASSUME NEW k \in 1..Len(t.down) PROVE k = n + 1 \/ k \in 1..n
  BY <1>1, <1>2
<1>4. \A k \in 1..n : s.down[k].listen <= s.listens
  BY DEF ResponsesOK, n
<1>5. \A k \in 1..Len(t.down) : t.down[k].listen <= t.listens
  BY <1>2, <1>3, <1>4
<1>6. ASSUME refused PROVE \A k \in 1..Len(t.down) : t.down[k].kind # "Current"
  <2>1. \A k \in 1..n : s.down[k].kind # "Current"
    BY <1>6 DEF ResponsesOK, n
  <2> QED BY <1>2, <1>3, <1>6, <2>1
<1>7. ASSUME ~refused PROVE \A k \in 1..Len(t.down) : t.down[k].kind # "Denied"
  <2>1. \A k \in 1..n : s.down[k].kind # "Denied"
    BY <1>7 DEF ResponsesOK, n
  <2> QED BY <1>2, <1>3, <1>7, <2>1
<1>8. ASSUME ~refused PROVE \E c \in [0..Len(t.down) -> Nat] : Counts(t, c)
  <2>1. PICK c \in [0..n -> Nat] : Counts(s, c)
    BY <1>8 DEF ResponsesOK, n
  <2> DEFINE d == [k \in 0..(n + 1) |-> IF k <= n THEN c[k] ELSE Len(t.up)]
  <2>2. d \in [0..(n + 1) -> Nat]
    BY <1>1
  <2>3. d[n + 1] = Len(t.up) /\ \A k \in 0..n : d[k] = c[k]
    BY <1>1
  <2> HIDE DEF d
  <2>4. c[0] = s.agg.outstanding /\ c[n] = Len(s.up)
    BY <2>1 DEF Counts, n
  <2>5. d[0] = t.agg.outstanding /\ d[n] = Len(s.up)
    <3>1. 0 \in 0..n /\ n \in 0..n
      BY <1>1
    <3> QED BY <2>3, <2>4, <3>1
  <2>6. ASSUME NEW k \in 1..(n + 1)
        PROVE  /\ d[k - 1] = d[k] + (IF IsAnswer(t.down[k]) THEN 1 ELSE 0)
               /\ t.down[k].kind = "Current" => t.down[k].listen = t.listens \/ d[k] > 0
    <3>1. CASE k = n + 1
      <4>1. k - 1 = n
        BY <1>1, <3>1
      <4> QED BY <1>2, <1>8, <2>3, <2>5, <3>1, <4>1
    <3>2. CASE k # n + 1
      <4>1. k \in 1..n /\ k \in 0..n /\ k - 1 \in 0..n
        BY <1>1, <3>2
      <4>2. /\ c[k - 1] = c[k] + (IF IsAnswer(s.down[k]) THEN 1 ELSE 0)
            /\ s.down[k].kind = "Current" => s.down[k].listen = s.listens \/ c[k] > 0
        BY <2>1, <4>1 DEF Counts, n
      <4> QED BY <1>2, <2>3, <4>1, <4>2
    <3> QED BY <3>1, <3>2
  <2>7. Counts(t, d)
    BY <1>2, <2>3, <2>5, <2>6 DEF Counts
  <2> QED BY <1>2, <2>2, <2>7
<1>9. ~refused => (~t.agg.known => t.agg.outstanding = 0)
  BY DEF ResponsesOK
<1> QED BY <1>5, <1>6, <1>7, <1>8, <1>9 DEF ResponsesOK

\* The client takes the oldest response.
LEMMA ResponseReceived ==
  ASSUME NEW s \in Client, NEW t \in Client, NEW refused, RequestsOK(s), ResponsesOK(s, refused),
         s.down # << >>, t.down = Tail(s.down), t.up = s.up, t.listens = s.listens,
         t.watched = s.watched,
         ~refused => /\ ~t.agg.known => t.agg.outstanding = 0
                     /\ s.agg.outstanding = t.agg.outstanding + (IF IsAnswer(Head(s.down)) THEN 1 ELSE 0)
  PROVE  RequestsOK(t) /\ ResponsesOK(t, refused)
<1> DEFINE n == Len(s.down)
<1>1. s.down \in Seq(Responses)
  BY ClientSeqs
<1>2. /\ n \in Nat \ {0} /\ Head(s.down) = s.down[1]
      /\ Len(t.down) = n - 1 /\ \A k \in 1..(n - 1) : t.down[k] = s.down[k + 1]
  <2> DEFINE a == s.down
  <2>1. a \in Seq(Responses) /\ a # << >> /\ t.down = Tail(a)
    BY <1>1
  <2> HIDE DEF a
  <2>2. /\ Len(a) \in Nat \ {0} /\ Head(a) = a[1]
        /\ Len(Tail(a)) = Len(a) - 1 /\ \A k \in 1..(Len(a) - 1) : Tail(a)[k] = a[k + 1]
    BY <2>1, TailParts
  <2> QED BY <2>1, <2>2 DEF a
<1>3. RequestsOK(t)
  BY DEF RequestsOK
<1> HIDE DEF n
<1>4. ASSUME NEW k \in 1..Len(t.down) PROVE k + 1 \in 1..n /\ t.down[k] = s.down[k + 1]
  <2>1. k \in 1..(n - 1)
    BY <1>2
  <2> QED BY <1>2, <2>1
<1>5. \A k \in 1..Len(t.down) : t.down[k].listen <= t.listens
  BY <1>4 DEF ResponsesOK, n
<1>6. refused => \A k \in 1..Len(t.down) : t.down[k].kind # "Current"
  BY <1>4 DEF ResponsesOK, n
<1>7. ~refused => \A k \in 1..Len(t.down) : t.down[k].kind # "Denied"
  BY <1>4 DEF ResponsesOK, n
<1>8. ASSUME ~refused PROVE \E c \in [0..Len(t.down) -> Nat] : Counts(t, c)
  <2>1. PICK c \in [0..n -> Nat] : Counts(s, c)
    BY <1>8 DEF ResponsesOK, n
  <2> DEFINE d == [k \in 0..(n - 1) |-> c[k + 1]]
  <2>2. \A k \in 0..(n - 1) : k + 1 \in 0..n /\ d[k] = c[k + 1]
    BY <1>2
  <2>3. d \in [0..(n - 1) -> Nat]
    BY <2>2
  <2> HIDE DEF d
  <2>4. c[0] = s.agg.outstanding /\ c[n] = Len(s.up)
    BY <2>1 DEF Counts, n
  <2>5. ASSUME NEW k \in 1..n
        PROVE  /\ c[k - 1] = c[k] + (IF IsAnswer(s.down[k]) THEN 1 ELSE 0)
               /\ s.down[k].kind = "Current" => s.down[k].listen = s.listens \/ c[k] > 0
    BY <2>1 DEF Counts, n
  <2>6. d[n - 1] = Len(t.up)
    <3>1. n - 1 \in 0..(n - 1) /\ (n - 1) + 1 = n
      BY <1>2
    <3> QED BY <2>2, <2>4, <3>1
  <2>7. d[0] = t.agg.outstanding
    <3>1. 1 \in 1..n /\ 0 \in 0..(n - 1) /\ 1 \in 0..n
      BY <1>2
    <3>2. d[0] = c[1]
      BY <2>2, <3>1
    <3>3. c[0] = c[1] + (IF IsAnswer(s.down[1]) THEN 1 ELSE 0)
      BY <2>5, <3>1
    <3>4. t.agg.outstanding \in Int /\ c[1] \in Nat
      BY <3>1 DEF Client, TargetStates
    <3> QED BY <1>2, <1>8, <2>4, <3>2, <3>3, <3>4
  <2>8. ASSUME NEW k \in 1..Len(t.down)
        PROVE  /\ d[k - 1] = d[k] + (IF IsAnswer(t.down[k]) THEN 1 ELSE 0)
               /\ t.down[k].kind = "Current" => t.down[k].listen = t.listens \/ d[k] > 0
    <3>1. k + 1 \in 1..n /\ t.down[k] = s.down[k + 1]
      BY <1>4
    <3>2. k - 1 \in 0..(n - 1) /\ k \in 0..(n - 1) /\ (k - 1) + 1 = k /\ (k + 1) - 1 = k
      BY <1>2, <3>1
    <3>3. d[k - 1] = c[k] /\ d[k] = c[k + 1]
      BY <2>2, <3>2
    <3> QED BY <2>5, <3>1, <3>2, <3>3
  <2>9. Counts(t, d)
    BY <1>2, <2>6, <2>7, <2>8 DEF Counts
  <2> QED BY <1>2, <2>3, <2>9
<1>9. refused => t.watched.phase = "none"
  BY DEF ResponsesOK
<1>10. ResponsesOK(t, refused)
  BY <1>5, <1>6, <1>7, <1>8, <1>9 DEF ResponsesOK
<1> QED BY <1>3, <1>10

\* A report that is received while no answer is outstanding is about the
\* latest listen.
LEMMA OwnReport ==
  ASSUME NEW s \in Client, NEW refused, ResponsesOK(s, refused), s.down # << >>,
         Head(s.down).kind = "Current", ~(s.agg.known /\ s.agg.outstanding # 0)
  PROVE  ~refused /\ Head(s.down).listen = s.listens
<1> DEFINE n == Len(s.down)
<1>1. n \in Nat \ {0} /\ Head(s.down) = s.down[1] /\ 1 \in 1..n
  <2>1. s.down \in Seq(Responses)
    BY ClientSeqs
  <2> QED BY <2>1, TailParts
<1> HIDE DEF n
<1>2. ~refused
  BY <1>1 DEF ResponsesOK, n
<1>3. s.agg.outstanding = 0
  BY <1>2 DEF ResponsesOK
<1>4. PICK c \in [0..n -> Nat] : Counts(s, c)
  BY <1>2 DEF ResponsesOK, n
<1>5. c[0] = 0 /\ c[1 - 1] = c[1] + (IF IsAnswer(s.down[1]) THEN 1 ELSE 0)
      /\ (s.down[1].kind = "Current" => s.down[1].listen = s.listens \/ c[1] > 0)
  BY <1>1, <1>3, <1>4 DEF Counts, n
<1>6. c[1] \in Nat /\ c[1 - 1] = c[0]
  BY <1>1
<1>7. ~(c[1] > 0)
  BY <1>5, <1>6
<1> QED BY <1>1, <1>2, <1>5, <1>7

-----------------------------------------------------------------------------
(***************************************************************************)
(* How the client evolves in the steps that leave the worker queue alone.  *)
(***************************************************************************)

\* Listeners only go, and what is posted is for them.
NewEvents(s, o) ==
  /\ Len(s.out) <= Len(o) /\ \A k \in 1..Len(s.out) : o[k] = s.out[k]
  /\ \A k \in (Len(s.out) + 1)..Len(o) : o[k].get \in ToSet(s.listeners)

\* A token that is still valid stays so, and no token becomes valid.
TokensStay(s, t) ==
  \/ t.close_count > s.close_count
  \/ /\ t.close_count = s.close_count
     /\ \/ s.state # "Starting" \/ s.credentials # NoStream
        \/ t.state = s.state /\ t.credentials = s.credentials /\ t.asks = s.asks

Evolves(s, t) ==
  /\ t.listens = s.listens /\ t.listeners \in Seq(ToSet(s.listeners))
  /\ NewEvents(s, t.out) /\ CacheOnly(s, t.out, t.online) /\ TokensStay(s, t)

LEMMA SameEventsNew ==
  ASSUME NEW s \in Client, NEW t \in Client, SameEvents(s, t)
  PROVE  NewEvents(s, t.out) /\ CacheOnly(s, t.out, t.online)
<1>1. Posted(s, t.out, t.raised) /\ CacheOnly(s, t.out, t.online)
  BY NothingPosted DEF SameEvents
<1> QED BY <1>1 DEF Posted, NewEvents

LEMMA EvolvesQuietly ==
  ASSUME NEW s \in Client, NEW t \in Client, SameEvents(s, t), t.listens = s.listens,
         t.listeners = s.listeners, TokensStay(s, t)
  PROVE  Evolves(s, t)
BY SameEventsNew, ClientSeqs DEF Evolves

LEMMA SameStreamTokens ==
  ASSUME NEW s, NEW t, SameStream(s, t)
  PROVE  TokensStay(s, t)
BY DEF SameStream, TokensStay

\* A request that is sent.
Requested(s, kind) ==
  [s EXCEPT !.timers = @ \ {"idle"},
            !.agg = [@ EXCEPT !.known = TRUE, !.outstanding = s.agg.outstanding + 1],
            !.up = Append(@, [kind |-> kind, listen |-> s.listens]),
            !.kept = @ \/ (kind = "watch" /\ s.agg.current # 0)]

LEMMA SendRequestIs ==
  ASSUME NEW s \in Client, s.state = "Open", NEW kind
  PROVE  SendRequest(s, kind) = Requested(s, kind)
<1>1. IsOpen(s)
  BY DEF IsOpen
<1>2. HARD_ASSERT(s, IsOpen(s)) = s
  BY <1>1, AssertHolds
<1> QED BY <1>2 DEF SendRequest, Requested, CancelIdleCheck

LEMMA RequestedFields ==
  ASSUME NEW s \in Client, NEW kind \in {"watch", "unwatch"}, NEW t, t = Requested(s, kind)
  PROVE  /\ t \in Client /\ SameTracker(s, t) /\ SameView(s, t) /\ SameEvents(s, t)
         /\ t.state = s.state /\ t.asks = s.asks /\ t.close_count = s.close_count
         /\ t.credentials = s.credentials /\ t.enabled = s.enabled /\ t.listens = s.listens
         /\ t.down = s.down /\ t.watched = s.watched /\ t.timers = s.timers \ {"idle"}
         /\ t.up = Append(s.up, [kind |-> kind, listen |-> t.listens])
         /\ t.agg.known /\ t.agg.outstanding = s.agg.outstanding + 1
         /\ t.agg.current = s.agg.current
         /\ t.kept = (s.kept \/ (kind = "watch" /\ s.agg.current # 0))
<1> DEFINE u == Append(s.up, [kind |-> kind, listen |-> s.listens])
           a == [s.agg EXCEPT !.known = TRUE, !.outstanding = s.agg.outstanding + 1]
           k == s.kept \/ (kind = "watch" /\ s.agg.current # 0)
           ti == s.timers \ {"idle"}
<1>1. s.listens \in Nat /\ s.agg \in TargetStates /\ s.timers \in SUBSET Timers /\ s.kept \in BOOLEAN
  BY DEF Client
<1>2. u \in Seq(Requests)
  <2>1. [kind |-> kind, listen |-> s.listens] \in Requests
    BY <1>1 DEF Requests
  <2>2. s.up \in Seq(Requests)
    BY ClientSeqs
  <2> QED BY <2>1, <2>2, AppendProperties
<1>3. /\ a \in TargetStates /\ a.known /\ a.outstanding = s.agg.outstanding + 1
      /\ a.current = s.agg.current
  <2> DEFINE b == s.agg
             n == b.outstanding + 1
  <2>1. b \in TargetStates /\ n \in Int
    BY <1>1 DEF TargetStates
  <2>2. a = [b EXCEPT !.known = TRUE, !.outstanding = n]
    OBVIOUS
  <2> HIDE DEF b, n, a
  <2>3. a \in TargetStates /\ a.known = TRUE /\ a.outstanding = n /\ a.current = b.current
    BY <2>1, <2>2 DEF TargetStates
  <2> QED BY <2>3 DEF b, n
<1>4. k \in BOOLEAN /\ ti \in SUBSET Timers
  BY <1>1
<1>5. t = [s EXCEPT !.timers = ti, !.agg = a, !.up = u, !.kept = k]
  BY DEF Requested, Client
<1> HIDE DEF u, a, k, ti
<1>6. t \in Client /\ t.timers = ti /\ t.agg = a /\ t.up = u /\ t.kept = k
  BY <1>2, <1>3, <1>4, <1>5, ZenonT(60) DEF Client
<1>7. SameTracker(s, t) /\ SameView(s, t) /\ SameEvents(s, t)
  BY <1>5 DEF Client, SameTracker, SameView, SameEvents
<1>8. /\ t.state = s.state /\ t.asks = s.asks /\ t.close_count = s.close_count
      /\ t.credentials = s.credentials /\ t.enabled = s.enabled /\ t.listens = s.listens
      /\ t.down = s.down /\ t.watched = s.watched
  BY <1>5 DEF Client
<1> QED BY <1>3, <1>6, <1>7, <1>8 DEF u, ti, k

\* The stream has been opened, and the target is watched.
LEMMA OpensOK ==
  ASSUME NEW s, NEW refused, ClientOK(s, refused), s.credentials # NoStream, s.state = "Starting"
  PROVE  LET t == Then(OnStreamStart(s), OnWatchStreamOpen)
         IN  ClientOK(t, refused) /\ Evolves(s, t)
<1> DEFINE o == [s EXCEPT !.state = "Open"]
           t == IF o.target THEN Requested(o, "watch") ELSE o
<1>0. s \in Client /\ StreamOK(s) /\ OnlineOK(s) /\ ListenersOK(s) /\ RequestsOK(s)
      /\ ResponsesOK(s, refused) /\ CurrentOK(s) /\ EventsOK(s) /\ s.enabled
  BY DEF ClientOK
<1>1. o \in Client /\ o.state = "Open"
  BY <1>0 DEF Client, States
<1>2. /\ SameTracker(s, o) /\ SameView(s, o) /\ SameEvents(s, o) /\ SameWire(s, o)
      /\ o.timers = s.timers /\ o.asks = s.asks /\ o.close_count = s.close_count
      /\ o.credentials = s.credentials /\ o.enabled = s.enabled /\ o.kept = s.kept
  BY <1>0 DEF Client, SameTracker, SameView, SameEvents, SameWire
<1> HIDE DEF o
<1>3. OnWatchStreamOpen(o) = t
  BY <1>1, SendRequestIs DEF OnWatchStreamOpen
<1>4. Then(OnStreamStart(s), OnWatchStreamOpen) = t
  BY <1>3, ThenIs DEF OnStreamStart, o
<1>5. /\ t \in Client /\ SameTracker(s, t) /\ SameView(s, t) /\ SameEvents(s, t)
      /\ t.state = "Open" /\ t.asks = s.asks /\ t.close_count = s.close_count
      /\ t.credentials = s.credentials /\ t.enabled = s.enabled /\ t.listens = s.listens
      /\ t.timers \subseteq s.timers /\ t.agg.current = s.agg.current /\ t.kept = s.kept
      /\ RequestsOK(t) /\ ResponsesOK(t, refused)
  <2>1. s.agg.current = 0
    BY <1>0 DEF StreamOK
  <2>2. RequestsOK(o) /\ ResponsesOK(o, refused)
    BY <1>0, <1>2, WireKept
  <2>3. CASE ~o.target
    BY <1>1, <1>2, <2>2, <2>3 DEF SameWire
  <2>4. CASE o.target
    <3>1. t = Requested(o, "watch")
      BY <2>4
    <3> HIDE DEF t
    <3>2. /\ t \in Client /\ SameTracker(o, t) /\ SameView(o, t) /\ SameEvents(o, t)
          /\ t.state = o.state /\ t.asks = o.asks /\ t.close_count = o.close_count
          /\ t.credentials = o.credentials /\ t.enabled = o.enabled /\ t.listens = o.listens
          /\ t.down = o.down /\ t.watched = o.watched /\ t.timers = o.timers \ {"idle"}
          /\ t.up = Append(o.up, [kind |-> "watch", listen |-> t.listens])
          /\ t.agg.known /\ t.agg.outstanding = o.agg.outstanding + 1
          /\ t.agg.current = o.agg.current
          /\ t.kept = (o.kept \/ ("watch" = "watch" /\ o.agg.current # 0))
      BY <1>1, <3>1, RequestedFields
    <3>3. t.listens \in Nat
      BY <3>2 DEF Client
    <3>4. o.listens <= t.listens
      BY <3>2, <3>3
    <3>5. RequestsOK(t) /\ ResponsesOK(t, refused)
      BY <1>1, <2>2, <3>2, <3>4, RequestSent
    <3>6. o.agg.current = 0 /\ t.kept = s.kept
      <4>1. o.agg.current = 0
        BY <1>2, <2>1 DEF SameWire
      <4>2. o.kept \in BOOLEAN
        BY <1>1 DEF Client
      <4> QED BY <1>2, <3>2, <4>1, <4>2
    <3>7. SameTracker(s, t) /\ SameView(s, t) /\ SameEvents(s, t)
      BY <1>2, <3>2 DEF SameTracker, SameView, SameEvents
    <3> QED BY <1>1, <1>2, <2>1, <3>2, <3>5, <3>6, <3>7 DEF SameWire
  <2> QED BY <2>3, <2>4
<1> HIDE DEF t
<1>6. StreamOK(t)
  BY <1>0, <1>5 DEF StreamOK, SameView, IsStarted
<1>7. OnlineOK(t)
  <2>1. IsStarted(t)
    BY <1>5 DEF IsStarted
  <2> QED BY <1>0, <1>5, <2>1, TrackerKept
<1>8. ListenersOK(t)
  BY <1>0, <1>5, ViewKept DEF SameEvents
<1>9. CurrentOK(t)
  <2>1. s.listens \in Nat /\ t.view.current = s.view.current
    BY <1>0, <1>5 DEF Client, SameView
  <2> QED BY <1>0, <1>5, <2>1, CurrentKept
<1>10. EventsOK(t)
  BY <1>0, <1>5, EventsKept DEF SameView
<1>11. ClientOK(t, refused)
  BY <1>0, <1>5, <1>6, <1>7, <1>8, <1>9, <1>10 DEF ClientOK
<1>12. TokensStay(s, t)
  BY <1>5 DEF TokensStay
<1>13. Evolves(s, t)
  BY <1>0, <1>5, <1>12, EvolvesQuietly DEF SameView
<1> QED BY <1>4, <1>11, <1>13

-----------------------------------------------------------------------------
(***************************************************************************)
(* The server.                                                             *)
(***************************************************************************)
Replied(s, e, w, u) == [s EXCEPT !.down = Append(@, e), !.watched = w, !.up = u]

LEMMA RepliedFields ==
  ASSUME NEW s \in Client, NEW e \in Responses, NEW w \in Watches, NEW u \in Seq(Requests),
         NEW t, t = Replied(s, e, w, u)
  PROVE  /\ t \in Client /\ SameStream(s, t) /\ SameTracker(s, t) /\ SameView(s, t)
         /\ SameEvents(s, t) /\ t.enabled = s.enabled /\ t.kept = s.kept
         /\ t.listens = s.listens /\ t.agg = s.agg
         /\ t.down = Append(s.down, e) /\ t.watched = w /\ t.up = u
<1> DEFINE d == Append(s.down, e)
<1>1. d \in Seq(Responses)
  BY ClientSeqs, AppendProperties
<1>2. t = [s EXCEPT !.down = d, !.watched = w, !.up = u]
  BY DEF Replied
<1> HIDE DEF d
<1>3. t \in Client /\ t.down = d /\ t.watched = w /\ t.up = u
  BY <1>1, <1>2, ZenonT(60) DEF Client
<1>4. /\ SameStream(s, t) /\ SameTracker(s, t) /\ SameView(s, t)
      /\ SameEvents(s, t) /\ t.enabled = s.enabled /\ t.kept = s.kept
      /\ t.listens = s.listens /\ t.agg = s.agg
  BY <1>2 DEF Client, SameStream, SameTracker, SameView, SameEvents
<1> QED BY <1>3, <1>4 DEF d

LEMMA RepliedOK ==
  ASSUME NEW s, NEW refused, ClientOK(s, refused), NEW e \in Responses, NEW w \in Watches,
         NEW u \in Seq(Requests), NEW t, t = Replied(s, e, w, u), s.state = "Open",
         RequestsOK(t), e.listen <= s.listens,
         refused => e.kind # "Current" /\ w.phase = "none",
         ~refused => /\ e.kind # "Denied" /\ Len(s.up) = Len(u) + (IF IsAnswer(e) THEN 1 ELSE 0)
                     /\ e.kind = "Current" => e.listen = s.listens \/ Len(u) > 0
  PROVE  ClientOK(t, refused) /\ Evolves(s, t)
<1>0. s \in Client /\ StreamOK(s) /\ OnlineOK(s) /\ ListenersOK(s) /\ RequestsOK(s)
      /\ ResponsesOK(s, refused) /\ CurrentOK(s) /\ EventsOK(s) /\ s.enabled
  BY DEF ClientOK
<1>1. /\ t \in Client /\ SameStream(s, t) /\ SameTracker(s, t) /\ SameView(s, t)
      /\ SameEvents(s, t) /\ t.enabled = s.enabled /\ t.kept = s.kept
      /\ t.listens = s.listens /\ t.agg = s.agg
      /\ t.down = Append(s.down, e) /\ t.watched = w /\ t.up = u
  <2>1. s \in Client /\ e \in Responses /\ w \in Watches /\ u \in Seq(Requests) /\ t = Replied(s, e, w, u)
    BY <1>0
  <2> QED BY ONLY <2>1, RepliedFields
<1>2. StreamOK(t)
  BY <1>0, <1>1 DEF StreamOK, SameStream, SameView, IsStarted
<1>3. OnlineOK(t)
  <2>1. IsStarted(s) => IsStarted(t)
    BY <1>1 DEF IsStarted, SameStream
  <2> QED BY <1>0, <1>1, <2>1, TrackerKept
<1>4. ListenersOK(t)
  BY <1>0, <1>1, ViewKept DEF SameEvents
<1>5. ResponsesOK(t, refused)
  BY <1>0, <1>1, ResponseSent
<1>6. CurrentOK(t)
  <2>1. s.listens \in Nat /\ t.view.current = s.view.current
    BY <1>0, <1>1 DEF Client, SameView
  <2> QED BY <1>0, <1>1, <2>1, CurrentKept
<1>7. EventsOK(t)
  BY <1>0, <1>1, EventsKept DEF SameView
<1>8. ClientOK(t, refused)
  BY <1>0, <1>1, <1>2, <1>3, <1>4, <1>5, <1>6, <1>7 DEF ClientOK
<1>9. Evolves(s, t)
  BY <1>0, <1>1, SameStreamTokens, EvolvesQuietly DEF SameView
<1> QED BY <1>8, <1>9

\* What the server says about the target it watches.
LEMMA ReportOK ==
  ASSUME NEW s, NEW refused, ClientOK(s, refused), NEW kind \in {"Current", "Reset", "Snapshot"},
         NEW w \in Watches, w.listen = s.watched.listen, s.watched.phase # "none",
         NEW t, t = [s EXCEPT !.down = Append(@, [kind |-> kind, listen |-> s.watched.listen]),
                              !.watched = w]
  PROVE  ClientOK(t, refused) /\ Evolves(s, t)
<1> DEFINE e == [kind |-> kind, listen |-> s.watched.listen]
<1>0. s \in Client /\ StreamOK(s) /\ RequestsOK(s) /\ ResponsesOK(s, refused)
  BY DEF ClientOK
<1>1. s.watched \in Watches /\ s.up \in Seq(Requests)
  BY <1>0, ClientSeqs DEF Client
<1>2. s.watched.listen \in Nat
  BY <1>1 DEF Watches
<1>3. e \in Responses /\ e.kind = kind /\ e.listen = s.watched.listen /\ ~IsAnswer(e)
  BY <1>2 DEF Responses, IsAnswer
<1>4. t = Replied(s, e, w, s.up)
  <2>1. [s EXCEPT !.down = Append(s.down, e), !.watched = w, !.up = s.up]
          = [s EXCEPT !.down = Append(s.down, e), !.watched = w]
    BY <1>0 DEF Client
  <2> QED BY <2>1 DEF Replied
<1> HIDE DEF e
<1>5. s.state = "Open"
  BY <1>0 DEF StreamOK, Unwatched
<1>6. /\ s.watched.listen <= s.listens /\ (s.watched.listen = s.listens \/ s.up # << >>)
  BY <1>0 DEF RequestsOK
<1>7. ~refused
  BY <1>0 DEF ResponsesOK
<1>8. RequestsOK(t)
  <2>1. t.up = s.up /\ t.watched = w /\ t.listens = s.listens
    BY <1>0, <1>1, <1>3, <1>4, RepliedFields
  <2> QED BY <1>0, <1>6, <2>1 DEF RequestsOK
<1>9. Len(s.up) = Len(s.up) + (IF IsAnswer(e) THEN 1 ELSE 0)
  BY <1>0, <1>3, ClientSeqs
<1>10. e.listen = s.listens \/ Len(s.up) > 0
  <2>1. s.up # << >> => Len(s.up) > 0
    BY <1>1, EmptySeq, LenProperties
  <2> QED BY <1>3, <1>6, <2>1
<1>11. e.kind # "Denied" /\ e.listen <= s.listens
  BY <1>3, <1>6
<1> QED BY <1>1, <1>3, <1>4, <1>5, <1>7, <1>8, <1>9, <1>10, <1>11, RepliedOK

\* The server's answer to the oldest request.
\* The server answers the oldest request with a response of some kind and then
\* watches w.
Answered(s, kind, w) ==
  [s EXCEPT !.down = Append(@, [kind |-> kind, listen |-> Head(s.up).listen]),
            !.watched = w, !.up = Tail(@)]

\* The three responses that ServerProcesses can give.
Reply(s, kind, w, refused) ==
  \/ kind = "Removed" /\ w = Unwatched
  \/ kind = "Denied" /\ w = Unwatched /\ refused
  \/ kind = "Added" /\ ~refused /\ w = [listen |-> Head(s.up).listen, phase |-> "added"]

LEMMA ProcessesOK ==
  ASSUME NEW s, NEW refused, ClientOK(s, refused), s.up # << >>,
         NEW kind, NEW w, NEW t, t = Answered(s, kind, w), Reply(s, kind, w, refused)
  PROVE  ClientOK(t, refused) /\ Evolves(s, t)
<1> DEFINE r == Head(s.up)
           e == [kind |-> kind, listen |-> r.listen]
           u == Tail(s.up)
           n == Len(s.up)
<1>0. s \in Client /\ StreamOK(s) /\ RequestsOK(s) /\ ResponsesOK(s, refused)
  BY DEF ClientOK
<1>1. /\ n \in Nat \ {0} /\ r = s.up[1] /\ r \in Requests /\ u \in Seq(Requests)
      /\ Len(u) = n - 1 /\ \A k \in 1..(n - 1) : u[k] = s.up[k + 1]
  <2>1. s.up \in Seq(Requests)
    BY <1>0, ClientSeqs
  <2> DEFINE a == s.up
  <2>2. a \in Seq(Requests) /\ a # << >>
    BY <2>1
  <2> HIDE DEF a
  <2>3. /\ Len(a) \in Nat \ {0} /\ Head(a) = a[1] /\ Head(a) \in Requests
        /\ Tail(a) \in Seq(Requests) /\ Len(Tail(a)) = Len(a) - 1
        /\ \A k \in 1..(Len(a) - 1) : Tail(a)[k] = a[k + 1]
    BY <2>2, TailParts
  <2> QED BY <2>3 DEF a
<1>2. r.listen \in Nat /\ s.listens \in Nat
  BY <1>0, <1>1 DEF Requests, Client
<1>3. w \in Watches /\ e \in Responses /\ e.kind = kind /\ e.listen = r.listen
  BY <1>2 DEF Reply, Watches, Phases, Unwatched, Responses
<1>4. t = Replied(s, e, w, u)
  BY <1>0 DEF Answered, Replied, Client
<1>r. \/ kind = "Removed" /\ w = Unwatched
      \/ kind = "Denied" /\ w = Unwatched /\ refused
      \/ kind = "Added" /\ ~refused /\ w = [listen |-> r.listen, phase |-> "added"]
  BY DEF Reply
<1> HIDE DEF r, e, u, n
<1>5. s.state = "Open"
  BY <1>0 DEF StreamOK
<1>6. \A k \in 1..n : s.up[k].listen <= s.listens
  BY <1>0 DEF RequestsOK, n
<1>7. s.up[n].listen = s.listens
  BY <1>0 DEF RequestsOK, n
<1>8. r.listen <= s.listens /\ (r.listen = s.listens \/ u # << >>)
  <2>1. 1 \in 1..n
    BY <1>1
  <2>2. CASE n = 1
    BY <1>1, <1>2, <1>7, <2>2
  <2>3. CASE n # 1
    <3>1. Len(u) # 0
      BY <1>1, <2>3
    <3>2. u # << >>
      BY <3>1
    <3> QED BY <1>1, <1>6, <2>1, <3>2
  <2> QED BY <2>2, <2>3
<1>9. RequestsOK(t)
  <2>1. t.up = u /\ t.watched = w /\ t.listens = s.listens
    <3>1. s \in Client /\ e \in Responses /\ w \in Watches /\ u \in Seq(Requests)
      BY <1>0, <1>1, <1>3
    <3> QED BY ONLY <1>4, <3>1, RepliedFields
  <2>2. ASSUME NEW k \in 1..Len(u) PROVE u[k].listen <= s.listens
    <3>1. k \in 1..(n - 1) /\ k + 1 \in 1..n
      BY <1>1
    <3> QED BY <1>1, <1>6, <3>1
  <2>3. ASSUME u # << >> PROVE u[Len(u)].listen = s.listens
    <3>1. Len(u) # 0
      BY <1>1, <2>3, EmptySeq
    <3>2. Len(u) \in 1..(n - 1) /\ Len(u) + 1 = n
      BY <1>1, <3>1
    <3> QED BY <1>1, <1>7, <3>2
  <2>4. w.phase # "none" => w.listen <= s.listens /\ (w.listen = s.listens \/ u # << >>)
    BY <1>8, <1>r DEF Unwatched, r
  <2> QED BY <2>1, <2>2, <2>3, <2>4 DEF RequestsOK
<1>10. e.kind # "Current" /\ (refused => w.phase = "none")
  BY <1>3, <1>r DEF Unwatched
<1>11. ~refused => e.kind # "Denied" /\ IsAnswer(e)
  BY <1>3, <1>r DEF IsAnswer
<1>12. ~refused => Len(s.up) = Len(u) + (IF IsAnswer(e) THEN 1 ELSE 0)
  BY <1>1, <1>11 DEF n
<1>13. e.listen <= s.listens
  BY <1>3, <1>8
<1> QED BY <1>1, <1>3, <1>4, <1>5, <1>9, <1>10, <1>11, <1>12, <1>13, RepliedOK

-----------------------------------------------------------------------------
(***************************************************************************)
(* What the client makes of a response.                                    *)
(***************************************************************************)
LEMMA ApplyChangesIs ==
  ASSUME NEW s \in Client, ListenersOK(s), s.view.on, NEW current \in Nat, NEW changed
  PROVE  \E o, r, sn :
           /\ ApplyChanges(s, current, changed) =
                [s EXCEPT !.view = [on |-> TRUE, current |-> current],
                          !.out = o, !.raised = r, !.snap = sn]
           /\ Posted(s, o, r) /\ CacheOnly(s, o, s.em_online)
           /\ sn \in Snapshots \cup {NoSnapshot}
           /\ sn = "server" => ToSet(s.listeners) \subseteq r
<1> DEFINE v == [on |-> TRUE, current |-> current]
           t == [s EXCEPT !.view = v]
<1>1. v \in Views
  BY DEF Views
<1>2. SyncState(v) \in Snapshots
  BY DEF SyncState, Snapshots
<1>3. s.listeners # << >>
  BY DEF ListenersOK
<1> HIDE DEF v
<1>4. /\ t \in Client /\ t.listeners = s.listeners /\ t.em_online = s.em_online
      /\ t.out = s.out /\ t.raised = s.raised /\ t.snap = s.snap /\ t.view = v
  BY <1>1 DEF Client
<1> HIDE DEF t
<1>5. CASE changed \/ SyncState(v) # SyncState(s.view)
  <2>1. ApplyChanges(s, current, changed) = OnViewSnapshots(t, SyncState(v))
    BY <1>5 DEF ApplyChanges, v, t
  <2>2. PICK o, r :
           /\ OnViewSnapshots(t, SyncState(v)) = [t EXCEPT !.out = o, !.raised = r, !.snap = SyncState(v)]
           /\ Posted(t, o, r) /\ CacheOnly(t, o, t.em_online)
           /\ SyncState(v) = "server" => ToSet(t.listeners) \subseteq r
    BY <1>2, <1>3, <1>4, OnViewSnapshotsIs
  <2>3. Posted(s, o, r) /\ CacheOnly(s, o, s.em_online)
    BY <1>4, <2>2 DEF Posted, CacheOnly
  <2>4. ApplyChanges(s, current, changed) = [s EXCEPT !.view = v, !.out = o, !.raised = r, !.snap = SyncState(v)]
    BY <2>1, <2>2 DEF t
  <2>5. SyncState(v) = "server" => ToSet(s.listeners) \subseteq r
    BY <1>4, <2>2
  <2>6. SyncState(v) \in Snapshots \cup {NoSnapshot}
    BY <1>2
  <2> QED BY ONLY <2>3, <2>4, <2>5, <2>6 DEF v
<1>6. CASE ~(changed \/ SyncState(v) # SyncState(s.view))
  <2>1. ApplyChanges(s, current, changed) = t
    BY <1>6 DEF ApplyChanges, v, t
  <2>2. ApplyChanges(s, current, changed) = [s EXCEPT !.view = v, !.out = s.out, !.raised = s.raised, !.snap = s.snap]
    BY <2>1 DEF t, Client
  <2>3. Posted(s, s.out, s.raised) /\ CacheOnly(s, s.out, s.em_online)
    BY NothingPosted
  <2>4. s.snap = "server" => ToSet(s.listeners) \subseteq s.raised
    BY DEF ListenersOK
  <2>5. s.snap \in Snapshots \cup {NoSnapshot}
    BY DEF Client
  <2> QED BY ONLY <2>2, <2>3, <2>4, <2>5 DEF v
<1> QED BY <1>5, <1>6

\* New documents or a new sync state of the view.
LEMMA AppliedOK ==
  ASSUME NEW s \in Client, ListenersOK(s), EventsOK(s), s.view.on, NEW current \in Nat, NEW changed,
         NEW t, t = ApplyChanges(s, current, changed), s.online = s.em_online
  PROVE  /\ t \in Client /\ SameStream(s, t) /\ SameWire(s, t) /\ SameTracker(s, t)
         /\ ListenersOK(t) /\ EventsOK(t) /\ NewEvents(s, t.out) /\ CacheOnly(s, t.out, t.online)
         /\ t.view.current = current /\ t.listeners = s.listeners /\ t.target = s.target
         /\ t.kept = s.kept /\ t.enabled = s.enabled
<1> DEFINE v == [on |-> TRUE, current |-> current]
<1>1. PICK o, r, sn :
           /\ ApplyChanges(s, current, changed) =
                [s EXCEPT !.view = v, !.out = o, !.raised = r, !.snap = sn]
           /\ Posted(s, o, r) /\ CacheOnly(s, o, s.em_online)
           /\ sn \in Snapshots \cup {NoSnapshot}
           /\ sn = "server" => ToSet(s.listeners) \subseteq r
  BY ApplyChangesIs
<1>2. v \in Views /\ v.on = TRUE /\ v.current = current
  BY DEF Views
<1>3. o \in Seq(Event) /\ r \in SUBSET Gets
  BY <1>1 DEF Posted
<1> HIDE DEF v
<1>4. t = [s EXCEPT !.view = v, !.out = o, !.raised = r, !.snap = sn]
  BY <1>1
<1>5. t \in Client
  <2>1. s \in Client /\ v \in Views /\ o \in Seq(Event) /\ r \in SUBSET Gets
        /\ sn \in Snapshots \cup {NoSnapshot}
    BY <1>1, <1>2, <1>3
  <2> QED BY ONLY <1>4, <2>1 DEF Client
<1>6. t.view = v /\ t.out = o /\ t.raised = r /\ t.snap = sn
  BY <1>4 DEF Client
<1>7. /\ SameStream(s, t) /\ SameWire(s, t) /\ SameTracker(s, t)
      /\ t.listeners = s.listeners /\ t.target = s.target /\ t.kept = s.kept /\ t.enabled = s.enabled
  BY <1>4 DEF Client, SameStream, SameWire, SameTracker
<1>8. ListenersOK(t)
  <2>1. s.target = TRUE /\ s.listeners # << >>
    BY DEF ListenersOK
  <2>2. \A i, j \in 1..Len(t.listeners) : t.listeners[i] = t.listeners[j] => i = j
    BY <1>7 DEF ListenersOK
  <2>3. t.snap = "server" => ToSet(t.listeners) \subseteq t.raised
    BY <1>1, <1>6, <1>7
  <2>4. t.target = TRUE /\ t.view.on = TRUE /\ t.listeners # << >>
    BY <1>2, <1>6, <1>7, <2>1
  <2> QED BY ONLY <2>2, <2>3, <2>4 DEF ListenersOK
<1>9. EventsOK(t)
  BY <1>1, <1>5, <1>6, <1>7, EventsPosted
<1>10. NewEvents(s, t.out) /\ CacheOnly(s, t.out, t.online)
  BY <1>1, <1>6, <1>7 DEF NewEvents, Posted, SameTracker
<1> QED BY <1>2, <1>5, <1>6, <1>7, <1>8, <1>9, <1>10

LEMMA LocalChangeOK ==
  ASSUME NEW s, NEW refused, ClientOK(s, refused), s.view.on
  PROVE  LET t == ApplyChanges(s, s.view.current, TRUE)
         IN  ClientOK(t, refused) /\ Evolves(s, t)
<1> DEFINE t == ApplyChanges(s, s.view.current, TRUE)
<1>0. s \in Client /\ StreamOK(s) /\ OnlineOK(s) /\ ListenersOK(s) /\ RequestsOK(s)
      /\ ResponsesOK(s, refused) /\ CurrentOK(s) /\ EventsOK(s) /\ s.enabled
  BY DEF ClientOK
<1>1. s.view.current \in Nat /\ s.online = s.em_online /\ s.listens \in Nat
  <2>1. s.view \in Views
    BY <1>0 DEF Client
  <2> QED BY <1>0, <2>1 DEF Views, OnlineOK, Client
<1>2. /\ t \in Client /\ SameStream(s, t) /\ SameWire(s, t) /\ SameTracker(s, t)
      /\ ListenersOK(t) /\ EventsOK(t) /\ NewEvents(s, t.out) /\ CacheOnly(s, t.out, t.online)
      /\ t.view.current = s.view.current /\ t.listeners = s.listeners /\ t.target = s.target
      /\ t.kept = s.kept /\ t.enabled = s.enabled
  BY <1>0, <1>1, AppliedOK
<1> HIDE DEF t
<1>3. StreamOK(t)
  BY <1>0, <1>2, StreamKept
<1>4. OnlineOK(t)
  <2>1. IsStarted(s) => IsStarted(t)
    BY <1>2 DEF IsStarted, SameStream
  <2> QED BY <1>0, <1>2, <2>1, TrackerKept
<1>5. RequestsOK(t) /\ ResponsesOK(t, refused)
  BY <1>0, <1>2, WireKept
<1>6. CurrentOK(t)
  <2>1. t.listens = s.listens /\ t.agg.current = s.agg.current
    BY <1>2 DEF SameWire
  <2> QED BY <1>0, <1>1, <1>2, <2>1, CurrentKept
<1>7. ClientOK(t, refused)
  BY <1>0, <1>2, <1>3, <1>4, <1>5, <1>6 DEF ClientOK
<1>8. Evolves(s, t)
  <2>1. t.listens = s.listens /\ t.listeners \in Seq(ToSet(s.listeners))
    BY <1>0, <1>2, ClientSeqs DEF SameWire
  <2> QED BY <1>2, <2>1, SameStreamTokens DEF Evolves
<1> QED BY <1>7, <1>8 DEF t

\* A message was taken, which means being online.
Received(s) == Settled([s EXCEPT !.down = Tail(@)], "Online")

LEMMA ReceivedFields ==
  ASSUME NEW s \in Client, s.down # << >>, NEW t, t = Received(s)
  PROVE  /\ t \in Client /\ SameStream(s, t) /\ SameView(s, t) /\ SameEvents(s, t)
         /\ t.kept = s.kept /\ t.enabled = s.enabled /\ t.up = s.up /\ t.down = Tail(s.down)
         /\ t.watched = s.watched /\ t.agg = s.agg /\ t.listens = s.listens
         /\ t.online = "Online" /\ t.em_online = "Online" /\ t.failures = 0 /\ t.online_timer = FALSE
<1> DEFINE d == Tail(s.down)
<1>1. d \in Seq(Responses)
  <2>1. s.down \in Seq(Responses)
    BY ClientSeqs
  <2> QED BY <2>1, TailParts
<1>2. 0 \in Failures
  BY BoundsAssumption DEF Failures
<1>3. t = [s EXCEPT !.down = d, !.failures = 0, !.online_timer = FALSE, !.online = "Online",
                    !.em_online = "Online"]
  BY DEF Received, Settled
<1> HIDE DEF d
<1>4. t \in Client /\ t.down = d
  <2>1. "Online" \in Online
    BY DEF Online
  <2>2. s \in Client
    OBVIOUS
  <2> QED BY ONLY <1>1, <1>2, <1>3, <2>1, <2>2 DEF Client
<1>5. /\ SameStream(s, t) /\ SameView(s, t) /\ SameEvents(s, t)
      /\ t.kept = s.kept /\ t.enabled = s.enabled /\ t.up = s.up
      /\ t.watched = s.watched /\ t.agg = s.agg /\ t.listens = s.listens
      /\ t.online = "Online" /\ t.em_online = "Online" /\ t.failures = 0 /\ t.online_timer = FALSE
  BY <1>3 DEF Client, SameStream, SameView, SameEvents
<1> QED BY <1>4, <1>5 DEF d

LEMMA ChangeIs ==
  ASSUME NEW s, NEW refused, ClientOK(s, refused), s.down # << >>, NEW r, NEW changed, NEW token
  PROVE  OnWatchStreamChange(s, r, changed, token) =
           IF r.kind = "Denied" THEN ProcessTargetError(Received(s))
           ELSE IF r.kind = "Snapshot"
           THEN RaiseWatchSnapshot(HandleTargetChange(Received(s), r, token), changed)
           ELSE HandleTargetChange(Received(s), r, token)
<1>0. s \in Client /\ StreamOK(s) /\ OnlineOK(s) /\ ListenersOK(s)
  BY DEF ClientOK
<1>1. IsStarted(s)
  BY <1>0 DEF StreamOK, IsStarted
<1>2. HARD_ASSERT(s, IsStarted(s)) = s
  BY <1>0, <1>1, AssertHolds
<1> DEFINE t == [s EXCEPT !.down = Tail(s.down)]
<1>3. Tail(s.down) \in Seq(Responses)
  <2>1. s.down \in Seq(Responses)
    BY <1>0, ClientSeqs
  <2> QED BY <2>1, TailParts
<1>4. t \in Client /\ t.em_online = s.em_online /\ t.online = s.online /\ t.snap = s.snap
      /\ t.listeners = s.listeners /\ t.raised = s.raised
  BY <1>0, <1>3 DEF Client
<1>5. t.em_online = t.online /\ SnapOK(t)
  BY <1>0, <1>4 DEF SnapOK, ListenersOK, OnlineOK
<1>6. [HARD_ASSERT(s, IsStarted(s)) EXCEPT !.down = Tail(@)] = t
  BY <1>2
<1> HIDE DEF t
<1>7. UpdateState(t, "Online") = Settled(t, "Online")
  BY <1>4, <1>5, UpdateStateIs
<1>8. UpdateState([HARD_ASSERT(s, IsStarted(s)) EXCEPT !.down = Tail(@)], "Online") = Received(s)
  BY <1>6, <1>7 DEF Received, t
<1> QED BY <1>8, ThenIs DEF OnWatchStreamChange

\* What holds whatever the message was.
LEMMA ReceivedParts ==
  ASSUME NEW s, NEW refused, ClientOK(s, refused), s.down # << >>, NEW t \in Client,
         SameStream(s, t), t.target => s.target, t.up = s.up, t.down = Tail(s.down),
         t.watched = s.watched, t.listens = s.listens,
         t.online = "Online" /\ t.em_online = "Online" /\ t.failures = 0 /\ t.online_timer = FALSE,
         ~refused => /\ ~t.agg.known => t.agg.outstanding = 0
                     /\ s.agg.outstanding = t.agg.outstanding + (IF IsAnswer(Head(s.down)) THEN 1 ELSE 0)
  PROVE  StreamOK(t) /\ OnlineOK(t) /\ RequestsOK(t) /\ ResponsesOK(t, refused) /\ TokensStay(s, t)
<1>0. s \in Client /\ StreamOK(s) /\ RequestsOK(s) /\ ResponsesOK(s, refused)
  BY DEF ClientOK
<1>1. s.state = "Open"
  BY <1>0 DEF StreamOK
<1>2. StreamOK(t)
  <2>1. StreamOK(s) /\ s.state = "Open" /\ SameStream(s, t) /\ (t.target => s.target)
    BY <1>0, <1>1
  <2> QED BY ONLY <2>1 DEF StreamOK, SameStream, IsStarted
<1>3. OnlineOK(t)
  BY DEF OnlineOK
<1>4. RequestsOK(t) /\ ResponsesOK(t, refused)
  BY <1>0, ResponseReceived
<1> QED BY <1>2, <1>3, <1>4, SameStreamTokens

\* A message about the target.
LEMMA TargetChangeIs ==
  ASSUME NEW q \in Client, NEW r \in Responses, r.kind # "Denied", NEW token \in BOOLEAN
  PROVE  \E a \in TargetStates :
           /\ HandleTargetChange(q, r, token) = [q EXCEPT !.agg = a]
           /\ q.agg.known \/ q.agg.outstanding = 0 =>
                q.agg.outstanding = a.outstanding + (IF IsAnswer(r) THEN 1 ELSE 0)
           /\ IF r.kind = "Snapshot" THEN a.known = q.agg.known /\ a.current = q.agg.current
              ELSE ~a.known => a.outstanding = 0
           /\ \/ a.current \in {q.agg.current, 0}
              \/ r.kind = "Current" /\ IsActiveTarget(q) /\ a.current = r.listen
<1> DEFINE b == q.agg
           n == b.outstanding - 1
           a0 == [b EXCEPT !.known = TRUE]
           a1 == [b EXCEPT !.known = TRUE, !.outstanding = n]
           a2 == [b EXCEPT !.known = TRUE, !.outstanding = n, !.changed = FALSE]
           a3 == [b EXCEPT !.known = TRUE, !.current = r.listen, !.changed = TRUE]
           a4 == [NewTargetState EXCEPT !.known = TRUE]
<1>1. b \in TargetStates
  BY DEF Client
<1>2. b.outstanding \in Int /\ n \in Int /\ b.outstanding = n + 1 /\ r.listen \in Nat
  BY <1>1 DEF TargetStates, Responses
<1> HIDE DEF n
<1> HIDE DEF b
<1>3. a0 \in TargetStates /\ a0.known = TRUE /\ a0.outstanding = b.outstanding /\ a0.current = b.current
  BY <1>1 DEF TargetStates
<1>4. a1 \in TargetStates /\ a1.known = TRUE /\ a1.outstanding = n /\ a1.current = b.current
  BY <1>1, <1>2 DEF TargetStates
<1>5. a2 \in TargetStates /\ a2.known = TRUE /\ a2.outstanding = n /\ a2.current = b.current
  BY <1>1, <1>2 DEF TargetStates
<1>6. a3 \in TargetStates /\ a3.known = TRUE /\ a3.outstanding = b.outstanding /\ a3.current = r.listen
  BY <1>1, <1>2 DEF TargetStates
<1>7. NewTargetState \in TargetStates /\ NewTargetState.outstanding = 0 /\ NewTargetState.current = 0
  BY DEF NewTargetState, TargetStates
<1>8. [a0 EXCEPT !.outstanding = a0.outstanding - 1] = a1
  BY <1>3 DEF n
<1>9. [a1 EXCEPT !.changed = FALSE] = a2
  OBVIOUS
<1>10. [a0 EXCEPT !.current = r.listen, !.changed = TRUE] = a3
  OBVIOUS
<1>t. a4 \in TargetStates /\ a4.known = TRUE /\ a4.outstanding = 0 /\ a4.current = 0
  BY <1>7 DEF TargetStates
<1>u. ASSUME NEW c \in TargetStates
      PROVE  LET d == UpdateResumeToken(c, token)
             IN  /\ d \in TargetStates /\ d.known = c.known /\ d.outstanding = c.outstanding
                 /\ d.current = c.current
  BY DEF UpdateResumeToken, TargetStates
<1>11. CASE r.kind = "Added"
  <2> DEFINE c == IF a1.outstanding = 0 THEN a2 ELSE a1
             d == UpdateResumeToken(c, token)
  <2>1. HandleTargetChange(q, r, token) = [q EXCEPT !.agg = d]
    BY <1>8, <1>9, <1>11 DEF HandleTargetChange, b
  <2>2. IsAnswer(r)
    BY <1>11 DEF IsAnswer
  <2> HIDE DEF a0, a1, a2, a3
  <2>3. c \in TargetStates /\ c.known = TRUE /\ c.outstanding = n /\ c.current = b.current
    BY <1>4, <1>5
  <2> HIDE DEF c
  <2>4. d \in TargetStates /\ d.known = TRUE /\ d.outstanding = n /\ d.current = b.current
    BY <1>u, <2>3
  <2> HIDE DEF d
  <2> QED BY <1>2, <1>11, <2>1, <2>2, <2>4 DEF b
<1>12. CASE r.kind = "Removed"
  <2>1. HandleTargetChange(q, r, token) = [q EXCEPT !.agg = IF a1.outstanding = 0 THEN NewTargetState ELSE a1]
    BY <1>8, <1>12 DEF HandleTargetChange, b
  <2>2. IsAnswer(r)
    BY <1>12 DEF IsAnswer
  <2> HIDE DEF a0, a1, a2, a3
  <2>3. CASE n = 0
    <3>1. HandleTargetChange(q, r, token) = [q EXCEPT !.agg = NewTargetState]
      BY <1>4, <2>1, <2>3
    <3> QED BY <1>2, <1>7, <1>12, <2>2, <2>3, <3>1 DEF b
  <2>4. CASE n # 0
    <3>1. HandleTargetChange(q, r, token) = [q EXCEPT !.agg = a1]
      BY <1>4, <2>1, <2>4
    <3> QED BY <1>2, <1>4, <1>12, <2>2, <3>1 DEF b
  <2> QED BY <2>3, <2>4
<1>13. CASE r.kind = "Current"
  <2>1. HandleTargetChange(q, r, token) = [q EXCEPT !.agg = IF IsActiveTarget(q) THEN a3 ELSE a0]
    BY <1>10, <1>13 DEF HandleTargetChange, b
  <2>2. ~IsAnswer(r)
    BY <1>13 DEF IsAnswer
  <2> HIDE DEF a0, a1, a2, a3
  <2>3. CASE IsActiveTarget(q)
    <3>1. HandleTargetChange(q, r, token) = [q EXCEPT !.agg = a3]
      BY <2>1, <2>3
    <3> QED BY <1>2, <1>6, <1>13, <2>2, <2>3, <3>1 DEF b
  <2>4. CASE ~IsActiveTarget(q)
    <3>1. HandleTargetChange(q, r, token) = [q EXCEPT !.agg = a0]
      BY <2>1, <2>4
    <3> QED BY <1>2, <1>3, <1>13, <2>2, <3>1, SMTT(30) DEF b
  <2> QED BY <2>3, <2>4
<1>14. CASE r.kind = "Reset"
  <2>1. HandleTargetChange(q, r, token) = [q EXCEPT !.agg = IF IsActiveTarget(q) THEN a4 ELSE a0]
    BY <1>14 DEF HandleTargetChange, b
  <2>2. ~IsAnswer(r)
    BY <1>14 DEF IsAnswer
  <2> HIDE DEF a0, a4
  <2>3. CASE IsActiveTarget(q)
    <3>1. HandleTargetChange(q, r, token) = [q EXCEPT !.agg = a4]
      BY <2>1, <2>3
    <3>2. ~(b.known /\ b.outstanding # 0)
      BY <2>3 DEF IsActiveTarget, b
    <3>3. b.known \/ b.outstanding = 0 => b.outstanding = 0
      BY <3>2
    <3> QED BY <1>2, <1>t, <1>14, <2>2, <3>1, <3>3 DEF b
  <2>4. CASE ~IsActiveTarget(q)
    <3>1. HandleTargetChange(q, r, token) = [q EXCEPT !.agg = a0]
      BY <2>1, <2>4
    <3> QED BY <1>2, <1>3, <1>14, <2>2, <3>1, SMTT(30) DEF b
  <2> QED BY <2>3, <2>4
<1>15. CASE r.kind = "Snapshot"
  <2> DEFINE d == UpdateResumeToken(b, token)
  <2>1. HandleTargetChange(q, r, token) = [q EXCEPT !.agg = IF IsActiveTarget(q) /\ b.known THEN d ELSE b]
    BY <1>15 DEF HandleTargetChange, b
  <2>2. ~IsAnswer(r)
    BY <1>15 DEF IsAnswer
  <2>3. d \in TargetStates /\ d.known = b.known /\ d.outstanding = b.outstanding /\ d.current = b.current
    BY <1>1, <1>u
  <2> HIDE DEF a0, a1, a2, a3, a4, d
  <2>4. CASE IsActiveTarget(q) /\ b.known
    <3>1. HandleTargetChange(q, r, token) = [q EXCEPT !.agg = d]
      BY <2>1, <2>4
    <3>2. q.agg.outstanding = d.outstanding + (IF IsAnswer(r) THEN 1 ELSE 0)
      BY <1>2, <2>2, <2>3 DEF b
    <3>3. d \in TargetStates /\ d.known = q.agg.known /\ d.current = q.agg.current
      BY <2>3 DEF b
    <3> QED BY <1>15, <3>1, <3>2, <3>3
  <2>5. CASE ~(IsActiveTarget(q) /\ b.known)
    <3>1. HandleTargetChange(q, r, token) = [q EXCEPT !.agg = b]
      BY <2>1, <2>5
    <3>2. q.agg.outstanding = b.outstanding + (IF IsAnswer(r) THEN 1 ELSE 0)
      BY <1>2, <2>2 DEF b
    <3>3. b.known = q.agg.known /\ b.current = q.agg.current
      BY DEF b
    <3> QED BY <1>1, <1>15, <3>1, <3>2, <3>3
  <2> QED BY <2>4, <2>5
<1> QED BY <1>11, <1>12, <1>13, <1>14, <1>15 DEF Responses

LEMMA TargetChangeOK ==
  ASSUME NEW s, NEW refused, ClientOK(s, refused), s.down # << >>,
         Head(s.down).kind \notin {"Denied", "Snapshot"}, NEW token \in BOOLEAN
  PROVE  LET t == HandleTargetChange(Received(s), Head(s.down), token)
         IN  ClientOK(t, refused) /\ Evolves(s, t)
<1> DEFINE q == Received(s)
           r == Head(s.down)
           t == HandleTargetChange(q, r, token)
<1>0. s \in Client /\ StreamOK(s) /\ OnlineOK(s) /\ ListenersOK(s) /\ RequestsOK(s)
      /\ ResponsesOK(s, refused) /\ CurrentOK(s) /\ EventsOK(s) /\ s.enabled
  BY DEF ClientOK
<1>1. r \in Responses
  <2>1. s.down \in Seq(Responses)
    BY <1>0, ClientSeqs
  <2> QED BY <2>1, TailParts
<1>2. /\ q \in Client /\ SameStream(s, q) /\ SameView(s, q) /\ SameEvents(s, q)
      /\ q.kept = s.kept /\ q.enabled = s.enabled /\ q.up = s.up /\ q.down = Tail(s.down)
      /\ q.watched = s.watched /\ q.agg = s.agg /\ q.listens = s.listens
      /\ q.online = "Online" /\ q.em_online = "Online" /\ q.failures = 0 /\ q.online_timer = FALSE
  BY <1>0, ReceivedFields
<1> HIDE DEF q, r
<1>3. PICK a \in TargetStates :
           /\ t = [q EXCEPT !.agg = a]
           /\ q.agg.known \/ q.agg.outstanding = 0 =>
                q.agg.outstanding = a.outstanding + (IF IsAnswer(r) THEN 1 ELSE 0)
           /\ ~a.known => a.outstanding = 0
           /\ \/ a.current \in {q.agg.current, 0}
              \/ r.kind = "Current" /\ IsActiveTarget(q) /\ a.current = r.listen
  <2>1. q \in Client /\ r \in Responses /\ r.kind # "Denied" /\ r.kind # "Snapshot"
    BY <1>1, <1>2 DEF r
  <2>2. \E a \in TargetStates :
           /\ HandleTargetChange(q, r, token) = [q EXCEPT !.agg = a]
           /\ q.agg.known \/ q.agg.outstanding = 0 =>
                q.agg.outstanding = a.outstanding + (IF IsAnswer(r) THEN 1 ELSE 0)
           /\ IF r.kind = "Snapshot" THEN a.known = q.agg.known /\ a.current = q.agg.current
              ELSE ~a.known => a.outstanding = 0
           /\ \/ a.current \in {q.agg.current, 0}
              \/ r.kind = "Current" /\ IsActiveTarget(q) /\ a.current = r.listen
    BY <2>1, TargetChangeIs
  <2> QED BY <2>1, <2>2
<1> HIDE DEF t
<1>4. /\ t \in Client /\ SameStream(q, t) /\ SameView(q, t) /\ SameEvents(q, t) /\ SameTracker(q, t)
      /\ t.kept = q.kept /\ t.enabled = q.enabled /\ t.up = q.up /\ t.down = q.down
      /\ t.watched = q.watched /\ t.listens = q.listens /\ t.agg = a
  BY <1>2, <1>3 DEF Client, SameStream, SameView, SameEvents, SameTracker
<1>5. SameStream(s, t) /\ SameView(s, t) /\ SameEvents(s, t)
  BY <1>2, <1>4 DEF SameStream, SameView, SameEvents
<1>6. StreamOK(t) /\ OnlineOK(t) /\ RequestsOK(t) /\ ResponsesOK(t, refused) /\ TokensStay(s, t)
  <2>1. t.online = "Online" /\ t.em_online = "Online" /\ t.failures = 0 /\ t.online_timer = FALSE
    BY <1>2, <1>4 DEF SameTracker
  <2>2. t.target => s.target
    BY <1>5 DEF SameView
  <2>3. ASSUME ~refused
        PROVE  /\ ~t.agg.known => t.agg.outstanding = 0
               /\ s.agg.outstanding = t.agg.outstanding + (IF IsAnswer(Head(s.down)) THEN 1 ELSE 0)
    <3>1. s.agg.known \/ s.agg.outstanding = 0
      BY <1>0, <2>3 DEF ResponsesOK
    <3> QED BY <1>2, <1>3, <1>4, <3>1 DEF r
  <2>4. t.up = s.up /\ t.down = Tail(s.down) /\ t.watched = s.watched /\ t.listens = s.listens
    BY <1>2, <1>4
  <2> QED BY <1>4, <1>5, <2>1, <2>2, <2>3, <2>4, ReceivedParts
<1>7. ListenersOK(t)
  BY <1>0, <1>5, ViewKept DEF SameEvents
<1>8. EventsOK(t)
  BY <1>0, <1>4, <1>5, EventsKept DEF SameView
<1>9. CurrentOK(t)
  <2>1. s.listens \in Nat /\ t.listens = s.listens /\ t.view.current = s.view.current /\ t.kept = s.kept
    BY <1>0, <1>2, <1>4, <1>5 DEF Client, SameView
  <2>2. a.current \in {s.agg.current, 0, s.listens}
    <3>1. CASE a.current \in {q.agg.current, 0}
      BY <1>2, <3>1
    <3>2. CASE r.kind = "Current" /\ IsActiveTarget(q) /\ a.current = r.listen
      <4>1. ~(s.agg.known /\ s.agg.outstanding # 0)
        BY <1>2, <3>2 DEF IsActiveTarget
      <4>2. Head(s.down).listen = s.listens
        BY <1>0, <3>2, <4>1, OwnReport DEF r
      <4> QED BY <3>2, <4>2 DEF r
    <3> QED BY <1>3, <3>1, <3>2
  <2>3. s.view.current <= s.listens /\ s.agg.current <= s.listens /\ 0 <= s.listens /\ s.listens <= s.listens
    BY <1>0, <2>1 DEF CurrentOK
  <2>4. t.agg.current <= t.listens /\ t.view.current <= t.listens
    BY <1>4, <2>1, <2>2, <2>3
  <2>5. s.kept \/ (s.view.current \in {0, s.listens} /\ s.agg.current \in {0, s.listens})
    BY <1>0 DEF CurrentOK
  <2>6. t.kept \/ (t.view.current \in {0, t.listens} /\ t.agg.current \in {0, t.listens})
    BY <1>4, <2>1, <2>2, <2>5
  <2> QED BY <2>4, <2>6 DEF CurrentOK
<1>10. ClientOK(t, refused)
  BY <1>0, <1>2, <1>4, <1>6, <1>7, <1>8, <1>9 DEF ClientOK
<1>11. Evolves(s, t)
  <2>1. t.listens = s.listens /\ t.listeners = s.listeners
    BY <1>2, <1>4, <1>5 DEF SameView
  <2> QED BY <1>0, <1>4, <1>5, <1>6, <2>1, EvolvesQuietly
<1> QED BY <1>10, <1>11 DEF t, q, r

\* A snapshot the view is told of, or not.
LEMMA WatchSnapshotOK ==
  ASSUME NEW s, NEW refused, ClientOK(s, refused), s.down # << >>,
         Head(s.down).kind = "Snapshot", NEW changed, NEW token \in BOOLEAN
  PROVE  LET t == RaiseWatchSnapshot(HandleTargetChange(Received(s), Head(s.down), token), changed)
         IN  ClientOK(t, refused) /\ Evolves(s, t)
<1> DEFINE r == Head(s.down)
           q == HandleTargetChange(Received(s), r, token)
           t == RaiseWatchSnapshot(q, changed)
           a == [q.agg EXCEPT !.changed = FALSE]
           p == [q EXCEPT !.agg = a]
           applies == IsActiveTarget(q) /\ q.agg.known /\ (q.agg.changed \/ changed)
<1> SUFFICES ClientOK(t, refused) /\ Evolves(s, t)
  OBVIOUS
<1>0. s \in Client /\ StreamOK(s) /\ OnlineOK(s) /\ ListenersOK(s) /\ RequestsOK(s)
      /\ ResponsesOK(s, refused) /\ CurrentOK(s) /\ EventsOK(s) /\ s.enabled
  BY DEF ClientOK
<1>1. ~IsAnswer(Head(s.down))
  BY DEF IsAnswer
<1>4. s.agg \in TargetStates /\ s.agg.outstanding \in Int /\ s.agg.current \in Nat /\ s.listens \in Nat
  <2>1. s.agg \in TargetStates /\ s.listens \in Nat
    BY <1>0 DEF Client
  <2> QED BY <2>1 DEF TargetStates
<1>2. /\ q \in Client /\ SameStream(s, q) /\ SameView(s, q) /\ SameEvents(s, q)
      /\ q.kept = s.kept /\ q.enabled = s.enabled /\ q.up = s.up /\ q.down = Tail(s.down)
      /\ q.watched = s.watched /\ q.listens = s.listens
      /\ q.online = "Online" /\ q.em_online = "Online" /\ q.failures = 0 /\ q.online_timer = FALSE
      /\ q.agg \in TargetStates /\ q.agg.known = s.agg.known /\ q.agg.current = s.agg.current
      /\ ~refused => q.agg.outstanding = s.agg.outstanding
  <2> DEFINE o == Received(s)
  <2>1. /\ o \in Client /\ SameStream(s, o) /\ SameView(s, o) /\ SameEvents(s, o)
        /\ o.kept = s.kept /\ o.enabled = s.enabled /\ o.up = s.up /\ o.down = Tail(s.down)
        /\ o.watched = s.watched /\ o.agg = s.agg /\ o.listens = s.listens
        /\ o.online = "Online" /\ o.em_online = "Online" /\ o.failures = 0 /\ o.online_timer = FALSE
    BY <1>0, ReceivedFields
  <2>2. r \in Responses /\ r.kind = "Snapshot"
    <3>1. s.down \in Seq(Responses)
      BY <1>0, ClientSeqs
    <3> QED BY <3>1, TailParts
  <2> HIDE DEF o, r
  <2>3. PICK a0 \in TargetStates :
           /\ HandleTargetChange(o, r, token) = [o EXCEPT !.agg = a0]
           /\ o.agg.known \/ o.agg.outstanding = 0 =>
                o.agg.outstanding = a0.outstanding + (IF IsAnswer(r) THEN 1 ELSE 0)
           /\ a0.known = o.agg.known /\ a0.current = o.agg.current
    BY <2>1, <2>2, TargetChangeIs
  <2>4. q = [o EXCEPT !.agg = a0]
    BY <2>3 DEF o
  <2> HIDE DEF q
  <2>5. /\ q \in Client /\ SameStream(o, q) /\ SameView(o, q) /\ SameEvents(o, q) /\ SameTracker(o, q)
        /\ q.kept = o.kept /\ q.enabled = o.enabled /\ q.up = o.up /\ q.down = o.down
        /\ q.watched = o.watched /\ q.listens = o.listens /\ q.agg = a0
    BY <2>1, <2>4 DEF Client, SameStream, SameView, SameEvents, SameTracker
  <2>6. SameStream(s, q) /\ SameView(s, q) /\ SameEvents(s, q)
    BY <2>1, <2>5 DEF SameStream, SameView, SameEvents
  <2>7. q.online = "Online" /\ q.em_online = "Online" /\ q.failures = 0 /\ q.online_timer = FALSE
    BY <2>1, <2>5 DEF SameTracker
  <2>8. ASSUME ~refused PROVE a0.outstanding = s.agg.outstanding
    <3>1. s.agg.known \/ s.agg.outstanding = 0
      BY <1>0, <2>8 DEF ResponsesOK
    <3>2. ~IsAnswer(r)
      BY <1>1 DEF r
    <3>3. a0.outstanding \in Int
      BY DEF TargetStates
    <3> QED BY <1>4, <2>1, <2>3, <3>1, <3>2, <3>3
  <2> QED BY <2>1, <2>3, <2>5, <2>6, <2>7, <2>8
<1> HIDE DEF q
<1>3. ListenersOK(q) /\ EventsOK(q)
  <2>1. ListenersOK(q)
    BY <1>0, <1>2, ViewKept DEF SameEvents
  <2>2. EventsOK(q)
    BY <1>0, <1>2, EventsKept DEF SameView
  <2> QED BY <2>1, <2>2
<1>5. /\ a \in TargetStates /\ a.outstanding = q.agg.outstanding /\ a.current = s.agg.current
      /\ a.known = s.agg.known
  <2> DEFINE b == q.agg
  <2>1. b \in TargetStates /\ a = [b EXCEPT !.changed = FALSE]
    BY <1>2
  <2> HIDE DEF b, a
  <2>2. a \in TargetStates /\ a.outstanding = b.outstanding /\ a.current = b.current /\ a.known = b.known
    BY <2>1 DEF TargetStates
  <2> QED BY <1>2, <2>2 DEF b
<1> HIDE DEF a
<1>6. \* the parts that do not depend on whether the view was told
      ASSUME t \in Client, SameStream(q, t), SameTracker(q, t), t.kept = q.kept, t.enabled = q.enabled,
             t.up = q.up, t.down = q.down, t.watched = q.watched, t.listens = q.listens,
             t.agg \in {q.agg, a}, ListenersOK(t), EventsOK(t), NewEvents(s, t.out),
             CacheOnly(s, t.out, t.online), t.view.current \in {q.view.current, q.agg.current},
             t.listeners = q.listeners, t.target = q.target
      PROVE  ClientOK(t, refused) /\ Evolves(s, t)
  <2> HIDE DEF t
  <2>1. SameStream(s, t)
    BY <1>2, <1>6 DEF SameStream
  <2>2. t.target = s.target /\ t.listeners = s.listeners /\ q.view = s.view
    BY <1>2, <1>6 DEF SameView
  <2>3. /\ ~refused => t.agg.outstanding = s.agg.outstanding
        /\ t.agg.current = s.agg.current /\ t.agg.known = s.agg.known
    BY <1>2, <1>5, <1>6
  <2>4. StreamOK(t) /\ OnlineOK(t) /\ RequestsOK(t) /\ ResponsesOK(t, refused) /\ TokensStay(s, t)
    <3>1. t.online = "Online" /\ t.em_online = "Online" /\ t.failures = 0 /\ t.online_timer = FALSE
      BY <1>2, <1>6 DEF SameTracker
    <3>2. ~refused => (~t.agg.known => t.agg.outstanding = 0)
      BY <1>0, <2>3 DEF ResponsesOK
    <3>3. ~refused =>
            s.agg.outstanding = t.agg.outstanding + (IF IsAnswer(Head(s.down)) THEN 1 ELSE 0)
      BY <1>1, <1>4, <2>3
    <3>4. t.up = s.up /\ t.down = Tail(s.down) /\ t.watched = s.watched /\ t.listens = s.listens
      BY <1>2, <1>6
    <3> QED BY <1>6, <2>1, <2>2, <3>1, <3>2, <3>3, <3>4, ReceivedParts
  <2>5. CurrentOK(t)
    <3>1. t.listens = s.listens /\ t.kept = s.kept
      BY <1>2, <1>6
    <3>2. t.view.current \in {s.view.current, s.agg.current}
      BY <1>2, <1>6, <2>2
    <3> QED BY <1>0, <2>3, <3>1, <3>2 DEF CurrentOK
  <2>6. ClientOK(t, refused)
    BY <1>0, <1>2, <1>6, <2>4, <2>5 DEF ClientOK
  <2>7. t.listeners \in Seq(ToSet(s.listeners)) /\ t.listens = s.listens
    BY <1>0, <1>2, <1>6, <2>2, ClientSeqs
  <2>8. Evolves(s, t)
    BY <1>6, <2>4, <2>7 DEF Evolves
  <2> QED BY <2>6, <2>8
<1>7. CASE ~applies
  <2>1. t = q
    BY <1>7 DEF RaiseWatchSnapshot
  <2>2. NewEvents(s, q.out) /\ CacheOnly(s, q.out, q.online)
    BY <1>0, <1>2, SameEventsNew
  <2>3. SameStream(q, q) /\ SameTracker(q, q)
    BY DEF SameStream, SameTracker
  <2> HIDE DEF t
  <2> QED BY <1>2, <1>3, <1>6, <2>1, <2>2, <2>3
<1>8. CASE applies
  <2>1. q.target
    BY <1>8 DEF IsActiveTarget
  <2>2. q.view.on = TRUE
    BY <1>2, <1>3, <2>1 DEF ListenersOK
  <2>3. /\ p \in Client /\ SameStream(q, p) /\ SameView(q, p) /\ SameEvents(q, p) /\ SameTracker(q, p)
        /\ p.kept = q.kept /\ p.enabled = q.enabled /\ p.up = q.up /\ p.down = q.down
        /\ p.watched = q.watched /\ p.listens = q.listens /\ p.agg = a
    BY <1>2, <1>5 DEF Client, SameStream, SameView, SameEvents, SameTracker
  <2>4. t = ApplyChanges(p, q.agg.current, changed)
    <3>1. [q EXCEPT !.agg.changed = FALSE] = p
      BY DEF a
    <3> HIDE DEF p
    <3> QED BY <1>8, <3>1 DEF RaiseWatchSnapshot
  <2> HIDE DEF p, t
  <2>5. ListenersOK(p) /\ EventsOK(p)
    <3>1. ListenersOK(p)
      BY <1>3, <2>3, ViewKept DEF SameEvents
    <3>2. EventsOK(p)
      BY <1>2, <1>3, <2>3, EventsKept DEF SameView
    <3> QED BY <3>1, <3>2
  <2>6. p.view.on /\ p.online = p.em_online /\ q.agg.current \in Nat
    BY <1>2, <1>4, <2>2, <2>3 DEF SameView, SameTracker
  <2>7. /\ t \in Client /\ SameStream(p, t) /\ SameWire(p, t) /\ SameTracker(p, t)
        /\ ListenersOK(t) /\ EventsOK(t) /\ NewEvents(p, t.out) /\ CacheOnly(p, t.out, t.online)
        /\ t.view.current = q.agg.current /\ t.listeners = p.listeners /\ t.target = p.target
        /\ t.kept = p.kept /\ t.enabled = p.enabled
    BY <2>3, <2>4, <2>5, <2>6, AppliedOK
  <2>8. p.out = s.out /\ p.raised = s.raised /\ p.listeners = s.listeners
    BY <1>2, <2>3 DEF SameView, SameEvents
  <2>9. NewEvents(s, t.out) /\ CacheOnly(s, t.out, t.online)
    BY <2>7, <2>8 DEF NewEvents, CacheOnly
  <2>10. SameStream(q, t) /\ SameTracker(q, t)
    BY <2>3, <2>7 DEF SameStream, SameTracker
  <2>11. /\ t.up = q.up /\ t.down = q.down /\ t.watched = q.watched /\ t.listens = q.listens
         /\ t.agg = a /\ t.listeners = q.listeners /\ t.target = q.target
    BY <2>3, <2>7 DEF SameWire, SameView
  <2> QED BY <1>6, <2>3, <2>7, <2>9, <2>10, <2>11
<1> QED BY <1>7, <1>8

\* A refusal: every listener hears of the error, and is no listener any more.
ErrorEvents(s) == [k \in 1..Len(s.listeners) |-> [get |-> s.listeners[k], what |-> "error"]]
Rejected(q) ==
  [q EXCEPT !.target = FALSE, !.agg = NewTargetState, !.view = NoView,
            !.out = q.out \o ErrorEvents(q), !.listeners = << >>, !.snap = NoSnapshot]

LEMMA RejectedIs ==
  ASSUME NEW q \in Client, q.target
  PROVE  ProcessTargetError(q) = Rejected(q)
<1> DEFINE p == [q EXCEPT !.target = FALSE, !.agg = NewTargetState, !.view = NoView]
           e == [k \in DOMAIN q.listeners |-> [get |-> q.listeners[k], what |-> "error"]]
<1>1. p.listeners = q.listeners /\ p.out = q.out /\ p.raised = q.raised
  BY DEF Client
<1>2. ProcessTargetError(q) = EventManagerError(p)
  BY DEF ProcessTargetError
<1>3. DOMAIN q.listeners = 1..Len(q.listeners)
  BY ClientSeqs
<1>4. e = ErrorEvents(q)
  BY <1>3 DEF ErrorEvents
<1>5. Raise(p, p.listeners, "error") = [p EXCEPT !.out = q.out \o e, !.raised = q.raised]
  BY <1>1 DEF Raise, Client
<1>6. [p EXCEPT !.out = q.out \o e, !.raised = q.raised] = [p EXCEPT !.out = q.out \o e]
  <2> DEFINE o == q.out \o e
  <2> HIDE DEF o
  <2>1. [p EXCEPT !.out = o, !.raised = q.raised] = [p EXCEPT !.out = o]
    BY DEF Client
  <2> QED BY <2>1 DEF o
<1>7. EventManagerError(p) = [[p EXCEPT !.out = q.out \o e] EXCEPT !.listeners = << >>, !.snap = NoSnapshot]
  BY <1>5, <1>6 DEF EventManagerError
<1> QED BY <1>2, <1>4, <1>7 DEF Rejected

LEMMA ErrorsPosted ==
  ASSUME NEW q \in Client, NEW o, o = q.out \o ErrorEvents(q)
  PROVE  /\ o \in Seq(Event) /\ Len(o) = Len(q.out) + Len(q.listeners)
         /\ \A k \in 1..Len(q.out) : o[k] = q.out[k]
         /\ \A k \in 1..Len(q.listeners) :
              o[Len(q.out) + k] = [get |-> q.listeners[k], what |-> "error"]
<1> DEFINE e == ErrorEvents(q)
           a == q.out
<1>1. q.listeners \in Seq(Gets) /\ Len(q.listeners) \in Nat /\ a \in Seq(Event) /\ Len(a) \in Nat
  BY ClientSeqs
<1>2. \A k \in 1..Len(q.listeners) : q.listeners[k] \in Gets
  BY <1>1, ElementOfSeq
<1>3. \A k \in 1..Len(q.listeners) : [get |-> q.listeners[k], what |-> "error"] \in Event
  BY <1>2 DEF Event
<1>4. e \in [1..Len(q.listeners) -> Event]
      /\ \A k \in 1..Len(q.listeners) : e[k] = [get |-> q.listeners[k], what |-> "error"]
  BY <1>3 DEF ErrorEvents
<1>5. e \in Seq(Event) /\ Len(e) = Len(q.listeners)
  BY <1>1, <1>4, FcnIsSeq
<1>6. o = a \o e
  OBVIOUS
<1> HIDE DEF a, e
<1>7. a \o e \in Seq(Event)
  BY <1>1, <1>5, ConcatParts
<1>8. Len(a \o e) = Len(a) + Len(e)
  BY <1>1, <1>5, ConcatParts
<1>9. \A k \in 1..Len(a) : (a \o e)[k] = a[k]
  BY <1>1, <1>5, ConcatParts
<1>10. \A k \in 1..Len(e) : (a \o e)[Len(a) + k] = e[k]
  BY <1>1, <1>5, ConcatParts
<1> QED BY <1>4, <1>5, <1>6, <1>7, <1>8, <1>9, <1>10 DEF a

LEMMA RejectedEvents ==
  ASSUME NEW q \in Client, NEW t \in Client, ListenersOK(q), EventsOK(q),
         t.out = q.out \o ErrorEvents(q), t.raised = q.raised, t.listeners = << >>
  PROVE  EventsOK(t) /\ NewEvents(q, t.out) /\ \A online : CacheOnly(q, t.out, online)
<1> DEFINE n == Len(q.out)
           m == Len(q.listeners)
           o == t.out
           L == q.listeners
<1>1. n \in Nat /\ m \in Nat /\ DOMAIN L = 1..m
  BY ClientSeqs
<1>2. /\ Len(o) = n + m /\ \A k \in 1..n : o[k] = q.out[k]
      /\ \A k \in 1..m : o[n + k] = [get |-> L[k], what |-> "error"]
  BY ErrorsPosted
<1>3. \A i, j \in 1..m : L[i] = L[j] => i = j
  BY DEF ListenersOK
<1> HIDE DEF n, m, o, L
<1>4. ASSUME NEW k \in 1..Len(o), k > n
      PROVE  k - n \in 1..m /\ o[k].get = L[k - n] /\ o[k].what = "error" /\ o[k].get \in ToSet(L)
  <2>1. k - n \in 1..m /\ n + (k - n) = k
    BY <1>1, <1>2, <1>4
  <2>2. o[k] = [get |-> L[k - n], what |-> "error"]
    BY <1>2, <2>1
  <2>3. L[k - n] \in ToSet(L)
    BY <1>1, <2>1 DEF ToSet
  <2> QED BY <2>1, <2>2, <2>3
<1>5. ASSUME NEW k \in 1..Len(o), ~(k > n) PROVE k \in 1..n /\ o[k] = q.out[k]
  <2>1. k \in 1..n
    BY <1>1, <1>2, <1>5
  <2> QED BY <1>2, <2>1
<1>6. ToSet(t.listeners) = {}
  BY DEF ToSet
<1>7. ASSUME NEW k \in 1..Len(o)
      PROVE  IF o[k].what # "error" THEN o[k].get \in t.raised
             ELSE \A j \in 1..Len(o) : o[j].get = o[k].get => j <= k
  <2>1. CASE k > n
    <3> SUFFICES ASSUME NEW j \in 1..Len(o), o[j].get = o[k].get PROVE j <= k
      BY <1>4, <2>1
    <3>1. CASE j > n
      <4>1. /\ k - n \in 1..m /\ o[k].get = L[k - n]
            /\ j - n \in 1..m /\ o[j].get = L[j - n]
        BY <1>4, <2>1, <3>1
      <4>2. k - n = j - n
        BY <1>3, <4>1
      <4> QED BY <1>1, <1>2, <4>2
    <3>2. CASE ~(j > n)
      BY <1>1, <1>2, <2>1, <3>2
    <3> QED BY <3>1, <3>2
  <2>2. CASE ~(k > n)
    <3>1. k \in 1..n /\ o[k] = q.out[k]
      BY <1>5, <2>2
    <3>2. CASE o[k].what # "error"
      BY <3>1, <3>2 DEF EventsOK, n
    <3>3. CASE o[k].what = "error"
      <4> SUFFICES ASSUME NEW j \in 1..Len(o), o[j].get = o[k].get PROVE j <= k
        BY <3>3
      <4>1. /\ q.out[k].get \notin ToSet(L)
            /\ \A i \in 1..n : q.out[i].get = q.out[k].get => i <= k
        BY <3>1, <3>3 DEF EventsOK, n, L
      <4>2. ~(j > n)
        BY <1>4, <3>1, <4>1
      <4>3. j \in 1..n /\ o[j] = q.out[j]
        BY <1>5, <4>2
      <4> QED BY <3>1, <4>1, <4>3
    <3> QED BY <3>2, <3>3
  <2> QED BY <2>1, <2>2
<1>8. EventsOK(t)
  BY <1>6, <1>7 DEF EventsOK, o
<1>9. ASSUME NEW k \in (n + 1)..Len(o) PROVE o[k].get \in ToSet(L) /\ o[k].what = "error"
  <2>1. k \in 1..Len(o) /\ k > n
    BY <1>1, <1>2
  <2> QED BY <1>4, <2>1
<1>10. n <= Len(o)
  BY <1>1, <1>2
<1>11. NewEvents(q, o)
  BY <1>2, <1>9, <1>10 DEF NewEvents, n, L
<1>12. \A online : CacheOnly(q, o, online)
  BY <1>9 DEF CacheOnly, n
<1> QED BY <1>8, <1>11, <1>12 DEF o

LEMMA NobodyListens ==
  ASSUME NEW t, t.target = FALSE, t.view = NoView, t.listeners = << >>, t.snap = NoSnapshot
  PROVE  ListenersOK(t)
<1>1. t.view.on = FALSE /\ t.view.current = 0 /\ t.snap # "server" /\ Len(t.listeners) = 0
  BY DEF NoView, NoSnapshot
<1>2. t.target = t.view.on /\ t.view.on = (t.listeners # << >>)
  BY <1>1
<1>3. \A i, j \in 1..Len(t.listeners) : t.listeners[i] = t.listeners[j] => i = j
  BY <1>1
<1> QED BY <1>1, <1>2, <1>3 DEF ListenersOK

LEMMA DeniedOK ==
  ASSUME NEW s, NEW refused, ClientOK(s, refused), s.down # << >>, Head(s.down).kind = "Denied"
  PROVE  LET t == ProcessTargetError(Received(s))
         IN  ClientOK(t, refused) /\ Evolves(s, t)
<1> DEFINE q == Received(s)
           t == ProcessTargetError(q)
<1> SUFFICES ClientOK(t, refused) /\ Evolves(s, t)
  OBVIOUS
<1>0. s \in Client /\ StreamOK(s) /\ OnlineOK(s) /\ ListenersOK(s) /\ RequestsOK(s)
      /\ ResponsesOK(s, refused) /\ CurrentOK(s) /\ EventsOK(s) /\ s.enabled
  BY DEF ClientOK
<1>1. refused
  <2>1. s.down \in Seq(Responses)
    BY <1>0, ClientSeqs
  <2>2. Len(s.down) \in Nat \ {0} /\ Head(s.down) = s.down[1]
    BY <2>1, TailParts
  <2>3. 1 \in 1..Len(s.down)
    BY <2>2
  <2> QED BY <1>0, <2>2, <2>3 DEF ResponsesOK
<1>2. /\ q \in Client /\ SameStream(s, q) /\ SameView(s, q) /\ SameEvents(s, q)
      /\ q.kept = s.kept /\ q.enabled = s.enabled /\ q.up = s.up /\ q.down = Tail(s.down)
      /\ q.watched = s.watched /\ q.agg = s.agg /\ q.listens = s.listens
      /\ q.online = "Online" /\ q.em_online = "Online" /\ q.failures = 0 /\ q.online_timer = FALSE
  BY <1>0, ReceivedFields
<1>3. s.listens \in Nat
  BY <1>0 DEF Client
<1> HIDE DEF q
<1>4. ListenersOK(q) /\ EventsOK(q)
  <2>1. ListenersOK(q)
    BY <1>0, <1>2, ViewKept DEF SameEvents
  <2>2. EventsOK(q)
    BY <1>0, <1>2, EventsKept DEF SameView
  <2> QED BY <2>1, <2>2
<1>5. CASE ~q.target
  <2>1. t = q
    BY <1>5 DEF ProcessTargetError
  <2> HIDE DEF t
  <2>2. StreamOK(q) /\ OnlineOK(q) /\ RequestsOK(q) /\ ResponsesOK(q, refused) /\ TokensStay(s, q)
    BY <1>1, <1>2, <1>5, ReceivedParts
  <2>3. CurrentOK(q)
    BY <1>0, <1>2, <1>3, CurrentKept DEF SameView
  <2>4. ClientOK(q, refused)
    BY <1>0, <1>2, <1>4, <2>2, <2>3 DEF ClientOK
  <2>5. Evolves(s, q)
    BY <1>0, <1>2, <2>2, EvolvesQuietly DEF SameView
  <2> QED BY <2>1, <2>4, <2>5
<1>6. CASE q.target
  <2> DEFINE o == q.out \o ErrorEvents(q)
  <2>1. t = [q EXCEPT !.target = FALSE, !.agg = NewTargetState, !.view = NoView,
                      !.out = o, !.listeners = << >>, !.snap = NoSnapshot]
    BY <1>2, <1>6, RejectedIs DEF Rejected
  <2>2. o \in Seq(Event)
    BY <1>2, ErrorsPosted
  <2>3. NewTargetState \in TargetStates /\ NoView \in Views /\ << >> \in Seq(Gets)
    BY DEF NewTargetState, TargetStates, NoView, Views
  <2> HIDE DEF o, t
  <2>4. t \in Client
    BY ONLY <1>2, <2>1, <2>2, <2>3 DEF Client
  <2>5. /\ t.target = FALSE /\ t.agg = NewTargetState /\ t.view = NoView
        /\ t.out = o /\ t.listeners = << >> /\ t.snap = NoSnapshot
    BY <1>2, <2>1 DEF Client
  <2>6. /\ SameStream(q, t) /\ SameTracker(q, t) /\ t.kept = q.kept /\ t.enabled = q.enabled
        /\ t.up = q.up /\ t.down = q.down /\ t.watched = q.watched /\ t.listens = q.listens
        /\ t.raised = q.raised
    <3>1. q \in Client
      BY <1>2
    <3> QED BY ONLY <2>1, <3>1 DEF Client, SameStream, SameTracker
  <2>7. SameStream(s, t)
    BY <1>2, <2>6 DEF SameStream
  <2>8. StreamOK(t) /\ OnlineOK(t) /\ RequestsOK(t) /\ ResponsesOK(t, refused) /\ TokensStay(s, t)
    <3>1. t.online = "Online" /\ t.em_online = "Online" /\ t.failures = 0 /\ t.online_timer = FALSE
      BY <1>2, <2>6 DEF SameTracker
    <3>2. t.up = s.up /\ t.down = Tail(s.down) /\ t.watched = s.watched /\ t.listens = s.listens
      BY <1>2, <2>6
    <3> QED BY <1>1, <2>4, <2>5, <2>7, <3>1, <3>2, ReceivedParts
  <2>9. ListenersOK(t)
    BY <2>5, NobodyListens
  <2>10. CurrentOK(t)
    BY <1>2, <1>3, <2>5, <2>6 DEF CurrentOK, NoView, NewTargetState
  <2>11. EventsOK(t) /\ NewEvents(q, t.out) /\ CacheOnly(q, t.out, t.online)
    BY <1>2, <1>4, <2>4, <2>5, <2>6, RejectedEvents DEF o
  <2>12. ClientOK(t, refused)
    BY <1>0, <1>2, <2>4, <2>6, <2>8, <2>9, <2>10, <2>11 DEF ClientOK
  <2>13. NewEvents(s, t.out) /\ CacheOnly(s, t.out, t.online)
    <3>1. q.out = s.out /\ q.raised = s.raised /\ q.listeners = s.listeners
      BY <1>2 DEF SameView, SameEvents
    <3> QED BY <2>11, <3>1 DEF NewEvents, CacheOnly
  <2>14. Evolves(s, t)
    BY <1>2, <2>5, <2>6, <2>8, <2>13 DEF Evolves
  <2> QED BY <2>12, <2>14
<1> QED BY <1>5, <1>6

LEMMA ReceiveOK ==
  ASSUME NEW s, NEW refused, ClientOK(s, refused), s.down # << >>, NEW changed,
         NEW token \in BOOLEAN
  PROVE  LET t == OnWatchStreamChange(s, Head(s.down), changed, token)
         IN  ClientOK(t, refused) /\ Evolves(s, t)
<1>1. CASE Head(s.down).kind = "Denied"
  BY <1>1, ChangeIs, DeniedOK
<1>2. CASE Head(s.down).kind = "Snapshot"
  BY <1>2, ChangeIs, WatchSnapshotOK
<1>3. CASE Head(s.down).kind \notin {"Denied", "Snapshot"}
  BY <1>3, ChangeIs, TargetChangeOK
<1> QED BY <1>1, <1>2, <1>3

-----------------------------------------------------------------------------
(***************************************************************************)
(* Starting and stopping the stream.                                       *)
(***************************************************************************)

\* A stream that is not started, and has nothing on the wire.
Stopped(s) ==
  /\ s.state \in {"Initial", "Error"} /\ s.credentials = NoStream /\ s.timers = {}
  /\ s.up = << >> /\ s.down = << >> /\ s.watched = Unwatched
  /\ s.close_count \notin s.asks /\ \A n \in s.asks : n <= s.close_count

\* The tracker is consistent, and its timer does not run without a failure.
TrackerOK(s) ==
  /\ s.em_online = s.online
  /\ s.online_timer => s.online = "Unknown"
  /\ s.online = "Online" => s.failures = 0

LEMMA NotStarted ==
  ASSUME NEW s \in Client, StreamOK(s), ~IsStarted(s)
  PROVE  Stopped(s) /\ ~s.target /\ s.agg.outstanding = 0 /\ s.agg.current = 0
<1>1. s.state \in States /\ s.timers \in SUBSET Timers
  BY DEF Client
<1>2. s.state \in {"Initial", "Error"}
  BY <1>1 DEF States, IsStarted
<1>3. "idle" \notin s.timers /\ "backoff" \notin s.timers
  BY <1>2 DEF StreamOK
<1>4. s.timers = {}
  BY <1>1, <1>3 DEF Timers
<1> QED BY <1>2, <1>4 DEF StreamOK, Stopped

\* The stream that was started.
Launched(s) ==
  [s EXCEPT !.agg = NewTargetState,
            !.state = IF s.state = "Error" THEN "Backoff" ELSE "Starting",
            !.timers = IF s.state = "Error" THEN s.timers \cup {"backoff"} ELSE s.timers,
            !.asks = IF s.state = "Error" THEN s.asks ELSE s.asks \cup {s.close_count}]

LEMMA LaunchedFields ==
  ASSUME NEW s \in Client, NEW t, t = Launched(s)
  PROVE  /\ t \in Client /\ SameTracker(s, t) /\ SameView(s, t) /\ SameEvents(s, t)
         /\ t.up = s.up /\ t.down = s.down /\ t.watched = s.watched /\ t.listens = s.listens
         /\ t.kept = s.kept /\ t.enabled = s.enabled /\ t.close_count = s.close_count
         /\ t.credentials = s.credentials /\ t.agg = NewTargetState
         /\ s.state = "Error" => /\ t.state = "Backoff" /\ t.timers = s.timers \cup {"backoff"}
                                 /\ t.asks = s.asks
         /\ s.state # "Error" => /\ t.state = "Starting" /\ t.timers = s.timers
                                 /\ t.asks = s.asks \cup {s.close_count}
<1> DEFINE st == IF s.state = "Error" THEN "Backoff" ELSE "Starting"
           ti == IF s.state = "Error" THEN s.timers \cup {"backoff"} ELSE s.timers
           as == IF s.state = "Error" THEN s.asks ELSE s.asks \cup {s.close_count}
<1>1. s.timers \in SUBSET Timers /\ s.asks \in SUBSET Nat /\ s.close_count \in Nat
  BY DEF Client
<1>2. st \in States
  BY DEF States
<1>3. ti \in SUBSET Timers
  BY <1>1 DEF Timers
<1>4. as \in SUBSET Nat
  BY <1>1
<1>5. NewTargetState \in TargetStates
  BY DEF NewTargetState, TargetStates
<1>6. t = [s EXCEPT !.agg = NewTargetState, !.state = st, !.timers = ti, !.asks = as]
  BY DEF Launched
<1>7. s \in Client
  OBVIOUS
<1> HIDE DEF st, ti, as
<1>8. t \in Client
  BY ONLY <1>2, <1>3, <1>4, <1>5, <1>6, <1>7 DEF Client
<1>9. t.agg = NewTargetState /\ t.state = st /\ t.timers = ti /\ t.asks = as
  BY ONLY <1>6, <1>7 DEF Client
<1>10. /\ SameTracker(s, t) /\ SameView(s, t) /\ SameEvents(s, t)
       /\ t.up = s.up /\ t.down = s.down /\ t.watched = s.watched /\ t.listens = s.listens
       /\ t.kept = s.kept /\ t.enabled = s.enabled /\ t.close_count = s.close_count
       /\ t.credentials = s.credentials
  BY ONLY <1>6, <1>7 DEF Client, SameTracker, SameView, SameEvents
<1> QED BY <1>8, <1>9, <1>10 DEF st, ti, as

LEMMA StartIs ==
  ASSUME NEW s \in Client, Stopped(s), s.enabled, s.target, TrackerOK(s), SnapOK(s),
         s.failures = 0 => ~s.online_timer
  PROVE  StartWatchStream(s) = IF s.failures # 0 THEN Launched(s) ELSE Awaiting(Launched(s))
<1> DEFINE p == [s EXCEPT !.agg = NewTargetState]
<1>1. ShouldStartWatchStream(s)
  BY DEF ShouldStartWatchStream, IsStarted, Stopped
<1>2. HARD_ASSERT(s, ShouldStartWatchStream(s)) = s
  BY <1>1, AssertHolds
<1>3. NewTargetState \in TargetStates
  BY DEF NewTargetState, TargetStates
<1>4. p \in Client /\ p.state = s.state /\ p.close_count = s.close_count
      /\ p.asks = s.asks /\ p.timers = s.timers
  BY <1>3 DEF Client
<1>5. Start(p) = Launched(s)
  <2>1. CASE s.state = "Error"
    <3>1. HARD_ASSERT(p, p.state = "Error") = p
      BY <1>4, <2>1, AssertHolds
    <3>2. Start(p) = [p EXCEPT !.state = "Backoff", !.timers = s.timers \cup {"backoff"}]
      BY <1>4, <2>1, <3>1 DEF Start, BackoffAndTryRestarting, Client
    <3>3. Launched(s) = [p EXCEPT !.state = "Backoff", !.timers = s.timers \cup {"backoff"}, !.asks = s.asks]
      BY <2>1 DEF Launched
    <3> DEFINE ti == s.timers \cup {"backoff"}
    <3> HIDE DEF ti
    <3>4. [p EXCEPT !.state = "Backoff", !.timers = ti, !.asks = s.asks] = [p EXCEPT !.state = "Backoff", !.timers = ti]
      BY DEF Client
    <3> QED BY <3>2, <3>3, <3>4 DEF ti
  <2>2. CASE s.state # "Error"
    <3>1. s.state = "Initial"
      BY <2>2 DEF Stopped
    <3>2. HARD_ASSERT(p, p.state = "Initial") = p
      BY <1>4, <3>1, AssertHolds
    <3>3. Start(p) = [p EXCEPT !.state = "Starting", !.asks = s.asks \cup {s.close_count}]
      BY <1>4, <2>2, <3>2 DEF Start, RequestCredentials, Client
    <3>4. Launched(s) = [p EXCEPT !.state = "Starting", !.timers = s.timers, !.asks = s.asks \cup {s.close_count}]
      BY <2>2 DEF Launched
    <3> DEFINE as == s.asks \cup {s.close_count}
    <3> HIDE DEF as
    <3>5. [p EXCEPT !.state = "Starting", !.timers = s.timers, !.asks = as] = [p EXCEPT !.state = "Starting", !.asks = as]
      BY DEF Client
    <3> QED BY <3>3, <3>4, <3>5 DEF as
  <2> QED BY <2>1, <2>2
<1> DEFINE t == Launched(s)
<1>6. StartWatchStream(s) = HandleWatchStreamStart(t)
  BY <1>2, <1>5, ThenIs DEF StartWatchStream
<1>7. t \in Client /\ SameTracker(s, t) /\ SameView(s, t) /\ SameEvents(s, t)
  BY LaunchedFields
<1> HIDE DEF t
<1>8. t.em_online = t.online /\ SnapOK(t) /\ (t.failures = 0 => ~t.online_timer) /\ t.failures = s.failures
  BY <1>7 DEF SameTracker, SameView, SameEvents, SnapOK, TrackerOK
<1>9. HandleWatchStreamStart(t) = IF t.failures # 0 THEN t ELSE Awaiting(t)
  BY <1>7, <1>8, HandleStartIs
<1> QED BY <1>6, <1>8, <1>9 DEF t

LEMMA SettledFields ==
  ASSUME NEW s \in Client, NEW t, t = Settled(s, "Unknown")
  PROVE  /\ t \in Client /\ SameStream(s, t) /\ SameWire(s, t) /\ SameView(s, t) /\ SameEvents(s, t)
         /\ t.kept = s.kept /\ t.enabled = s.enabled
         /\ t.online = "Unknown" /\ t.em_online = "Unknown" /\ t.failures = 0 /\ t.online_timer = FALSE
<1>1. 0 \in Failures
  BY BoundsAssumption DEF Failures
<1>2. t = [s EXCEPT !.failures = 0, !.online_timer = FALSE, !.online = "Unknown", !.em_online = "Unknown"]
  BY DEF Settled
<1>3. s \in Client /\ "Unknown" \in Online
  BY DEF Online
<1>4. t \in Client
  BY ONLY <1>1, <1>2, <1>3 DEF Client
<1>5. /\ SameStream(s, t) /\ SameWire(s, t) /\ SameView(s, t) /\ SameEvents(s, t)
      /\ t.kept = s.kept /\ t.enabled = s.enabled
      /\ t.online = "Unknown" /\ t.em_online = "Unknown" /\ t.failures = 0 /\ t.online_timer = FALSE
  BY ONLY <1>2, <1>3 DEF Client, SameStream, SameWire, SameView, SameEvents
<1> QED BY <1>4, <1>5

LEMMA AwaitingFields ==
  ASSUME NEW s \in Client, NEW t, t = Awaiting(s)
  PROVE  /\ t \in Client /\ SameStream(s, t) /\ SameWire(s, t) /\ SameView(s, t) /\ SameEvents(s, t)
         /\ t.kept = s.kept /\ t.enabled = s.enabled
         /\ t.online = "Unknown" /\ t.em_online = "Unknown" /\ t.failures = s.failures
         /\ t.online_timer = TRUE
<1>1. "Unknown" \in Online
  BY DEF Online
<1>2. t = [s EXCEPT !.online = "Unknown", !.em_online = "Unknown", !.online_timer = TRUE]
  BY DEF Awaiting
<1>3. s \in Client
  OBVIOUS
<1>4. t \in Client
  BY ONLY <1>1, <1>2, <1>3 DEF Client
<1>5. /\ SameStream(s, t) /\ SameWire(s, t) /\ SameView(s, t) /\ SameEvents(s, t)
      /\ t.kept = s.kept /\ t.enabled = s.enabled
      /\ t.online = "Unknown" /\ t.em_online = "Unknown" /\ t.failures = s.failures
      /\ t.online_timer = TRUE
  BY ONLY <1>2, <1>3 DEF Client, SameStream, SameWire, SameView, SameEvents
<1> QED BY <1>4, <1>5

\* A started stream is as it should be.
LEMMA StartedParts ==
  ASSUME NEW s \in Client, Stopped(s), s.enabled, s.target, TrackerOK(s), SnapOK(s),
         s.failures = 0 => ~s.online_timer, NEW t, t = StartWatchStream(s), NEW refused
  PROVE  /\ t \in Client /\ SameView(s, t) /\ SameEvents(s, t)
         /\ StreamOK(t) /\ OnlineOK(t) /\ RequestsOK(t) /\ ResponsesOK(t, refused)
         /\ t.listens = s.listens /\ t.kept = s.kept /\ t.enabled = s.enabled
         /\ t.close_count = s.close_count /\ t.agg.current = 0
         /\ s.failures # 0 => t.online = s.online
<1> DEFINE q == Launched(s)
<1>1. /\ q \in Client /\ SameTracker(s, q) /\ SameView(s, q) /\ SameEvents(s, q)
      /\ q.up = s.up /\ q.down = s.down /\ q.watched = s.watched /\ q.listens = s.listens
      /\ q.kept = s.kept /\ q.enabled = s.enabled /\ q.close_count = s.close_count
      /\ q.credentials = s.credentials /\ q.agg = NewTargetState
      /\ s.state = "Error" => /\ q.state = "Backoff" /\ q.timers = s.timers \cup {"backoff"}
                              /\ q.asks = s.asks
      /\ s.state # "Error" => /\ q.state = "Starting" /\ q.timers = s.timers
                              /\ q.asks = s.asks \cup {s.close_count}
  BY LaunchedFields
<1>2. t = IF s.failures # 0 THEN q ELSE Awaiting(q)
  BY StartIs
<1>3. s.close_count \in Nat
  BY DEF Client
<1> HIDE DEF q
<1>4. NewTargetState.outstanding = 0 /\ NewTargetState.current = 0
  BY DEF NewTargetState
<1>5. StreamOK(q)
  <2>1. IsStarted(q)
    BY <1>1 DEF IsStarted
  <2>2. \A n \in q.asks : n <= q.close_count
    BY <1>1, <1>3 DEF Stopped
  <2>3. /\ q.credentials = NoStream /\ "idle" \notin q.timers
        /\ "backoff" \in q.timers => q.state = "Backoff"
    BY <1>1 DEF Stopped
  <2>4. q.close_count \in q.asks => q.state = "Starting"
    BY <1>1 DEF Stopped
  <2>5. /\ q.up = << >> /\ q.down = << >> /\ q.watched = Unwatched
        /\ q.agg.outstanding = 0 /\ q.agg.current = 0
    BY <1>1, <1>4 DEF Stopped
  <2> QED BY <2>1, <2>2, <2>3, <2>4, <2>5 DEF StreamOK
<1>6. RequestsOK(q) /\ ResponsesOK(q, refused)
  BY <1>1, <1>4, WireCut DEF Stopped
<1>7. IsStarted(q)
  BY <1>1 DEF IsStarted
<1>8. CASE s.failures # 0
  <2>1. t = q
    BY <1>2, <1>8
  <2>2. OnlineOK(q) /\ q.online = s.online
    BY <1>1, <1>7 DEF OnlineOK, TrackerOK, SameTracker
  <2> QED BY <1>1, <1>4, <1>5, <1>6, <2>1, <2>2
<1>9. CASE s.failures = 0
  <2>1. t = Awaiting(q)
    BY <1>2, <1>9
  <2>2. /\ t \in Client /\ SameStream(q, t) /\ SameWire(q, t) /\ SameView(q, t) /\ SameEvents(q, t)
        /\ t.kept = q.kept /\ t.enabled = q.enabled
        /\ t.online = "Unknown" /\ t.em_online = "Unknown" /\ t.failures = q.failures
        /\ t.online_timer = TRUE
    BY <1>1, <2>1, AwaitingFields
  <2>3. SameView(s, t) /\ SameEvents(s, t)
    BY <1>1, <2>2 DEF SameView, SameEvents
  <2>4. StreamOK(t)
    BY <1>5, <2>2, StreamKept DEF SameView
  <2>5. OnlineOK(t)
    BY <1>7, <2>2 DEF OnlineOK, IsStarted, SameStream
  <2>6. RequestsOK(t) /\ ResponsesOK(t, refused)
    BY <1>6, <2>2, WireKept
  <2>7. t.listens = s.listens /\ t.close_count = s.close_count /\ t.agg.current = 0
    BY <1>1, <1>4, <2>2 DEF SameWire, SameStream
  <2> QED BY <1>1, <1>9, <2>2, <2>3, <2>4, <2>5, <2>6, <2>7
<1> QED BY <1>8, <1>9

\* A stopped stream is, when nothing is listened to.
LEMMA SettledParts ==
  ASSUME NEW s \in Client, Stopped(s), ~s.target, s.agg.outstanding = 0, s.agg.current = 0,
         NEW t, t = Settled(s, "Unknown"), NEW refused
  PROVE  /\ t \in Client /\ SameView(s, t) /\ SameEvents(s, t)
         /\ StreamOK(t) /\ OnlineOK(t) /\ RequestsOK(t) /\ ResponsesOK(t, refused)
         /\ t.listens = s.listens /\ t.kept = s.kept /\ t.enabled = s.enabled
         /\ t.close_count = s.close_count /\ t.agg.current = 0
<1>1. /\ t \in Client /\ SameStream(s, t) /\ SameWire(s, t) /\ SameView(s, t) /\ SameEvents(s, t)
      /\ t.kept = s.kept /\ t.enabled = s.enabled
      /\ t.online = "Unknown" /\ t.em_online = "Unknown" /\ t.failures = 0 /\ t.online_timer = FALSE
  BY SettledFields
<1>2. StreamOK(t)
  BY <1>1 DEF StreamOK, Stopped, SameStream, SameWire, SameView
<1>3. OnlineOK(t)
  BY <1>1 DEF OnlineOK
<1>4. RequestsOK(t) /\ ResponsesOK(t, refused)
  BY <1>1, WireCut DEF SameWire, Stopped
<1> QED BY <1>1, <1>2, <1>3, <1>4 DEF SameStream, SameWire

\* A stream that was cut, up to where the RemoteStore is told.
Cut(s, code) ==
  [s EXCEPT !.timers = {}, !.close_count = @ + 1, !.credentials = NoStream,
            !.state = IF code = "Ok" THEN "Initial" ELSE "Error",
            !.up = << >>, !.down = << >>, !.watched = Unwatched, !.agg = NewTargetState]

LEMMA CutFields ==
  ASSUME NEW s \in Client, StreamOK(s), NEW code, NEW t, t = Cut(s, code)
  PROVE  /\ t \in Client /\ Stopped(t) /\ SameTracker(s, t) /\ SameView(s, t) /\ SameEvents(s, t)
         /\ t.state = (IF code = "Ok" THEN "Initial" ELSE "Error")
         /\ t.listens = s.listens /\ t.kept = s.kept /\ t.enabled = s.enabled
         /\ t.close_count > s.close_count /\ t.agg.outstanding = 0 /\ t.agg.current = 0
<1> DEFINE c == s.close_count + 1
           st == IF code = "Ok" THEN "Initial" ELSE "Error"
<1>1. s.close_count \in Nat /\ s.asks \in SUBSET Nat
  BY DEF Client
<1>2. c \in Nat /\ c > s.close_count /\ \A n \in s.asks : n <= c /\ n # c
  <2>1. \A n \in s.asks : n <= s.close_count
    BY DEF StreamOK
  <2> QED BY <1>1, <2>1
<1>3. st \in States /\ st \in {"Initial", "Error"}
  BY DEF States
<1>4. {} \in SUBSET Timers /\ << >> \in Seq(Requests) /\ << >> \in Seq(Responses)
  OBVIOUS
<1>5. Unwatched \in Watches
  BY DEF Unwatched, Watches, Phases
<1>6. NewTargetState \in TargetStates /\ NewTargetState.outstanding = 0 /\ NewTargetState.current = 0
  BY DEF NewTargetState, TargetStates
<1>7. t = [s EXCEPT !.timers = {}, !.close_count = c, !.credentials = NoStream,
                    !.state = st, !.up = << >>, !.down = << >>, !.watched = Unwatched,
                    !.agg = NewTargetState]
  BY DEF Cut, Client
<1>8. s \in Client
  OBVIOUS
<1> HIDE DEF c, st
<1>9. t \in Client
  BY ONLY <1>2, <1>3, <1>4, <1>5, <1>6, <1>7, <1>8 DEF Client
<1>10. /\ t.timers = {} /\ t.close_count = c /\ t.credentials = NoStream /\ t.state = st
       /\ t.up = << >> /\ t.down = << >> /\ t.watched = Unwatched /\ t.agg = NewTargetState
  BY ONLY <1>7, <1>8 DEF Client
<1>11. /\ SameTracker(s, t) /\ SameView(s, t) /\ SameEvents(s, t) /\ t.asks = s.asks
       /\ t.listens = s.listens /\ t.kept = s.kept /\ t.enabled = s.enabled
  BY ONLY <1>7, <1>8 DEF Client, SameTracker, SameView, SameEvents
<1>12. Stopped(t)
  BY <1>2, <1>3, <1>10, <1>11 DEF Stopped
<1> QED BY <1>2, <1>6, <1>9, <1>10, <1>11, <1>12 DEF st

\* A step that nobody hears of.
LEMMA Unheard ==
  ASSUME NEW s, NEW refused, ClientOK(s, refused), NEW t \in Client, SameView(s, t), SameEvents(s, t),
         StreamOK(t), OnlineOK(t), RequestsOK(t), ResponsesOK(t, refused),
         t.listens = s.listens, t.kept = s.kept, t.enabled,
         t.agg.current \in {s.agg.current, 0}, TokensStay(s, t)
  PROVE  ClientOK(t, refused) /\ Evolves(s, t)
<1>0. s \in Client /\ ListenersOK(s) /\ CurrentOK(s) /\ EventsOK(s)
  BY DEF ClientOK
<1>1. ListenersOK(t)
  BY <1>0, ViewKept DEF SameEvents
<1>2. CurrentOK(t)
  <2>1. s.listens \in Nat /\ t.view.current \in {s.view.current, 0}
    BY <1>0 DEF Client, SameView
  <2> QED BY <1>0, <2>1, CurrentKept
<1>3. EventsOK(t)
  BY <1>0, EventsKept DEF SameView
<1>4. ClientOK(t, refused)
  BY <1>1, <1>2, <1>3 DEF ClientOK
<1>5. Evolves(s, t)
  BY <1>0, EvolvesQuietly DEF SameView
<1> QED BY <1>4, <1>5

\* The backoff is over, and credentials are asked for.
LEMMA BackoffOK ==
  ASSUME NEW s, NEW refused, ClientOK(s, refused), "backoff" \in s.timers
  PROVE  LET t == BackoffElapsed(s)
         IN  ClientOK(t, refused) /\ Evolves(s, t)
<1> DEFINE ti == s.timers \ {"backoff"}
           as == s.asks \cup {s.close_count}
           p == [s EXCEPT !.state = "Initial", !.timers = ti]
           t == [s EXCEPT !.state = "Starting", !.timers = ti, !.asks = as]
<1>0. s \in Client /\ StreamOK(s) /\ OnlineOK(s) /\ RequestsOK(s) /\ ResponsesOK(s, refused) /\ s.enabled
  BY DEF ClientOK
<1>1. s.state = "Backoff" /\ s.credentials = NoStream
  BY <1>0 DEF StreamOK
<1>2. ti \in SUBSET Timers /\ as \in SUBSET Nat /\ s.close_count \in Nat
  BY <1>0 DEF Client
<1>3. HARD_ASSERT(s, s.state = "Backoff") = s
  BY <1>0, <1>1, AssertHolds
<1> HIDE DEF ti, as
<1>4. p \in Client /\ p.state = "Initial" /\ p.asks = s.asks /\ p.close_count = s.close_count
  BY <1>0, <1>2 DEF Client, States
<1>5. /\ t \in Client /\ SameTracker(s, t) /\ SameView(s, t) /\ SameEvents(s, t) /\ SameWire(s, t)
      /\ t.state = "Starting" /\ t.timers = ti /\ t.asks = as /\ t.close_count = s.close_count
      /\ t.credentials = s.credentials /\ t.kept = s.kept /\ t.enabled = s.enabled
  <2>1. "Starting" \in States
    BY DEF States
  <2>2. t \in Client
    BY <1>0, <1>2, <2>1 DEF Client
  <2> QED BY <1>0, <2>2 DEF Client, SameTracker, SameView, SameEvents, SameWire
<1>6. HARD_ASSERT(p, p.state = "Initial") = p
  <2> HIDE DEF p
  <2> QED BY <1>4, AssertHolds
<1>7. Start(p) = t
  <2>1. Start(p) = [[p EXCEPT !.state = "Starting"] EXCEPT !.asks = as]
    <3>1. [p EXCEPT !.state = "Starting"].asks = s.asks /\ [p EXCEPT !.state = "Starting"].close_count = s.close_count
      BY <1>0 DEF Client
    <3>2. p.state # "Error"
      BY <1>4
    <3> HIDE DEF p
    <3> QED BY <1>6, <3>1, <3>2 DEF Start, RequestCredentials, as
  <2> QED BY <1>0, <2>1 DEF Client
<1>8. HARD_ASSERT(t, IsStarted(t)) = t
  <2>1. IsStarted(t)
    BY <1>5 DEF IsStarted
  <2> HIDE DEF t
  <2> QED BY <1>5, <2>1, AssertHolds
<1>9. BackoffElapsed(s) = t
  <2>1. [HARD_ASSERT(s, s.state = "Backoff") EXCEPT !.state = "Initial", !.timers = @ \ {"backoff"}] = p
    BY <1>0, <1>3 DEF ti, Client
  <2> HIDE DEF p, t
  <2>2. BackoffElapsed(s) = Then(Then(p, Start), LAMBDA x : HARD_ASSERT(x, IsStarted(x)))
    BY <2>1 DEF BackoffElapsed
  <2>3. Then(p, Start) = t
    BY <1>7, ThenIs
  <2> QED BY <1>8, <2>2, <2>3, ThenIs
<1> HIDE DEF t
<1>10. StreamOK(t)
  <2>1. \A n \in t.asks : n <= t.close_count
    BY <1>0, <1>2, <1>5 DEF StreamOK, as
  <2>2. "backoff" \notin t.timers /\ "idle" \notin t.timers
    BY <1>0, <1>1, <1>5 DEF StreamOK, ti
  <2>3. IsStarted(t)
    BY <1>5 DEF IsStarted
  <2>4. /\ t.up = << >> /\ t.down = << >> /\ t.watched = Unwatched
        /\ t.agg.outstanding = 0 /\ t.agg.current = 0
    BY <1>0, <1>1, <1>5 DEF StreamOK, SameWire
  <2> QED BY <1>1, <1>5, <2>1, <2>2, <2>3, <2>4 DEF StreamOK
<1>11. OnlineOK(t)
  <2>1. IsStarted(t)
    BY <1>5 DEF IsStarted
  <2> QED BY <1>0, <1>5, <2>1, TrackerKept
<1>12. RequestsOK(t) /\ ResponsesOK(t, refused)
  BY <1>0, <1>5, WireKept
<1>13. TokensStay(s, t)
  BY <1>1, <1>5 DEF TokensStay
<1>14. t.listens = s.listens /\ t.agg.current \in {s.agg.current, 0}
  BY <1>5 DEF SameWire
<1> QED BY <1>0, <1>5, <1>9, <1>10, <1>11, <1>12, <1>13, <1>14, Unheard

\* The close of a stream, after which it is started again or the tracker rests.
LEMMA CloseIs ==
  ASSUME NEW s \in Client, StreamOK(s), IsStarted(s), NEW code, code = "Ok" => ~(s.enabled /\ s.target)
  PROVE  CloseWatchStream(s, code) =
           IF s.enabled /\ s.target THEN StartWatchStream(HandleWatchStreamFailure(Cut(s, code)))
           ELSE UpdateState(Cut(s, code), "Unknown")
<1> DEFINE c == s.close_count + 1
           st == IF code = "Ok" THEN "Initial" ELSE "Error"
           p == [s EXCEPT !.timers = {}, !.close_count = c, !.credentials = NoStream,
                          !.state = st, !.up = << >>, !.down = << >>, !.watched = Unwatched]
           q == [s EXCEPT !.timers = {}, !.close_count = c, !.credentials = NoStream,
                          !.state = st, !.up = << >>, !.down = << >>, !.watched = Unwatched,
                          !.agg = NewTargetState]
<1>1. HARD_ASSERT(s, IsStarted(s)) = s
  BY AssertHolds
<1>2. [Shut(s, code) EXCEPT !.up = << >>, !.down = << >>, !.watched = Unwatched] = p
  BY <1>1 DEF Shut, Client
<1>3. Cut(s, code) = q
  BY DEF Cut, Client
<1>4. q \in Client /\ SameView(s, q) /\ q.enabled = s.enabled /\ q.state = st
  BY <1>3, CutFields
<1>5. ~IgnoresClose(s, code)
  BY DEF IgnoresClose
<1>6. p.ok = TRUE /\ p.enabled = s.enabled /\ p.target = s.target
  <2> HIDE DEF c, st
  <2> QED BY DEF Client
<1>7. code = "Ok" => ~ShouldStartWatchStream(p)
  <2> HIDE DEF p
  <2> QED BY <1>6 DEF ShouldStartWatchStream
<1>8. [p EXCEPT !.agg = NewTargetState, !.ok = @ /\ (code = "Ok" => ~ShouldStartWatchStream(p))] = q
  <2>1. (p.ok /\ (code = "Ok" => ~ShouldStartWatchStream(p))) = TRUE
    BY <1>6, <1>7
  <2>2. [p EXCEPT !.agg = NewTargetState].ok = p.ok
    <3> HIDE DEF c, st
    <3> QED BY DEF Client
  <2>3. [p EXCEPT !.agg = NewTargetState, !.ok = TRUE] = [p EXCEPT !.agg = NewTargetState]
    <3> HIDE DEF c, st
    <3> QED BY DEF Client
  <2>4. [p EXCEPT !.agg = NewTargetState] = q
    OBVIOUS
  <2> HIDE DEF p, q
  <2> QED BY <2>1, <2>2, <2>3, <2>4
<1>9. ShouldStartWatchStream(q) <=> s.enabled /\ s.target
  <2> HIDE DEF q
  <2>1. ~IsStarted(q)
    BY <1>4 DEF IsStarted
  <2> QED BY <1>4, <2>1 DEF ShouldStartWatchStream, SameView
<1> HIDE DEF p, q
<1>10. CloseWatchStream(s, code) = OnWatchStreamClose(p, code)
  BY <1>2, <1>5, ThenIs DEF CloseWatchStream
<1>11. OnWatchStreamClose(p, code) = IF ShouldStartWatchStream(q)
                                     THEN Then(HandleWatchStreamFailure(q), StartWatchStream)
                                     ELSE UpdateState(q, "Unknown")
  BY <1>8 DEF OnWatchStreamClose
<1>12. Then(HandleWatchStreamFailure(q), StartWatchStream) = StartWatchStream(HandleWatchStreamFailure(q))
  BY ThenIs
<1> QED BY <1>3, <1>9, <1>10, <1>11, <1>12

\* Nothing was listened to, and the stream has been idle.
LEMMA IdleOK ==
  ASSUME NEW s, NEW refused, ClientOK(s, refused), "idle" \in s.timers
  PROVE  LET t == CloseWatchStream([s EXCEPT !.timers = @ \ {"idle"}], "Ok")
         IN  ClientOK(t, refused) /\ Evolves(s, t)
<1> DEFINE ti == s.timers \ {"idle"}
           p == [s EXCEPT !.timers = ti]
           q == Cut(p, "Ok")
           t == Settled(q, "Unknown")
<1>0. s \in Client /\ StreamOK(s) /\ OnlineOK(s) /\ ListenersOK(s) /\ RequestsOK(s)
      /\ ResponsesOK(s, refused) /\ s.enabled
  BY DEF ClientOK
<1>1. s.state = "Open" /\ ~s.target
  BY <1>0 DEF StreamOK
<1>2. ti \in SUBSET Timers /\ ti \subseteq s.timers
  BY <1>0 DEF Client
<1> HIDE DEF ti
<1>3. /\ p \in Client /\ SameTracker(s, p) /\ SameView(s, p) /\ SameEvents(s, p) /\ SameWire(s, p)
      /\ p.state = s.state /\ p.timers = ti /\ p.asks = s.asks /\ p.close_count = s.close_count
      /\ p.credentials = s.credentials /\ p.kept = s.kept /\ p.enabled = s.enabled
  BY <1>0, <1>2 DEF Client, SameTracker, SameView, SameEvents, SameWire
<1> HIDE DEF p
<1>4. StreamOK(p) /\ IsStarted(p) /\ ~p.target
  <2>1. IsStarted(p) /\ ~p.target
    BY <1>1, <1>3 DEF IsStarted, SameView
  <2> QED BY <1>0, <1>1, <1>2, <1>3, <2>1 DEF StreamOK
<1>5. CloseWatchStream(p, "Ok") = UpdateState(q, "Unknown")
  BY <1>3, <1>4, CloseIs
<1>6. /\ q \in Client /\ Stopped(q) /\ SameTracker(p, q) /\ SameView(p, q) /\ SameEvents(p, q)
      /\ q.listens = p.listens /\ q.kept = p.kept /\ q.enabled = p.enabled
      /\ q.close_count > p.close_count /\ q.agg.outstanding = 0 /\ q.agg.current = 0
  BY <1>3, <1>4, CutFields
<1> HIDE DEF q
<1>7. q.em_online = q.online /\ SnapOK(q) /\ ~q.target
  BY <1>0, <1>1, <1>3, <1>6 DEF SameTracker, SameView, SameEvents, SnapOK, ListenersOK, OnlineOK
<1>8. UpdateState(q, "Unknown") = t
  BY <1>6, <1>7, UpdateStateIs
<1>9. /\ t \in Client /\ SameView(q, t) /\ SameEvents(q, t)
      /\ StreamOK(t) /\ OnlineOK(t) /\ RequestsOK(t) /\ ResponsesOK(t, refused)
      /\ t.listens = q.listens /\ t.kept = q.kept /\ t.enabled = q.enabled
      /\ t.close_count = q.close_count /\ t.agg.current = 0
  BY <1>6, <1>7, SettledParts
<1> HIDE DEF t
<1>10. SameView(s, t) /\ SameEvents(s, t)
  BY <1>3, <1>6, <1>9 DEF SameView, SameEvents
<1>11. TokensStay(s, t)
  BY <1>3, <1>6, <1>9 DEF TokensStay
<1>12. t.listens = s.listens /\ t.kept = s.kept /\ t.enabled /\ t.agg.current \in {s.agg.current, 0}
  BY <1>0, <1>3, <1>6, <1>9 DEF SameWire
<1>13. ClientOK(t, refused) /\ Evolves(s, t)
  BY <1>9, <1>10, <1>11, <1>12, Unheard
<1> QED BY <1>5, <1>8, <1>13 DEF p, ti

\* Going offline.
LEMMA OfflineParts ==
  ASSUME NEW s \in Client, s.em_online = s.online, ListenersOK(s), EventsOK(s),
         NEW t, t = SetAndBroadcast(s, "Offline")
  PROVE  /\ t \in Client /\ SameStream(s, t) /\ SameWire(s, t) /\ t.kept = s.kept
         /\ t.enabled = s.enabled /\ t.target = s.target /\ t.listeners = s.listeners
         /\ t.online = "Offline" /\ t.em_online = "Offline"
         /\ t.failures = s.failures /\ t.online_timer = s.online_timer
         /\ ListenersOK(t) /\ EventsOK(t) /\ NewEvents(s, t.out)
         /\ t.view.current \in {s.view.current, 0}
<1>1. SnapOK(s) /\ (s.view.current # 0 => s.listeners # << >>)
  <2>1. SnapOK(s)
    BY DEF ListenersOK, SnapOK
  <2>2. s.view.current # 0 => s.view.on
    BY DEF ListenersOK
  <2> QED BY <2>1, <2>2 DEF ListenersOK
<1>2. PICK o, r, sn, v :
           /\ SetAndBroadcast(s, "Offline") =
                [s EXCEPT !.online = "Offline", !.em_online = "Offline", !.view = v,
                          !.snap = sn, !.out = o, !.raised = r]
           /\ Posted(s, o, r)
           /\ sn \in {s.snap, "cache"} /\ (s.listeners = << >> => sn = s.snap)
           /\ sn = "server" => ToSet(s.listeners) \subseteq r
           /\ v \in {s.view, [s.view EXCEPT !.current = 0]}
  BY <1>1, OfflineIs
<1>3. s.view \in Views /\ s.snap \in Snapshots \cup {NoSnapshot}
  BY DEF Client
<1>4. v \in Views /\ v.on = s.view.on /\ v.current \in {s.view.current, 0}
  <2> DEFINE w == s.view
  <2>1. w \in Views /\ v \in {w, [w EXCEPT !.current = 0]}
    BY <1>2, <1>3
  <2> HIDE DEF w
  <2>2. v \in Views /\ v.on = w.on /\ v.current \in {w.current, 0}
    BY <2>1 DEF Views
  <2> QED BY <2>2 DEF w
<1>5. sn \in Snapshots \cup {NoSnapshot}
  BY <1>2, <1>3 DEF Snapshots
<1>6. o \in Seq(Event) /\ r \in SUBSET Gets
  BY <1>2 DEF Posted
<1>7. t = [s EXCEPT !.online = "Offline", !.em_online = "Offline", !.view = v,
                    !.snap = sn, !.out = o, !.raised = r]
  BY <1>2
<1>8. s \in Client /\ "Offline" \in Online
  BY DEF Online
<1>9. t \in Client
  BY ONLY <1>4, <1>5, <1>6, <1>7, <1>8 DEF Client
<1>10. /\ t.online = "Offline" /\ t.em_online = "Offline" /\ t.view = v
       /\ t.snap = sn /\ t.out = o /\ t.raised = r
  BY ONLY <1>7, <1>8 DEF Client
<1>11. /\ SameStream(s, t) /\ SameWire(s, t) /\ t.kept = s.kept
       /\ t.enabled = s.enabled /\ t.target = s.target /\ t.listeners = s.listeners
       /\ t.failures = s.failures /\ t.online_timer = s.online_timer
  BY ONLY <1>7, <1>8 DEF Client, SameStream, SameWire
<1>12. ListenersOK(t)
  <2>1. t.target = t.view.on /\ t.view.on = (t.listeners # << >>)
    BY <1>4, <1>10, <1>11 DEF ListenersOK
  <2>2. ~t.view.on => t.view.current = 0
    BY <1>4, <1>10 DEF ListenersOK
  <2>3. t.listeners = << >> => t.snap = NoSnapshot
    BY <1>2, <1>10, <1>11 DEF ListenersOK
  <2>4. t.snap = "server" => ToSet(t.listeners) \subseteq t.raised
    BY <1>2, <1>10, <1>11
  <2>5. \A i, j \in 1..Len(t.listeners) : t.listeners[i] = t.listeners[j] => i = j
    BY <1>11 DEF ListenersOK
  <2> QED BY ONLY <2>1, <2>2, <2>3, <2>4, <2>5 DEF ListenersOK
<1>13. EventsOK(t)
  BY <1>2, <1>9, <1>10, <1>11, EventsPosted
<1>14. NewEvents(s, t.out)
  BY <1>2, <1>10 DEF Posted, NewEvents
<1> QED BY <1>4, <1>9, <1>10, <1>11, <1>12, <1>13, <1>14

\* The timer of the tracker.
LEMMA OnlineTimeoutOK ==
  ASSUME NEW s, NEW refused, ClientOK(s, refused), s.online_timer
  PROVE  LET t == SetAndBroadcast([HARD_ASSERT(s, s.online = "Unknown")
                                     EXCEPT !.online_timer = FALSE], "Offline")
         IN  ClientOK(t, refused) /\ Evolves(s, t)
<1> DEFINE p == [s EXCEPT !.online_timer = FALSE]
           t == SetAndBroadcast(p, "Offline")
<1>0. s \in Client /\ StreamOK(s) /\ OnlineOK(s) /\ ListenersOK(s) /\ RequestsOK(s)
      /\ ResponsesOK(s, refused) /\ CurrentOK(s) /\ EventsOK(s) /\ s.enabled
  BY DEF ClientOK
<1>1. s.online = "Unknown" /\ IsStarted(s)
  BY <1>0 DEF OnlineOK
<1>2. HARD_ASSERT(s, s.online = "Unknown") = s
  BY <1>0, <1>1, AssertHolds
<1>3. /\ p \in Client /\ SameStream(s, p) /\ SameWire(s, p) /\ SameView(s, p) /\ SameEvents(s, p)
      /\ p.kept = s.kept /\ p.enabled = s.enabled /\ p.online = s.online /\ p.em_online = s.em_online
      /\ p.failures = s.failures /\ p.online_timer = FALSE
  BY <1>0 DEF Client, SameStream, SameWire, SameView, SameEvents
<1> HIDE DEF p
<1>4. ListenersOK(p) /\ EventsOK(p) /\ p.em_online = p.online
  <2>1. ListenersOK(p)
    BY <1>0, <1>3, ViewKept DEF SameEvents
  <2>2. EventsOK(p)
    BY <1>0, <1>3, EventsKept DEF SameView
  <2> QED BY <1>0, <1>3, <2>1, <2>2 DEF OnlineOK
<1>5. /\ t \in Client /\ SameStream(p, t) /\ SameWire(p, t) /\ t.kept = p.kept
      /\ t.enabled = p.enabled /\ t.target = p.target /\ t.listeners = p.listeners
      /\ t.online = "Offline" /\ t.em_online = "Offline"
      /\ t.failures = p.failures /\ t.online_timer = p.online_timer
      /\ ListenersOK(t) /\ EventsOK(t) /\ NewEvents(p, t.out)
      /\ t.view.current \in {p.view.current, 0}
  BY <1>3, <1>4, OfflineParts
<1> HIDE DEF t
<1>6. SameStream(s, t) /\ SameWire(s, t) /\ t.target = s.target
  BY <1>3, <1>5 DEF SameStream, SameWire, SameView
<1>7. StreamOK(t)
  BY <1>0, <1>6, StreamKept
<1>8. OnlineOK(t)
  BY <1>1, <1>3, <1>5, <1>6 DEF OnlineOK, IsStarted, SameStream
<1>9. RequestsOK(t) /\ ResponsesOK(t, refused)
  BY <1>0, <1>6, WireKept
<1>10. CurrentOK(t)
  <2>1. s.listens \in Nat /\ t.listens = s.listens /\ t.agg.current \in {s.agg.current, 0}
    BY <1>0, <1>6 DEF Client, SameWire
  <2>2. t.view.current \in {s.view.current, 0} /\ t.kept = s.kept
    BY <1>3, <1>5 DEF SameView
  <2> QED BY <1>0, <2>1, <2>2, CurrentKept
<1>11. ClientOK(t, refused)
  BY <1>0, <1>3, <1>5, <1>7, <1>8, <1>9, <1>10 DEF ClientOK
<1>12. NewEvents(s, t.out)
  BY <1>3, <1>5 DEF NewEvents, SameView, SameEvents
<1>13. CacheOnly(s, t.out, t.online)
  BY <1>5 DEF CacheOnly
<1>14. t.listens = s.listens /\ t.listeners \in Seq(ToSet(s.listeners))
  BY <1>0, <1>3, <1>5, <1>6, ClientSeqs DEF SameWire, SameView
<1>15. Evolves(s, t)
  BY <1>6, <1>12, <1>13, <1>14, SameStreamTokens DEF Evolves
<1> QED BY <1>2, <1>11, <1>15 DEF t, p

\* A failed attempt.
LEMMA FailureParts ==
  ASSUME NEW s \in Client, TrackerOK(s), ListenersOK(s), EventsOK(s),
         NEW t, t = HandleWatchStreamFailure(s)
  PROVE  /\ t \in Client /\ SameStream(s, t) /\ SameWire(s, t) /\ t.kept = s.kept
         /\ t.enabled = s.enabled /\ t.target = s.target /\ t.listeners = s.listeners
         /\ TrackerOK(t) /\ (t.failures = 0 => ~t.online_timer)
         /\ ListenersOK(t) /\ EventsOK(t) /\ NewEvents(s, t.out)
         /\ t.view.current \in {s.view.current, 0}
         /\ SameEvents(s, t) \/ (t.online = "Offline" /\ t.failures # 0)
<1> DEFINE k == kMaxWatchStreamFailures
           f == IF s.failures < k THEN s.failures + 1 ELSE s.failures
           p == [s EXCEPT !.failures = f]
           q == [s EXCEPT !.failures = f, !.online_timer = FALSE]
<1>1. SnapOK(s) /\ s.em_online = s.online
  BY DEF ListenersOK, SnapOK, TrackerOK
<1>2. s.failures \in Failures
  BY DEF Client
<1>3. f \in Failures /\ f # 0 /\ k \in Nat \ {0}
  BY <1>2, BoundsAssumption DEF Failures
<1> HIDE DEF f
<1>4. CASE s.online = "Online"
  <2>1. s.failures = 0 /\ ~s.online_timer
    BY <1>4 DEF TrackerOK
  <2>2. HARD_ASSERT(s, s.failures = 0 /\ ~s.online_timer) = s
    BY <2>1, AssertHolds
  <2>3. SetAndBroadcast(s, "Unknown") = [s EXCEPT !.online = "Unknown", !.em_online = "Unknown"]
    BY <1>1, QuietBroadcast
  <2>4. t = [s EXCEPT !.online = "Unknown", !.em_online = "Unknown"]
    BY <1>4, <2>2, <2>3 DEF HandleWatchStreamFailure
  <2>5. /\ t \in Client /\ SameStream(s, t) /\ SameWire(s, t) /\ SameView(s, t) /\ SameEvents(s, t)
        /\ t.kept = s.kept /\ t.enabled = s.enabled /\ t.online = "Unknown" /\ t.em_online = "Unknown"
        /\ t.failures = s.failures /\ t.online_timer = s.online_timer
    <3>1. s \in Client /\ "Unknown" \in Online
      BY DEF Online
    <3> QED BY ONLY <2>4, <3>1 DEF Client, SameStream, SameWire, SameView, SameEvents
  <2>6. TrackerOK(t) /\ (t.failures = 0 => ~t.online_timer)
    BY <2>1, <2>5 DEF TrackerOK
  <2>7. ListenersOK(t)
    BY <2>5, ViewKept DEF SameEvents
  <2>8. EventsOK(t)
    BY <2>5, EventsKept DEF SameView
  <2>9. NewEvents(s, t.out)
    BY <2>5, SameEventsNew
  <2>10. t.target = s.target /\ t.listeners = s.listeners /\ t.view.current \in {s.view.current, 0}
    BY <2>5 DEF SameView
  <2> QED BY ONLY <2>5, <2>6, <2>7, <2>8, <2>9, <2>10
<1>5. CASE s.online # "Online" /\ f >= k
  <2>1. /\ q \in Client /\ SameStream(s, q) /\ SameWire(s, q) /\ SameView(s, q) /\ SameEvents(s, q)
        /\ q.kept = s.kept /\ q.enabled = s.enabled /\ q.online = s.online /\ q.em_online = s.em_online
        /\ q.failures = f /\ q.online_timer = FALSE
    <3>1. s \in Client /\ f \in Failures
      BY <1>3
    <3> QED BY ONLY <3>1 DEF Client, SameStream, SameWire, SameView, SameEvents
  <2>2. t = SetAndBroadcast(q, "Offline")
    <3>1. [s EXCEPT !.failures = IF @ < kMaxWatchStreamFailures THEN @ + 1 ELSE @] = p
      BY DEF f
    <3>2. p.failures = f
      BY DEF Client
    <3>3. [p EXCEPT !.online_timer = FALSE] = q
      OBVIOUS
    <3> HIDE DEF p, q
    <3> QED BY <1>5, <3>1, <3>2, <3>3 DEF HandleWatchStreamFailure
  <2> HIDE DEF q
  <2>3. ListenersOK(q) /\ EventsOK(q) /\ q.em_online = q.online
    <3>1. ListenersOK(q)
      BY <2>1, ViewKept DEF SameEvents
    <3>2. EventsOK(q)
      BY <2>1, EventsKept DEF SameView
    <3> QED BY <1>1, <2>1, <3>1, <3>2
  <2>4. /\ t \in Client /\ SameStream(q, t) /\ SameWire(q, t) /\ t.kept = q.kept
        /\ t.enabled = q.enabled /\ t.target = q.target /\ t.listeners = q.listeners
        /\ t.online = "Offline" /\ t.em_online = "Offline"
        /\ t.failures = q.failures /\ t.online_timer = q.online_timer
        /\ ListenersOK(t) /\ EventsOK(t) /\ NewEvents(q, t.out)
        /\ t.view.current \in {q.view.current, 0}
    BY <2>1, <2>2, <2>3, OfflineParts
  <2>5. SameStream(s, t) /\ SameWire(s, t) /\ t.target = s.target /\ t.listeners = s.listeners
        /\ t.view.current \in {s.view.current, 0}
    BY <2>1, <2>4 DEF SameStream, SameWire, SameView
  <2>6. TrackerOK(t) /\ t.failures # 0
    BY <1>3, <2>1, <2>4 DEF TrackerOK
  <2>7. NewEvents(s, t.out)
    BY <2>1, <2>4 DEF NewEvents, SameView, SameEvents
  <2> QED BY ONLY <2>1, <2>4, <2>5, <2>6, <2>7
<1>6. CASE s.online # "Online" /\ ~(f >= k)
  <2>1. t = p
    <3>1. [s EXCEPT !.failures = IF @ < kMaxWatchStreamFailures THEN @ + 1 ELSE @] = p
      BY DEF f
    <3>2. p.failures = f
      BY DEF Client
    <3> HIDE DEF p
    <3> QED BY <1>6, <3>1, <3>2 DEF HandleWatchStreamFailure
  <2>2. /\ t \in Client /\ SameStream(s, t) /\ SameWire(s, t) /\ SameView(s, t) /\ SameEvents(s, t)
        /\ t.kept = s.kept /\ t.enabled = s.enabled /\ t.online = s.online /\ t.em_online = s.em_online
        /\ t.failures = f /\ t.online_timer = s.online_timer
    <3>1. s \in Client /\ f \in Failures
      BY <1>3
    <3> QED BY ONLY <2>1, <3>1 DEF Client, SameStream, SameWire, SameView, SameEvents
  <2>3. TrackerOK(t) /\ t.failures # 0
    BY <1>3, <1>6, <2>2 DEF TrackerOK
  <2>4. ListenersOK(t)
    BY <2>2, ViewKept DEF SameEvents
  <2>5. EventsOK(t)
    BY <2>2, EventsKept DEF SameView
  <2>6. NewEvents(s, t.out)
    BY <2>2, SameEventsNew
  <2>7. t.target = s.target /\ t.listeners = s.listeners /\ t.view.current \in {s.view.current, 0}
    BY <2>2 DEF SameView
  <2> QED BY ONLY <2>2, <2>3, <2>4, <2>5, <2>6, <2>7
<1> QED BY <1>4, <1>5, <1>6

\* The stream breaks, or cannot be opened.
LEMMA BreaksOK ==
  ASSUME NEW s, NEW refused, ClientOK(s, refused), IsStarted(s)
  PROVE  LET t == CloseWatchStream(s, "Unavailable")
         IN  ClientOK(t, refused) /\ Evolves(s, t)
<1> DEFINE q == Cut(s, "Unavailable")
           p == HandleWatchStreamFailure(q)
           t == CloseWatchStream(s, "Unavailable")
<1> SUFFICES ClientOK(t, refused) /\ Evolves(s, t)
  OBVIOUS
<1>0. s \in Client /\ StreamOK(s) /\ OnlineOK(s) /\ ListenersOK(s) /\ RequestsOK(s)
      /\ ResponsesOK(s, refused) /\ CurrentOK(s) /\ EventsOK(s) /\ s.enabled
  BY DEF ClientOK
<1>2. t = IF s.target THEN StartWatchStream(p) ELSE UpdateState(q, "Unknown")
  BY <1>0, CloseIs
<1>3. /\ q \in Client /\ Stopped(q) /\ SameTracker(s, q) /\ SameView(s, q) /\ SameEvents(s, q)
      /\ q.listens = s.listens /\ q.kept = s.kept /\ q.enabled = s.enabled
      /\ q.close_count > s.close_count /\ q.agg.outstanding = 0 /\ q.agg.current = 0
  BY <1>0, CutFields
<1> HIDE DEF q, t
<1>4. ListenersOK(q) /\ EventsOK(q) /\ TrackerOK(q)
  <2>1. ListenersOK(q)
    BY <1>0, <1>3, ViewKept DEF SameEvents
  <2>2. EventsOK(q)
    BY <1>0, <1>3, EventsKept DEF SameView
  <2>3. TrackerOK(q)
    BY <1>0, <1>3 DEF OnlineOK, TrackerOK, SameTracker
  <2> QED BY <2>1, <2>2, <2>3
<1>5. CASE ~s.target
  <2>1. SnapOK(q) /\ q.em_online = q.online /\ ~q.target
    BY <1>3, <1>4, <1>5 DEF ListenersOK, SnapOK, TrackerOK, SameView
  <2>2. t = Settled(q, "Unknown")
    BY <1>2, <1>3, <1>5, <2>1, UpdateStateIs
  <2>3. /\ t \in Client /\ SameView(q, t) /\ SameEvents(q, t)
        /\ StreamOK(t) /\ OnlineOK(t) /\ RequestsOK(t) /\ ResponsesOK(t, refused)
        /\ t.listens = q.listens /\ t.kept = q.kept /\ t.enabled = q.enabled
        /\ t.close_count = q.close_count /\ t.agg.current = 0
    BY <1>3, <2>1, <2>2, SettledParts
  <2>4. SameView(s, t) /\ SameEvents(s, t)
    BY <1>3, <2>3 DEF SameView, SameEvents
  <2>5. TokensStay(s, t)
    BY <1>3, <2>3 DEF TokensStay
  <2>6. t.listens = s.listens /\ t.kept = s.kept /\ t.enabled /\ t.agg.current \in {s.agg.current, 0}
    BY <1>0, <1>3, <2>3
  <2> QED BY <2>3, <2>4, <2>5, <2>6, Unheard
<1>6. CASE s.target
  <2>1. /\ p \in Client /\ SameStream(q, p) /\ SameWire(q, p) /\ p.kept = q.kept
        /\ p.enabled = q.enabled /\ p.target = q.target /\ p.listeners = q.listeners
        /\ TrackerOK(p) /\ (p.failures = 0 => ~p.online_timer)
        /\ ListenersOK(p) /\ EventsOK(p) /\ NewEvents(q, p.out)
        /\ p.view.current \in {q.view.current, 0}
        /\ SameEvents(q, p) \/ (p.online = "Offline" /\ p.failures # 0)
    BY <1>3, <1>4, FailureParts
  <2>2. t = StartWatchStream(p)
    BY <1>2, <1>6
  <2> HIDE DEF p
  <2>3. Stopped(p)
    BY <1>3, <2>1 DEF Stopped, SameStream, SameWire
  <2>4. p.enabled /\ p.target /\ SnapOK(p)
    BY <1>0, <1>3, <1>6, <2>1 DEF SameView, ListenersOK, SnapOK
  <2>5. /\ t \in Client /\ SameView(p, t) /\ SameEvents(p, t)
        /\ StreamOK(t) /\ OnlineOK(t) /\ RequestsOK(t) /\ ResponsesOK(t, refused)
        /\ t.listens = p.listens /\ t.kept = p.kept /\ t.enabled = p.enabled
        /\ t.close_count = p.close_count /\ t.agg.current = 0
        /\ p.failures # 0 => t.online = p.online
    BY <2>1, <2>2, <2>3, <2>4, StartedParts
  <2>6. ListenersOK(t)
    BY <2>1, <2>5, ViewKept DEF SameEvents
  <2>7. EventsOK(t)
    BY <2>1, <2>5, EventsKept DEF SameView
  <2>8. t.listens = s.listens /\ t.kept = s.kept /\ t.enabled /\ t.listeners = s.listeners
        /\ t.view.current \in {s.view.current, 0} /\ t.out = p.out /\ t.raised = p.raised
    BY <1>0, <1>3, <2>1, <2>5 DEF SameWire, SameView, SameEvents
  <2>9. CurrentOK(t)
    <3>1. s.listens \in Nat /\ t.agg.current \in {s.agg.current, 0}
      BY <1>0, <2>5 DEF Client
    <3> QED BY <1>0, <2>8, <3>1, CurrentKept
  <2>10. ClientOK(t, refused)
    BY <2>5, <2>6, <2>7, <2>8, <2>9 DEF ClientOK
  <2>11. q.out = s.out /\ q.raised = s.raised /\ q.listeners = s.listeners
    BY <1>3 DEF SameView, SameEvents
  <2>12. NewEvents(s, t.out)
    BY <2>1, <2>8, <2>11 DEF NewEvents
  <2>13. CacheOnly(s, t.out, t.online)
    <3>1. CASE SameEvents(q, p)
      <4>1. SameEvents(s, t)
        BY <2>8, <2>11, <3>1 DEF SameEvents
      <4> QED BY <1>0, <2>5, <4>1, SameEventsNew
    <3>2. CASE p.online = "Offline" /\ p.failures # 0
      BY <2>5, <3>2 DEF CacheOnly
    <3> QED BY <2>1, <3>1, <3>2
  <2>14. TokensStay(s, t)
    BY <1>3, <2>1, <2>5 DEF TokensStay, SameStream
  <2>15. t.listeners \in Seq(ToSet(s.listeners))
    BY <1>0, <2>8, ClientSeqs
  <2>16. Evolves(s, t)
    BY <2>8, <2>12, <2>13, <2>14, <2>15 DEF Evolves
  <2> QED BY <2>10, <2>16
<1> QED BY <1>5, <1>6

\* The network is stopped and started again.
LEMMA RestartOK ==
  ASSUME NEW s, NEW refused, ClientOK(s, refused)
  PROVE  LET t == RestartNetwork(s)
         IN  ClientOK(t, refused) /\ Evolves(s, t)
<1> DEFINE d == [s EXCEPT !.enabled = FALSE]
           c == CloseWatchStream(d, "Ok")
           r == Settled([c EXCEPT !.agg = NewTargetState], "Unknown")
           i == [r EXCEPT !.state = "Initial"]
           e == [i EXCEPT !.enabled = TRUE]
           t == RestartNetwork(s)
<1> SUFFICES ClientOK(t, refused) /\ Evolves(s, t)
  OBVIOUS
<1>0. s \in Client /\ StreamOK(s) /\ OnlineOK(s) /\ ListenersOK(s) /\ RequestsOK(s)
      /\ ResponsesOK(s, refused) /\ CurrentOK(s) /\ EventsOK(s) /\ s.enabled
  BY DEF ClientOK
<1>1. /\ d \in Client /\ SameStream(s, d) /\ SameWire(s, d) /\ SameView(s, d) /\ SameEvents(s, d)
      /\ SameTracker(s, d) /\ d.kept = s.kept /\ d.enabled = FALSE
  BY <1>0 DEF Client, SameStream, SameWire, SameView, SameEvents, SameTracker
<1> HIDE DEF d
<1>2. StreamOK(d) /\ SnapOK(d) /\ d.em_online = d.online
  <2>1. StreamOK(d)
    BY <1>0, <1>1, StreamKept DEF SameView
  <2> QED BY <1>0, <1>1, <2>1 DEF SameView, SameEvents, SameTracker, OnlineOK, ListenersOK, SnapOK
<1>3. \* the stream is stopped
      /\ c \in Client /\ Stopped(c) /\ SameView(d, c) /\ SameEvents(d, c) /\ c.em_online = c.online
      /\ c.listens = d.listens /\ c.kept = d.kept /\ c.enabled = FALSE
      /\ c.close_count > d.close_count \/ (c.close_count = d.close_count /\ ~IsStarted(d))
  <2>1. CASE ~IsStarted(d)
    <3>1. c = d
      BY <2>1 DEF CloseWatchStream, IgnoresClose
    <3>2. Stopped(d)
      BY <1>1, <1>2, <2>1, NotStarted
    <3>3. SameView(d, d) /\ SameEvents(d, d)
      BY DEF SameView, SameEvents
    <3> HIDE DEF c
    <3> QED BY <1>1, <1>2, <2>1, <3>1, <3>2, <3>3
  <2>2. CASE IsStarted(d)
    <3> DEFINE q == Cut(d, "Ok")
    <3>1. c = UpdateState(q, "Unknown")
      BY <1>1, <1>2, <2>2, CloseIs
    <3>2. /\ q \in Client /\ Stopped(q) /\ SameTracker(d, q) /\ SameView(d, q) /\ SameEvents(d, q)
          /\ q.listens = d.listens /\ q.kept = d.kept /\ q.enabled = d.enabled
          /\ q.close_count > d.close_count /\ q.agg.outstanding = 0 /\ q.agg.current = 0
      BY <1>1, <1>2, CutFields
    <3> HIDE DEF q, c
    <3>3. q.em_online = q.online /\ SnapOK(q)
      BY <1>2, <3>2 DEF SameTracker, SameView, SameEvents, SnapOK
    <3>4. c = Settled(q, "Unknown")
      BY <3>1, <3>2, <3>3, UpdateStateIs
    <3>5. /\ c \in Client /\ SameStream(q, c) /\ SameWire(q, c) /\ SameView(q, c) /\ SameEvents(q, c)
          /\ c.kept = q.kept /\ c.enabled = q.enabled
          /\ c.online = "Unknown" /\ c.em_online = "Unknown" /\ c.failures = 0 /\ c.online_timer = FALSE
      BY <3>2, <3>4, SettledFields
    <3>6. Stopped(c) /\ SameView(d, c) /\ SameEvents(d, c) /\ c.listens = d.listens
          /\ c.close_count > d.close_count
      BY <3>2, <3>5 DEF Stopped, SameStream, SameWire, SameView, SameEvents
    <3> QED BY <1>1, <3>2, <3>5, <3>6
  <2> QED BY <2>1, <2>2
<1>4. NewTargetState \in TargetStates /\ NewTargetState.outstanding = 0 /\ NewTargetState.current = 0
  BY DEF NewTargetState, TargetStates
<1>5. \* the tracker and the target state are reset
      /\ UpdateState([c EXCEPT !.agg = NewTargetState], "Unknown") = r
      /\ r \in Client /\ Stopped(r) /\ SameView(d, r) /\ SameEvents(d, r)
      /\ r.online = "Unknown" /\ r.em_online = "Unknown" /\ r.failures = 0 /\ r.online_timer = FALSE
      /\ r.listens = d.listens /\ r.kept = d.kept /\ r.close_count = c.close_count
      /\ r.agg = NewTargetState
  <2> DEFINE q == [c EXCEPT !.agg = NewTargetState]
  <2> HIDE DEF c
  <2>1. /\ q \in Client /\ SameStream(c, q) /\ SameTracker(c, q) /\ SameView(c, q) /\ SameEvents(c, q)
        /\ q.up = c.up /\ q.down = c.down /\ q.watched = c.watched /\ q.listens = c.listens
        /\ q.kept = c.kept /\ q.agg = NewTargetState
    <3>1. c \in Client
      BY <1>3
    <3> QED BY ONLY <1>4, <3>1 DEF Client, SameStream, SameTracker, SameView, SameEvents
  <2> HIDE DEF q
  <2>2. q.em_online = q.online /\ SnapOK(q)
    BY <1>2, <1>3, <2>1 DEF SameTracker, SameView, SameEvents, SnapOK
  <2>3. UpdateState(q, "Unknown") = Settled(q, "Unknown")
    BY <2>1, <2>2, UpdateStateIs
  <2>4. r = Settled(q, "Unknown")
    BY DEF q
  <2> HIDE DEF r
  <2>5. /\ r \in Client /\ SameStream(q, r) /\ SameWire(q, r) /\ SameView(q, r) /\ SameEvents(q, r)
        /\ r.kept = q.kept /\ r.enabled = q.enabled
        /\ r.online = "Unknown" /\ r.em_online = "Unknown" /\ r.failures = 0 /\ r.online_timer = FALSE
    BY <2>1, <2>4, SettledFields
  <2>6. Stopped(r)
    BY <1>3, <2>1, <2>5 DEF Stopped, SameStream, SameWire
  <2>7. SameView(d, r) /\ SameEvents(d, r)
    BY <1>3, <2>1, <2>5 DEF SameView, SameEvents
  <2>8. r.listens = d.listens /\ r.kept = d.kept /\ r.close_count = c.close_count /\ r.agg = NewTargetState
    BY <1>3, <2>1, <2>5 DEF SameStream, SameWire
  <2>9. UpdateState([c EXCEPT !.agg = NewTargetState], "Unknown") = r
    BY <2>3, <2>4 DEF q
  <2> QED BY <2>5, <2>6, <2>7, <2>8, <2>9
<1> HIDE DEF c, r
<1>6. InhibitBackoff(r) = i
  <2>1. ~IsStarted(r)
    BY <1>5 DEF Stopped, IsStarted
  <2>2. HARD_ASSERT(r, ~IsStarted(r)) = r
    BY <1>5, <2>1, AssertHolds
  <2> QED BY <2>2 DEF InhibitBackoff
<1>7. /\ e \in Client /\ e.state = "Initial" /\ e.enabled = TRUE
      /\ e.timers = r.timers /\ e.asks = r.asks /\ e.close_count = r.close_count
      /\ e.credentials = r.credentials /\ SameWire(r, e) /\ SameTracker(r, e) /\ SameView(r, e)
      /\ SameEvents(r, e) /\ e.kept = r.kept
  <2>1. r \in Client /\ "Initial" \in States
    BY <1>5 DEF States
  <2> QED BY ONLY <2>1 DEF Client, SameWire, SameTracker, SameView, SameEvents
<1>8. t = EnableNetwork(i)
  <2>1. Then(c, LAMBDA x : UpdateState([x EXCEPT !.agg = NewTargetState], "Unknown")) = r
    BY <1>5, ThenIs
  <2>2. t = Then(Then(Then(c, LAMBDA x : UpdateState([x EXCEPT !.agg = NewTargetState], "Unknown")),
                      InhibitBackoff), EnableNetwork)
    BY DEF RestartNetwork, c, d
  <2>3. Then(r, InhibitBackoff) = i
    BY <1>6, ThenIs
  <2> HIDE DEF i, t
  <2>4. Then(i, EnableNetwork) = EnableNetwork(i)
    BY ThenIs
  <2> QED BY <2>1, <2>2, <2>3, <2>4
<1>9. /\ Stopped(e) /\ SnapOK(e) /\ TrackerOK(e) /\ e.failures = 0 /\ ~e.online_timer
      /\ e.target = s.target /\ e.agg.outstanding = 0 /\ e.agg.current = 0 /\ e.em_online = e.online
  <2> HIDE DEF e
  <2>1. Stopped(e)
    BY <1>5, <1>7 DEF Stopped, SameWire
  <2>2. SnapOK(e)
    BY <1>2, <1>5, <1>7 DEF SnapOK, SameView, SameEvents
  <2>3. TrackerOK(e) /\ e.failures = 0 /\ ~e.online_timer /\ e.em_online = e.online
    BY <1>5, <1>7 DEF TrackerOK, SameTracker
  <2>4. e.target = s.target /\ e.agg.outstanding = 0 /\ e.agg.current = 0
    BY <1>1, <1>4, <1>5, <1>7 DEF SameView, SameWire
  <2> QED BY <2>1, <2>2, <2>3, <2>4
<1>10. t = IF s.target THEN StartWatchStream(e) ELSE Settled(e, "Unknown")
  <2> HIDE DEF e, t
  <2>1. ShouldStartWatchStream(e) <=> s.target
    BY <1>7, <1>9 DEF ShouldStartWatchStream, IsStarted
  <2>2. UpdateState(e, "Unknown") = Settled(e, "Unknown")
    BY <1>7, <1>9, UpdateStateIs
  <2> QED BY <1>8, <2>1, <2>2 DEF EnableNetwork, e
<1> HIDE DEF e, i, t
<1>11. /\ t \in Client /\ SameView(e, t) /\ SameEvents(e, t)
       /\ StreamOK(t) /\ OnlineOK(t) /\ RequestsOK(t) /\ ResponsesOK(t, refused)
       /\ t.listens = e.listens /\ t.kept = e.kept /\ t.enabled = e.enabled
       /\ t.close_count = e.close_count /\ t.agg.current = 0
  <2>1. CASE s.target
    <3>1. t = StartWatchStream(e)
      BY <1>10, <2>1
    <3>2. e \in Client /\ e.enabled /\ e.target /\ Stopped(e) /\ TrackerOK(e) /\ SnapOK(e)
          /\ (e.failures = 0 => ~e.online_timer)
      BY <1>7, <1>9, <2>1
    <3> QED BY ONLY <3>1, <3>2, StartedParts, BoundsAssumption
  <2>2. CASE ~s.target
    <3>1. t = Settled(e, "Unknown")
      BY <1>10, <2>2
    <3>2. e \in Client /\ Stopped(e) /\ ~e.target /\ e.agg.outstanding = 0 /\ e.agg.current = 0
      BY <1>7, <1>9, <2>2
    <3> QED BY ONLY <3>1, <3>2, SettledParts, BoundsAssumption
  <2> QED BY <2>1, <2>2
<1>12. SameView(s, t) /\ SameEvents(s, t)
  BY <1>1, <1>5, <1>7, <1>11 DEF SameView, SameEvents
<1>13. t.listens = s.listens /\ t.kept = s.kept /\ t.enabled /\ t.agg.current \in {s.agg.current, 0}
  BY <1>1, <1>5, <1>7, <1>11 DEF SameWire
<1>14. TokensStay(s, t)
  <2>1. d.close_count = s.close_count /\ t.close_count = c.close_count
    BY <1>1, <1>5, <1>7, <1>11 DEF SameStream
  <2>2. ~IsStarted(d) => s.state # "Starting"
    BY <1>1 DEF IsStarted, SameStream
  <2> QED BY <1>3, <2>1, <2>2 DEF TokensStay
<1> QED BY <1>11, <1>12, <1>13, <1>14, Unheard

-----------------------------------------------------------------------------
(***************************************************************************)
(* Removing a listener.                                                    *)
(***************************************************************************)

\* The elements that are left keep their order.
LEMMA RemoveAtParts ==
  ASSUME NEW S, NEW s \in Seq(S), NEW i \in 1..Len(s)
  PROVE  \A k \in 1..(Len(s) - 1) : RemoveAt(s, i)[k] = IF k < i THEN s[k] ELSE s[k + 1]
<1> DEFINE a == SubSeq(s, 1, i - 1)
           b == SubSeq(s, i + 1, Len(s))
<1>0. Len(s) \in Nat /\ \A k \in 1..Len(s) : s[k] \in S
  BY LenProperties, ElementOfSeq
<1>1. a \in Seq(S) /\ Len(a) = i - 1 /\ \A k \in 1..(i - 1) : a[k] = s[k]
  BY <1>0, SubSeqProperties
<1>2. b \in Seq(S) /\ Len(b) = Len(s) - i /\ \A k \in 1..(Len(s) - i) : b[k] = s[i + k]
  BY <1>0, SubSeqProperties
<1>3. RemoveAt(s, i) = a \o b
  BY DEF RemoveAt
<1> HIDE DEF a, b
<1>4. \A k \in 1..Len(a) : (a \o b)[k] = a[k]
  BY <1>1, <1>2, ConcatParts
<1>5. \A k \in 1..Len(b) : (a \o b)[Len(a) + k] = b[k]
  BY <1>1, <1>2, ConcatParts
<1> TAKE k \in 1..(Len(s) - 1)
<1>6. CASE k < i
  <2>1. k \in 1..(i - 1)
    BY <1>6
  <2> QED BY <1>1, <1>3, <1>4, <1>6, <2>1
<1>7. CASE ~(k < i)
  <2> DEFINE j == k - (i - 1)
  <2>1. j \in 1..(Len(s) - i) /\ (i - 1) + j = k /\ i + j = k + 1
    BY <1>0, <1>7
  <2> HIDE DEF j
  <2>2. (a \o b)[Len(a) + j] = b[j] /\ b[j] = s[i + j]
    BY <1>2, <1>5, <2>1
  <2> QED BY <1>1, <1>3, <1>7, <2>1, <2>2
<1> QED BY <1>6, <1>7

Distinct(ls) == \A i, j \in 1..Len(ls) : ls[i] = ls[j] => i = j

\* Without the first occurrence of an element, the others remain.
LEMMA RemoveFirstIs ==
  ASSUME NEW S, NEW ls \in Seq(S), Distinct(ls), NEW g
  PROVE  RemoveFirst(ls, g) \in Seq(S) /\ Distinct(RemoveFirst(ls, g))
<1>0. Len(ls) \in Nat
  BY LenProperties
<1>1. CASE \E i \in 1..Len(ls) : ls[i] = g
  <2> DEFINE I == {i \in 1..Len(ls) : ls[i] = g}
             p == Min(I)
             t == RemoveAt(ls, p)
  <2>1. RemoveFirst(ls, g) = t
    BY <1>1 DEF RemoveFirst, SelectInSeq
  <2>2. I \in SUBSET Nat /\ I # {}
    BY <1>0, <1>1
  <2>3. p \in I
    <3> HIDE DEF I
    <3>1. \E x \in I : \A y \in I : x <= y
      BY <2>2, FirstPosition
    <3> QED BY <3>1 DEF Min
  <2>4. p \in 1..Len(ls)
    BY <2>3
  <2> HIDE DEF I, p
  <2>5. t \in Seq(S) /\ Len(t) = Len(ls) - 1
    BY <2>4, RemoveAtSeq
  <2>6. \A k \in 1..(Len(ls) - 1) : t[k] = IF k < p THEN ls[k] ELSE ls[k + 1]
    BY <2>4, RemoveAtParts
  <2> HIDE DEF t
  <2>7. ASSUME NEW i \in 1..Len(t), NEW j \in 1..Len(t), t[i] = t[j] PROVE i = j
    <3> DEFINE u == IF i < p THEN i ELSE i + 1
               v == IF j < p THEN j ELSE j + 1
    <3>1. u \in 1..Len(ls) /\ v \in 1..Len(ls) /\ (u = v => i = j)
      BY <1>0, <2>4, <2>5
    <3>2. t[i] = ls[u] /\ t[j] = ls[v]
      BY <2>5, <2>6
    <3> HIDE DEF u, v
    <3> QED BY <2>7, <3>1, <3>2 DEF Distinct
  <2> QED BY <2>1, <2>5, <2>7 DEF Distinct
<1>2. CASE ~\E i \in 1..Len(ls) : ls[i] = g
  BY <1>2 DEF RemoveFirst
<1> QED BY <1>1, <1>2

\* The last listener is gone: the view and the target go, too.
Unlistened(s) ==
  [s EXCEPT !.listeners = << >>, !.snap = NoSnapshot, !.view = NoView, !.target = FALSE]

LEMMA UnlistenedFields ==
  ASSUME NEW s \in Client, NEW t, t = Unlistened(s)
  PROVE  /\ t \in Client /\ SameStream(s, t) /\ SameWire(s, t) /\ SameTracker(s, t) /\ SameEvents(s, t)
         /\ t.kept = s.kept /\ t.enabled = s.enabled
         /\ t.listeners = << >> /\ t.snap = NoSnapshot /\ t.view = NoView /\ t.target = FALSE
<1>1. t = [s EXCEPT !.listeners = << >>, !.snap = NoSnapshot, !.view = NoView, !.target = FALSE]
  BY DEF Unlistened
<1>2. << >> \in Seq(Gets) /\ NoSnapshot \in Snapshots \cup {NoSnapshot} /\ s \in Client
  OBVIOUS
<1>3. NoView \in Views
  BY DEF NoView, Views
<1>4. t \in Client
  BY ONLY <1>1, <1>2, <1>3 DEF Client
<1>5. /\ SameStream(s, t) /\ SameWire(s, t) /\ SameTracker(s, t) /\ SameEvents(s, t)
      /\ t.kept = s.kept /\ t.enabled = s.enabled
      /\ t.listeners = << >> /\ t.snap = NoSnapshot /\ t.view = NoView /\ t.target = FALSE
  BY ONLY <1>1, <1>2 DEF Client, SameStream, SameWire, SameTracker, SameEvents
<1> QED BY <1>4, <1>5

\* What it leaves when the stream is open: an unwatch request, and a timer.
Idling(s) == [s EXCEPT !.timers = @ \cup {"idle"}]

LEMMA IdlingFields ==
  ASSUME NEW s \in Client, NEW t, t = Idling(s)
  PROVE  /\ t \in Client /\ SameWire(s, t) /\ SameTracker(s, t) /\ SameView(s, t) /\ SameEvents(s, t)
         /\ t.state = s.state /\ t.asks = s.asks /\ t.close_count = s.close_count
         /\ t.credentials = s.credentials /\ t.timers = s.timers \cup {"idle"}
         /\ t.kept = s.kept /\ t.enabled = s.enabled
<1> DEFINE ti == s.timers \cup {"idle"}
<1>1. s \in Client /\ ti \in SUBSET Timers
  BY DEF Client, Timers
<1>2. t = [s EXCEPT !.timers = ti]
  BY DEF Idling, Client
<1> HIDE DEF ti
<1>3. t \in Client
  BY ONLY <1>1, <1>2 DEF Client
<1>4. /\ SameWire(s, t) /\ SameTracker(s, t) /\ SameView(s, t) /\ SameEvents(s, t)
      /\ t.state = s.state /\ t.asks = s.asks /\ t.close_count = s.close_count
      /\ t.credentials = s.credentials /\ t.timers = ti
      /\ t.kept = s.kept /\ t.enabled = s.enabled
  BY ONLY <1>1, <1>2 DEF Client, SameWire, SameTracker, SameView, SameEvents
<1> QED BY <1>3, <1>4 DEF ti

LEMMA StopListeningIs ==
  ASSUME NEW s \in Client, s.enabled, s.view.on, s.target, s.em_online = s.online
  PROVE  LET p == Unlistened(s)
         IN  SyncEngineStopListening([s EXCEPT !.listeners = << >>, !.snap = NoSnapshot]) =
               IF s.state = "Open" THEN Idling(Requested(p, "unwatch")) ELSE Settled(p, "Unknown")
<1> DEFINE a == [s EXCEPT !.listeners = << >>, !.snap = NoSnapshot]
           b == [s EXCEPT !.listeners = << >>, !.snap = NoSnapshot, !.view = NoView]
           p == Unlistened(s)
<1>0. << >> \in Seq(Gets) /\ NoSnapshot \in Snapshots \cup {NoSnapshot} /\ s \in Client /\ s.view.on /\ s.target
  OBVIOUS
<1>1. a \in Client /\ a.view.on
  <2>1. a \in Client
    BY ONLY <1>0 DEF Client
  <2>2. a.view = s.view
    BY ONLY <1>0 DEF Client
  <2> QED BY <1>0, <2>1, <2>2
<1>2. b \in Client /\ b.target
  <2>1. NoView \in Views
    BY DEF NoView, Views
  <2>2. b \in Client
    BY ONLY <1>0, <2>1 DEF Client
  <2>3. b.target = s.target
    BY ONLY <1>0 DEF Client
  <2> QED BY <1>0, <2>2, <2>3
<1>3. HARD_ASSERT(a, a.view.on) = a
  <2> HIDE DEF a
  <2> QED BY <1>1, AssertHolds
<1>4. HARD_ASSERT(b, b.target) = b
  <2> HIDE DEF b
  <2> QED BY <1>2, AssertHolds
<1>5. SyncEngineStopListening(a) = RemoteStopListening(b)
  <2>1. [a EXCEPT !.view = NoView] = b
    OBVIOUS
  <2> HIDE DEF a, b
  <2> QED BY <1>3, <2>1 DEF SyncEngineStopListening
<1>6. [HARD_ASSERT(b, b.target) EXCEPT !.target = FALSE] = p
  BY <1>4 DEF Unlistened
<1>7. /\ p \in Client /\ SameStream(s, p) /\ SameTracker(s, p) /\ SameWire(s, p)
      /\ p.enabled = s.enabled /\ p.snap = NoSnapshot
  BY UnlistenedFields
<1> HIDE DEF p, b, a
<1>8. CASE s.state = "Open"
  <2>1. p.state = "Open"
    BY <1>7, <1>8 DEF SameStream
  <2>2. SendRequest(p, "unwatch") = Requested(p, "unwatch")
    BY <1>7, <2>1, SendRequestIs
  <2> DEFINE q == Requested(p, "unwatch")
  <2>3. q.state = "Open"
    BY <1>7, <2>1, RequestedFields, ZenonT(60)
  <2> HIDE DEF q
  <2>4. MarkIdle(q) = Idling(q)
    BY <2>3 DEF MarkIdle, Idling, IsOpen
  <2>5. RemoteStopListening(b) = MarkIdle(q)
    BY <1>6, <2>1, <2>2 DEF RemoteStopListening, IsOpen, q
  <2> QED BY <1>5, <1>8, <2>4, <2>5 DEF a, p, q
<1>9. CASE s.state # "Open"
  <2>1. ~IsOpen(p) /\ p.enabled
    BY <1>7, <1>9 DEF SameStream, IsOpen
  <2>2. p.em_online = p.online /\ SnapOK(p)
    BY <1>7 DEF SameTracker, SnapOK, NoSnapshot
  <2>3. UpdateState(p, "Unknown") = Settled(p, "Unknown")
    BY <1>7, <2>2, UpdateStateIs
  <2>4. RemoteStopListening(b) = UpdateState(p, "Unknown")
    BY <1>6, <2>1 DEF RemoteStopListening
  <2> QED BY <1>5, <1>9, <2>3, <2>4 DEF a, p
<1> QED BY <1>8, <1>9

\* A client without listeners, whose stream is in order.
LEMMA Deserted ==
  ASSUME NEW s, NEW refused, ClientOK(s, refused), NEW t \in Client, SameEvents(s, t),
         t.listeners = << >>, t.snap = NoSnapshot, t.view = NoView, t.target = FALSE,
         StreamOK(t), OnlineOK(t), RequestsOK(t), ResponsesOK(t, refused),
         t.listens = s.listens, t.kept = s.kept, t.enabled,
         t.agg.current = s.agg.current, TokensStay(s, t)
  PROVE  ClientOK(t, refused) /\ Evolves(s, t)
<1>0. s \in Client /\ ListenersOK(s) /\ CurrentOK(s) /\ EventsOK(s)
  BY DEF ClientOK
<1>1. NoView.on = FALSE /\ NoView.current = 0 /\ NoSnapshot # "server" /\ Len(<< >>) = 0
  BY DEF NoView, NoSnapshot
<1>2. ListenersOK(t)
  <2>1. \A i, j \in 1..Len(t.listeners) : t.listeners[i] = t.listeners[j] => i = j
    BY <1>1
  <2> QED BY <1>1, <2>1 DEF ListenersOK
<1>3. CurrentOK(t)
  <2>1. s.listens \in Nat /\ t.view.current \in {s.view.current, 0}
    BY <1>0, <1>1 DEF Client
  <2> QED BY <1>0, <2>1, CurrentKept
<1>4. ToSet(t.listeners) = {}
  BY DEF ToSet
<1>5. EventsOK(t)
  BY <1>0, <1>4, EventsKept
<1>6. ClientOK(t, refused)
  BY <1>2, <1>3, <1>5 DEF ClientOK
<1>7. NewEvents(s, t.out) /\ CacheOnly(s, t.out, t.online)
  BY <1>0, SameEventsNew
<1>8. t.listeners \in Seq(ToSet(s.listeners))
  OBVIOUS
<1> QED BY <1>6, <1>7, <1>8 DEF Evolves

\* A removal, however late: of a listener that is there or not.
LEMMA RemoveListenerOK ==
  ASSUME NEW s, NEW refused, ClientOK(s, refused), NEW g
  PROVE  LET t == RemoveQueryListener(s, g)
         IN  ClientOK(t, refused) /\ Evolves(s, t)
<1> DEFINE t == RemoveQueryListener(s, g)
           left == RemoveFirst(s.listeners, g)
<1> SUFFICES ClientOK(t, refused) /\ Evolves(s, t)
  OBVIOUS
<1>0. s \in Client /\ StreamOK(s) /\ OnlineOK(s) /\ ListenersOK(s) /\ RequestsOK(s)
      /\ ResponsesOK(s, refused) /\ CurrentOK(s) /\ EventsOK(s) /\ s.enabled
  BY DEF ClientOK
<1>1. s.listeners \in Seq(ToSet(s.listeners)) /\ ToSet(s.listeners) \subseteq Gets
  BY <1>0, ClientSeqs
<1>2. left \in Seq(ToSet(s.listeners)) /\ Distinct(left)
  <2> DEFINE S == ToSet(s.listeners)
             ls == s.listeners
  <2>1. Distinct(ls) /\ ls \in Seq(S)
    BY <1>0, <1>1 DEF ListenersOK, Distinct
  <2> HIDE DEF S, ls
  <2>2. RemoveFirst(ls, g) \in Seq(S) /\ Distinct(RemoveFirst(ls, g))
    BY <2>1, RemoveFirstIs
  <2> QED BY <2>2 DEF S, ls
<1> HIDE DEF left
<1>3. CASE s.listeners = << >>
  <2>1. t = s
    BY <1>3 DEF RemoveQueryListener
  <2> HIDE DEF t
  <2>2. SameStream(s, t) /\ SameEvents(s, t)
    BY <2>1 DEF SameStream, SameEvents
  <2> QED BY <1>0, <2>1, <2>2, SameStreamTokens, EvolvesQuietly
<1>4. CASE s.listeners # << >> /\ left # << >>
  <2>1. t = [s EXCEPT !.listeners = left]
    BY <1>4 DEF RemoveQueryListener, left
  <2> HIDE DEF t
  <2>2. left \in Seq(Gets) /\ ToSet(left) \subseteq ToSet(s.listeners)
    <3> DEFINE S == ToSet(s.listeners)
    <3>1. Len(left) \in Nat /\ DOMAIN left = 1..Len(left)
      BY <1>2, LenProperties
    <3>2. left \in Seq(S) /\ S \subseteq Gets
      BY <1>1, <1>2
    <3> HIDE DEF S
    <3>3. \A k \in 1..Len(left) : left[k] \in S
      BY <3>2, ElementOfSeq
    <3>4. left \in Seq(Gets)
      BY <3>2
    <3> QED BY <3>1, <3>3, <3>4 DEF S, ToSet
  <2>3. t \in Client
    BY ONLY <1>0, <2>1, <2>2 DEF Client
  <2>4. /\ SameStream(s, t) /\ SameWire(s, t) /\ SameTracker(s, t) /\ SameEvents(s, t)
        /\ t.kept = s.kept /\ t.enabled = s.enabled /\ t.listeners = left
        /\ t.snap = s.snap /\ t.view = s.view /\ t.target = s.target
    BY ONLY <1>0, <2>1 DEF Client, SameStream, SameWire, SameTracker, SameEvents
  <2>5. StreamOK(t)
    BY <1>0, <2>4, StreamKept
  <2>6. OnlineOK(t)
    BY <1>0, <2>4, TrackerKept DEF SameStream, IsStarted
  <2>7. RequestsOK(t) /\ ResponsesOK(t, refused)
    BY <1>0, <2>4, WireKept
  <2>8. ListenersOK(t)
    BY <1>0, <1>2, <1>4, <2>2, <2>4 DEF ListenersOK, SameEvents, Distinct
  <2>9. CurrentOK(t)
    <3>1. s.listens \in Nat
      BY <1>0 DEF Client
    <3> QED BY <1>0, <2>4, <3>1, CurrentKept DEF SameWire
  <2>10. EventsOK(t)
    BY <1>0, <2>2, <2>3, <2>4, EventsKept
  <2>11. ClientOK(t, refused)
    BY <1>0, <2>3, <2>4, <2>5, <2>6, <2>7, <2>8, <2>9, <2>10 DEF ClientOK
  <2>12. NewEvents(s, t.out) /\ CacheOnly(s, t.out, t.online)
    BY <1>0, <2>3, <2>4, SameEventsNew
  <2>13. TokensStay(s, t)
    BY <2>4, SameStreamTokens
  <2> QED BY <1>2, <2>4, <2>11, <2>12, <2>13 DEF Evolves, SameWire
<1>5. CASE s.listeners # << >> /\ left = << >>
  <2> DEFINE p == Unlistened(s)
  <2>1. s.view.on /\ s.target /\ s.em_online = s.online /\ IsStarted(s)
    BY <1>0, <1>5 DEF ListenersOK, OnlineOK, StreamOK
  <2>2. t = IF s.state = "Open" THEN Idling(Requested(p, "unwatch")) ELSE Settled(p, "Unknown")
    <3>1. t = SyncEngineStopListening([s EXCEPT !.listeners = << >>, !.snap = NoSnapshot])
      BY <1>5 DEF RemoveQueryListener, left
    <3> HIDE DEF t
    <3> QED BY <1>0, <2>1, <3>1, StopListeningIs
  <2>3. /\ p \in Client /\ SameStream(s, p) /\ SameWire(s, p) /\ SameTracker(s, p) /\ SameEvents(s, p)
        /\ p.kept = s.kept /\ p.enabled = s.enabled
        /\ p.listeners = << >> /\ p.snap = NoSnapshot /\ p.view = NoView /\ p.target = FALSE
    BY <1>0, UnlistenedFields
  <2> HIDE DEF t, p
  <2>4. RequestsOK(p) /\ ResponsesOK(p, refused)
    BY <1>0, <2>3, WireKept
  <2>5. CASE s.state = "Open"
    <3> DEFINE q == Requested(p, "unwatch")
    <3>1. /\ q \in Client /\ SameTracker(p, q) /\ SameView(p, q) /\ SameEvents(p, q)
          /\ q.state = p.state /\ q.asks = p.asks /\ q.close_count = p.close_count
          /\ q.credentials = p.credentials /\ q.enabled = p.enabled /\ q.listens = p.listens
          /\ q.down = p.down /\ q.watched = p.watched /\ q.timers = p.timers \ {"idle"}
          /\ q.up = Append(p.up, [kind |-> "unwatch", listen |-> q.listens])
          /\ q.agg.known /\ q.agg.outstanding = p.agg.outstanding + 1
          /\ q.agg.current = p.agg.current
          /\ q.kept = (p.kept \/ ("unwatch" = "watch" /\ p.agg.current # 0))
      BY <2>3, RequestedFields
    <3>2. t = Idling(q)
      BY <2>2, <2>5
    <3> HIDE DEF q
    <3>3. q.listens \in Nat
      BY <3>1 DEF Client
    <3>4. p.listens <= q.listens
      BY <3>1, <3>3
    <3>5. RequestsOK(q) /\ ResponsesOK(q, refused)
      BY <2>3, <2>4, <3>1, <3>4, RequestSent
    <3>6. /\ t \in Client /\ SameWire(q, t) /\ SameTracker(q, t) /\ SameView(q, t) /\ SameEvents(q, t)
          /\ t.state = q.state /\ t.asks = q.asks /\ t.close_count = q.close_count
          /\ t.credentials = q.credentials /\ t.timers = q.timers \cup {"idle"}
          /\ t.kept = q.kept /\ t.enabled = q.enabled
      BY <3>1, <3>2, IdlingFields
    <3>7. RequestsOK(t) /\ ResponsesOK(t, refused)
      BY <3>5, <3>6, WireKept
    <3>8. /\ t.state = "Open" /\ t.asks = s.asks /\ t.close_count = s.close_count
          /\ t.credentials = s.credentials /\ t.listens = s.listens /\ t.agg.current = s.agg.current
          /\ t.target = FALSE /\ t.view = NoView /\ t.listeners = << >> /\ t.snap = NoSnapshot
          /\ t.enabled
      BY <1>0, <2>3, <2>5, <3>1, <3>6 DEF SameStream, SameWire, SameView
    <3>9. SameTracker(s, t) /\ SameEvents(s, t)
      BY <2>3, <3>1, <3>6 DEF SameTracker, SameEvents
    <3>10. t.timers \subseteq s.timers \cup {"idle"}
      BY <2>3, <3>1, <3>6 DEF SameStream
    <3>11. StreamOK(t)
      <4>1. "backoff" \notin t.timers
        BY <1>0, <2>5, <3>10 DEF StreamOK
      <4> QED BY <1>0, <2>5, <3>8, <4>1 DEF StreamOK
    <3>12. OnlineOK(t)
      <4>1. IsStarted(t)
        BY <3>8 DEF IsStarted
      <4> QED BY <1>0, <3>9, <4>1, TrackerKept
    <3>13. t.kept = s.kept
      <4>1. p.kept \in BOOLEAN
        BY <2>3 DEF Client
      <4> QED BY <2>3, <3>1, <3>6, <4>1
    <3>14. TokensStay(s, t)
      BY <2>5, <3>8 DEF TokensStay
    <3> QED BY <3>6, <3>7, <3>8, <3>9, <3>11, <3>12, <3>13, <3>14, Deserted
  <2>6. CASE s.state # "Open"
    <3>1. t = Settled(p, "Unknown")
      BY <2>2, <2>6
    <3>2. /\ t \in Client /\ SameStream(p, t) /\ SameWire(p, t) /\ SameView(p, t) /\ SameEvents(p, t)
          /\ t.kept = p.kept /\ t.enabled = p.enabled
          /\ t.online = "Unknown" /\ t.em_online = "Unknown" /\ t.failures = 0 /\ t.online_timer = FALSE
      BY <2>3, <3>1, SettledFields
    <3>3. RequestsOK(t) /\ ResponsesOK(t, refused)
      BY <2>4, <3>2, WireKept
    <3>4. SameStream(s, t) /\ SameEvents(s, t) /\ SameWire(s, t)
      BY <2>3, <3>2 DEF SameStream, SameEvents, SameWire
    <3>5. /\ t.target = FALSE /\ t.view = NoView /\ t.listeners = << >> /\ t.snap = NoSnapshot
          /\ t.enabled /\ t.kept = s.kept
      BY <1>0, <2>3, <3>2 DEF SameView
    <3>6. StreamOK(t)
      BY <1>0, <2>6, <3>4, <3>5 DEF StreamOK, SameStream, SameWire
    <3>7. OnlineOK(t)
      BY <3>2 DEF OnlineOK
    <3>8. TokensStay(s, t)
      BY <3>4, SameStreamTokens
    <3>9. t.listens = s.listens /\ t.agg.current = s.agg.current
      BY <3>4 DEF SameWire
    <3> QED BY <3>2, <3>3, <3>4, <3>5, <3>6, <3>7, <3>8, <3>9, Deserted
  <2> QED BY <2>5, <2>6
<1> QED BY <1>3, <1>4, <1>5

-----------------------------------------------------------------------------
(***************************************************************************)
(* Adding a listener.                                                      *)
(***************************************************************************)
Joined(s, g) == [s EXCEPT !.listeners = Append(@, g)]

\* A get that nothing has been heard of becomes a listener.
LEMMA JoinedFields ==
  ASSUME NEW s \in Client, ListenersOK(s), EventsOK(s), NEW g \in Gets,
         g \notin ToSet(s.listeners), \A k \in 1..Len(s.out) : s.out[k].get # g,
         NEW t, t = Joined(s, g)
  PROVE  /\ t \in Client /\ SameStream(s, t) /\ SameWire(s, t) /\ SameTracker(s, t) /\ SameEvents(s, t)
         /\ t.snap = s.snap /\ t.view = s.view /\ t.target = s.target
         /\ t.kept = s.kept /\ t.enabled = s.enabled /\ t.listeners = Append(s.listeners, g)
         /\ ToSet(t.listeners) = ToSet(s.listeners) \cup {g} /\ t.listeners # << >>
         /\ Distinct(t.listeners) /\ EventsOK(t)
<1> DEFINE a == s.listeners
           l == Append(a, g)
<1>1. a \in Seq(Gets) /\ s \in Client /\ Len(a) \in Nat /\ DOMAIN a = 1..Len(a)
  BY ClientSeqs
<1>2. t = [s EXCEPT !.listeners = l]
  BY DEF Joined
<1>3. ToSet(a) = {a[k] : k \in 1..Len(a)} /\ Distinct(a) /\ g \notin ToSet(a)
  BY <1>1 DEF ToSet, ListenersOK, Distinct
<1> HIDE DEF a
<1>4. /\ l \in Seq(Gets) /\ Len(l) = Len(a) + 1 /\ l[Len(a) + 1] = g
      /\ \A k \in 1..Len(a) : l[k] = a[k]
  BY <1>1, AppendParts
<1>5. DOMAIN l = 1..Len(l)
  BY <1>4, LenProperties
<1> HIDE DEF l
<1>6. t \in Client
  BY ONLY <1>1, <1>2, <1>4 DEF Client
<1>7. /\ SameStream(s, t) /\ SameWire(s, t) /\ SameTracker(s, t) /\ SameEvents(s, t)
      /\ t.snap = s.snap /\ t.view = s.view /\ t.target = s.target
      /\ t.kept = s.kept /\ t.enabled = s.enabled /\ t.listeners = l
  BY ONLY <1>1, <1>2 DEF Client, SameStream, SameWire, SameTracker, SameEvents
<1>8. ToSet(l) = ToSet(a) \cup {g}
  <2>1. ASSUME NEW k \in 1..Len(l) PROVE l[k] \in ToSet(a) \cup {g}
    <3>1. k \in 1..Len(a) \/ k = Len(a) + 1
      BY <1>1, <1>4
    <3> QED BY <1>3, <1>4, <3>1
  <2>2. ASSUME NEW k \in 1..Len(a) PROVE \E j \in 1..Len(l) : l[j] = a[k]
    <3>1. k \in 1..Len(l)
      BY <1>1, <1>4
    <3> QED BY <1>4, <3>1
  <2>3. Len(a) + 1 \in 1..Len(l)
    BY <1>1, <1>4
  <2>4. ToSet(l) = {l[k] : k \in 1..Len(l)}
    BY <1>5 DEF ToSet
  <2>5. ToSet(l) \subseteq ToSet(a) \cup {g}
    BY <2>1, <2>4
  <2>6. ToSet(a) \subseteq ToSet(l)
    BY <1>3, <2>2, <2>4
  <2>7. g \in ToSet(l)
    BY <1>4, <2>3, <2>4
  <2> QED BY <2>5, <2>6, <2>7
<1>9. Distinct(l)
  <2> SUFFICES ASSUME NEW i \in 1..Len(l), NEW j \in 1..Len(l), l[i] = l[j] PROVE i = j
    BY DEF Distinct
  <2>1. (i \in 1..Len(a) \/ i = Len(a) + 1) /\ (j \in 1..Len(a) \/ j = Len(a) + 1)
    BY <1>1, <1>4
  <2>2. \A k \in 1..Len(a) : l[k] # g
    BY <1>3, <1>4
  <2>3. CASE i \in 1..Len(a) /\ j \in 1..Len(a)
    BY <1>3, <1>4, <2>3 DEF Distinct
  <2> QED BY <1>4, <2>1, <2>2, <2>3
<1>10. l # << >>
  <2>1. Len(l) # 0
    BY <1>1, <1>4
  <2> QED BY <2>1
<1>11. EventsOK(t)
  <2>1. t.out = s.out /\ t.raised = s.raised /\ ToSet(t.listeners) = ToSet(s.listeners) \cup {g}
    BY <1>7, <1>8 DEF SameEvents, a
  <2> QED BY <2>1 DEF EventsOK
<1> QED BY <1>6, <1>7, <1>8, <1>9, <1>10, <1>11 DEF a, l

\* The target is listened to again.
Targeted(s) == [s EXCEPT !.listens = @ + 1, !.target = TRUE]

LEMMA TargetedFields ==
  ASSUME NEW s \in Client, NEW t, t = Targeted(s)
  PROVE  /\ t \in Client /\ SameStream(s, t) /\ SameTracker(s, t) /\ SameEvents(s, t)
         /\ t.up = s.up /\ t.down = s.down /\ t.watched = s.watched /\ t.agg = s.agg
         /\ t.listeners = s.listeners /\ t.snap = s.snap /\ t.view = s.view
         /\ t.kept = s.kept /\ t.enabled = s.enabled
         /\ t.target = TRUE /\ t.listens = s.listens + 1
<1> DEFINE n == s.listens + 1
<1>1. s \in Client /\ n \in Nat
  <2>1. s.listens \in Nat
    BY DEF Client
  <2> QED BY <2>1
<1>2. t = [s EXCEPT !.listens = n, !.target = TRUE]
  BY DEF Targeted
<1> HIDE DEF n
<1>3. t \in Client
  BY ONLY <1>1, <1>2 DEF Client
<1>4. /\ SameStream(s, t) /\ SameTracker(s, t) /\ SameEvents(s, t)
      /\ t.up = s.up /\ t.down = s.down /\ t.watched = s.watched /\ t.agg = s.agg
      /\ t.listeners = s.listeners /\ t.snap = s.snap /\ t.view = s.view
      /\ t.kept = s.kept /\ t.enabled = s.enabled
      /\ t.target = TRUE /\ t.listens = n
  BY ONLY <1>1, <1>2 DEF Client, SameStream, SameTracker, SameEvents
<1> QED BY <1>3, <1>4 DEF n

LEMMA RemoteListenIs ==
  ASSUME NEW s \in Client, ~s.target, s.enabled
  PROVE  LET p == Targeted(s)
         IN  RemoteListen([s EXCEPT !.listens = @ + 1]) =
               IF ~IsStarted(s) THEN StartWatchStream(p)
               ELSE IF s.state = "Open" THEN Requested(p, "watch") ELSE p
<1> DEFINE n == s.listens + 1
           a == [s EXCEPT !.listens = n]
           p == Targeted(s)
<1>1. n \in Nat
  BY DEF Client
<1>2. [a EXCEPT !.target = TRUE] = p
  BY DEF Targeted
<1> HIDE DEF n
<1>3. a.target = FALSE
  BY DEF Client
<1>4. /\ p \in Client /\ SameStream(s, p) /\ p.enabled = s.enabled /\ p.target = TRUE
  BY TargetedFields
<1> HIDE DEF a, p
<1>5. ShouldStartWatchStream(p) = ~IsStarted(s)
  BY <1>4 DEF ShouldStartWatchStream, IsStarted, SameStream
<1>6. IsOpen(p) = (s.state = "Open")
  BY <1>4 DEF IsOpen, SameStream
<1>7. RemoteListen(a) = IF ~IsStarted(s) THEN StartWatchStream(p)
                        ELSE IF s.state = "Open" THEN SendRequest(p, "watch") ELSE p
  BY <1>2, <1>3, <1>5, <1>6 DEF RemoteListen
<1>8. s.state = "Open" => SendRequest(p, "watch") = Requested(p, "watch")
  BY <1>4, SendRequestIs DEF SameStream
<1>9. RemoteListen(a) = IF ~IsStarted(s) THEN StartWatchStream(p)
                        ELSE IF s.state = "Open" THEN Requested(p, "watch") ELSE p
  BY <1>7, <1>8
<1> QED BY <1>9 DEF a, n, p

\* The target is watched: now, or when the stream has been opened.
LEMMA RemoteListenParts ==
  ASSUME NEW s \in Client, NEW refused, StreamOK(s), OnlineOK(s), RequestsOK(s),
         ResponsesOK(s, refused), CurrentOK(s), ~s.target, s.enabled, s.snap = NoSnapshot,
         NEW t, t = RemoteListen([s EXCEPT !.listens = @ + 1])
  PROVE  /\ t \in Client /\ StreamOK(t) /\ OnlineOK(t) /\ RequestsOK(t) /\ ResponsesOK(t, refused)
         /\ SameEvents(s, t) /\ t.listeners = s.listeners /\ t.snap = s.snap /\ t.view = s.view
         /\ t.target = TRUE /\ t.listens = s.listens + 1 /\ t.enabled /\ TokensStay(s, t)
         /\ t.agg.current <= s.listens /\ (t.kept \/ t.agg.current = 0)
<1> DEFINE p == Targeted(s)
<1>1. t = IF ~IsStarted(s) THEN StartWatchStream(p)
          ELSE IF s.state = "Open" THEN Requested(p, "watch") ELSE p
  BY RemoteListenIs
<1>2. /\ p \in Client /\ SameStream(s, p) /\ SameTracker(s, p) /\ SameEvents(s, p)
      /\ p.up = s.up /\ p.down = s.down /\ p.watched = s.watched /\ p.agg = s.agg
      /\ p.listeners = s.listeners /\ p.snap = s.snap /\ p.view = s.view
      /\ p.kept = s.kept /\ p.enabled = s.enabled
      /\ p.target = TRUE /\ p.listens = s.listens + 1
  BY TargetedFields
<1>3. s.listens \in Nat /\ s.listens <= s.listens + 1 /\ 0 <= s.listens
  <2>1. s.listens \in Nat
    BY DEF Client
  <2> QED BY <2>1
<1> HIDE DEF p
<1>4. CASE ~IsStarted(s)
  <2>1. t = StartWatchStream(p)
    BY <1>1, <1>4
  <2>2. Stopped(s)
    BY <1>4, NotStarted
  <2>3. Stopped(p)
    BY <1>2, <2>2 DEF Stopped, SameStream
  <2>4. TrackerOK(p) /\ (p.failures = 0 => ~p.online_timer) /\ SnapOK(p)
    BY <1>2, <1>4 DEF TrackerOK, OnlineOK, SameTracker, SnapOK, NoSnapshot
  <2>5. /\ t \in Client /\ SameView(p, t) /\ SameEvents(p, t)
        /\ StreamOK(t) /\ OnlineOK(t) /\ RequestsOK(t) /\ ResponsesOK(t, refused)
        /\ t.listens = p.listens /\ t.kept = p.kept /\ t.enabled = p.enabled
        /\ t.close_count = p.close_count /\ t.agg.current = 0
    BY <1>2, <2>1, <2>3, <2>4, StartedParts
  <2>6. SameEvents(s, t) /\ t.listeners = s.listeners /\ t.snap = s.snap /\ t.view = s.view
        /\ t.target = TRUE
    BY <1>2, <2>5 DEF SameView, SameEvents
  <2>7. TokensStay(s, t)
    BY <1>2, <1>4, <2>5 DEF TokensStay, SameStream, IsStarted
  <2> QED BY <1>2, <1>3, <2>5, <2>6, <2>7
<1>5. CASE IsStarted(s) /\ s.state = "Open"
  <2>1. t = Requested(p, "watch")
    BY <1>1, <1>5
  <2>2. /\ t \in Client /\ SameTracker(p, t) /\ SameView(p, t) /\ SameEvents(p, t)
        /\ t.state = p.state /\ t.asks = p.asks /\ t.close_count = p.close_count
        /\ t.credentials = p.credentials /\ t.enabled = p.enabled /\ t.listens = p.listens
        /\ t.down = p.down /\ t.watched = p.watched /\ t.timers = p.timers \ {"idle"}
        /\ t.up = Append(p.up, [kind |-> "watch", listen |-> t.listens])
        /\ t.agg.known /\ t.agg.outstanding = p.agg.outstanding + 1
        /\ t.agg.current = p.agg.current
        /\ t.kept = (p.kept \/ ("watch" = "watch" /\ p.agg.current # 0))
    <3>1. p \in Client /\ "watch" \in {"watch", "unwatch"} /\ t = Requested(p, "watch")
      BY <1>2, <2>1
    <3> HIDE DEF p
    <3> QED BY ONLY <3>1, RequestedFields
  <2>3. RequestsOK(t) /\ ResponsesOK(t, refused)
    <3>1. s.listens <= t.listens
      BY <1>2, <1>3, <2>2
    <3>2. /\ t.up = Append(s.up, [kind |-> "watch", listen |-> t.listens])
          /\ t.down = s.down /\ t.watched = s.watched /\ t.agg.known
          /\ t.agg.outstanding = s.agg.outstanding + 1
      BY <1>2, <2>2
    <3> QED BY <2>2, <3>1, <3>2, RequestSent
  <2>4. SameEvents(s, t) /\ SameTracker(s, t) /\ t.listeners = s.listeners /\ t.snap = s.snap
        /\ t.view = s.view /\ t.target = TRUE
    BY <1>2, <2>2 DEF SameView, SameEvents, SameTracker
  <2>5. /\ t.state = "Open" /\ t.asks = s.asks /\ t.close_count = s.close_count
        /\ t.credentials = s.credentials /\ t.timers = s.timers \ {"idle"}
    BY <1>2, <1>5, <2>2 DEF SameStream
  <2>6. IsStarted(t)
    BY <2>5 DEF IsStarted
  <2>7. StreamOK(t)
    BY <1>5, <2>4, <2>5, <2>6 DEF StreamOK
  <2>8. OnlineOK(t)
    BY <2>4, <2>6, TrackerKept
  <2>9. TokensStay(s, t)
    BY <1>5, <2>5 DEF TokensStay
  <2>10. t.agg.current <= s.listens /\ (t.kept \/ t.agg.current = 0)
    BY <1>2, <2>2 DEF CurrentOK
  <2> QED BY <1>2, <2>2, <2>3, <2>4, <2>7, <2>8, <2>9, <2>10
<1>6. CASE IsStarted(s) /\ s.state # "Open"
  <2>1. t = p
    BY <1>1, <1>6
  <2>2. /\ s.up = << >> /\ s.down = << >> /\ s.watched = Unwatched
        /\ s.agg.outstanding = 0 /\ s.agg.current = 0
    BY <1>6 DEF StreamOK
  <2>3. RequestsOK(p) /\ ResponsesOK(p, refused)
    BY <1>2, <2>2, WireCut
  <2>4. IsStarted(p)
    BY <1>2, <1>6 DEF IsStarted, SameStream
  <2>5. StreamOK(p)
    BY <1>2, <1>6, <2>2, <2>4 DEF StreamOK, SameStream
  <2>6. OnlineOK(p)
    BY <1>2, <2>4, TrackerKept
  <2>7. TokensStay(s, p)
    BY <1>2, SameStreamTokens
  <2> QED BY <1>2, <1>3, <2>1, <2>2, <2>3, <2>5, <2>6, <2>7
<1> QED BY <1>4, <1>5, <1>6

\* A listener joins the ones there are, or is the first, which opens a view.
Joins(s, t, g) ==
  /\ t.listeners = Append(s.listeners, g) /\ t.listens \in {s.listens, s.listens + 1}
  /\ Len(s.out) <= Len(t.out) /\ \A k \in 1..Len(s.out) : t.out[k] = s.out[k]
  /\ \A k \in (Len(s.out) + 1)..Len(t.out) : t.out[k].get \in ToSet(s.listeners) \cup {g}
  /\ CacheOnly(s, t.out, t.online) /\ TokensStay(s, t)

LEMMA FirstListenerOK ==
  ASSUME NEW s, NEW refused, ClientOK(s, refused), s.listeners = << >>, NEW g \in Gets,
         \A k \in 1..Len(s.out) : s.out[k].get # g
  PROVE  LET t == SyncEngineListen(Joined(s, g))
         IN  ClientOK(t, refused) /\ Joins(s, t, g)
<1> DEFINE j == Joined(s, g)
           u == RemoteListen([j EXCEPT !.listens = @ + 1])
           view == [on |-> TRUE, current |-> 0]
           v == [u EXCEPT !.view = view]
           t == SyncEngineListen(Joined(s, g))
<1> SUFFICES ClientOK(t, refused) /\ Joins(s, t, g)
  OBVIOUS
<1>0. s \in Client /\ StreamOK(s) /\ OnlineOK(s) /\ ListenersOK(s) /\ RequestsOK(s)
      /\ ResponsesOK(s, refused) /\ CurrentOK(s) /\ EventsOK(s) /\ s.enabled
  BY DEF ClientOK
<1>1. ~s.view.on /\ ~s.target /\ s.view.current = 0 /\ s.snap = NoSnapshot /\ ToSet(s.listeners) = {}
  <2>1. ToSet(<< >>) = {}
    BY DEF ToSet
  <2>2. ~s.view.on /\ ~s.target /\ s.view.current = 0 /\ s.snap = NoSnapshot
    BY <1>0 DEF ListenersOK
  <2> QED BY <2>1, <2>2
<1>2. /\ j \in Client /\ SameStream(s, j) /\ SameWire(s, j) /\ SameTracker(s, j) /\ SameEvents(s, j)
      /\ j.snap = s.snap /\ j.view = s.view /\ j.target = s.target
      /\ j.kept = s.kept /\ j.enabled = s.enabled /\ j.listeners = Append(s.listeners, g)
      /\ ToSet(j.listeners) = ToSet(s.listeners) \cup {g} /\ j.listeners # << >>
      /\ Distinct(j.listeners) /\ EventsOK(j)
  BY <1>0, <1>1, JoinedFields
<1> HIDE DEF j
<1>3. HARD_ASSERT(j, ~j.view.on) = j
  BY <1>1, <1>2, AssertHolds
<1>4. StreamOK(j) /\ OnlineOK(j) /\ RequestsOK(j) /\ ResponsesOK(j, refused) /\ CurrentOK(j)
  <2>1. StreamOK(j)
    BY <1>0, <1>2, StreamKept
  <2>2. OnlineOK(j)
    BY <1>0, <1>2, TrackerKept DEF SameStream, IsStarted
  <2>3. RequestsOK(j) /\ ResponsesOK(j, refused)
    BY <1>0, <1>2, WireKept
  <2>4. CurrentOK(j)
    BY <1>0, <1>2 DEF CurrentOK, SameWire
  <2> QED BY <2>1, <2>2, <2>3, <2>4
<1>5. /\ u \in Client /\ StreamOK(u) /\ OnlineOK(u) /\ RequestsOK(u) /\ ResponsesOK(u, refused)
      /\ SameEvents(j, u) /\ u.listeners = j.listeners /\ u.snap = j.snap /\ u.view = j.view
      /\ u.target = TRUE /\ u.listens = j.listens + 1 /\ u.enabled /\ TokensStay(j, u)
      /\ u.agg.current <= j.listens /\ (u.kept \/ u.agg.current = 0)
  BY <1>0, <1>1, <1>2, <1>4, RemoteListenParts, ZenonT(60)
<1>6. t = OnViewSnapshots(v, "cache")
  <2>1. SyncEngineListen(j) = Then(u, LAMBDA x : OnViewSnapshots([x EXCEPT !.view = view], "cache"))
    BY <1>3 DEF SyncEngineListen
  <2> HIDE DEF u
  <2> QED BY <2>1, ThenIs DEF j
<1> HIDE DEF u, t
<1>7. view \in Views /\ view.on = TRUE /\ view.current = 0
  BY DEF Views
<1> HIDE DEF view
<1>8. /\ v \in Client /\ v.view = view
      /\ SameStream(u, v) /\ SameWire(u, v) /\ SameTracker(u, v) /\ SameEvents(u, v)
      /\ v.listeners = u.listeners /\ v.target = u.target /\ v.kept = u.kept /\ v.enabled = u.enabled
  <2>1. u \in Client /\ view \in Views
    BY <1>5, <1>7
  <2> QED BY ONLY <2>1 DEF Client, SameStream, SameWire, SameTracker, SameEvents
<1> HIDE DEF v
<1>9. PICK o, r : /\ OnViewSnapshots(v, "cache") = [v EXCEPT !.out = o, !.raised = r, !.snap = "cache"]
                  /\ Posted(v, o, r) /\ CacheOnly(v, o, v.em_online)
  <2>1. v.listeners # << >> /\ "cache" \in Snapshots
    BY <1>2, <1>5, <1>8 DEF Snapshots
  <2> QED BY <1>8, <2>1, OnViewSnapshotsIs
<1>10. /\ t \in Client /\ t.out = o /\ t.raised = r /\ t.snap = "cache"
       /\ SameStream(v, t) /\ SameWire(v, t) /\ SameTracker(v, t)
       /\ t.listeners = v.listeners /\ t.view = v.view /\ t.target = v.target
       /\ t.kept = v.kept /\ t.enabled = v.enabled
  <2>1. /\ t = [v EXCEPT !.out = o, !.raised = r, !.snap = "cache"] /\ v \in Client
        /\ o \in Seq(Event) /\ r \in SUBSET Gets /\ "cache" \in Snapshots \cup {NoSnapshot}
    BY <1>6, <1>8, <1>9 DEF Posted, Snapshots
  <2>2. t \in Client
    BY ONLY <2>1 DEF Client
  <2>3. /\ t.out = o /\ t.raised = r /\ t.snap = "cache"
        /\ SameStream(v, t) /\ SameWire(v, t) /\ SameTracker(v, t)
        /\ t.listeners = v.listeners /\ t.view = v.view /\ t.target = v.target
        /\ t.kept = v.kept /\ t.enabled = v.enabled
    BY ONLY <2>1 DEF Client, SameStream, SameWire, SameTracker
  <2> QED BY <2>2, <2>3
<1>11. SameStream(u, t) /\ SameWire(u, t) /\ SameTracker(u, t) /\ t.target = u.target
       /\ t.listeners = j.listeners /\ t.view = view /\ t.kept = u.kept /\ t.enabled
  BY <1>5, <1>8, <1>10 DEF SameStream, SameWire, SameTracker
<1>12. StreamOK(t)
  BY <1>5, <1>11, StreamKept
<1>13. OnlineOK(t)
  BY <1>5, <1>11, TrackerKept DEF SameStream, IsStarted
<1>14. RequestsOK(t) /\ ResponsesOK(t, refused)
  BY <1>5, <1>11, WireKept
<1>15. ListenersOK(t)
  <2>1. \A x, y \in 1..Len(t.listeners) : t.listeners[x] = t.listeners[y] => x = y
    BY <1>2, <1>11 DEF Distinct
  <2>2. t.target = TRUE /\ t.view.on = TRUE /\ t.listeners # << >> /\ t.snap # "server"
    BY <1>2, <1>5, <1>7, <1>10, <1>11
  <2> QED BY <2>1, <2>2 DEF ListenersOK
<1>16. s.listens \in Nat /\ t.listens = s.listens + 1
  BY <1>0, <1>2, <1>5, <1>11 DEF Client, SameWire
<1>17. CurrentOK(t)
  <2>1. t.agg.current = u.agg.current /\ u.agg \in TargetStates
    BY <1>5, <1>11 DEF SameWire, Client
  <2>2. u.agg.current \in Nat
    BY <2>1 DEF TargetStates
  <2>3. j.listens = s.listens
    BY <1>2 DEF SameWire
  <2>4. t.view.current <= t.listens /\ t.agg.current <= t.listens
    <3> DEFINE n == u.agg.current
    <3>1. n \in Nat /\ n <= s.listens /\ t.agg.current = n
      BY <1>5, <2>1, <2>2, <2>3
    <3> HIDE DEF n
    <3> QED BY <1>7, <1>11, <1>16, <3>1
  <2> QED BY <1>5, <1>7, <1>11, <2>1, <2>4 DEF CurrentOK
<1>18. SameEvents(s, v) /\ ToSet(v.listeners) = {g} /\ EventsOK(v)
  <2>1. SameEvents(s, v) /\ SameEvents(j, v) /\ v.listeners = j.listeners
    BY <1>2, <1>5, <1>8 DEF SameEvents
  <2> QED BY <1>1, <1>2, <1>8, <2>1, EventsKept
<1>19. EventsOK(t)
  BY <1>8, <1>9, <1>10, <1>18, EventsPosted
<1>20. ClientOK(t, refused)
  BY <1>10, <1>11, <1>12, <1>13, <1>14, <1>15, <1>17, <1>19 DEF ClientOK
<1>21. TokensStay(s, t)
  BY <1>2, <1>5, <1>11 DEF TokensStay, SameStream
<1>22. CacheOnly(s, t.out, t.online)
  <2>1. v.em_online = t.online
    BY <1>10, <1>13 DEF SameTracker, OnlineOK
  <2> QED BY <1>9, <1>10, <1>18, <2>1 DEF CacheOnly, SameEvents
<1>23. Len(s.out) <= Len(t.out) /\ \A k \in 1..Len(s.out) : t.out[k] = s.out[k]
  BY <1>9, <1>10, <1>18 DEF Posted, SameEvents
<1>24. \A k \in (Len(s.out) + 1)..Len(t.out) : t.out[k].get \in ToSet(s.listeners) \cup {g}
  BY <1>9, <1>10, <1>18 DEF Posted, SameEvents
<1>25. t.listeners = Append(s.listeners, g) /\ t.listens \in {s.listens, s.listens + 1}
  BY <1>2, <1>11, <1>16
<1>26. Joins(s, t, g)
  BY <1>21, <1>22, <1>23, <1>24, <1>25 DEF Joins
<1> QED BY <1>20, <1>26

\* A listener that joins others raises what is known if that is enough for it.
LEMMA LaterListenerOK ==
  ASSUME NEW s, NEW refused, ClientOK(s, refused), s.listeners # << >>, NEW g \in Gets,
         g \notin ToSet(s.listeners), \A k \in 1..Len(s.out) : s.out[k].get # g,
         NEW t, t = IF s.snap # NoSnapshot /\ ShouldRaiseInitialEvent(s.snap, s.em_online)
                    THEN Raise(Joined(s, g), <<g>>, s.snap) ELSE Joined(s, g)
  PROVE  ClientOK(t, refused) /\ Joins(s, t, g)
<1> DEFINE j == Joined(s, g)
           due == s.snap # NoSnapshot /\ ShouldRaiseInitialEvent(s.snap, s.em_online)
<1>0. s \in Client /\ StreamOK(s) /\ OnlineOK(s) /\ ListenersOK(s) /\ RequestsOK(s)
      /\ ResponsesOK(s, refused) /\ CurrentOK(s) /\ EventsOK(s) /\ s.enabled
  BY DEF ClientOK
<1>1. /\ j \in Client /\ SameStream(s, j) /\ SameWire(s, j) /\ SameTracker(s, j) /\ SameEvents(s, j)
      /\ j.snap = s.snap /\ j.view = s.view /\ j.target = s.target
      /\ j.kept = s.kept /\ j.enabled = s.enabled /\ j.listeners = Append(s.listeners, g)
      /\ ToSet(j.listeners) = ToSet(s.listeners) \cup {g} /\ j.listeners # << >>
      /\ Distinct(j.listeners) /\ EventsOK(j)
  BY <1>0, JoinedFields
<1> HIDE DEF j
<1>2. /\ t \in Client /\ Posted(j, t.out, t.raised) /\ CacheOnly(j, t.out, s.em_online)
      /\ SameStream(j, t) /\ SameWire(j, t) /\ SameTracker(j, t) /\ SameView(j, t)
      /\ t.kept = j.kept /\ t.enabled = j.enabled
      /\ (s.snap = "server" => g \in t.raised)
  <2>1. CASE due
    <3> DEFINE G == {g}
               gs == <<g>>
               o == Raise(j, gs, s.snap).out
               r == j.raised \cup ToSet(gs)
    <3>1. t = Raise(j, gs, s.snap)
      BY <2>1 DEF j
    <3>2. s.snap \in Snapshots /\ G \subseteq ToSet(j.listeners)
      BY <1>0, <1>1, <2>1 DEF Client
    <3>3. gs \in Seq(G) /\ g \in ToSet(gs)
      <4>1. DOMAIN gs = 1..1 /\ gs[1] = g /\ 1 \in 1..1
        OBVIOUS
      <4> QED BY <4>1 DEF ToSet
    <3> HIDE DEF G, gs
    <3>4. /\ Raise(j, gs, s.snap) = [j EXCEPT !.out = o, !.raised = r]
          /\ Posted(j, o, r) /\ ToSet(gs) \subseteq G
          /\ \A k \in (Len(j.out) + 1)..Len(o) : o[k].what = s.snap /\ o[k].get \in G
      <4>1. j \in Client /\ G \subseteq ToSet(j.listeners) /\ gs \in Seq(G) /\ s.snap \in Snapshots
        BY <1>1, <3>2, <3>3
      <4> QED BY ONLY <4>1, RaiseIs
    <3>5. g \in r
      BY <3>3
    <3> HIDE DEF o, r
    <3>6. t = [j EXCEPT !.out = o, !.raised = r] /\ j \in Client /\ o \in Seq(Event) /\ r \in SUBSET Gets
      BY <1>1, <3>1, <3>4 DEF Posted
    <3>7. t \in Client
      BY ONLY <3>6 DEF Client
    <3>8. /\ SameStream(j, t) /\ SameWire(j, t) /\ SameTracker(j, t) /\ SameView(j, t)
          /\ t.kept = j.kept /\ t.enabled = j.enabled /\ t.out = o /\ t.raised = r
      BY ONLY <3>6 DEF Client, SameStream, SameWire, SameTracker, SameView
    <3>9. CacheOnly(j, o, s.em_online)
      BY <2>1, <3>4 DEF CacheOnly, ShouldRaiseInitialEvent
    <3> QED BY <3>4, <3>5, <3>7, <3>8, <3>9
  <2>2. CASE ~due
    <3>1. t = j
      BY <2>2 DEF j
    <3>2. Posted(j, j.out, j.raised) /\ CacheOnly(j, j.out, s.em_online)
      BY <1>1, NothingPosted
    <3>3. s.snap # "server"
      BY <2>2 DEF ShouldRaiseInitialEvent, NoSnapshot
    <3> QED BY <1>1, <3>1, <3>2, <3>3 DEF SameStream, SameWire, SameTracker, SameView
  <2> QED BY <2>1, <2>2
<1>3. /\ SameStream(s, t) /\ SameWire(s, t) /\ SameTracker(s, t)
      /\ t.snap = s.snap /\ t.view = s.view /\ t.target = s.target
      /\ t.kept = s.kept /\ t.enabled = s.enabled /\ t.listeners = j.listeners
  BY <1>1, <1>2 DEF SameStream, SameWire, SameTracker, SameView
<1>4. StreamOK(t)
  BY <1>0, <1>3, StreamKept
<1>5. OnlineOK(t)
  BY <1>0, <1>3, TrackerKept DEF SameStream, IsStarted
<1>6. RequestsOK(t) /\ ResponsesOK(t, refused)
  BY <1>0, <1>3, WireKept
<1>7. ListenersOK(t)
  <2>0. Distinct(j.listeners) /\ t.listeners = j.listeners
    BY <1>1, <1>3
  <2>1. \A x, y \in 1..Len(t.listeners) : t.listeners[x] = t.listeners[y] => x = y
    BY ONLY <2>0 DEF Distinct
  <2>2. t.target = t.view.on /\ t.view.on = TRUE /\ t.listeners # << >>
    BY <1>0, <1>1, <1>3 DEF ListenersOK
  <2>3. s.raised \subseteq t.raised
    BY <1>1, <1>2 DEF Posted, SameEvents
  <2>4. t.snap = "server" => ToSet(t.listeners) \subseteq t.raised
    BY <1>0, <1>1, <1>2, <1>3, <2>3 DEF ListenersOK
  <2> QED BY <2>1, <2>2, <2>4 DEF ListenersOK
<1>8. CurrentOK(t)
  BY <1>0, <1>3 DEF CurrentOK, SameWire
<1>9. EventsOK(t)
  BY <1>1, <1>2, <1>3, EventsPosted
<1>10. ClientOK(t, refused)
  BY <1>0, <1>2, <1>3, <1>4, <1>5, <1>6, <1>7, <1>8, <1>9 DEF ClientOK
<1>11. TokensStay(s, t)
  BY <1>3, SameStreamTokens
<1>12. j.out = s.out /\ j.raised = s.raised /\ t.online = s.em_online
  BY <1>0, <1>1, <1>3 DEF SameEvents, SameTracker, OnlineOK
<1>13. CacheOnly(s, t.out, t.online)
  BY <1>2, <1>12 DEF CacheOnly
<1>14. Len(s.out) <= Len(t.out) /\ \A k \in 1..Len(s.out) : t.out[k] = s.out[k]
  BY <1>2, <1>12 DEF Posted
<1>15. \A k \in (Len(s.out) + 1)..Len(t.out) : t.out[k].get \in ToSet(s.listeners) \cup {g}
  BY <1>1, <1>2, <1>12 DEF Posted
<1>16. t.listeners = Append(s.listeners, g) /\ t.listens \in {s.listens, s.listens + 1}
  BY <1>1, <1>3 DEF SameWire
<1>17. Joins(s, t, g)
  BY <1>11, <1>13, <1>14, <1>15, <1>16 DEF Joins
<1> QED BY <1>10, <1>17

LEMMA AddListenerOK ==
  ASSUME NEW s, NEW refused, ClientOK(s, refused), NEW g \in Gets,
         g \notin ToSet(s.listeners), \A k \in 1..Len(s.out) : s.out[k].get # g
  PROVE  LET t == AddQueryListener(s, g)
         IN  ClientOK(t, refused) /\ Joins(s, t, g)
<1> DEFINE t == AddQueryListener(s, g)
<1> SUFFICES ClientOK(t, refused) /\ Joins(s, t, g)
  OBVIOUS
<1>1. CASE s.listeners = << >>
  <2>1. t = SyncEngineListen(Joined(s, g))
    BY <1>1 DEF AddQueryListener, Joined
  <2> HIDE DEF t
  <2> QED BY <1>1, <2>1, FirstListenerOK
<1>2. CASE s.listeners # << >>
  <2>1. t = IF s.snap # NoSnapshot /\ ShouldRaiseInitialEvent(s.snap, s.em_online)
            THEN Raise(Joined(s, g), <<g>>, s.snap) ELSE Joined(s, g)
    BY <1>2 DEF AddQueryListener, Joined
  <2> HIDE DEF t
  <2> QED BY <1>2, <2>1, LaterListenerOK
<1> QED BY <1>1, <1>2

-----------------------------------------------------------------------------
(***************************************************************************)
(* The worker queue.                                                       *)
(***************************************************************************)

\* The tasks behind the first are as they were.
LEMMA TasksBehind ==
  ASSUME NEW ts \in Seq(Tasks), ts # << >>
  PROVE  /\ Tail(ts) \in Seq(Tasks) /\ Len(ts) \in Nat \ {0} /\ 1 \in 1..Len(ts)
         /\ Head(ts) = ts[1] /\ Head(ts) \in Tasks /\ Len(Tail(ts)) = Len(ts) - 1
         /\ \A i \in 1..Len(Tail(ts)) : i + 1 \in 1..Len(ts) /\ Tail(ts)[i] = ts[i + 1]
<1>1. /\ Len(ts) \in Nat \ {0} /\ Head(ts) = ts[1] /\ Head(ts) \in Tasks
      /\ Tail(ts) \in Seq(Tasks) /\ Len(Tail(ts)) = Len(ts) - 1
      /\ \A k \in 1..(Len(ts) - 1) : Tail(ts)[k] = ts[k + 1]
  <2> HIDE DEF Tasks
  <2> QED BY TailParts
<1>2. 1 \in 1..Len(ts) /\ \A i \in 1..Len(Tail(ts)) : i + 1 \in 1..Len(ts)
  BY <1>1
<1> QED BY <1>1, <1>2

\* A task at the end of the queue.
LEMMA TaskAdded ==
  ASSUME NEW ts \in Seq(Tasks), NEW e \in Tasks, NEW us, us = Append(ts, e)
  PROVE  /\ us \in Seq(Tasks) /\ Len(ts) \in Nat /\ Len(us) = Len(ts) + 1
         /\ \A i \in 1..Len(us) : \/ i \in 1..Len(ts) /\ us[i] = ts[i]
                                  \/ i = Len(ts) + 1 /\ us[i] = e
<1>1. /\ us \in Seq(Tasks) /\ Len(ts) \in Nat /\ Len(us) = Len(ts) + 1
      /\ \A k \in 1..Len(ts) : us[k] = ts[k]
      /\ us[Len(ts) + 1] = e
  BY AppendParts
<1>2. \A i \in 1..Len(us) : i \in 1..Len(ts) \/ i = Len(ts) + 1
  BY <1>1
<1> QED BY <1>1, <1>2

LEMMA TokensBehind ==
  ASSUME NEW ts \in Seq(Tasks), ts # << >>, NEW s, TokensOK(ts, s)
  PROVE  TokensOK(Tail(ts), s)
<1> DEFINE us == Tail(ts)
<1>1. \A i \in 1..Len(us) : i + 1 \in 1..Len(ts) /\ us[i] = ts[i + 1]
  BY TasksBehind
<1>2. Len(us) \in Nat
  BY TasksBehind, LenProperties
<1> HIDE DEF us
<1> SUFFICES ASSUME NEW i \in 1..Len(us), us[i].kind = "token"
             PROVE  /\ us[i].close_count <= s.close_count
                    /\ us[i].close_count = s.close_count =>
                         /\ s.state = "Starting" /\ s.credentials = NoStream /\ s.close_count \notin s.asks
                         /\ \A j \in 1..Len(us) :
                              us[j].kind = "token" /\ us[j].close_count = s.close_count => j = i
  BY DEF TokensOK, us
<1>3. /\ ts[i + 1].close_count <= s.close_count
      /\ ts[i + 1].close_count = s.close_count =>
           /\ s.state = "Starting" /\ s.credentials = NoStream /\ s.close_count \notin s.asks
           /\ \A j \in 1..Len(ts) :
                ts[j].kind = "token" /\ ts[j].close_count = s.close_count => j = i + 1
  BY <1>1 DEF TokensOK
<1>4. ASSUME us[i].close_count = s.close_count, NEW j \in 1..Len(us), us[j].kind = "token",
             us[j].close_count = s.close_count
      PROVE  j = i
  <2>1. j + 1 = i + 1
    BY <1>1, <1>3, <1>4
  <2> QED BY <1>2, <2>1
<1> QED BY <1>1, <1>3, <1>4

LEMMA QueueBehind ==
  ASSUME NEW ts \in Seq(Tasks), ts # << >>, NEW n, NEW m, QueueOK(ts, n, m)
  PROVE  /\ QueueOK(Tail(ts), n, m)
         /\ Head(ts).kind = "listen" => /\ m < Head(ts).get /\ Head(ts).get <= n
                                        /\ QueueOK(Tail(ts), n, Head(ts).get)
<1> DEFINE us == Tail(ts)
<1>1. \A i \in 1..Len(us) : i + 1 \in 1..Len(ts) /\ us[i] = ts[i + 1]
  BY TasksBehind
<1>2. Len(us) \in Nat /\ 1 \in 1..Len(ts) /\ Head(ts) = ts[1]
  BY TasksBehind, LenProperties
<1> HIDE DEF us
<1>3. ASSUME NEW i \in 1..Len(us), us[i].kind = "listen"
      PROVE  /\ m < us[i].get /\ us[i].get <= n
             /\ \A j \in 1..Len(us) : i < j /\ us[j].kind = "listen" => us[i].get < us[j].get
             /\ Head(ts).kind = "listen" => Head(ts).get < us[i].get
  <2>1. /\ m < ts[i + 1].get /\ ts[i + 1].get <= n
        /\ \A j \in 1..Len(ts) : i + 1 < j /\ ts[j].kind = "listen" => ts[i + 1].get < ts[j].get
    BY <1>1, <1>3 DEF QueueOK
  <2>2. ASSUME NEW j \in 1..Len(us), i < j, us[j].kind = "listen" PROVE us[i].get < us[j].get
    <3>1. i + 1 < j + 1
      BY <1>2, <2>2
    <3> QED BY <1>1, <2>1, <2>2, <3>1
  <2>3. ASSUME Head(ts).kind = "listen" PROVE Head(ts).get < us[i].get
    <3>1. \A j \in 1..Len(ts) : 1 < j /\ ts[j].kind = "listen" => ts[1].get < ts[j].get
      BY <1>2, <2>3 DEF QueueOK
    <3>2. 1 < i + 1
      BY <1>2
    <3> QED BY <1>1, <1>2, <1>3, <3>1, <3>2
  <2> QED BY <1>1, <2>1, <2>2, <2>3
<1>4. QueueOK(us, n, m)
  BY <1>3 DEF QueueOK
<1>5. Head(ts).kind = "listen" => m < Head(ts).get /\ Head(ts).get <= n /\ QueueOK(us, n, Head(ts).get)
  BY <1>2, <1>3 DEF QueueOK
<1> QED BY <1>4, <1>5 DEF us

\* A task of another kind leaves the rules about the others alone.
LEMMA OtherTaskAdded ==
  ASSUME NEW ts \in Seq(Tasks), NEW e \in Tasks
  PROVE  /\ \A n, m : QueueOK(ts, n, m) /\ e.kind # "listen" => QueueOK(Append(ts, e), n, m)
         /\ \A s : TokensOK(ts, s) /\ e.kind # "token" => TokensOK(Append(ts, e), s)
<1> DEFINE us == Append(ts, e)
<1>1. \A i \in 1..Len(us) : \/ i \in 1..Len(ts) /\ us[i] = ts[i]
                            \/ i = Len(ts) + 1 /\ us[i] = e
  BY TaskAdded
<1> HIDE DEF us
<1>2. ASSUME NEW n, NEW m, QueueOK(ts, n, m), e.kind # "listen" PROVE QueueOK(us, n, m)
  <2>1. \A i \in 1..Len(us) : us[i].kind = "listen" => i \in 1..Len(ts) /\ us[i] = ts[i]
    BY <1>1, <1>2
  <2> QED BY <1>2, <2>1 DEF QueueOK
<1>3. ASSUME NEW s, TokensOK(ts, s), e.kind # "token" PROVE TokensOK(us, s)
  <2>1. \A i \in 1..Len(us) : us[i].kind = "token" => i \in 1..Len(ts) /\ us[i] = ts[i]
    BY <1>1, <1>3
  <2> QED BY <1>3, <2>1 DEF TokensOK
<1> QED BY <1>2, <1>3 DEF us

\* The next get waits behind all others.
LEMMA ListenAdded ==
  ASSUME NEW ts \in Seq(Tasks), NEW n \in Nat, NEW m \in 0..n, QueueOK(ts, n, m),
         NEW e \in Tasks, e.kind = "listen", e.get = n + 1
  PROVE  QueueOK(Append(ts, e), n + 1, m)
<1> DEFINE us == Append(ts, e)
<1>1. \A i \in 1..Len(us) : \/ i \in 1..Len(ts) /\ us[i] = ts[i]
                            \/ i = Len(ts) + 1 /\ us[i] = e
  BY TaskAdded
<1>2. Len(ts) \in Nat /\ Len(us) = Len(ts) + 1
  BY TaskAdded
<1>3. \A i \in 1..Len(ts) : ts[i] \in Tasks
  BY ElementOfSeq
<1> HIDE DEF us
<1>4. ASSUME NEW i \in 1..Len(us), us[i].kind = "listen"
      PROVE  /\ m < us[i].get /\ us[i].get <= n + 1
             /\ \A j \in 1..Len(us) : i < j /\ us[j].kind = "listen" => us[i].get < us[j].get
  <2>1. CASE i = Len(ts) + 1 /\ us[i] = e
    <3>1. \A j \in 1..Len(us) : ~(i < j)
      BY <1>2, <2>1
    <3>2. m < n + 1 /\ n + 1 <= n + 1
      OBVIOUS
    <3> QED BY <2>1, <3>1, <3>2
  <2>2. CASE i \in 1..Len(ts) /\ us[i] = ts[i]
    <3> DEFINE a == ts[i].get
    <3>1. /\ m < a /\ a <= n
          /\ \A j \in 1..Len(ts) : i < j /\ ts[j].kind = "listen" => a < ts[j].get
      BY <1>4, <2>2 DEF QueueOK
    <3>2. a \in Nat
      BY <1>3, <1>4, <2>2 DEF Tasks, Gets
    <3> HIDE DEF a
    <3>3. a <= n + 1 /\ a < n + 1
      BY <3>1, <3>2
    <3>4. us[i].get = a
      BY <2>2 DEF a
    <3>5. ASSUME NEW j \in 1..Len(us), i < j, us[j].kind = "listen" PROVE a < us[j].get
      <4>1. CASE j \in 1..Len(ts) /\ us[j] = ts[j]
        BY <3>1, <3>5, <4>1
      <4>2. CASE us[j] = e
        BY <3>3, <4>2
      <4> QED BY <1>1, <4>1, <4>2
    <3> QED BY <3>1, <3>3, <3>4, <3>5
  <2> QED BY <1>1, <2>1, <2>2
<1>5. QueueOK(us, n + 1, m)
  BY <1>4 DEF QueueOK
<1> QED BY <1>5 DEF us

-----------------------------------------------------------------------------
(***************************************************************************)
(* Tokens, listeners and answers, when the client evolves.                 *)
(***************************************************************************)
LEMMA TokensEvolve ==
  ASSUME NEW ts \in Seq(Tasks), NEW s \in Client, NEW t \in Client, TokensOK(ts, s), TokensStay(s, t)
  PROVE  TokensOK(ts, t)
<1>1. s.close_count \in Nat /\ t.close_count \in Nat
  BY DEF Client
<1> SUFFICES ASSUME NEW i \in 1..Len(ts), ts[i].kind = "token"
             PROVE  /\ ts[i].close_count <= t.close_count
                    /\ ts[i].close_count = t.close_count =>
                         /\ t.state = "Starting" /\ t.credentials = NoStream /\ t.close_count \notin t.asks
                         /\ \A j \in 1..Len(ts) :
                              ts[j].kind = "token" /\ ts[j].close_count = t.close_count => j = i
  BY DEF TokensOK
<1> DEFINE c == ts[i].close_count
<1>2. /\ c <= s.close_count
      /\ c = s.close_count =>
           /\ s.state = "Starting" /\ s.credentials = NoStream /\ s.close_count \notin s.asks
           /\ \A j \in 1..Len(ts) :
                ts[j].kind = "token" /\ ts[j].close_count = s.close_count => j = i
  BY DEF TokensOK
<1>3. c \in Nat
  <2>1. ts[i] \in Tasks
    BY ElementOfSeq
  <2> QED BY <2>1 DEF Tasks
<1>4. CASE t.close_count > s.close_count
  <2> HIDE DEF c
  <2>1. c <= t.close_count /\ c # t.close_count
    BY <1>1, <1>2, <1>3, <1>4
  <2> QED BY <2>1 DEF c
<1>5. CASE /\ t.close_count = s.close_count
           /\ \/ s.state # "Starting" \/ s.credentials # NoStream
              \/ t.state = s.state /\ t.credentials = s.credentials /\ t.asks = s.asks
  BY <1>2, <1>5
<1> QED BY <1>4, <1>5 DEF TokensStay

\* The elements of a sequence over a subset.
LEMMA ElementsWithin ==
  ASSUME NEW S, NEW l \in Seq(S)
  PROVE  ToSet(l) \subseteq S
<1>1. DOMAIN l = 1..Len(l) /\ \A k \in 1..Len(l) : l[k] \in S
  BY LenProperties, ElementOfSeq
<1> QED BY <1>1 DEF ToSet

LEMMA SeqWithin ==
  ASSUME NEW S, NEW T, S \subseteq T, NEW l \in Seq(S)
  PROVE  l \in Seq(T)
<1>1. Len(l) \in Nat /\ l \in [1..Len(l) -> S]
  BY LenProperties, ElementOfSeq
<1>2. l \in [1..Len(l) -> T]
  BY <1>1
<1> QED BY <1>1, <1>2, FcnIsSeq

\* Whoever will hear no more does not, when only listeners hear of something.
LEMMA AnswersEvolve ==
  ASSUME NEW s \in Client, NEW t \in Client, NEW ans, NEW mu, NEW L, AnswersOK(s, ans, mu),
         Len(s.out) <= Len(t.out), \A k \in 1..Len(s.out) : t.out[k] = s.out[k],
         \A k \in (Len(s.out) + 1)..Len(t.out) : t.out[k].get \in L,
         ToSet(t.listeners) \subseteq L,
         \A g \in Gets : ans[g] # << >> /\ g \notin ToSet(s.listeners) => g \notin L
  PROVE  AnswersOK(t, ans, mu)
<1>1. Len(s.out) \in Nat /\ Len(t.out) \in Nat
  BY ClientSeqs
<1> SUFFICES ASSUME NEW g \in Gets
             PROVE  /\ Len(ans[g]) <= 1
                    /\ ans[g] # << >> =>
                         \/ g \in mu
                         \/ g \notin ToSet(t.listeners) /\ \A k \in 1..Len(t.out) : t.out[k].get # g
  BY DEF AnswersOK
<1>2. /\ Len(ans[g]) <= 1
      /\ ans[g] # << >> =>
           \/ g \in mu
           \/ g \notin ToSet(s.listeners) /\ \A k \in 1..Len(s.out) : s.out[k].get # g
  BY DEF AnswersOK
<1>3. ASSUME ans[g] # << >>, g \notin mu
      PROVE  g \notin ToSet(t.listeners) /\ \A k \in 1..Len(t.out) : t.out[k].get # g
  <2>1. g \notin ToSet(s.listeners) /\ (\A k \in 1..Len(s.out) : s.out[k].get # g) /\ g \notin L
    BY <1>2, <1>3
  <2>2. ASSUME NEW k \in 1..Len(t.out) PROVE t.out[k].get # g
    <3>1. k \in 1..Len(s.out) \/ k \in (Len(s.out) + 1)..Len(t.out)
      BY <1>1
    <3> QED BY <2>1, <3>1
  <2> QED BY <2>1, <2>2
<1> QED BY <1>2, <1>3

\* A step of the client alone.
LEMMA AllEvolve ==
  ASSUME NEW ts \in Seq(Tasks), NEW s \in Client, NEW t \in Client, NEW ans, NEW mu, NEW m \in Nat,
         Evolves(s, t), TokensOK(ts, s), AnswersOK(s, ans, mu), HeardOK(s, ans, m)
  PROVE  TokensOK(ts, t) /\ AnswersOK(t, ans, mu) /\ HeardOK(t, ans, m)
<1> DEFINE L == ToSet(s.listeners)
<1>1. TokensOK(ts, t)
  BY TokensEvolve DEF Evolves
<1>2. t.listeners \in Seq(L) /\ t.listens = s.listens
  BY DEF Evolves
<1>3. ToSet(t.listeners) \subseteq L
  <2> HIDE DEF L
  <2> QED BY <1>2, ElementsWithin
<1>4. /\ Len(s.out) <= Len(t.out) /\ \A k \in 1..Len(s.out) : t.out[k] = s.out[k]
      /\ \A k \in (Len(s.out) + 1)..Len(t.out) : t.out[k].get \in L
  BY DEF Evolves, NewEvents
<1>5. AnswersOK(t, ans, mu)
  BY <1>3, <1>4, AnswersEvolve
<1>6. L \subseteq 1..m
  BY ElementsWithin DEF HeardOK
<1>7. t.listeners \in Seq(1..m)
  <2> DEFINE l == t.listeners
  <2>1. l \in Seq(L)
    BY <1>2
  <2> HIDE DEF L, l
  <2>2. l \in Seq(1..m)
    BY <1>6, <2>1, SeqWithin
  <2> QED BY <2>2 DEF l
<1>8. \A k \in 1..Len(t.out) : t.out[k].get <= m
  <2>1. Len(s.out) \in Nat /\ Len(t.out) \in Nat
    BY ClientSeqs
  <2> TAKE k \in 1..Len(t.out)
  <2>2. k \in 1..Len(s.out) \/ k \in (Len(s.out) + 1)..Len(t.out)
    BY <2>1
  <2>3. CASE k \in 1..Len(s.out)
    BY <1>4, <2>3 DEF HeardOK
  <2>4. CASE k \in (Len(s.out) + 1)..Len(t.out)
    <3>1. t.out[k].get \in 1..m
      BY <1>4, <1>6, <2>4
    <3> QED BY <3>1
  <2> QED BY <2>2, <2>3, <2>4
<1>9. HeardOK(t, ans, m)
  BY <1>2, <1>7, <1>8 DEF HeardOK
<1> QED BY <1>1, <1>5, <1>9

\* The next get has become a listener.
LEMMA AllJoin ==
  ASSUME NEW ts \in Seq(Tasks), NEW s \in Client, NEW t \in Client, NEW ans, NEW mu,
         NEW m \in Nat, NEW g \in Nat, m < g,
         Joins(s, t, g), TokensOK(ts, s), AnswersOK(s, ans, mu), HeardOK(s, ans, m)
  PROVE  TokensOK(ts, t) /\ AnswersOK(t, ans, mu) /\ HeardOK(t, ans, g)
<1> DEFINE L == ToSet(s.listeners) \cup {g}
<1>1. TokensOK(ts, t)
  BY TokensEvolve DEF Joins
<1>2. ToSet(s.listeners) \subseteq 1..m /\ s.listeners \in Seq(1..m)
  BY ElementsWithin DEF HeardOK
<1>3. /\ Len(s.out) <= Len(t.out) /\ \A k \in 1..Len(s.out) : t.out[k] = s.out[k]
      /\ \A k \in (Len(s.out) + 1)..Len(t.out) : t.out[k].get \in L
      /\ t.listeners = Append(s.listeners, g)
  BY DEF Joins
<1>4. t.listeners \in Seq(1..g) /\ L \subseteq 1..g /\ ToSet(t.listeners) \subseteq L
  <2> DEFINE l == s.listeners
  <2>1. L \subseteq 1..g /\ 1..m \subseteq 1..g /\ g \in 1..g /\ g \in L
    BY <1>2
  <2>2. l \in Seq(1..g)
    <3>1. l \in Seq(1..m)
      BY <1>2
    <3> HIDE DEF l
    <3> QED BY <2>1, <3>1
  <2>3. l \in Seq(L)
    <3>1. l \in Seq(ToSet(s.listeners)) /\ ToSet(s.listeners) \subseteq L
      BY ClientSeqs
    <3> HIDE DEF l, L
    <3> QED BY <3>1
  <2> HIDE DEF L, l
  <2>4. Append(l, g) \in Seq(1..g)
    BY <2>1, <2>2, AppendProperties
  <2>5. Append(l, g) \in Seq(L)
    BY <2>1, <2>3, AppendProperties
  <2>6. ToSet(Append(l, g)) \subseteq L
    BY <2>5, ElementsWithin
  <2> QED BY <1>3, <2>1, <2>4, <2>6 DEF l
<1>5. \A x \in Gets : ans[x] # << >> /\ x \notin ToSet(s.listeners) => x \notin L
  <2> SUFFICES ASSUME NEW x \in Gets, ans[x] # << >> PROVE x # g
    OBVIOUS
  <2>1. x <= m
    BY DEF HeardOK
  <2>2. x \in Nat
    BY DEF Gets
  <2> QED BY <2>1, <2>2
<1>6. AnswersOK(t, ans, mu)
  <2> HIDE DEF L
  <2> QED BY <1>3, <1>4, <1>5, AnswersEvolve
<1>7. \A k \in 1..Len(t.out) : t.out[k].get <= g
  <2>1. Len(s.out) \in Nat /\ Len(t.out) \in Nat /\ s.out \in Seq(Event)
    BY ClientSeqs
  <2> TAKE k \in 1..Len(t.out)
  <2>2. k \in 1..Len(s.out) \/ k \in (Len(s.out) + 1)..Len(t.out)
    BY <2>1
  <2>3. CASE k \in 1..Len(s.out)
    <3> DEFINE x == s.out[k].get
    <3>1. s.out[k] \in Event
      BY <2>1, <2>3, ElementOfSeq
    <3>2. x \in Nat
      BY <3>1 DEF Event, Gets
    <3>3. x <= m /\ t.out[k].get = x
      BY <1>3, <2>3 DEF HeardOK
    <3> HIDE DEF x
    <3> QED BY <3>2, <3>3
  <2>4. CASE k \in (Len(s.out) + 1)..Len(t.out)
    <3>1. t.out[k].get \in 1..g
      BY <1>3, <1>4, <2>4
    <3> QED BY <3>1
  <2> QED BY <2>2, <2>3, <2>4
<1>8. t.listens <= g
  <2>1. s.listens \in Nat /\ s.listens <= m /\ t.listens \in {s.listens, s.listens + 1}
    BY DEF Client, HeardOK, Joins
  <2> QED BY <2>1
<1>9. \A x \in Gets : ans[x] # << >> => x <= g
  <2> TAKE x \in Gets
  <2>1. x \in Nat /\ (ans[x] # << >> => x <= m)
    BY DEF Gets, HeardOK
  <2> QED BY <2>1
<1>10. HeardOK(t, ans, g)
  BY <1>4, <1>7, <1>8, <1>9 DEF HeardOK
<1> QED BY <1>1, <1>6, <1>10

\* GetToken has answered.
LEMMA TokenAnswered ==
  ASSUME NEW s, NEW refused, ClientOK(s, refused), NEW n \in s.asks, NEW ts \in Seq(Tasks),
         TokensOK(ts, s), NEW t, t = [s EXCEPT !.asks = @ \ {n}],
         NEW code \in TokenCodes, NEW e, e = [kind |-> "token", close_count |-> n, code |-> code]
  PROVE  /\ ClientOK(t, refused) /\ e \in Tasks /\ TokensOK(Append(ts, e), t)
         /\ t.listeners = s.listeners /\ t.listens = s.listens /\ SameEvents(s, t) /\ t.online = s.online
<1> DEFINE as == s.asks \ {n}
           us == Append(ts, e)
<1>0. s \in Client /\ StreamOK(s) /\ OnlineOK(s) /\ ListenersOK(s) /\ RequestsOK(s)
      /\ ResponsesOK(s, refused) /\ CurrentOK(s) /\ EventsOK(s) /\ s.enabled
  BY DEF ClientOK
<1>1. as \in SUBSET Nat /\ n \in Nat /\ n \notin as /\ as \subseteq s.asks /\ s.close_count \in Nat
  BY <1>0 DEF Client
<1>2. t = [s EXCEPT !.asks = as]
  BY <1>0 DEF Client
<1> HIDE DEF as
<1>3. t \in Client
  BY ONLY <1>0, <1>1, <1>2 DEF Client
<1>4. /\ SameWire(s, t) /\ SameTracker(s, t) /\ SameView(s, t) /\ SameEvents(s, t)
      /\ t.state = s.state /\ t.timers = s.timers /\ t.close_count = s.close_count
      /\ t.credentials = s.credentials /\ t.asks = as /\ t.kept = s.kept /\ t.enabled = s.enabled
  BY ONLY <1>0, <1>2 DEF Client, SameWire, SameTracker, SameView, SameEvents
<1>5. StreamOK(t)
  BY <1>0, <1>1, <1>4 DEF StreamOK, IsStarted, SameWire, SameView
<1>6. OnlineOK(t)
  BY <1>0, <1>4, TrackerKept DEF IsStarted
<1>7. ListenersOK(t)
  BY <1>0, <1>4, ViewKept DEF SameEvents
<1>8. RequestsOK(t) /\ ResponsesOK(t, refused)
  BY <1>0, <1>4, WireKept
<1>9. CurrentOK(t)
  BY <1>0, <1>4 DEF CurrentOK, SameWire, SameView
<1>10. EventsOK(t)
  BY <1>0, <1>3, <1>4, EventsKept DEF SameView
<1>11. ClientOK(t, refused)
  BY <1>0, <1>3, <1>4, <1>5, <1>6, <1>7, <1>8, <1>9, <1>10 DEF ClientOK
<1>12. e \in Tasks /\ e.kind = "token" /\ e.close_count = n
  BY <1>1 DEF Tasks
<1>13. \A i \in 1..Len(us) : \/ i \in 1..Len(ts) /\ us[i] = ts[i]
                             \/ i = Len(ts) + 1 /\ us[i] = e
  BY <1>12, TaskAdded
<1> HIDE DEF us
<1>14. n <= s.close_count /\ (n = s.close_count => s.state = "Starting" /\ s.credentials = NoStream)
  BY <1>0 DEF StreamOK
<1>15. ASSUME NEW i \in 1..Len(us), us[i].kind = "token"
       PROVE  /\ us[i].close_count <= t.close_count
              /\ us[i].close_count = t.close_count =>
                   /\ t.state = "Starting" /\ t.credentials = NoStream /\ t.close_count \notin t.asks
                   /\ \A j \in 1..Len(us) :
                        us[j].kind = "token" /\ us[j].close_count = t.close_count => j = i
  <2>1. CASE i \in 1..Len(ts) /\ us[i] = ts[i]
    <3>1. /\ us[i].close_count <= s.close_count
          /\ us[i].close_count = s.close_count =>
               /\ s.state = "Starting" /\ s.credentials = NoStream /\ s.close_count \notin s.asks
               /\ \A j \in 1..Len(ts) :
                    ts[j].kind = "token" /\ ts[j].close_count = s.close_count => j = i
      BY <1>15, <2>1 DEF TokensOK
    <3>2. us[i].close_count = s.close_count => n # s.close_count
      BY <3>1
    <3> QED BY <1>1, <1>4, <1>12, <1>13, <3>1, <3>2
  <2>2. CASE i = Len(ts) + 1 /\ us[i] = e
    <3>1. \A j \in 1..Len(ts) : ts[j].kind = "token" => ~(n = s.close_count /\ ts[j].close_count = n)
      BY DEF TokensOK
    <3> QED BY <1>1, <1>4, <1>12, <1>13, <1>14, <2>2, <3>1
  <2> QED BY <1>13, <2>1, <2>2
<1>16. TokensOK(us, t)
  BY <1>15 DEF TokensOK
<1> QED BY <1>4, <1>11, <1>12, <1>16 DEF us, SameView, SameWire, SameTracker

\* A token is used if it was asked for at this start.
LEMMA TokenUsed ==
  ASSUME NEW s, NEW refused, ClientOK(s, refused), NEW ts \in Seq(Tasks), ts # << >>,
         Head(ts).kind = "token", TokensOK(ts, s),
         NEW t, t = IF IsCurrent(s, Head(ts).close_count)
                    THEN ResumeStartWithCredentials(s, "user") ELSE s
  PROVE  /\ ClientOK(t, refused) /\ TokensOK(Tail(ts), t)
         /\ t.listeners = s.listeners /\ t.listens = s.listens /\ SameEvents(s, t) /\ t.online = s.online
<1>0. s \in Client /\ StreamOK(s) /\ OnlineOK(s) /\ ListenersOK(s) /\ RequestsOK(s)
      /\ ResponsesOK(s, refused) /\ CurrentOK(s) /\ EventsOK(s) /\ s.enabled
  BY DEF ClientOK
<1> DEFINE us == Tail(ts)
<1>1. TokensOK(us, s)
  BY TokensBehind
<1>2. /\ 1 \in 1..Len(ts) /\ Head(ts) = ts[1] /\ us \in Seq(Tasks)
      /\ \A i \in 1..Len(us) : i + 1 \in 1..Len(ts) /\ us[i] = ts[i + 1]
  BY TasksBehind
<1>3. Len(us) \in Nat
  BY <1>2, LenProperties
<1>4. CASE ~IsCurrent(s, Head(ts).close_count)
  BY <1>1, <1>4 DEF SameEvents
<1>5. CASE IsCurrent(s, Head(ts).close_count)
  <2>1. ts[1].kind = "token" /\ ts[1].close_count = s.close_count
    BY <1>2, <1>5 DEF IsCurrent
  <2>2. /\ s.state = "Starting" /\ s.credentials = NoStream /\ s.close_count \notin s.asks
        /\ \A j \in 1..Len(ts) :
             ts[j].kind = "token" /\ ts[j].close_count = s.close_count => j = 1
    BY <1>2, <2>1 DEF TokensOK
  <2>3. HARD_ASSERT(s, s.state = "Starting") = s
    BY <1>0, <2>2, AssertHolds
  <2>4. t = [s EXCEPT !.credentials = "user"]
    BY <1>5, <2>3 DEF ResumeStartWithCredentials
  <2>5. t \in Client
    BY ONLY <1>0, <2>4 DEF Client
  <2>6. /\ SameWire(s, t) /\ SameTracker(s, t) /\ SameView(s, t) /\ SameEvents(s, t)
        /\ t.state = s.state /\ t.timers = s.timers /\ t.close_count = s.close_count
        /\ t.asks = s.asks /\ t.kept = s.kept /\ t.enabled = s.enabled
    BY ONLY <1>0, <2>4 DEF Client, SameWire, SameTracker, SameView, SameEvents
  <2>7. StreamOK(t)
    BY <1>0, <2>2, <2>6 DEF StreamOK, IsStarted, SameWire, SameView
  <2>8. OnlineOK(t)
    BY <1>0, <2>6, TrackerKept DEF IsStarted
  <2>9. ListenersOK(t)
    BY <1>0, <2>6, ViewKept DEF SameEvents
  <2>10. RequestsOK(t) /\ ResponsesOK(t, refused)
    BY <1>0, <2>6, WireKept
  <2>11. CurrentOK(t)
    BY <1>0, <2>6 DEF CurrentOK, SameWire, SameView
  <2>12. EventsOK(t)
    BY <1>0, <2>5, <2>6, EventsKept DEF SameView
  <2>13. ClientOK(t, refused)
    BY <1>0, <2>5, <2>6, <2>7, <2>8, <2>9, <2>10, <2>11, <2>12 DEF ClientOK
  <2> HIDE DEF us
  <2>14. ASSUME NEW i \in 1..Len(us), us[i].kind = "token"
         PROVE  us[i].close_count <= s.close_count /\ us[i].close_count # s.close_count
    <3>1. i + 1 # 1
      BY <1>3
    <3> QED BY <1>1, <1>2, <2>2, <2>14, <3>1 DEF TokensOK
  <2>15. TokensOK(us, t)
    BY <2>6, <2>14 DEF TokensOK
  <2> QED BY <2>6, <2>13, <2>15 DEF us, SameView, SameWire, SameTracker
<1> QED BY <1>4, <1>5

\* Without a token the start fails, as when a stream breaks.
LEMMA TokenRefused ==
  ASSUME NEW s, NEW refused, ClientOK(s, refused), NEW ts \in Seq(Tasks), ts # << >>,
         Head(ts).kind = "token", TokensOK(ts, s), IsCurrent(s, Head(ts).close_count)
  PROVE  ClientOK(StartFails(s), refused) /\ Evolves(s, StartFails(s))
<1>1. s \in Client
  BY DEF ClientOK
<1>2. 1 \in 1..Len(ts) /\ Head(ts) = ts[1]
  BY TasksBehind
<1>3. s.state = "Starting"
  BY <1>2 DEF TokensOK, IsCurrent
<1>4. StartFails(s) = CloseWatchStream(s, "Unavailable")
  BY <1>1, <1>3, AssertHolds DEF StartFails
<1>5. IsStarted(s)
  BY <1>3 DEF IsStarted
<1> QED BY <1>4, <1>5, BreaksOK

\* The oldest event has been taken.
LEMMA EventTaken ==
  ASSUME NEW s, NEW refused, ClientOK(s, refused), s.out # << >>,
         NEW t, t = [s EXCEPT !.out = Tail(@)]
  PROVE  /\ ClientOK(t, refused) /\ TokensStay(s, t)
         /\ t.listeners = s.listeners /\ t.listens = s.listens /\ t.raised = s.raised
         /\ Len(s.out) \in Nat \ {0} /\ Head(s.out) = s.out[1] /\ Head(s.out) \in Event
         /\ Len(t.out) = Len(s.out) - 1
         /\ \A k \in 1..Len(t.out) : k + 1 \in 1..Len(s.out) /\ t.out[k] = s.out[k + 1]
<1> DEFINE o == Tail(s.out)
<1>0. s \in Client /\ StreamOK(s) /\ OnlineOK(s) /\ ListenersOK(s) /\ RequestsOK(s)
      /\ ResponsesOK(s, refused) /\ CurrentOK(s) /\ EventsOK(s) /\ s.enabled
  BY DEF ClientOK
<1>1. /\ Len(s.out) \in Nat \ {0} /\ Head(s.out) = s.out[1] /\ Head(s.out) \in Event
      /\ o \in Seq(Event) /\ Len(o) = Len(s.out) - 1
      /\ \A k \in 1..(Len(s.out) - 1) : o[k] = s.out[k + 1]
  <2> DEFINE a == s.out
  <2>1. a \in Seq(Event) /\ a # << >>
    BY <1>0, ClientSeqs
  <2> HIDE DEF a
  <2>2. /\ Len(a) \in Nat \ {0} /\ Head(a) = a[1] /\ Head(a) \in Event
        /\ Tail(a) \in Seq(Event) /\ Len(Tail(a)) = Len(a) - 1
        /\ \A k \in 1..(Len(a) - 1) : Tail(a)[k] = a[k + 1]
    BY <2>1, TailParts
  <2> QED BY <2>2 DEF a
<1>2. t = [s EXCEPT !.out = o]
  OBVIOUS
<1> HIDE DEF o
<1>3. t \in Client
  BY ONLY <1>0, <1>1, <1>2 DEF Client
<1>4. /\ SameStream(s, t) /\ SameWire(s, t) /\ SameTracker(s, t) /\ SameView(s, t)
      /\ t.raised = s.raised /\ t.kept = s.kept /\ t.enabled = s.enabled /\ t.out = o
  BY ONLY <1>0, <1>2 DEF Client, SameStream, SameWire, SameTracker, SameView
<1>5. StreamOK(t)
  BY <1>0, <1>4, StreamKept DEF SameView
<1>6. OnlineOK(t)
  BY <1>0, <1>4, TrackerKept DEF IsStarted, SameStream
<1>7. ListenersOK(t)
  BY <1>0, <1>4, ViewKept
<1>8. RequestsOK(t) /\ ResponsesOK(t, refused)
  BY <1>0, <1>4, WireKept
<1>9. CurrentOK(t)
  BY <1>0, <1>4 DEF CurrentOK, SameWire, SameView
<1>10. /\ Len(t.out) = Len(s.out) - 1 /\ Len(t.out) \in Nat
       /\ \A k \in 1..Len(t.out) : k + 1 \in 1..Len(s.out) /\ t.out[k] = s.out[k + 1]
  BY <1>1, <1>4
<1>11. EventsOK(t)
  <2> SUFFICES ASSUME NEW k \in 1..Len(t.out)
               PROVE  IF t.out[k].what # "error" THEN t.out[k].get \in t.raised
                      ELSE /\ t.out[k].get \notin ToSet(t.listeners)
                           /\ \A j \in 1..Len(t.out) : t.out[j].get = t.out[k].get => j <= k
    BY DEF EventsOK
  <2>1. IF s.out[k + 1].what # "error" THEN s.out[k + 1].get \in s.raised
        ELSE /\ s.out[k + 1].get \notin ToSet(s.listeners)
             /\ \A j \in 1..Len(s.out) : s.out[j].get = s.out[k + 1].get => j <= k + 1
    BY <1>0, <1>10 DEF EventsOK
  <2>2. ASSUME t.out[k].what = "error", NEW j \in 1..Len(t.out), t.out[j].get = t.out[k].get
        PROVE  j <= k
    <3>1. j + 1 <= k + 1
      BY <1>10, <2>1, <2>2
    <3> QED BY <1>10, <3>1
  <2> QED BY <1>4, <1>10, <2>1, <2>2 DEF SameView
<1>12. ClientOK(t, refused)
  BY <1>0, <1>3, <1>4, <1>5, <1>6, <1>7, <1>8, <1>9, <1>11 DEF ClientOK
<1>13. TokensStay(s, t)
  BY <1>4, SameStreamTokens
<1> QED BY <1>1, <1>4, <1>10, <1>12, <1>13 DEF SameView, SameWire

\* The event was for a listener that is muted, or it is its answer.
Given(ans, e) == [ans EXCEPT ![e.get] = Append(@, e.what)]
Quiet(mu, e) == IF e.what = "error" THEN mu ELSE mu \cup {e.get}

LEMMA EventHeard ==
  ASSUME NEW s, NEW refused, ClientOK(s, refused), s.out # << >>,
         NEW t, t = [s EXCEPT !.out = Tail(@)],
         NEW ans \in [Gets -> Seq(Snapshots \cup {"error"})], NEW mu, NEW m,
         AnswersOK(s, ans, mu), HeardOK(s, ans, m), NEW e, e = Head(s.out)
  PROVE  /\ AnswersOK(t, ans, mu) /\ HeardOK(t, ans, m)
         /\ e.get \notin mu => /\ Given(ans, e) \in [Gets -> Seq(Snapshots \cup {"error"})]
                               /\ AnswersOK(t, Given(ans, e), Quiet(mu, e))
                               /\ HeardOK(t, Given(ans, e), m)
<1> DEFINE Words == Snapshots \cup {"error"}
           given == Given(ans, e)
           quiet == Quiet(mu, e)
<1>1. /\ ClientOK(t, refused)
      /\ t.listeners = s.listeners /\ t.listens = s.listens
      /\ Len(s.out) \in Nat \ {0} /\ e = s.out[1] /\ e \in Event
      /\ Len(t.out) = Len(s.out) - 1
      /\ \A k \in 1..Len(t.out) : k + 1 \in 1..Len(s.out) /\ t.out[k] = s.out[k + 1]
  BY EventTaken
<1>2. e.get \in Gets /\ e.what \in Words
  BY <1>1 DEF Event
<1>3. 1 \in 1..Len(s.out)
  BY <1>1
<1>4. HeardOK(t, ans, m)
  BY <1>1 DEF HeardOK
<1>5. AnswersOK(t, ans, mu)
  BY <1>1 DEF AnswersOK
<1>6. ASSUME e.get \notin mu
      PROVE  /\ given \in [Gets -> Seq(Words)]
             /\ AnswersOK(t, given, quiet) /\ HeardOK(t, given, m)
  <2>1. ans[e.get] = << >>
    BY <1>1, <1>2, <1>3, <1>6 DEF AnswersOK
  <2> HIDE DEF Words
  <2>2. ans \in [Gets -> Seq(Words)]
    BY DEF Words
  <2>3. << >> \in Seq(Words)
    OBVIOUS
  <2>4. Append(<< >>, e.what) \in Seq(Words) /\ Len(Append(<< >>, e.what)) = 1
    <3>1. Len(<< >>) = 0
      OBVIOUS
    <3>2. Append(<< >>, e.what) \in Seq(Words) /\ Len(Append(<< >>, e.what)) = Len(<< >>) + 1
      BY <1>2, <2>3, AppendParts
    <3> QED BY <3>1, <3>2
  <2>5. given = [ans EXCEPT ![e.get] = Append(<< >>, e.what)]
    BY <2>1 DEF Given
  <2> HIDE DEF given
  <2>6. given \in [Gets -> Seq(Words)]
    BY <1>2, <2>2, <2>4, <2>5
  <2>7. \A g \in Gets : given[g] = IF g = e.get THEN Append(<< >>, e.what) ELSE ans[g]
    BY <1>2, <2>2, <2>5
  <2>8. e.get <= m /\ Len(given[e.get]) <= 1
    <3>1. e.get <= m
      BY <1>1, <1>3 DEF HeardOK
    <3> DEFINE w == Append(<< >>, e.what)
    <3>2. given[e.get] = w /\ Len(w) = 1
      BY <1>2, <2>4, <2>7
    <3> HIDE DEF w
    <3> QED BY ONLY <3>1, <3>2
  <2>9. HeardOK(t, given, m)
    BY <1>4, <2>7, <2>8 DEF HeardOK
  <2>10. ASSUME NEW g \in Gets
         PROVE  /\ Len(given[g]) <= 1
                /\ given[g] # << >> =>
                     \/ g \in quiet
                     \/ g \notin ToSet(t.listeners) /\ \A k \in 1..Len(t.out) : t.out[k].get # g
    <3>1. CASE g # e.get
      BY <1>5, <2>7, <3>1 DEF AnswersOK, Quiet
    <3>2. CASE g = e.get /\ e.what # "error"
      BY <2>8, <3>2 DEF Quiet
    <3>3. CASE g = e.get /\ e.what = "error"
      <4>1. EventsOK(s)
        BY DEF ClientOK
      <4>2. /\ g \notin ToSet(s.listeners)
            /\ \A j \in 1..Len(s.out) : s.out[j].get = g => j <= 1
        BY <1>1, <1>3, <3>3, <4>1 DEF EventsOK
      <4>3. ASSUME NEW k \in 1..Len(t.out) PROVE t.out[k].get # g
        <5>1. ~(k + 1 <= 1)
          BY <1>1
        <5> QED BY <1>1, <4>2, <5>1
      <4> QED BY <1>1, <2>8, <3>3, <4>2, <4>3
    <3> QED BY <3>1, <3>2, <3>3
  <2>11. AnswersOK(t, given, quiet)
    BY <2>10 DEF AnswersOK
  <2> QED BY <2>6, <2>9, <2>11
<1> QED BY <1>4, <1>5, <1>6

-----------------------------------------------------------------------------
(***************************************************************************)
(* The invariant is inductive.                                             *)
(***************************************************************************)
LEMMA InitIInv ==
  Init => IInv
<1> SUFFICES ASSUME Init PROVE IInv
  OBVIOUS
<1>0. called = 0 /\ tasks = << >> /\ muted = {} /\ cl = NewClient /\ denied \in BOOLEAN
      /\ answers = [g \in Gets |-> << >>] /\ disturbances = 0
  BY DEF Init
<1>1. StateOK
  <2>1. 0 \in 0..MaxGets /\ 0 \in 0..MaxDisturbances
    BY BoundsAssumption
  <2>2. [g \in Gets |-> << >>] \in [Gets -> Seq(Snapshots \cup {"error"})] /\ << >> \in Seq(Tasks)
    OBVIOUS
  <2> QED BY <1>0, <2>1, <2>2 DEF StateOK
<1>2. /\ cl.state = "Initial" /\ cl.timers = {} /\ cl.asks = {} /\ cl.close_count = 0
      /\ cl.credentials = NoStream /\ cl.listeners = << >> /\ cl.raised = {}
      /\ cl.snap = NoSnapshot /\ cl.em_online = "Unknown" /\ cl.out = << >>
      /\ cl.view = NoView /\ cl.target = FALSE /\ cl.enabled = TRUE /\ cl.agg = NewTargetState
      /\ cl.online = "Unknown" /\ cl.failures = 0 /\ cl.online_timer = FALSE /\ cl.listens = 0
      /\ cl.up = << >> /\ cl.down = << >> /\ cl.watched = Unwatched /\ cl.kept = FALSE
  BY <1>0 DEF NewClient, NewStream
<1>3. cl \in Client
  <2>1. 0 \in Failures
    BY BoundsAssumption DEF Failures
  <2>2. NoView \in Views /\ NewTargetState \in TargetStates /\ Unwatched \in Watches
    BY DEF NoView, Views, NewTargetState, TargetStates, Unwatched, Watches, Phases
  <2>3. "Initial" \in States /\ "Unknown" \in Online /\ {} \in SUBSET Timers /\ {} \in SUBSET Nat
        /\ {} \in SUBSET Gets
    BY DEF States, Online
  <2>4. << >> \in Seq(Gets) /\ << >> \in Seq(Event) /\ << >> \in Seq(Requests) /\ << >> \in Seq(Responses)
    OBVIOUS
  <2> QED BY <1>0, <2>1, <2>2, <2>3, <2>4 DEF NewClient, NewStream, Client
<1>4. ClientOK(cl, denied)
  <2>1. NewTargetState.outstanding = 0 /\ NewTargetState.current = 0 /\ NoView.on = FALSE
        /\ NoView.current = 0 /\ Len(<< >>) = 0 /\ NoSnapshot # "server"
    BY DEF NewTargetState, NoView, NoSnapshot
  <2>2. StreamOK(cl)
    BY <1>2, <2>1 DEF StreamOK
  <2>3. OnlineOK(cl)
    BY <1>2 DEF OnlineOK
  <2>4. ListenersOK(cl)
    <3>1. \A i, j \in 1..Len(cl.listeners) : cl.listeners[i] = cl.listeners[j] => i = j
      BY <1>2, <2>1
    <3> QED BY <1>2, <2>1, <3>1 DEF ListenersOK
  <2>5. RequestsOK(cl) /\ ResponsesOK(cl, denied)
    BY <1>2, <1>3, <2>1, WireCut
  <2>6. CurrentOK(cl)
    BY <1>2, <2>1 DEF CurrentOK
  <2>7. EventsOK(cl)
    BY <1>2, <2>1 DEF EventsOK
  <2> QED BY <1>2, <1>3, <2>2, <2>3, <2>4, <2>5, <2>6, <2>7 DEF ClientOK
<1>5. TokensOK(tasks, cl) /\ QueueOK(tasks, called, 0)
  BY <1>0 DEF TokensOK, QueueOK
<1>6. AnswersOK(cl, answers, muted)
  BY <1>0 DEF AnswersOK
<1>7. HeardOK(cl, answers, 0) /\ 0 \in 0..called
  BY <1>0, <1>2 DEF HeardOK
<1> QED BY <1>1, <1>4, <1>5, <1>6, <1>7 DEF IInv

\* The parts of the invariant, for a step.
LEMMA IInvParts ==
  ASSUME IInv
  PROVE  /\ StateOK /\ ClientOK(cl, denied) /\ cl \in Client /\ tasks \in Seq(Tasks)
         /\ TokensOK(tasks, cl) /\ AnswersOK(cl, answers, muted) /\ called \in Nat
         /\ \E m \in 0..called : m \in Nat /\ HeardOK(cl, answers, m) /\ QueueOK(tasks, called, m)
<1>1. StateOK /\ ClientOK(cl, denied) /\ TokensOK(tasks, cl) /\ AnswersOK(cl, answers, muted)
  BY DEF IInv
<1>2. called \in Nat /\ tasks \in Seq(Tasks)
  BY <1>1 DEF StateOK
<1>3. PICK m \in 0..called : HeardOK(cl, answers, m) /\ QueueOK(tasks, called, m)
  BY DEF IInv
<1>4. m \in Nat
  BY <1>2
<1> QED BY <1>1, <1>2, <1>3, <1>4 DEF ClientOK

\* What a step may do to the events: a first one is from the cache only offline.
CacheRule(s, t) ==
  \A k \in 1..Len(t.out) :
    t.out[k].what = "cache" /\ t.out[k].get \notin s.raised => t.online = "Offline"

\* Earlier events have been raised, and of the new ones it is known.
LEMMA CacheRuleNew ==
  ASSUME NEW s \in Client, NEW t \in Client, EventsOK(s), CacheOnly(s, t.out, t.online),
         Len(s.out) <= Len(t.out), \A k \in 1..Len(s.out) : t.out[k] = s.out[k]
  PROVE  CacheRule(s, t)
<1>1. Len(s.out) \in Nat /\ Len(t.out) \in Nat
  BY ClientSeqs
<1> SUFFICES ASSUME NEW k \in 1..Len(t.out), t.out[k].what = "cache", t.out[k].get \notin s.raised
             PROVE  t.online = "Offline"
  BY DEF CacheRule
<1>2. k \notin 1..Len(s.out)
  BY DEF EventsOK
<1>3. k \in (Len(s.out) + 1)..Len(t.out)
  BY <1>1, <1>2
<1> QED BY <1>3 DEF CacheOnly

LEMMA CacheRuleOld ==
  ASSUME NEW s \in Client, EventsOK(s), NEW t,
         \A k \in 1..Len(t.out) : \E j \in 1..Len(s.out) : t.out[k] = s.out[j]
  PROVE  CacheRule(s, t)
<1> SUFFICES ASSUME NEW k \in 1..Len(t.out), t.out[k].what = "cache" PROVE t.out[k].get \in s.raised
  BY DEF CacheRule
<1>1. PICK j \in 1..Len(s.out) : t.out[k] = s.out[j]
  OBVIOUS
<1> QED BY <1>1 DEF EventsOK

\* A step of the client, the server or the network alone.
LEMMA ClientStepIInv ==
  ASSUME IInv, UNCHANGED <<called, tasks, muted, answers, denied>>,
         disturbances' \in 0..MaxDisturbances, ClientOK(cl', denied), Evolves(cl, cl')
  PROVE  IInv' /\ CacheRule(cl, cl')
<1>1. /\ StateOK /\ ClientOK(cl, denied) /\ cl \in Client /\ tasks \in Seq(Tasks)
      /\ TokensOK(tasks, cl) /\ AnswersOK(cl, answers, muted)
  BY IInvParts
<1>2. PICK m \in 0..called : m \in Nat /\ HeardOK(cl, answers, m) /\ QueueOK(tasks, called, m)
  BY IInvParts
<1>3. cl' \in Client
  BY DEF ClientOK
<1>4. TokensOK(tasks, cl') /\ AnswersOK(cl', answers, muted) /\ HeardOK(cl', answers, m)
  BY <1>1, <1>2, <1>3, AllEvolve
<1>5. StateOK'
  BY <1>1 DEF StateOK
<1>6. CacheRule(cl, cl')
  <2>1. EventsOK(cl)
    BY <1>1 DEF ClientOK
  <2>2. CacheOnly(cl, cl'.out, cl'.online) /\ Len(cl.out) <= Len(cl'.out)
        /\ \A k \in 1..Len(cl.out) : cl'.out[k] = cl.out[k]
    BY DEF Evolves, NewEvents
  <2> QED BY <1>1, <1>3, <2>1, <2>2, CacheRuleNew
<1>7. IInv'
  BY <1>2, <1>4, <1>5 DEF IInv
<1> QED BY <1>6, <1>7

LEMMA DisturbBound ==
  ASSUME StateOK, Disturb \/ disturbances' = disturbances
  PROVE  disturbances' \in 0..MaxDisturbances
<1>1. disturbances \in 0..MaxDisturbances /\ MaxDisturbances \in Nat
  BY BoundsAssumption DEF StateOK
<1>2. CASE Disturb
  BY <1>1, <1>2 DEF Disturb
<1>3. CASE disturbances' = disturbances
  BY <1>1, <1>3
<1> QED BY <1>2, <1>3

LEMMA ListenIInv ==
  ASSUME IInv, RunListen
  PROVE  IInv' /\ CacheRule(cl, cl')
<1> DEFINE g == Head(tasks).get
           us == Tail(tasks)
<1>0. /\ tasks # << >> /\ Head(tasks).kind = "listen" /\ cl' = AddQueryListener(cl, g)
      /\ tasks' = us /\ UNCHANGED <<called, muted, answers, denied, disturbances>>
  BY DEF RunListen
<1>1. /\ StateOK /\ ClientOK(cl, denied) /\ cl \in Client /\ tasks \in Seq(Tasks)
      /\ TokensOK(tasks, cl) /\ AnswersOK(cl, answers, muted) /\ called \in Nat
  BY IInvParts
<1>2. PICK m \in 0..called : m \in Nat /\ HeardOK(cl, answers, m) /\ QueueOK(tasks, called, m)
  BY IInvParts
<1>3. us \in Seq(Tasks) /\ g \in Gets
  <2>1. us \in Seq(Tasks) /\ Head(tasks) \in Tasks
    BY <1>0, <1>1, TasksBehind
  <2> QED BY <1>0, <2>1 DEF Tasks
<1>4. TokensOK(us, cl)
  BY <1>0, <1>1, TokensBehind
<1>5. m < g /\ g <= called /\ QueueOK(us, called, g)
  BY <1>0, <1>1, <1>2, QueueBehind
<1> HIDE DEF g, us
<1>6. g \in Nat /\ g \in 0..called
  BY <1>1, <1>3, <1>5 DEF Gets
<1>7. g \notin ToSet(cl.listeners) /\ \A k \in 1..Len(cl.out) : cl.out[k].get # g
  <2>1. ToSet(cl.listeners) \subseteq 1..m
    BY <1>2, ElementsWithin DEF HeardOK
  <2>2. \A k \in 1..Len(cl.out) : cl.out[k].get <= m
    BY <1>2 DEF HeardOK
  <2>3. g \notin 1..m /\ ~(g <= m)
    BY <1>2, <1>5, <1>6
  <2> QED BY <2>1, <2>2, <2>3
<1>8. ClientOK(cl', denied) /\ Joins(cl, cl', g)
  BY <1>0, <1>1, <1>3, <1>7, AddListenerOK
<1>9. cl' \in Client
  BY <1>8 DEF ClientOK
<1>10. TokensOK(us, cl') /\ AnswersOK(cl', answers, muted) /\ HeardOK(cl', answers, g)
  BY <1>1, <1>2, <1>3, <1>4, <1>5, <1>6, <1>8, <1>9, AllJoin
<1>11. StateOK'
  BY <1>0, <1>1, <1>3 DEF StateOK
<1>12. IInv'
  BY <1>0, <1>5, <1>6, <1>8, <1>10, <1>11 DEF IInv
<1>13. CacheRule(cl, cl')
  <2>1. EventsOK(cl)
    BY <1>1 DEF ClientOK
  <2>2. CacheOnly(cl, cl'.out, cl'.online) /\ Len(cl.out) <= Len(cl'.out)
        /\ \A k \in 1..Len(cl.out) : cl'.out[k] = cl.out[k]
    BY <1>8 DEF Joins
  <2> QED BY <1>1, <1>9, <2>1, <2>2, CacheRuleNew
<1> QED BY <1>12, <1>13

\* The oldest operation of the worker queue has run, without adding a listener.
LEMMA TaskRunIInv ==
  ASSUME IInv, tasks # << >>, tasks' = Tail(tasks),
         UNCHANGED <<called, muted, answers, denied, disturbances>>,
         ClientOK(cl', denied), Evolves(cl, cl')
  PROVE  IInv' /\ CacheRule(cl, cl')
<1> DEFINE us == Tail(tasks)
<1>1. /\ StateOK /\ ClientOK(cl, denied) /\ cl \in Client /\ tasks \in Seq(Tasks)
      /\ TokensOK(tasks, cl) /\ AnswersOK(cl, answers, muted)
  BY IInvParts
<1>2. PICK m \in 0..called : m \in Nat /\ HeardOK(cl, answers, m) /\ QueueOK(tasks, called, m)
  BY IInvParts
<1>3. us \in Seq(Tasks)
  BY <1>1, TasksBehind
<1>4. TokensOK(us, cl)
  BY <1>1, TokensBehind
<1>5. QueueOK(us, called, m)
  BY <1>1, <1>2, QueueBehind
<1> HIDE DEF us
<1>6. cl' \in Client
  BY DEF ClientOK
<1>7. TokensOK(us, cl') /\ AnswersOK(cl', answers, muted) /\ HeardOK(cl', answers, m)
  BY <1>1, <1>2, <1>3, <1>4, <1>6, AllEvolve
<1>8. tasks' = us
  BY DEF us
<1>9. StateOK'
  BY <1>1, <1>3, <1>8 DEF StateOK
<1>10. IInv'
  BY <1>2, <1>5, <1>7, <1>8, <1>9 DEF IInv
<1>11. CacheRule(cl, cl')
  <2>1. EventsOK(cl)
    BY <1>1 DEF ClientOK
  <2>2. CacheOnly(cl, cl'.out, cl'.online) /\ Len(cl.out) <= Len(cl'.out)
        /\ \A k \in 1..Len(cl.out) : cl'.out[k] = cl.out[k]
    BY DEF Evolves, NewEvents
  <2> QED BY <1>1, <1>6, <2>1, <2>2, CacheRuleNew
<1> QED BY <1>10, <1>11

LEMMA RemoveIInv ==
  ASSUME IInv, RunRemoveListener
  PROVE  IInv' /\ CacheRule(cl, cl')
<1>1. /\ tasks # << >> /\ cl' = RemoveQueryListener(cl, Head(tasks).get)
      /\ tasks' = Tail(tasks) /\ UNCHANGED <<called, muted, answers, denied, disturbances>>
  BY DEF RunRemoveListener
<1>2. ClientOK(cl', denied) /\ Evolves(cl, cl')
  BY <1>1, IInvParts, RemoveListenerOK
<1> QED BY <1>1, <1>2, TaskRunIInv

\* A step in which no listener and no event comes or goes.
LEMMA SilentStep ==
  ASSUME NEW s \in Client, NEW t \in Client, NEW ans, NEW mu, NEW m, EventsOK(s),
         t.listeners = s.listeners, t.listens = s.listens, SameEvents(s, t),
         AnswersOK(s, ans, mu), HeardOK(s, ans, m)
  PROVE  AnswersOK(t, ans, mu) /\ HeardOK(t, ans, m) /\ CacheRule(s, t)
<1>1. AnswersOK(t, ans, mu)
  BY DEF AnswersOK, SameEvents
<1>2. HeardOK(t, ans, m)
  BY DEF HeardOK, SameEvents
<1>3. CacheRule(s, t)
  BY CacheRuleOld DEF SameEvents
<1> QED BY <1>1, <1>2, <1>3

LEMMA TokenIInv ==
  ASSUME IInv, RunToken
  PROVE  IInv' /\ CacheRule(cl, cl')
<1> DEFINE us == Tail(tasks)
           failed == IsCurrent(cl, Head(tasks).close_count) /\ Head(tasks).code # "Ok"
<1>0. /\ tasks # << >> /\ Head(tasks).kind = "token"
      /\ failed => cl' = StartFails(cl)
      /\ ~failed => cl' = IF IsCurrent(cl, Head(tasks).close_count)
                           THEN ResumeStartWithCredentials(cl, "user") ELSE cl
      /\ tasks' = us /\ UNCHANGED <<called, muted, answers, denied, disturbances>>
  BY DEF RunToken
<1>1. /\ StateOK /\ ClientOK(cl, denied) /\ cl \in Client /\ tasks \in Seq(Tasks)
      /\ TokensOK(tasks, cl) /\ AnswersOK(cl, answers, muted)
  BY IInvParts
<1>2. CASE failed
  <2>1. cl' = StartFails(cl)
    BY <1>0, <1>2
  <2>2. ClientOK(cl', denied) /\ Evolves(cl, cl')
    BY <1>0, <1>1, <1>2, <2>1, TokenRefused
  <2> QED BY <1>0, <2>2, TaskRunIInv
<1>3. CASE ~failed
  <2>2. PICK m \in 0..called : m \in Nat /\ HeardOK(cl, answers, m) /\ QueueOK(tasks, called, m)
    BY IInvParts
  <2>3. us \in Seq(Tasks)
    BY <1>0, <1>1, TasksBehind
  <2>4. QueueOK(us, called, m)
    BY <1>0, <1>1, <2>2, QueueBehind
  <2>5. /\ ClientOK(cl', denied) /\ TokensOK(us, cl') /\ cl'.listeners = cl.listeners
        /\ cl'.listens = cl.listens /\ SameEvents(cl, cl')
    BY <1>0, <1>1, <1>3, TokenUsed
  <2> HIDE DEF us
  <2>6. cl' \in Client /\ EventsOK(cl)
    BY <1>1, <2>5 DEF ClientOK
  <2>7. AnswersOK(cl', answers, muted) /\ HeardOK(cl', answers, m) /\ CacheRule(cl, cl')
    BY <1>1, <2>2, <2>5, <2>6, SilentStep
  <2>8. StateOK'
    BY <1>0, <1>1, <2>3 DEF StateOK
  <2>9. IInv'
    BY <1>0, <2>2, <2>4, <2>5, <2>7, <2>8 DEF IInv
  <2> QED BY <2>7, <2>9
<1> QED BY <1>2, <1>3

LEMMA TokenAnsweredIInv ==
  ASSUME IInv, NEW n, NEW code \in TokenCodes, GetTokenAnswered(n, code)
  PROVE  IInv' /\ CacheRule(cl, cl')
<1> DEFINE e == [kind |-> "token", close_count |-> n, code |-> code]
           us == Append(tasks, e)
<1>0. /\ n \in cl.asks /\ cl' = [cl EXCEPT !.asks = @ \ {n}]
      /\ tasks' = us /\ UNCHANGED <<called, muted, answers, denied>>
      /\ (Disturb \/ disturbances' = disturbances)
  BY DEF GetTokenAnswered
<1>1. /\ StateOK /\ ClientOK(cl, denied) /\ cl \in Client /\ tasks \in Seq(Tasks)
      /\ TokensOK(tasks, cl) /\ AnswersOK(cl, answers, muted)
  BY IInvParts
<1>2. PICK m \in 0..called : m \in Nat /\ HeardOK(cl, answers, m) /\ QueueOK(tasks, called, m)
  BY IInvParts
<1>3. e.kind # "listen"
  OBVIOUS
<1>4. /\ ClientOK(cl', denied) /\ e \in Tasks /\ TokensOK(us, cl') /\ cl'.listeners = cl.listeners
      /\ cl'.listens = cl.listens /\ SameEvents(cl, cl')
  BY <1>0, <1>1, TokenAnswered
<1> HIDE DEF e
<1>5. us \in Seq(Tasks)
  BY <1>1, <1>4, TaskAdded
<1>6. QueueOK(us, called, m)
  BY <1>1, <1>2, <1>3, <1>4, OtherTaskAdded
<1> HIDE DEF us
<1>7. cl' \in Client /\ EventsOK(cl)
  BY <1>1, <1>4 DEF ClientOK
<1>8. AnswersOK(cl', answers, muted) /\ HeardOK(cl', answers, m) /\ CacheRule(cl, cl')
  BY <1>1, <1>2, <1>4, <1>7, SilentStep
<1>9. StateOK'
  <2>1. disturbances' \in 0..MaxDisturbances
    BY <1>0, <1>1, DisturbBound
  <2> QED BY <1>0, <1>1, <1>5, <2>1 DEF StateOK
<1>10. IInv'
  BY <1>0, <1>2, <1>4, <1>6, <1>8, <1>9 DEF IInv
<1> QED BY <1>8, <1>10

LEMMA EventIInv ==
  ASSUME IInv, RunEvent
  PROVE  IInv' /\ CacheRule(cl, cl')
<1> DEFINE e == Head(cl.out)
           given == Given(answers, e)
           quiet == Quiet(muted, e)
           r == [kind |-> "remove", get |-> e.get]
<1>0. /\ cl.out # << >> /\ cl' = [cl EXCEPT !.out = Tail(@)]
      /\ UNCHANGED <<called, denied, disturbances>>
  BY DEF RunEvent
<1>1. /\ StateOK /\ ClientOK(cl, denied) /\ cl \in Client /\ tasks \in Seq(Tasks)
      /\ TokensOK(tasks, cl) /\ AnswersOK(cl, answers, muted)
  BY IInvParts
<1>2. PICK m \in 0..called : m \in Nat /\ HeardOK(cl, answers, m) /\ QueueOK(tasks, called, m)
  BY IInvParts
<1>3. answers \in [Gets -> Seq(Snapshots \cup {"error"})] /\ muted \subseteq Gets
  BY <1>1 DEF StateOK
<1>4. /\ ClientOK(cl', denied) /\ TokensStay(cl, cl') /\ e \in Event
      /\ \A k \in 1..Len(cl'.out) : k + 1 \in 1..Len(cl.out) /\ cl'.out[k] = cl.out[k + 1]
  BY <1>0, <1>1, EventTaken
<1>5. /\ AnswersOK(cl', answers, muted) /\ HeardOK(cl', answers, m)
      /\ e.get \notin muted => /\ given \in [Gets -> Seq(Snapshots \cup {"error"})]
                               /\ AnswersOK(cl', given, quiet) /\ HeardOK(cl', given, m)
  <2>1. ClientOK(cl, denied) /\ cl.out # << >> /\ cl' = [cl EXCEPT !.out = Tail(@)]
        /\ AnswersOK(cl, answers, muted) /\ HeardOK(cl, answers, m)
    BY <1>0, <1>1, <1>2
  <2>2. e = Head(cl.out)
    OBVIOUS
  <2> HIDE DEF e
  <2> QED BY <1>3, <2>1, <2>2, EventHeard
<1>6. e.get \in Gets
  BY <1>4 DEF Event
<1>7. cl' \in Client /\ EventsOK(cl)
  BY <1>1, <1>4 DEF ClientOK
<1>8. TokensOK(tasks, cl')
  BY <1>1, <1>4, <1>7, TokensEvolve
<1>9. CacheRule(cl, cl')
  BY <1>1, <1>4, <1>7, CacheRuleOld
<1>10. CASE e.get \in muted
  <2>1. UNCHANGED <<answers, muted, tasks>>
    BY <1>10 DEF RunEvent
  <2>2. StateOK'
    BY <1>0, <1>1, <2>1 DEF StateOK
  <2>3. IInv'
    BY <1>0, <1>2, <1>4, <1>5, <1>8, <2>1, <2>2 DEF IInv
  <2> QED BY <1>9, <2>3
<1>11. CASE e.get \notin muted
  <2>1. /\ answers' = given /\ muted' = quiet
        /\ tasks' = IF e.what = "error" THEN tasks ELSE Append(tasks, r)
    BY <1>11 DEF RunEvent, ListenOnce, Given, Quiet
  <2>2. r \in Tasks /\ r.kind = "remove"
    BY <1>6 DEF Tasks
  <2>3. quiet \subseteq Gets
    BY <1>3, <1>6 DEF Quiet
  <2> HIDE DEF given, quiet, r, e
  <2>4. tasks' \in Seq(Tasks) /\ TokensOK(tasks', cl') /\ QueueOK(tasks', called, m)
    <3>1. CASE e.what = "error"
      BY <1>1, <1>2, <1>8, <2>1, <3>1
    <3>2. CASE e.what # "error"
      <4>1. Append(tasks, r) \in Seq(Tasks)
        BY <1>1, <2>2, TaskAdded
      <4>2. TokensOK(Append(tasks, r), cl')
        BY <1>1, <1>8, <2>2, OtherTaskAdded
      <4>3. QueueOK(Append(tasks, r), called, m)
        BY <1>1, <1>2, <2>2, OtherTaskAdded
      <4> QED BY <2>1, <3>2, <4>1, <4>2, <4>3
    <3> QED BY <3>1, <3>2
  <2>5. StateOK'
    BY <1>0, <1>1, <1>5, <1>11, <2>1, <2>3, <2>4 DEF StateOK
  <2>6. AnswersOK(cl', answers', muted') /\ HeardOK(cl', answers', m)
    BY <1>5, <1>11, <2>1
  <2>7. IInv'
    BY <1>0, <1>2, <1>4, <2>4, <2>5, <2>6 DEF IInv
  <2> QED BY <1>9, <2>7
<1> QED BY <1>10, <1>11

LEMMA GetDocumentsIInv ==
  ASSUME IInv, GetDocuments
  PROVE  IInv' /\ CacheRule(cl, cl')
<1> DEFINE e == [kind |-> "listen", get |-> called + 1]
           us == Append(tasks, e)
<1>0. /\ called < MaxGets /\ called' = called + 1 /\ tasks' = us
      /\ UNCHANGED <<cl, muted, answers, denied, disturbances>>
  BY DEF GetDocuments
<1>1. /\ StateOK /\ ClientOK(cl, denied) /\ cl \in Client /\ tasks \in Seq(Tasks)
      /\ TokensOK(tasks, cl) /\ AnswersOK(cl, answers, muted) /\ called \in Nat
  BY IInvParts
<1>2. PICK m \in 0..called : m \in Nat /\ HeardOK(cl, answers, m) /\ QueueOK(tasks, called, m)
  BY IInvParts
<1>3. MaxGets \in Nat
  BY BoundsAssumption
<1>4. called + 1 \in Gets /\ called + 1 \in 0..MaxGets /\ m \in 0..(called + 1)
  BY <1>0, <1>1, <1>2, <1>3 DEF Gets
<1>5. e \in Tasks /\ e.kind = "listen" /\ e.get = called + 1
  BY <1>4 DEF Tasks
<1> HIDE DEF e
<1>6. us \in Seq(Tasks)
  BY <1>1, <1>5, TaskAdded
<1>7. TokensOK(us, cl)
  BY <1>1, <1>5, OtherTaskAdded
<1>8. QueueOK(us, called + 1, m)
  BY <1>1, <1>2, <1>5, ListenAdded
<1> HIDE DEF us
<1>9. StateOK'
  BY <1>0, <1>1, <1>4, <1>6 DEF StateOK
<1>10. IInv'
  BY <1>0, <1>1, <1>2, <1>4, <1>7, <1>8, <1>9 DEF IInv
<1>11. CacheRule(cl, cl')
  <2>1. EventsOK(cl)
    BY <1>1 DEF ClientOK
  <2> QED BY <1>0, <1>1, <2>1, CacheRuleOld
<1> QED BY <1>10, <1>11

LEMMA ProcessesIInv ==
  ASSUME IInv, ServerProcesses
  PROVE  IInv' /\ CacheRule(cl, cl')
<1> DEFINE r == Head(cl.up)
           kind == IF r.kind = "unwatch" THEN "Removed" ELSE IF denied THEN "Denied" ELSE "Added"
           w == IF kind = "Added" THEN [listen |-> r.listen, phase |-> "added"] ELSE Unwatched
<1>0. cl.up # << >> /\ UNCHANGED <<called, tasks, muted, answers, denied, disturbances>>
  BY DEF ServerProcesses
<1>1. StateOK /\ ClientOK(cl, denied) /\ cl \in Client
  BY IInvParts
<1>2. disturbances' \in 0..MaxDisturbances
  BY <1>0, <1>1, DisturbBound
<1>3. cl' = [Responds(kind, r.listen, w) EXCEPT !.up = Tail(@)]
  BY DEF ServerProcesses
<1>4. Reply(cl, kind, w, denied)
  BY DEF Reply
<1> HIDE DEF kind, w
<1>5. cl' = Answered(cl, kind, w)
  BY <1>1, <1>3 DEF Responds, Client, Answered
<1>6. ClientOK(cl', denied) /\ Evolves(cl, cl')
  <2>1. ClientOK(cl, denied) /\ cl.up # << >>
    BY <1>0, <1>1
  <2> QED BY <1>4, <1>5, <2>1, ProcessesOK
<1> QED BY <1>0, <1>2, <1>6, ClientStepIInv

LEMMA ReportsIInv ==
  ASSUME IInv, ServerReports \/ ServerUpdates \/ ServerResets
  PROVE  IInv' /\ CacheRule(cl, cl')
<1>0. UNCHANGED <<called, tasks, muted, answers, denied>>
      /\ (Disturb \/ disturbances' = disturbances)
  BY DEF ServerReports, ServerUpdates, ServerResets
<1>1. StateOK /\ ClientOK(cl, denied) /\ cl \in Client
  BY IInvParts
<1>2. disturbances' \in 0..MaxDisturbances
  BY <1>0, <1>1, DisturbBound
<1>3. cl.watched \in Watches
  BY <1>1 DEF Client
<1>4. \E kind \in {"Current", "Reset", "Snapshot"}, phase \in Phases :
        /\ cl.watched.phase # "none"
        /\ cl' = Responds(kind, cl.watched.listen, [cl.watched EXCEPT !.phase = phase])
  <2>1. CASE ServerReports
    BY <2>1 DEF ServerReports, Phases
  <2>2. CASE ServerUpdates
    <3>1. cl.watched.phase = "done" /\ cl' = Responds("Snapshot", cl.watched.listen, cl.watched)
      BY <2>2 DEF ServerUpdates
    <3>2. [cl.watched EXCEPT !.phase = "done"] = cl.watched
      BY <1>3, <3>1 DEF Watches
    <3>3. "done" \in Phases /\ "Snapshot" \in {"Current", "Reset", "Snapshot"} /\ "done" # "none"
      BY DEF Phases
    <3> QED BY <3>1, <3>2, <3>3
  <2>3. CASE ServerResets
    BY <2>3 DEF ServerResets, Phases
  <2> QED BY <2>1, <2>2, <2>3
<1>5. PICK kind \in {"Current", "Reset", "Snapshot"}, phase \in Phases :
        /\ cl.watched.phase # "none"
        /\ cl' = Responds(kind, cl.watched.listen, [cl.watched EXCEPT !.phase = phase])
  BY <1>4
<1> DEFINE w == [cl.watched EXCEPT !.phase = phase]
<1>6. w \in Watches /\ w.listen = cl.watched.listen
  BY <1>3 DEF Watches
<1> HIDE DEF w
<1>7. cl' = [cl EXCEPT !.down = Append(@, [kind |-> kind, listen |-> cl.watched.listen]), !.watched = w]
  BY <1>5 DEF Responds, w
<1>8. ClientOK(cl', denied) /\ Evolves(cl, cl')
  BY <1>1, <1>5, <1>6, <1>7, ReportOK
<1> QED BY <1>0, <1>2, <1>8, ClientStepIInv

\* The steps of the client, the server and the network that leave the queue alone.
LEMMA ClientStepsIInv ==
  ASSUME IInv,
         \/ \E changed, token \in BOOLEAN : Receive(changed, token)
         \/ IdleTimeout \/ BackoffTimeout \/ OnlineStateTimeout
         \/ StreamOpens \/ StreamBreaks \/ LocalChange \/ ConnectivityChange
  PROVE  IInv' /\ CacheRule(cl, cl')
<1>0. UNCHANGED <<called, tasks, muted, answers, denied>>
      /\ (Disturb \/ disturbances' = disturbances)
  BY DEF Receive, IdleTimeout, BackoffTimeout, OnlineStateTimeout, StreamOpens, StreamBreaks,
         LocalChange, ConnectivityChange
<1>1. StateOK /\ ClientOK(cl, denied)
  BY IInvParts
<1>2. disturbances' \in 0..MaxDisturbances
  BY <1>0, <1>1, DisturbBound
<1>3. ClientOK(cl', denied) /\ Evolves(cl, cl')
  <2>1. ASSUME NEW changed \in BOOLEAN, NEW token \in BOOLEAN, Receive(changed, token)
        PROVE  ClientOK(cl', denied) /\ Evolves(cl, cl')
    BY <1>1, <2>1, ReceiveOK DEF Receive
  <2>2. CASE IdleTimeout
    BY <1>1, <2>2, IdleOK DEF IdleTimeout
  <2>3. CASE BackoffTimeout
    BY <1>1, <2>3, BackoffOK DEF BackoffTimeout
  <2>4. CASE OnlineStateTimeout
    BY <1>1, <2>4, OnlineTimeoutOK DEF OnlineStateTimeout
  <2>5. CASE StreamOpens
    BY <1>1, <2>5, OpensOK DEF StreamOpens
  <2>6. CASE StreamBreaks
    <3>1. IsStarted(cl)
      BY <1>1, <2>6 DEF StreamBreaks, ClientOK, StreamOK, IsStarted
    <3> QED BY <1>1, <2>6, <3>1, BreaksOK DEF StreamBreaks
  <2>7. CASE LocalChange
    BY <1>1, <2>7, LocalChangeOK DEF LocalChange
  <2>8. CASE ConnectivityChange
    BY <1>1, <2>8, RestartOK DEF ConnectivityChange
  <2> QED BY <2>1, <2>2, <2>3, <2>4, <2>5, <2>6, <2>7, <2>8
<1> QED BY <1>0, <1>2, <1>3, ClientStepIInv

\* Every step keeps the invariant, and the rule about first events.
LEMMA StepIInv ==
  IInv /\ [Next]_vars => IInv' /\ (CacheRule(cl, cl') \/ UNCHANGED vars)
<1> SUFFICES ASSUME IInv, [Next]_vars PROVE IInv' /\ (CacheRule(cl, cl') \/ UNCHANGED vars)
  OBVIOUS
<1>1. CASE RunListen
  BY <1>1, ListenIInv
<1>2. CASE RunRemoveListener
  BY <1>2, RemoveIInv
<1>3. CASE RunToken
  BY <1>3, TokenIInv
<1>4. CASE RunEvent
  BY <1>4, EventIInv
<1>5. ASSUME NEW n \in cl.asks, NEW code \in TokenCodes, GetTokenAnswered(n, code)
      PROVE  IInv' /\ CacheRule(cl, cl')
  BY <1>5, TokenAnsweredIInv
<1>6. CASE ServerProcesses
  BY <1>6, ProcessesIInv
<1>7. CASE ServerReports \/ ServerUpdates \/ ServerResets
  BY <1>7, ReportsIInv
<1>8. CASE GetDocuments
  BY <1>8, GetDocumentsIInv
<1>9. CASE \/ \E changed, token \in BOOLEAN : Receive(changed, token)
           \/ IdleTimeout \/ BackoffTimeout \/ OnlineStateTimeout
           \/ StreamOpens \/ StreamBreaks \/ LocalChange \/ ConnectivityChange
  BY <1>9, ClientStepsIInv
<1>10. CASE UNCHANGED vars
  <2>1. /\ called' = called /\ tasks' = tasks /\ cl' = cl /\ muted' = muted /\ answers' = answers
        /\ denied' = denied /\ disturbances' = disturbances
    BY <1>10 DEF vars
  <2>2. StateOK'
    BY <2>1 DEF IInv, StateOK
  <2>3. IInv'
    BY <2>1, <2>2 DEF IInv
  <2> QED BY <1>10, <2>3
<1> QED BY <1>1, <1>2, <1>3, <1>4, <1>5, <1>6, <1>7, <1>8, <1>9, <1>10
        DEF Next, ClientStep, NetworkStep, Disturbance, TokenCodes

-----------------------------------------------------------------------------
(***************************************************************************)
(* The theorems.                                                           *)
(***************************************************************************)

\* What the invariant says of the state.
LEMMA IInvTypes ==
  ASSUME IInv
  PROVE  TypeOK
<1>1. /\ StateOK /\ ClientOK(cl, denied) /\ cl \in Client /\ tasks \in Seq(Tasks)
      /\ called \in Nat
  BY IInvParts
<1>2. PICK m \in 0..called : m \in Nat /\ HeardOK(cl, answers, m) /\ QueueOK(tasks, called, m)
  BY IInvParts
<1>3. /\ called \in 0..MaxGets /\ disturbances \in 0..MaxDisturbances
      /\ muted \subseteq Gets /\ denied \in BOOLEAN
      /\ answers \in [Gets -> Seq(Snapshots \cup {"error"})]
  BY <1>1 DEF StateOK
<1>4. tasks \in Seq([kind : {"listen", "remove"}, get : Gets]
                     \cup [kind : {"token"}, close_count : Nat, code : TokenCodes])
  BY <1>1 DEF Tasks
<1>5. /\ cl.state \in States /\ cl.timers \subseteq Timers
      /\ cl.listeners \in Seq(Gets) /\ cl.raised \subseteq Gets
      /\ cl.out \in Seq(Event) /\ cl.snap \in Snapshots \cup {NoSnapshot}
      /\ cl.online \in Online /\ cl.failures \in Failures /\ cl.view \in Views
      /\ cl.listens \in Nat
  BY <1>1 DEF Client
<1>6. cl.failures \in 0..kMaxWatchStreamFailures
  BY <1>5 DEF Failures
<1>7. cl.em_online = cl.online
  BY <1>1 DEF ClientOK, OnlineOK
<1>8. cl.target = cl.view.on /\ cl.view.on = (cl.listeners # << >>)
  BY <1>1 DEF ClientOK, ListenersOK
<1>9. cl.view.current \in 0..MaxGets
  <2>1. cl.view.current \in Nat
    BY <1>5 DEF Views
  <2>2. cl.view.current <= cl.listens
    BY <1>1 DEF ClientOK, CurrentOK
  <2>3. cl.listens <= m
    BY <1>2 DEF HeardOK
  <2>4. MaxGets \in Nat
    BY BoundsAssumption
  <2> QED BY <1>1, <1>2, <1>3, <1>5, <2>1, <2>2, <2>3, <2>4
<1>10. cl.view \in [on : BOOLEAN, current : 0..MaxGets]
  BY <1>5, <1>9 DEF Views
<1> QED BY <1>3, <1>4, <1>5, <1>6, <1>7, <1>8, <1>10 DEF TypeOK

LEMMA IInvSafe ==
  ASSUME IInv
  PROVE  AssertionsHold /\ AnsweredOnce /\ InSyncByItsOwnListen
<1>1. ClientOK(cl, denied) /\ cl \in Client /\ AnswersOK(cl, answers, muted)
  BY IInvParts
<1>2. cl.ok \in {TRUE}
  BY <1>1 DEF Client
<1>3. AssertionsHold
  BY <1>2 DEF AssertionsHold
<1>4. AnsweredOnce
  BY <1>1 DEF AnswersOK, AnsweredOnce
<1>5. InSyncByItsOwnListen
  BY <1>1 DEF ClientOK, CurrentOK, InSyncByItsOwnListen
<1> QED BY <1>3, <1>4, <1>5

\* The invariant holds in every state.
LEMMA Invariance ==
  Spec => []IInv
<1>1. IInv /\ [Next]_vars => IInv'
  BY StepIInv
<1> QED BY <1>1, InitIInv, PTL DEF Spec, ClientSpec

(***************************************************************************)
(* Every variable of the client keeps its type: in particular the event    *)
(* manager's online state is the tracker's, and the query has a view and a *)
(* target exactly while it has listeners, also between the two halves of   *)
(* a get (EventManager, SyncEngine and RemoteStore each keep their own     *)
(* table of the query).                                                    *)
(***************************************************************************)
THEOREM TypeCorrect ==
  Spec => []TypeOK
<1>1. IInv => TypeOK
  BY IInvTypes
<1> QED BY <1>1, Invariance, PTL

(***************************************************************************)
(* No HARD_ASSERT of Stream, OnlineStateTracker, SyncEngine or RemoteStore *)
(* fails, for any number of gets and disturbances: stale tokens, late      *)
(* timers, answers to a target that was released and breaks between them   *)
(* included.                                                               *)
(***************************************************************************)
THEOREM NoAssertionFails ==
  Spec => []AssertionsHold
<1>1. IInv => AssertionsHold
  BY IInvSafe
<1> QED BY <1>1, Invariance, PTL

(***************************************************************************)
(* Query::GetDocuments calls its completion handler at most once, although *)
(* a listener may raise further snapshots, or an error, before the task    *)
(* that removes it has run on the worker queue.                            *)
(***************************************************************************)
THEOREM AnsweredAtMostOnce ==
  Spec => []AnsweredOnce
<1>1. IInv => AnsweredOnce
  BY IInvSafe
<1> QED BY <1>1, Invariance, PTL

(***************************************************************************)
(* A view that is in sync got there by a report about its own listen: the  *)
(* count of outstanding answers (TargetState::IsPending) filters every     *)
(* report about an earlier listen with the same target id, whatever is     *)
(* still on the stream.  The exception is a listen that finds a report in  *)
(* the target state when it begins (kept).                                 *)
(***************************************************************************)
THEOREM CurrentByOwnListen ==
  Spec => []InSyncByItsOwnListen
<1>1. IInv => InSyncByItsOwnListen
  BY IInvSafe
<1> QED BY <1>1, Invariance, PTL

(***************************************************************************)
(* QueryListener::ShouldRaiseInitialEvent raises a first snapshot from the *)
(* cache only when the client has given up on the server.                  *)
(***************************************************************************)
THEOREM CacheAnswersOnlyOffline ==
  Spec => CacheOnlyOffline
<1> DEFINE FirstEvents ==
             \A k \in DOMAIN cl'.out :
               LET e == cl'.out[k]
               IN  e.what = "cache" /\ e.get \in cl'.raised \ cl.raised => cl'.online = "Offline"
<1>1. IInv /\ [Next]_vars => [FirstEvents]_vars
  <2> SUFFICES ASSUME IInv, [Next]_vars, ~UNCHANGED vars PROVE FirstEvents
    OBVIOUS
  <2>1. IInv' /\ CacheRule(cl, cl')
    BY StepIInv
  <2>2. cl' \in Client
    BY <2>1 DEF IInv, ClientOK
  <2>3. DOMAIN cl'.out = 1..Len(cl'.out)
    BY <2>2, ClientSeqs
  <2> QED BY <2>1, <2>3 DEF CacheRule
<1> QED BY <1>1, Invariance, PTL DEF Spec, ClientSpec, CacheOnlyOffline

=============================================================================
