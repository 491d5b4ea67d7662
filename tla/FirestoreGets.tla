--------------------------- MODULE FirestoreGets ---------------------------
(***************************************************************************)
(* How the Firestore client of the two TODO apps answers getDocuments: a   *)
(* listener is added to the query, which makes the RemoteStore watch it on *)
(* the server, and is removed by its first event.  The event is raised on  *)
(* the worker queue once the view is in sync with the server or the        *)
(* OnlineStateTracker gives up on reaching it, and runs on the user's      *)
(* executor, from where the listener is muted and its removal enqueued.    *)
(*                                                                         *)
(* All gets are for one query, as in the apps (the collection "task"), so  *)
(* they share a view and a target whose id is used again for the next      *)
(* listen.  Documents are abstracted: a snapshot is "cache" or "server",   *)
(* what isFromCache says of it.  Limbo documents and existence filters are *)
(* left out.  The stream is the one of FirestoreStream.                    *)
(***************************************************************************)
EXTENDS FirestoreStream, Sequences, SequencesExt

CONSTANTS
  MaxGets,                 \* bound: how many times getDocuments is called
  MaxDisturbances,         \* bound: how many breaks and changes happen
  kMaxWatchStreamFailures  \* failed attempts after which the client is offline

ASSUME BoundsAssumption ==
  MaxGets \in Nat /\ MaxDisturbances \in Nat /\ kMaxWatchStreamFailures \in Nat \ {0}

VARIABLES
  called,        \* how many gets have been called; they are numbered in order
  tasks,         \* operations enqueued on the worker queue, oldest first
  cl,            \* the client: its listeners, its view, its stream
  muted,         \* the gets whose AsyncEventListener is muted
  answers,       \* what each completion handler has been called with
  denied,        \* do the server's rules forbid the query?
  disturbances   \* how many disturbances have happened

vars == <<called, tasks, cl, muted, answers, denied, disturbances>>

Gets == 1..MaxGets

(***************************************************************************)
(* Fields of cl beside those of a stream:                                  *)
(*   listeners, raised  the listeners of the query, and those that have    *)
(*                      raised their initial event (EventManager)          *)
(*   snap, em_online    the last snapshot and online state it has seen     *)
(*   out                events posted to the user's executor               *)
(*   view               the sync state of the query's View, or NoView      *)
(*   target             is the target in RemoteStore::listen_targets_?     *)
(*   enabled            RemoteStore::is_network_enabled_                   *)
(*   agg                the target's state in the WatchChangeAggregator    *)
(*   online, failures, online_timer   the OnlineStateTracker               *)
(*   up, down, watched  requests, responses, what the server is doing      *)
(* A listen is numbered (listens), and the number travels with its watch   *)
(* request and what the server says about it; the client cannot see it.    *)
(* current is the number of the listen that was reported current, 0 for    *)
(* false.  kept records whether the query was ever watched again while its *)
(* target state still said current; the code does not keep that either.    *)
(***************************************************************************)
NoSnapshot == "none"
NoView == [on |-> FALSE, current |-> 0]
NewTargetState == [known |-> FALSE, outstanding |-> 0, current |-> 0, changed |-> TRUE]
Unwatched == [listen |-> 0, phase |-> "none"]

NewClient ==
  [state |-> NewStream.state, timers |-> NewStream.timers, asks |-> NewStream.asks,
   close_count |-> NewStream.close_count, credentials |-> NewStream.credentials,
   ok |-> NewStream.ok, listeners |-> << >>, raised |-> {}, snap |-> NoSnapshot,
   em_online |-> "Unknown", out |-> << >>, view |-> NoView, target |-> FALSE,
   enabled |-> TRUE, agg |-> NewTargetState, online |-> "Unknown", failures |-> 0,
   online_timer |-> FALSE, listens |-> 0, up |-> << >>, down |-> << >>,
   watched |-> Unwatched, kept |-> FALSE]

-----------------------------------------------------------------------------
(***************************************************************************)
(* QueryListener and EventManager.                                         *)
(***************************************************************************)

\* A slip CacheOnlyOffline catches: not being online yet counts as offline.
ShouldRaiseInitialEvent_Unknown(snapshot, online) == snapshot = "server" \/ online # "Online"
ShouldRaiseInitialEvent(snapshot, online) == snapshot = "server" \/ online = "Offline"

\* The listeners of ls that are in due, in their order.
Among(ls, due) ==
  LET among[k \in 0..Len(ls)] ==
        IF k = 0 THEN << >>
        ELSE IF ls[k] \in due THEN Append(among[k - 1], ls[k]) ELSE among[k - 1]
  IN  among[Len(ls)]

\* The listeners gs raise an event, in their order.
Raise(s, gs, what) ==
  [s EXCEPT !.out = @ \o [k \in DOMAIN gs |-> [get |-> gs[k], what |-> what]],
            !.raised = IF what = "error" THEN @ ELSE @ \cup ToSet(gs)]

\* OnViewSnapshots for the one query: the first event of a listener has to
\* wait for the server or for being offline, the later ones do not.
OnViewSnapshots(s, snapshot) ==
  LET due == IF ShouldRaiseInitialEvent(snapshot, s.em_online) THEN Gets ELSE s.raised
  IN  IF s.listeners = << >> THEN s
      ELSE [Raise(s, Among(s.listeners, due), snapshot) EXCEPT !.snap = snapshot]

EventManagerOnline(s, online) ==
  LET due == IF s.snap # NoSnapshot /\ ShouldRaiseInitialEvent(s.snap, online)
             THEN Gets \ s.raised ELSE {}
  IN  [Raise(s, Among(s.listeners, due), s.snap) EXCEPT !.em_online = online]

EventManagerError(s) ==
  [Raise(s, s.listeners, "error") EXCEPT !.listeners = << >>, !.snap = NoSnapshot]

(***************************************************************************)
(* OnlineStateTracker, with SyncEngine::HandleOnlineStateChange as the     *)
(* handler it calls: the view is told first, then the listeners.           *)
(***************************************************************************)
SyncState(view) == IF view.current # 0 THEN "server" ELSE "cache"

ViewOnline(s, online) ==
  IF s.view.current # 0 /\ online = "Offline"
  THEN OnViewSnapshots([s EXCEPT !.view.current = 0], "cache")
  ELSE s

SetAndBroadcast(s, online) ==
  IF online = s.online THEN s
  ELSE Then(ViewOnline([s EXCEPT !.online = online], online),
            LAMBDA t : EventManagerOnline(t, online))

\* A slip AssertionsHold catches: the timer is left running.
UpdateState_KeepTimer(s, online) == SetAndBroadcast([s EXCEPT !.failures = 0], online)
UpdateState(s, online) ==
  SetAndBroadcast([s EXCEPT !.failures = 0, !.online_timer = FALSE], online)

HandleWatchStreamStart(s) ==
  IF s.failures # 0 THEN s
  ELSE Then(SetAndBroadcast(s, "Unknown"),
            LAMBDA t : [HARD_ASSERT(t, ~t.online_timer) EXCEPT !.online_timer = TRUE])

\* The count of failures only matters up to its limit.
HandleWatchStreamFailure(s) ==
  LET failed == [s EXCEPT !.failures = IF @ < kMaxWatchStreamFailures THEN @ + 1 ELSE @]
  IN  IF s.online = "Online"
      THEN SetAndBroadcast(HARD_ASSERT(s, s.failures = 0 /\ ~s.online_timer), "Unknown")
      ELSE IF failed.failures >= kMaxWatchStreamFailures
      THEN SetAndBroadcast([failed EXCEPT !.online_timer = FALSE], "Offline")
      ELSE failed

-----------------------------------------------------------------------------
(***************************************************************************)
(* RemoteStore and the WatchChangeAggregator.                              *)
(***************************************************************************)
ShouldStartWatchStream(s) == s.enabled /\ ~IsStarted(s) /\ s.target

StartWatchStream(s) ==
  Then(Start([HARD_ASSERT(s, ShouldStartWatchStream(s)) EXCEPT !.agg = NewTargetState]),
       HandleWatchStreamStart)

\* SendWatchRequest and SendUnwatchRequest.
SendRequest(s, kind) ==
  [CancelIdleCheck(HARD_ASSERT(s, IsOpen(s))) EXCEPT
     !.agg = [@ EXCEPT !.known = TRUE, !.outstanding = s.agg.outstanding + 1],
     !.up = Append(@, [kind |-> kind, listen |-> s.listens]),
     !.kept = @ \/ (kind = "watch" /\ s.agg.current # 0)]

RemoteListen(s) ==
  LET s1 == [s EXCEPT !.target = TRUE]
  IN  IF s.target THEN s
      ELSE IF ShouldStartWatchStream(s1) THEN StartWatchStream(s1)
      ELSE IF IsOpen(s1) THEN SendRequest(s1, "watch") ELSE s1

RemoteStopListening(s) ==
  LET s1 == [HARD_ASSERT(s, s.target) EXCEPT !.target = FALSE]
  IN  IF IsOpen(s1) THEN MarkIdle(SendRequest(s1, "unwatch"))
      ELSE IF s1.enabled THEN UpdateState(s1, "Unknown") ELSE s1

OnWatchStreamOpen(s) == IF s.target THEN SendRequest(s, "watch") ELSE s

\* A slip GetsAreAnswered catches: the stream is not started again.
OnWatchStreamClose_NoRestart(s, code) ==
  UpdateState([s EXCEPT !.agg = NewTargetState], "Unknown")

OnWatchStreamClose(s, code) ==
  LET s1 == [s EXCEPT !.agg = NewTargetState,
                      !.ok = @ /\ (code = "Ok" => ~ShouldStartWatchStream(s))]
  IN  IF ShouldStartWatchStream(s1)
      THEN Then(HandleWatchStreamFailure(s1), StartWatchStream)
      ELSE UpdateState(s1, "Unknown")

CloseWatchStream(s, code) ==
  LET cut == [Shut(s, code) EXCEPT !.up = << >>, !.down = << >>, !.watched = Unwatched]
  IN  IF IgnoresClose(s, code) THEN s
      ELSE Then(cut, LAMBDA t : OnWatchStreamClose(t, code))

EnableNetwork(s) ==
  LET s1 == [s EXCEPT !.enabled = TRUE]
  IN  IF ShouldStartWatchStream(s1) THEN StartWatchStream(s1)
      ELSE UpdateState(s1, "Unknown")

RestartNetwork(s) ==
  LET stopped == CloseWatchStream([s EXCEPT !.enabled = FALSE], "Ok")
      Reset(t) == UpdateState([t EXCEPT !.agg = NewTargetState], "Unknown")
  IN  Then(Then(Then(stopped, Reset), InhibitBackoff), EnableNetwork)

-----------------------------------------------------------------------------
(***************************************************************************)
(* SyncEngine.                                                             *)
(***************************************************************************)

\* Listen: a new view, local at first, whose snapshot is from the cache.
SyncEngineListen(s) ==
  LET s1 == [HARD_ASSERT(s, ~s.view.on) EXCEPT !.listens = @ + 1]
  IN  Then(RemoteListen(s1),
           LAMBDA t : OnViewSnapshots([t EXCEPT !.view = [on |-> TRUE, current |-> 0]],
                                      "cache"))

SyncEngineStopListening(s) ==
  RemoteStopListening([HARD_ASSERT(s, s.view.on) EXCEPT !.view = NoView])

AddQueryListener(s, g) ==
  LET first == s.listeners = << >>
      s1 == [s EXCEPT !.listeners = Append(@, g)]
      s2 == IF s.snap # NoSnapshot /\ ShouldRaiseInitialEvent(s.snap, s.em_online)
            THEN Raise(s1, <<g>>, s.snap) ELSE s1
  IN  IF first THEN SyncEngineListen(s1) ELSE s2

RemoveQueryListener(s, g) ==
  LET left == RemoveFirst(s.listeners, g)
  IN  IF s.listeners = << >> THEN s
      ELSE IF left # << >> THEN [s EXCEPT !.listeners = left]
      ELSE SyncEngineStopListening([s EXCEPT !.listeners = << >>, !.snap = NoSnapshot])

\* View::ApplyChanges: a snapshot if documents changed or the sync state did.
ApplyChanges(s, current, changed) ==
  LET view == [on |-> TRUE, current |-> current]
  IN  IF ~s.view.on THEN s
      ELSE IF changed \/ SyncState(view) # SyncState(s.view)
      THEN OnViewSnapshots([s EXCEPT !.view = view], SyncState(view))
      ELSE [s EXCEPT !.view = view]

-----------------------------------------------------------------------------
(***************************************************************************)
(* What the client makes of a response of the server.                      *)
(***************************************************************************)

\* A slip InSyncByItsOwnListen catches: outstanding answers are not waited for.
IsActiveTarget_AnyAnswer(s) == s.target

IsActiveTarget(s) == s.target /\ ~(s.agg.known /\ s.agg.outstanding # 0)

\* A resume token that came with a target change is a change to report.
UpdateResumeToken(a, token) == [a EXCEPT !.changed = @ \/ token]

(***************************************************************************)
(* HandleTargetChange.  An ack of the last outstanding request clears the  *)
(* pending changes of a target that was added, and forgets one that was    *)
(* removed.  A reset starts an active target over.  A snapshot carries a   *)
(* NoChange for the active targets that have a state.                      *)
(***************************************************************************)
HandleTargetChange(s, r, token) ==
  LET known == [s.agg EXCEPT !.known = TRUE]
      acked == [known EXCEPT !.outstanding = @ - 1]
      added == IF acked.outstanding = 0 THEN [acked EXCEPT !.changed = FALSE] ELSE acked
      active == IsActiveTarget(s)
  IN  [s EXCEPT !.agg =
         CASE r.kind = "Added" -> UpdateResumeToken(added, token)
           [] r.kind = "Removed" -> IF acked.outstanding = 0 THEN NewTargetState ELSE acked
           [] r.kind = "Current" ->
                IF active THEN [known EXCEPT !.current = r.listen, !.changed = TRUE] ELSE known
           [] r.kind = "Reset" -> IF active THEN [NewTargetState EXCEPT !.known = TRUE] ELSE known
           [] r.kind = "Snapshot" ->
                IF active /\ s.agg.known THEN UpdateResumeToken(s.agg, token) ELSE s.agg]

(***************************************************************************)
(* RaiseWatchSnapshot: CreateRemoteEvent, then SyncEngine::ApplyRemoteEvent.*)
(* changed says whether document changes came with it.                     *)
(***************************************************************************)
RaiseWatchSnapshot(s, changed) ==
  IF IsActiveTarget(s) /\ s.agg.known /\ (s.agg.changed \/ changed)
  THEN ApplyChanges([s EXCEPT !.agg.changed = FALSE], s.agg.current, changed)
  ELSE s

\* A slip TypeOK catches: the target stays in listen_targets_.
ProcessTargetError_KeepTarget(s) ==
  IF s.target THEN EventManagerError([s EXCEPT !.agg = NewTargetState, !.view = NoView]) ELSE s

\* ProcessTargetError with SyncEngine::HandleRejectedListen.
ProcessTargetError(s) ==
  IF s.target
  THEN EventManagerError([s EXCEPT !.target = FALSE, !.agg = NewTargetState, !.view = NoView])
  ELSE s

\* OnWatchStreamChange: any message from the server means being online.
OnWatchStreamChange(s, r, changed, token) ==
  Then(UpdateState([HARD_ASSERT(s, IsStarted(s)) EXCEPT !.down = Tail(@)], "Online"),
       LAMBDA t : IF r.kind = "Denied" THEN ProcessTargetError(t)
                  ELSE IF r.kind = "Snapshot"
                  THEN RaiseWatchSnapshot(HandleTargetChange(t, r, token), changed)
                  ELSE HandleTargetChange(t, r, token))

-----------------------------------------------------------------------------
Init ==
  /\ called = 0 /\ tasks = << >> /\ muted = {}
  /\ cl = NewClient
  /\ answers = [g \in Gets |-> << >>]
  /\ denied \in BOOLEAN /\ disturbances = 0

Disturb ==
  /\ disturbances < MaxDisturbances
  /\ disturbances' = disturbances + 1

\* Query::GetDocuments and ListenToQuery, on the thread of the app.
GetDocuments ==
  /\ called < MaxGets
  /\ called' = called + 1
  /\ tasks' = Append(tasks, [kind |-> "listen", get |-> called'])
  /\ UNCHANGED <<cl, muted, answers, denied, disturbances>>

RunListen ==
  /\ tasks # << >> /\ Head(tasks).kind = "listen"
  /\ cl' = AddQueryListener(cl, Head(tasks).get)
  /\ tasks' = Tail(tasks)
  /\ UNCHANGED <<called, muted, answers, denied, disturbances>>

RunRemoveListener ==
  /\ tasks # << >> /\ Head(tasks).kind = "remove"
  /\ cl' = RemoveQueryListener(cl, Head(tasks).get)
  /\ tasks' = Tail(tasks)
  /\ UNCHANGED <<called, muted, answers, denied, disturbances>>

\* GetToken has its answers; getting the token of the user may fail.
GetTokenAnswered(n, code) ==
  /\ n \in cl.asks
  /\ IF code = "Ok" THEN UNCHANGED disturbances ELSE Disturb
  /\ cl' = [cl EXCEPT !.asks = @ \ {n}]
  /\ tasks' = Append(tasks, [kind |-> "token", close_count |-> n, code |-> code])
  /\ UNCHANGED <<called, muted, answers, denied>>

\* ResumeStartWithCredentials when there is no token: OnStreamFinish.
StartFails(s) == CloseWatchStream(HARD_ASSERT(s, s.state = "Starting"), "Unavailable")

RunToken ==
  /\ tasks # << >> /\ Head(tasks).kind = "token"
  /\ LET t == Head(tasks)
     IN  cl' = IF ~IsCurrent(cl, t.close_count) THEN cl
               ELSE IF t.code = "Ok" THEN ResumeStartWithCredentials(cl, "user")
               ELSE StartFails(cl)
  /\ tasks' = Tail(tasks)
  /\ UNCHANGED <<called, muted, answers, denied, disturbances>>

\* A slip AnsweredOnce catches: Remove does not mute the listener.
ListenOnce_NotMuted(e) ==
  /\ answers' = [answers EXCEPT ![e.get] = Append(@, e.what)]
  /\ muted' = muted
  /\ tasks' = IF e.what = "error" THEN tasks
              ELSE Append(tasks, [kind |-> "remove", get |-> e.get])

\* ListenOnce::OnEvent: an error is passed on; before a snapshot is, the
\* registration is removed, which mutes the listener first.
ListenOnce(e) ==
  /\ answers' = [answers EXCEPT ![e.get] = Append(@, e.what)]
  /\ muted' = IF e.what = "error" THEN muted ELSE muted \cup {e.get}
  /\ tasks' = IF e.what = "error" THEN tasks
              ELSE Append(tasks, [kind |-> "remove", get |-> e.get])

\* The user's executor runs the oldest event, unless its listener is muted.
RunEvent ==
  /\ cl.out # << >>
  /\ IF Head(cl.out).get \in muted THEN UNCHANGED <<answers, muted, tasks>>
     ELSE ListenOnce(Head(cl.out))
  /\ cl' = [cl EXCEPT !.out = Tail(@)]
  /\ UNCHANGED <<called, denied, disturbances>>

-----------------------------------------------------------------------------
StreamOpens ==
  /\ cl.credentials # NoStream /\ cl.state = "Starting"
  /\ cl' = Then(OnStreamStart(cl), OnWatchStreamOpen)
  /\ UNCHANGED <<called, tasks, muted, answers, denied, disturbances>>

Responds(kind, listen, watched) ==
  [cl EXCEPT !.down = Append(@, [kind |-> kind, listen |-> listen]), !.watched = watched]

\* The server acknowledges the oldest request.
ServerProcesses ==
  /\ cl.up # << >>
  /\ LET r == Head(cl.up)
         done == IF r.kind = "unwatch" THEN Responds("Removed", r.listen, Unwatched)
                 ELSE IF denied THEN Responds("Denied", r.listen, Unwatched)
                 ELSE Responds("Added", r.listen, [listen |-> r.listen, phase |-> "added"])
     IN  cl' = [done EXCEPT !.up = Tail(@)]
  /\ UNCHANGED <<called, tasks, muted, answers, denied, disturbances>>

\* It reports a target that it watches as current and then sends a consistent
\* snapshot; it may send one before.
ServerReports ==
  /\ \E step \in {<<"added", "Snapshot", "early">>, <<"added", "Current", "current">>,
                   <<"early", "Current", "current">>, <<"current", "Snapshot", "done">>} :
       /\ cl.watched.phase = step[1]
       /\ cl' = Responds(step[2], cl.watched.listen, [cl.watched EXCEPT !.phase = step[3]])
  /\ UNCHANGED <<called, tasks, muted, answers, denied, disturbances>>

\* Documents change on the server later on.
ServerUpdates ==
  /\ Disturb /\ cl.watched.phase = "done"
  /\ cl' = Responds("Snapshot", cl.watched.listen, cl.watched)
  /\ UNCHANGED <<called, tasks, muted, answers, denied>>

\* The server starts over with what it sends for the target.
ServerResets ==
  /\ Disturb /\ cl.watched.phase # "none"
  /\ cl' = Responds("Reset", cl.watched.listen, [cl.watched EXCEPT !.phase = "added"])
  /\ UNCHANGED <<called, tasks, muted, answers, denied>>

\* The oldest response, with or without document changes and a resume token.
Receive(changed, token) ==
  /\ cl.down # << >>
  /\ changed => Head(cl.down).kind = "Snapshot" /\ IsActiveTarget(cl)
  /\ token => Head(cl.down).kind \in {"Added", "Snapshot"}
  /\ cl' = OnWatchStreamChange(cl, Head(cl.down), changed, token)
  /\ UNCHANGED <<called, tasks, muted, answers, denied, disturbances>>

\* A local write changes documents of the view.
LocalChange ==
  /\ Disturb /\ cl.view.on
  /\ cl' = ApplyChanges(cl, cl.view.current, TRUE)
  /\ UNCHANGED <<called, tasks, muted, answers, denied>>

StreamBreaks ==
  /\ cl.credentials # NoStream
  /\ Disturb
  /\ cl' = CloseWatchStream(cl, "Unavailable")
  /\ UNCHANGED <<called, tasks, muted, answers, denied>>

IdleTimeout ==
  /\ "idle" \in cl.timers
  /\ cl' = CloseWatchStream([cl EXCEPT !.timers = @ \ {"idle"}], "Ok")
  /\ UNCHANGED <<called, tasks, muted, answers, denied, disturbances>>

BackoffTimeout ==
  /\ "backoff" \in cl.timers
  /\ cl' = BackoffElapsed(cl)
  /\ UNCHANGED <<called, tasks, muted, answers, denied, disturbances>>

\* Ten seconds after the stream was started nothing has been heard.
OnlineStateTimeout ==
  /\ cl.online_timer
  /\ cl' = SetAndBroadcast([HARD_ASSERT(cl, cl.online = "Unknown")
                              EXCEPT !.online_timer = FALSE], "Offline")
  /\ UNCHANGED <<called, tasks, muted, answers, denied, disturbances>>

\* The network is available again, or the user has changed.
ConnectivityChange ==
  /\ Disturb
  /\ cl' = RestartNetwork(cl)
  /\ UNCHANGED <<called, tasks, muted, answers, denied>>

-----------------------------------------------------------------------------
ClientStep ==
  \/ RunListen \/ RunRemoveListener \/ RunToken \/ RunEvent
  \/ \E changed, token \in BOOLEAN : Receive(changed, token)
  \/ IdleTimeout \/ BackoffTimeout \/ OnlineStateTimeout

NetworkStep ==
  \/ StreamOpens \/ ServerProcesses \/ ServerReports
  \/ \E n \in cl.asks : GetTokenAnswered(n, "Ok")

Disturbance ==
  \/ StreamBreaks \/ ServerUpdates \/ ServerResets \/ LocalChange \/ ConnectivityChange
  \/ \E n \in cl.asks : GetTokenAnswered(n, "Unavailable")

Next == ClientStep \/ NetworkStep \/ Disturbance \/ GetDocuments

\* The worker queue and the executor run what they hold, and timers expire.
ClientSpec == Init /\ [][Next]_vars /\ WF_vars(ClientStep)

\* Between the disturbances the network carries on as well.
Spec == ClientSpec /\ WF_vars(NetworkStep)

-----------------------------------------------------------------------------
(***************************************************************************)
(* Properties.                                                             *)
(***************************************************************************)
Snapshots == {"cache", "server"}
Online == {"Unknown", "Online", "Offline"}
Event == [get : Gets, what : Snapshots \cup {"error"}]
TokenCodes == {"Ok", "Unavailable"}

\* Every variable keeps its type.
TypeOK ==
  /\ called \in 0..MaxGets /\ disturbances \in 0..MaxDisturbances
  /\ muted \subseteq Gets /\ denied \in BOOLEAN
  /\ tasks \in Seq([kind : {"listen", "remove"}, get : Gets]
                     \cup [kind : {"token"}, close_count : Nat, code : TokenCodes])
  /\ answers \in [Gets -> Seq(Snapshots \cup {"error"})]
  /\ cl.state \in States /\ cl.timers \subseteq Timers
  /\ cl.listeners \in Seq(Gets) /\ cl.raised \subseteq Gets
  /\ cl.out \in Seq(Event) /\ cl.snap \in Snapshots \cup {NoSnapshot}
  /\ cl.online \in Online /\ cl.em_online = cl.online
  /\ cl.failures \in 0..kMaxWatchStreamFailures
  /\ cl.view \in [on : BOOLEAN, current : 0..MaxGets]
  /\ cl.target = cl.view.on /\ cl.view.on = (cl.listeners # << >>)

(***************************************************************************)
(* No HARD_ASSERT of the stream, the tracker, the SyncEngine or the        *)
(* RemoteStore fails, however the timers, breaks, restarts, answers and    *)
(* removals of listeners interleave; a failed one ends the app.            *)
(***************************************************************************)
AssertionsHold == cl.ok

(***************************************************************************)
(* The completion handler of getDocuments runs at most once, although the  *)
(* worker queue may raise further events between the first one and the     *)
(* removal of the listener (loadTasks appends what it is given to array).  *)
(***************************************************************************)
AnsweredOnce == \A g \in Gets : Len(answers[g]) <= 1

(***************************************************************************)
(* A get is answered from the cache only when the client had given up on   *)
(* the server at that moment: offline by a failed attempt or the timer.    *)
(***************************************************************************)
CacheOnlyOffline ==
  [][\A k \in DOMAIN cl'.out :
       LET e == cl'.out[k]
       IN  e.what = "cache" /\ e.get \in cl'.raised \ cl.raised => cl'.online = "Offline"]_vars

(***************************************************************************)
(* A view is in sync with the server only by a report about its own        *)
(* listen, although target ids are used again and answers about an earlier *)
(* listen may still be on their way: those are told apart only by counting *)
(* outstanding answers.  The exception is a listen that finds the earlier  *)
(* report in the target state, which nothing resets.                       *)
(***************************************************************************)
InSyncByItsOwnListen == cl.kept \/ cl.view.current \in {0, cl.listens}

(***************************************************************************)
(* Every get is answered: by the server, by its refusal, or from the cache *)
(* after a failure or the timer, if attempts to connect succeed or fail    *)
(* and the server answers.                                                 *)
(***************************************************************************)
GetsAreAnswered == \A g \in Gets : called >= g ~> answers[g] # << >>

-----------------------------------------------------------------------------
(***************************************************************************)
(* What comments of the client say, and the code does not do.              *)
(***************************************************************************)

\* online_state_tracker.cc:47 "we have a timeout for OnlineState to reach Online
\* or Offline. If the timeout is reached, we transition to Offline rather than
\* waiting indefinitely": while something is listened to, the online state does
\* not stay Unknown, also if an attempt to connect neither succeeds nor fails.
OnlineStateIsReached ==
  cl.target /\ cl.online = "Unknown" ~> ~(cl.target /\ cl.online = "Unknown")

\* remote_event.h:160 "It implies that the Watch backend has sent us all changes
\* up to the point at which the target was added": a view is in sync only by a
\* report about its own listen.
CurrentForThisListen == cl.view.current \in {0, cl.listens}

=============================================================================
