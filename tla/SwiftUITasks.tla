---------------------------- MODULE SwiftUITasks ----------------------------
(***************************************************************************)
(* The task list of the SwiftUI app: MainView with its List and the cover  *)
(* AddView, and the functions of DBCore they call, on the Firestore        *)
(* collection named after the signed-in user.                              *)
(*                                                                         *)
(* A Firestore write is part of what later queries see at once, and its    *)
(* completion runs when the server has taken or refused it.  A query is    *)
(* answered in two moments: the client's worker queue takes a snapshot     *)
(* (LoadAnswered, DeleteAnswered) and the main queue runs the completion   *)
(* later (loadTasks, deleteFromDB), when more may have been saved or       *)
(* deleted.  The delete of a task is such a query, started when its row    *)
(* disappears from the screen, because it was swiped away or because it    *)
(* was scrolled out.                                                       *)
(*                                                                         *)
(* The server's answer to a write and the completion that follows are one  *)
(* step.                                                                   *)
(***************************************************************************)
EXTENDS Integers, Sequences, FiniteSets, SequencesExt, FiniteSetsExt

CONSTANTS
  Names,           \* non-empty names
  Times,           \* non-empty times
  Blank,           \* an empty text field
  Typed,           \* what the user types into the two fields
  DocIds,          \* the document ids Firestore can still hand out
  NoDoc,           \* "there is no such document"
  ScreenRows,      \* how many rows fit on the screen
  MaxDisappeared,  \* bound: rows that disappear
  Faults           \* the failures of the environment that may happen

ASSUME TextAssumption == Blank \notin Names \cup Times
ASSUME ScreenAssumption == ScreenRows \in Nat \ {0}
ASSUME MaxAssumption == MaxDisappeared \in Nat
ASSUME FaultsAssumption ==
  Faults \subseteq {"offline",  \* a query may be answered from the local cache
                    "denied",   \* the server may refuse a query
                    "reject"}   \* the server may refuse a write for good

Task  == [name : Names, time : Times]
Draft == [name : Names \cup {Blank}, time : Times \cup {Blank}]
Empty == [name |-> Blank, time |-> Blank]

ASSUME NoDocAssumption == NoDoc \notin Draft
ASSUME DocIdsAssumption == IsFiniteSet(DocIds)
ASSUME TypedAssumption == Typed \subseteq Draft

VARIABLES
  server,       \* the user's collection as the server has it
  mutations,    \* the writes the server has not answered yet
  used,         \* document ids handed out
  loading,      \* the query of MainView's onAppear: "idle", "requested", or
                \* "answered" while its completion has not run
  snapshot,     \* the documents of that answer
  queries,      \* the deleteFromDB queries under way
  Alltasks,     \* MainView.Alltasks
  clicked,      \* MainView.clicked: is AddView presented?
  draft,        \* AddView.taskName and taskTime, Empty without an AddView
  errorInput, errorDB,  \* the alerts of Save
  app,          \* "running", or "crashed"
  disappeared,  \* the tasks whose rows ever disappeared   (the last three are
  raced,        \* a completion read what it was not for    not kept by the
  failed        \* a call failed or saw only the cache      code)

storeVars == <<server, mutations, used>>
loadVars  == <<loading, snapshot>>
formVars  == <<clicked, draft, errorInput, errorDB>>
noteVars  == <<disappeared, raced, failed>>
vars == <<storeVars, loadVars, queries, Alltasks, formVars, app, noteVars>>

(***************************************************************************)
(* A write: "reads" is where the completion of Save finds taskName and     *)
(* taskTime, in the fields of the open form or in what a form that is gone *)
(* left in its state; a delete has no completion.                          *)
(***************************************************************************)
Write == [id : DocIds, entry : Task \cup {NoDoc},
          reads : {<<"form">>, <<"none">>} \cup {<<"left", d>> : d \in Draft}]

\* A delete under way: the task its row had, the row, and the answer.
Query == [temp : Draft, row : Nat \ {0}, answered : BOOLEAN, found : SUBSET DocIds]

\* The collection as a query sees it: the documents of the server, or those of
\* them the client has cached, with the pending writes on top.
QueryView(cached) ==
  [id \in DocIds |->
     LET W == {k \in DOMAIN mutations : mutations[k].id = id}
     IN  IF W # {} THEN mutations[Max(W)].entry
         ELSE IF id \in cached THEN server[id] ELSE NoDoc]

\* What may be cached when a query is answered offline; DocIds is the answer in
\* sync with the server.
Caches == IF "offline" \in Faults THEN SUBSET DocIds ELSE {DocIds}

Documents(db) == {id \in DocIds : db[id] # NoDoc}
NoSnapshot == [id \in DocIds |-> NoDoc]

Init ==
  /\ server \in [DocIds -> Task \cup {NoDoc}]
  /\ mutations = << >> /\ used = Documents(server)
  /\ loading = "idle" /\ snapshot = NoSnapshot
  /\ queries = << >> /\ Alltasks = << >>
  /\ clicked = FALSE /\ draft = Empty /\ errorInput = FALSE /\ errorDB = FALSE
  /\ app = "appearing" /\ disappeared = << >> /\ raced = FALSE /\ failed = FALSE

-----------------------------------------------------------------------------
(***************************************************************************)
(* Loading.                                                                *)
(***************************************************************************)
onAppear ==
  /\ app = "appearing"
  /\ app' = "running" /\ loading' = "requested"
  /\ UNCHANGED <<storeVars, snapshot, queries, Alltasks, formVars, noteVars>>

\* getDocuments: the client has an answer and hands it to the main queue.
LoadAnswered ==
  /\ loading = "requested" /\ app = "running"
  /\ loading' = "answered"
  /\ \E cached \in Caches :
       snapshot' = QueryView(cached) /\ failed' = (failed \/ cached # DocIds)
  /\ raced' = (raced \/ mutations # << >>)
  /\ UNCHANGED <<storeVars, queries, Alltasks, formVars, app, disappeared>>

\* loadTasks' completion: the documents, in the order of their ids, behind the
\* rows that are there.
loadTasks ==
  /\ loading = "answered" /\ app = "running"
  /\ loading' = "idle" /\ snapshot' = NoSnapshot
  /\ \E order \in SetToSeqs(Documents(snapshot)) :
       Alltasks' = Alltasks \o [k \in DOMAIN order |-> snapshot[order[k]]]
  /\ UNCHANGED <<storeVars, queries, formVars, app, noteVars>>

loadFailed ==
  /\ "denied" \in Faults
  /\ loading = "requested" /\ app = "running"
  /\ loading' = "idle" /\ failed' = TRUE
  /\ UNCHANGED <<storeVars, snapshot, queries, Alltasks, formVars, app, disappeared, raced>>

-----------------------------------------------------------------------------
(***************************************************************************)
(* Adding.                                                                 *)
(***************************************************************************)
ListInFront == app = "running" /\ ~clicked
FormInFront == app = "running" /\ clicked /\ ~errorInput /\ ~errorDB

ADD_NEW ==
  /\ ListInFront
  /\ clicked' = TRUE
  /\ UNCHANGED <<storeVars, loadVars, queries, Alltasks, draft, errorInput, errorDB, app,
                 noteVars>>

\* Is a save of the open form waiting for the server?
Saving == \E k \in DOMAIN mutations : mutations[k].reads = <<"form">>

Type(d) ==
  /\ FormInFront
  /\ draft' = d
  /\ raced' = (raced \/ (Saving /\ d # draft))
  /\ UNCHANGED <<storeVars, loadVars, queries, Alltasks, clicked, errorInput, errorDB, app,
                 disappeared, failed>>

\* A slip the type invariant catches: one filled-in field is enough.
validateTask_Either(d) == d.name # Blank \/ d.time # Blank
validateTask(d) == d.name # Blank /\ d.time # Blank

SaveInvalid ==
  /\ FormInFront /\ ~validateTask(draft)
  /\ errorInput' = TRUE
  /\ UNCHANGED <<storeVars, loadVars, queries, Alltasks, clicked, draft, errorDB, app, noteVars>>

\* Save, and saveDataInDtabase up to its completion.  The button stays active.
saveDataInDtabase ==
  /\ FormInFront /\ validateTask(draft)
  /\ \E id \in DocIds \ used :
        /\ used' = used \cup {id}
        /\ mutations' = Append(mutations, [id |-> id, entry |-> draft, reads |-> <<"form">>])
  /\ UNCHANGED <<server, loadVars, queries, Alltasks, formVars, app, noteVars>>

\* What the form leaves to the completions that still refer to it.
FormLeft(ws) ==
  [k \in DOMAIN ws |-> IF ws[k].reads = <<"form">>
                       THEN [ws[k] EXCEPT !.reads = <<"left", draft>>] ELSE ws[k]]

Cancel ==
  /\ FormInFront
  /\ clicked' = FALSE /\ draft' = Empty
  /\ mutations' = FormLeft(mutations)
  /\ UNCHANGED <<server, used, loadVars, queries, Alltasks, errorInput, errorDB, app, noteVars>>

DismissAlert ==
  /\ app = "running"
  /\ \/ errorInput /\ errorInput' = FALSE /\ UNCHANGED errorDB
     \/ errorDB /\ errorDB' = FALSE /\ UNCHANGED errorInput
  /\ UNCHANGED <<storeVars, loadVars, queries, Alltasks, clicked, draft, app, noteVars>>

-----------------------------------------------------------------------------
(***************************************************************************)
(* The server's answer to the oldest write, and the completion of Save: a  *)
(* row with what the fields hold by now, and pm.dismiss() or an alert.     *)
(***************************************************************************)
SaveDone(w) ==
  /\ Alltasks' = Append(Alltasks, IF w.reads = <<"form">> THEN draft ELSE w.reads[2])
  /\ IF w.reads = <<"form">>
     THEN clicked' = FALSE /\ draft' = Empty /\ errorInput' = FALSE /\ errorDB' = FALSE
     ELSE UNCHANGED formVars

ServerAck ==
  /\ mutations # << >> /\ app = "running"
  /\ LET w == Head(mutations)
     IN  /\ server' = [server EXCEPT ![w.id] = w.entry]
         /\ IF w.reads = <<"none">>
            THEN UNCHANGED <<Alltasks, formVars>> ELSE SaveDone(w)
         /\ mutations' = IF w.reads = <<"form">> THEN FormLeft(Tail(mutations))
                                                 ELSE Tail(mutations)
  /\ UNCHANGED <<used, loadVars, queries, app, noteVars>>

\* A slip RowsHaveDocuments catches: "done" is not looked at.
SaveFailed_AppendAnyway(w) ==
  /\ Alltasks' = Append(Alltasks, IF w.reads = <<"form">> THEN draft ELSE w.reads[2])
  /\ errorDB' = IF w.reads = <<"form">> THEN ~errorDB ELSE errorDB

SaveFailed(w) ==
  /\ errorDB' = IF w.reads = <<"form">> THEN ~errorDB ELSE errorDB
  /\ UNCHANGED Alltasks

ServerReject ==
  /\ "reject" \in Faults
  /\ mutations # << >> /\ app = "running"
  /\ LET w == Head(mutations)
     IN  IF w.reads = <<"none">> THEN UNCHANGED <<Alltasks, errorDB>> ELSE SaveFailed(w)
  /\ mutations' = Tail(mutations)
  /\ failed' = TRUE
  /\ UNCHANGED <<server, used, loadVars, queries, clicked, draft, errorInput, app,
                 disappeared, raced>>

-----------------------------------------------------------------------------
(***************************************************************************)
(* Rows disappear, and deleteFromDB.                                       *)
(***************************************************************************)
\* The query remembers the task, "temp", and the row that "task" is bound to.
onDisappear(i) ==
  /\ Len(disappeared) < MaxDisappeared
  /\ queries' = Append(queries, [temp |-> Alltasks[i], row |-> i,
                                 answered |-> FALSE, found |-> {}])
  /\ disappeared' = Append(disappeared, Alltasks[i])
  /\ UNCHANGED <<raced, failed>>

\* Edit action: a row is swiped away and the rows below it move up.
SwipeDelete(i) ==
  /\ ListInFront /\ i \in DOMAIN Alltasks
  /\ Alltasks' = RemoveAt(Alltasks, i)
  /\ onDisappear(i)
  /\ UNCHANGED <<storeVars, loadVars, formVars, app>>

\* Edit action: a row is dragged to another place.
MoveRow(i, j) ==
  /\ ListInFront /\ i \in DOMAIN Alltasks /\ j \in DOMAIN Alltasks /\ i # j
  /\ Alltasks' = InsertAt(RemoveAt(Alltasks, i), j, Alltasks[i])
  /\ UNCHANGED <<storeVars, loadVars, queries, formVars, app, noteVars>>

\* A row leaves the screen because a list longer than the screen is scrolled.
\* Where the list stands is left open: any row may be the one.
Scroll(i) ==
  /\ ListInFront /\ i \in DOMAIN Alltasks /\ Len(Alltasks) > ScreenRows
  /\ onDisappear(i)
  /\ UNCHANGED <<storeVars, loadVars, Alltasks, formVars, app>>

\* A slip OnlyDisappearedTasksGo catches: the query filters by time only.
Matching_TimeOnly(t, cached) ==
  {id \in Documents(QueryView(cached)) : QueryView(cached)[id].time = t.time}

\* The documents of the query in deleteFromDB.
Matching(t, cached) == {id \in DocIds : QueryView(cached)[id] = t}


\* document.reference.delete() for each of them.
Deletes(ids) ==
  LET order == SetToSeq(ids)
  IN  [k \in DOMAIN order |-> [id |-> order[k], entry |-> NoDoc, reads |-> <<"none">>]]

\* The query has an answer: the documents "found" when it was taken.
DeleteAnswered(k) ==
  /\ k \in DOMAIN queries /\ ~queries[k].answered /\ app = "running"
  /\ \E cached \in Caches :
       /\ queries' = [queries EXCEPT ![k] =
                        [queries[k] EXCEPT !.answered = TRUE,
                                           !.found = Matching(queries[k].temp, cached)]]
       /\ failed' = (failed \/ cached # DocIds)
  /\ UNCHANGED <<storeVars, loadVars, Alltasks, formVars, app, disappeared, raced>>

\* The completion: what has been saved since the answer is not deleted.
deleteFromDB(k) ==
  /\ k \in DOMAIN queries /\ queries[k].answered /\ app = "running"
  /\ mutations' = mutations \o Deletes(queries[k].found)
  /\ queries' = RemoveAt(queries, k)
  /\ UNCHANGED <<server, used, loadVars, Alltasks, formVars, app, noteVars>>

(***************************************************************************)
(* The query fails and the completion puts the task back, under the name   *)
(* it reads through the binding "task": a value SwiftUI still holds, or    *)
(* the row that is now in that place, and without one the process traps.   *)
(***************************************************************************)
deleteFailed(k) ==
  /\ "denied" \in Faults
  /\ k \in DOMAIN queries /\ ~queries[k].answered /\ app = "running"
  /\ queries' = RemoveAt(queries, k)
  /\ failed' = TRUE
  /\ LET q == queries[k]
         now == IF q.row \in DOMAIN Alltasks THEN {Alltasks[q.row].name} ELSE {}
     IN  \/ /\ now = {}
            /\ app' = "crashed" /\ UNCHANGED <<Alltasks, raced>>
         \/ \E name \in now \cup {q.temp.name} :
               /\ Alltasks' = Append(Alltasks, [name |-> name, time |-> q.temp.time])
               /\ raced' = (raced \/ name # q.temp.name)
               /\ UNCHANGED app
  /\ UNCHANGED <<storeVars, loadVars, formVars, disappeared>>

-----------------------------------------------------------------------------
UserStep ==
  \/ onAppear \/ ADD_NEW \/ SaveInvalid \/ saveDataInDtabase \/ Cancel \/ DismissAlert
  \/ \E d \in Typed : Type(d)
  \/ \E i \in DOMAIN Alltasks : SwipeDelete(i) \/ Scroll(i)
  \/ \E i, j \in DOMAIN Alltasks : MoveRow(i, j)

FirestoreStep ==
  \/ LoadAnswered \/ loadTasks \/ loadFailed \/ ServerAck \/ ServerReject
  \/ \E k \in DOMAIN queries : DeleteAnswered(k) \/ deleteFromDB(k) \/ deleteFailed(k)

Next == UserStep \/ FirestoreStep

Spec == Init /\ [][Next]_vars

\* Firestore answers the queries and keeps syncing its writes, and the main
\* queue runs the completions.
Fairness ==
  /\ WF_vars(ServerAck \/ ServerReject)
  /\ WF_vars(DeleteAnswered(1) \/ deleteFailed(1))
  /\ WF_vars(deleteFromDB(1))

FairSpec == Spec /\ Fairness

-----------------------------------------------------------------------------
(***************************************************************************)
(* Properties.                                                             *)
(***************************************************************************)

\* Every variable keeps its type: what reaches the store is a complete task.
TypeOK ==
  /\ server \in [DocIds -> Task \cup {NoDoc}]
  /\ mutations \in Seq(Write) /\ used \subseteq DocIds
  /\ loading \in {"idle", "requested", "answered"}
  /\ snapshot \in [DocIds -> Task \cup {NoDoc}] /\ Alltasks \in Seq(Draft)
  /\ queries \in Seq(Query)
  /\ clicked \in BOOLEAN /\ draft \in Draft
  /\ errorInput \in BOOLEAN /\ errorDB \in BOOLEAN
  /\ app \in {"appearing", "running", "crashed"}
  /\ disappeared \in Seq(Draft) /\ raced \in BOOLEAN /\ failed \in BOOLEAN

(***************************************************************************)
(* A row has a document, through every order of loading, saving, refusals  *)
(* and deletes, if no row with its texts has ever disappeared and no       *)
(* completion read texts (of the form, of another row, of a document still *)
(* on its way to the server) that were not the ones it was started for.    *)
(***************************************************************************)
RowsHaveDocuments ==
  ~raced => \A i \in DOMAIN Alltasks :
               Alltasks[i] \in Range(disappeared) \/ Matching(Alltasks[i], DocIds) # {}

(***************************************************************************)
(* A document leaves the server only if a row with its name and its time   *)
(* has disappeared from the screen: saves, refusals and the deletes of     *)
(* other tasks, however they interleave, spare it.                         *)
(***************************************************************************)
OnlyDisappearedTasksGo ==
  [][\A id \in DocIds : server[id] # NoDoc /\ server'[id] = NoDoc =>
        server[id] \in Range(disappeared)]_vars

(***************************************************************************)
(* A document that has the name and time of a row which disappeared, and   *)
(* is in the collection or on its way there before the query of the delete *)
(* is answered, is deleted from the server in the end: duplicates and      *)
(* documents just being saved included, unless a call fails, is answered   *)
(* offline from an incomplete cache, or the process traps.  What is saved  *)
(* with the same texts after the answer stays.                             *)
(***************************************************************************)
ToDelete(id) ==
  \E k \in DOMAIN queries : ~queries[k].answered /\ id \in Matching(queries[k].temp, DocIds)

=============================================================================
