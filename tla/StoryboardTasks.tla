-------------------------- MODULE StoryboardTasks --------------------------
(***************************************************************************)
(* The task list of the storyboard app ("TODO storyboard"): the            *)
(* ViewController that shows the tasks of the signed-in user, the modal    *)
(* AddTaskViewController it presents, and the Firestore collection "task"  *)
(* both work against.                                                      *)
(*                                                                         *)
(* Handlers run on the main thread, one action each.  A Firestore call     *)
(* only enqueues work: it is executed later on the client's worker queue   *)
(* (PersistWrite), where it becomes visible to queries and survives the    *)
(* death of the process, and later still reaches the server (ServerAck,    *)
(* ServerReject).  A query is answered in two moments as well: the worker  *)
(* computes a snapshot (AnswerQuery) and the main thread runs the          *)
(* completion handler afterwards (loadTasks).  FirestoreWrites and         *)
(* FirestoreGets model how the client does that.                           *)
(*                                                                         *)
(* Which account is signed in is read anew at every load and every save.   *)
(* StoryboardAuth models when it can change: between two visits to the     *)
(* list, and behind a list that is shown when login requests overlap.  The *)
(* app never signs out, so there is always one here.                       *)
(***************************************************************************)
EXTENDS Integers, Sequences, FiniteSets, SequencesExt

CONSTANTS
  Emails,   \* the accounts that store tasks in the shared collection "task"
  Names,    \* non-empty task names
  Times,    \* times of day that AddTaskViewController.checkDate accepts
  Blank,    \* the empty content of a text field
  BadTime,  \* a non-empty time that checkDate rejects
  DocIds,   \* the automatic document ids Firestore can still hand out
  NoDoc,    \* "there is no such document"
  Faults,   \* the failures of the environment that may happen
  MaxWrites, \* bound: the writes the client holds, executed or not
  MaxSignIns \* bound: how often another account signs in

ASSUME DocIdsAssumption == IsFiniteSet(DocIds) /\ "" \notin DocIds

ASSUME BoundsAssumption == MaxWrites \in Nat /\ MaxSignIns \in Nat

ASSUME FieldsAssumption ==
  /\ Blank \notin Names \cup Times
  /\ BadTime \notin Times

ASSUME FaultsAssumption ==
  Faults \subseteq {"kill",    \* the system may kill the process at any time
                    "reject",  \* the server may refuse a write for good
                    "offline", \* a query may be answered from the local cache
                    "denied"}  \* the server may refuse a query

VARIABLES
  server,     \* the collection "task" as the server has it
  mutations,  \* for each account, its persistent queue of writes in the client
  worker,     \* writes called but not yet executed on the worker queue
  created,    \* what each document id was created for (ids are never reused)
  sender,     \* the account whose queue the client is working off
  currentUser, \* Auth.auth().currentUser?.email
  signedIn,   \* the accounts that have been signed in on this device,
  signIns,    \* how often another one signed in, and
  switched,   \* has one done so behind a list or a form?  (The code keeps none
              \* of the three.)
  load,       \* the pending getDocuments: "idle", "requested", "listening" once
              \* the worker queue has executed the call, or "answered"
  owner,      \* the email the last call of loadTasks has captured
  ahead,      \* how many writes the worker queue holds in front of the query
  snapshot,   \* the documents of the answer when load = "answered"
  array,      \* ViewController.array
  paths,      \* ViewController.paths: from <<name, time>> to a document path
  count,      \* the number shown by the label TasksCount
  shown,      \* the rows as the table view displays them
  isEditing,  \* tableView.isEditing
  screen,     \* "tasks" while the ViewController is on screen
  adding,     \* is the AddTaskViewController presented?
  alert,      \* is an alert presented, waiting for its OK?
  app         \* "running", or "crashed" after a trap or an exception

storeVars  == <<server, mutations, worker, created, sender>>
userVars   == <<currentUser, signedIn, signIns, switched>>
loadVars   == <<load, owner, ahead, snapshot>>
listVars   == <<array, paths, count, shown>>
screenVars == <<isEditing, screen, adding, alert, app>>
vars == <<storeVars, userVars, loadVars, listVars, screenVars>>

-----------------------------------------------------------------------------
(***************************************************************************)
(* Data.                                                                   *)
(***************************************************************************)

ToDoElementsModel == [name : Names, time : Times]

(***************************************************************************)
(* Paths are written as their sequence of segments: the path of a          *)
(* reference is "task/<id>", createpath cuts it at the first slash and     *)
(* leaves "/<id>", and the third field of a new document is "" at first.   *)
(***************************************************************************)
EmptyPath == << >>
refPath(id) == <<"task", id>>
createpath(path) == <<"">> \o Tail(path)

(***************************************************************************)
(* db.collection("task").document(p) skips empty segments and raises an    *)
(* exception when p is empty.                                              *)
(***************************************************************************)
IsDocumentPath(p) == p # EmptyPath
documentOf(p) == p[Len(p)]

Paths == {EmptyPath} \cup {createpath(refPath(id)) : id \in DocIds}

\* A document maps the owner's email to [name, time, path].
Entry == [email : Emails, name : Names, time : Times, path : Paths]
Stored == Entry \cup {NoDoc}

\* What an id was handed out for.
Owner == [email : Emails, name : Names, time : Times]

ASSUME NoDocAssumption == NoDoc \notin Entry \cup Owner

(***************************************************************************)
(* A write replaces the whole document: addDocument and setData by an      *)
(* entry, delete by NoDoc.  "tells" marks an addDocument whose completion  *)
(* handler belongs to the screen that is now open, "user" is the account   *)
(* that was signed in at the call.                                         *)
(***************************************************************************)
Write == [id : DocIds, entry : Stored, tells : BOOLEAN, user : Emails]

(***************************************************************************)
(* The key "name,time" of the dictionary paths.  Keeping the two parts is  *)
(* exact because an accepted time holds no comma (StringRules checks that) *)
(* and then the text determines the name and the time (KeyDeterminesTask).  *)
(***************************************************************************)
\* A slip PathsSound catches: a key that leaves the time out.
createString_NameOnly(n, t) == <<n, CHOOSE x \in Times : TRUE>>
createString(n, t) == <<n, t>>
KeyOf(task) == createString(task.name, task.time)
OwnerOf(e) == [email |-> e.email, name |-> e.name, time |-> e.time]

\* The collection db with the writes ws executed on top of it, in order.
Overlay(db, ws) ==
  [id \in DocIds |->
     LET W == {k \in DOMAIN ws : ws[k].id = id}
     IN  IF W = {} THEN db[id]
         ELSE ws[CHOOSE k \in W : \A j \in W : j <= k].entry]

\* What a query on this device sees: the documents of the server, or those of
\* them the client has cached, with the pending writes on top.
QueryView(cached) ==
  Overlay([id \in DocIds |-> IF id \in cached THEN server[id] ELSE NoDoc],
          mutations[sender])

\* snapshot while there is no answer to hand over.
NoSnapshot == [id \in DocIds |-> NoDoc]

\* The bound leaves room for n more writes.
RoomFor(n) ==
  FoldFunction(LAMBDA ws, sum : Len(ws) + sum, Len(worker), mutations) + n <= MaxWrites

\* The orders in which the documents S may be listed (by their random ids).
Orderings(S) ==
  {f \in [1..Cardinality(S) -> S] : \A j, k \in DOMAIN f : f[j] = f[k] => j = k}

-----------------------------------------------------------------------------
(***************************************************************************)
(* A device on the welcome screen, and a collection in which earlier       *)
(* sessions left documents that know their own path.                       *)
(***************************************************************************)
Init ==
  /\ created \in [DocIds -> Owner \cup {NoDoc}]
  /\ server = [id \in DocIds |->
                 IF created[id] = NoDoc THEN NoDoc
                 ELSE [email |-> created[id].email, name |-> created[id].name,
                       time |-> created[id].time, path |-> createpath(refPath(id))]]
  /\ mutations = [u \in Emails |-> << >>] /\ worker = << >>
  /\ currentUser \in Emails /\ sender = currentUser
  /\ signedIn = {currentUser} /\ signIns = 0 /\ switched = FALSE
  /\ load = "idle" /\ owner = currentUser /\ ahead = 0 /\ snapshot = NoSnapshot
  /\ array = << >> /\ paths = << >> /\ count = 0 /\ shown = << >>
  /\ isEditing = FALSE /\ screen = "welcome" /\ adding = FALSE
  /\ alert = FALSE /\ app = "running"

\* The user can act on the task list, or on the form above it.
ListInFront == app = "running" /\ screen = "tasks" /\ ~adding /\ ~alert
FormInFront == app = "running" /\ adding /\ ~alert

\* The answer to a query whose screen is gone changes nothing anyone sees.
AbandonLoad ==
  load' = "idle" /\ ahead' = 0 /\ snapshot' = NoSnapshot /\ UNCHANGED owner

\* A completion handler that outlives its screen has nothing left to tell.
Untold(ws) == [k \in DOMAIN ws |-> [ws[k] EXCEPT !.tells = FALSE]]
AllUntold == [u \in Emails |-> Untold(mutations[u])]

(***************************************************************************)
(* viewDidLoad of a new ViewController, with the loadTasks call it makes.  *)
(***************************************************************************)
viewDidLoad ==
  /\ app = "running" /\ screen = "welcome" /\ ~adding /\ ~alert
  /\ screen' = "tasks" /\ isEditing' = FALSE
  /\ array' = << >> /\ paths' = << >> /\ count' = 0 /\ shown' = << >>
  /\ load' = "requested" /\ owner' = currentUser /\ ahead' = Len(worker)
  /\ mutations' = AllUntold /\ worker' = Untold(worker)
  /\ UNCHANGED <<server, created, sender, userVars, snapshot, adding, alert, app>>

\* The worker queue has come to the getDocuments call.
QueryIsNext == load = "requested" /\ ahead = 0

\* The client starts to listen, for the account that was signed in at the call.
RunListen ==
  /\ QueryIsNext /\ sender = owner /\ app = "running"
  /\ load' = "listening"
  /\ UNCHANGED <<storeVars, userVars, owner, ahead, snapshot, listVars, screenVars>>

\* getDocuments is answered: in sync with the server, or offline with what is
\* cached.
AnswerQuery ==
  /\ load = "listening" /\ app = "running"
  /\ load' = "answered"
  /\ \E cached \in SUBSET DocIds :
       /\ cached = DocIds \/ "offline" \in Faults
       /\ snapshot' = QueryView(cached)
  /\ UNCHANGED <<storeVars, userVars, owner, ahead, listVars, screenVars>>

\* A query the server refuses; its handler runs the error branch.
LoadFailed ==
  /\ "denied" \in Faults
  /\ load = "listening" /\ app = "running"
  /\ load' = "idle"
  /\ alert' = (alert \/ ~adding)    \* a controller presents one thing at a time
  /\ count' = Len(array) /\ shown' = array
  /\ UNCHANGED <<storeVars, userVars, owner, ahead, snapshot, array, paths, isEditing,
                 screen, adding, app>>

\* A slip OtherUsersUntouched catches: every document taken for the owner's.
MyDocuments_AnyEmail(db) == {id \in DocIds : db[id] # NoDoc}

\* The documents that have a field named after the email loadTasks captured.
MyDocuments(db) == {id \in DocIds : db[id] # NoDoc /\ db[id].email = owner}

(***************************************************************************)
(* The completion handler of loadTasks: those documents are appended to    *)
(* whatever array holds by now, and each sets the path of its key (of two  *)
(* documents with one key the later one wins, and their order is open).    *)
(***************************************************************************)
loadTasks ==
  /\ load = "answered" /\ app = "running"
  /\ LET mine == MyDocuments(snapshot)
         keys == {KeyOf(snapshot[id]) : id \in mine}
     IN  /\ \E order \in Orderings(mine) :
              array' = array \o [k \in 1..Cardinality(mine) |->
                                   [name |-> snapshot[order[k]].name,
                                    time |-> snapshot[order[k]].time]]
         /\ \E last \in [keys -> mine] :
              /\ \A key \in keys : KeyOf(snapshot[last[key]]) = key
              /\ paths' = [key \in DOMAIN paths \cup keys |->
                             IF key \in keys THEN snapshot[last[key]].path
                                            ELSE paths[key]]
  /\ shown' = array' /\ count' = Len(array')
  /\ load' = "idle" /\ snapshot' = NoSnapshot
  /\ UNCHANGED <<storeVars, userVars, owner, ahead, screenVars>>

-----------------------------------------------------------------------------
\* The button ADD TASK + presents the form.
AddTask ==
  /\ ListInFront
  /\ adding' = TRUE
  /\ UNCHANGED <<storeVars, userVars, loadVars, listVars, isEditing, screen, alert, app>>

cancel ==
  /\ FormInFront
  /\ adding' = FALSE
  /\ UNCHANGED <<storeVars, userVars, loadVars, listVars, isEditing, screen, alert, app>>

\* Save with a filled-in time that is not of the form HH:MM: an alert, and the
\* form stays.  (An empty field only gets a red border; nothing else changes.)
SaveRefused(n, t) ==
  /\ FormInFront
  /\ n # Blank /\ t # Blank /\ t \notin Times
  /\ alert' = TRUE
  /\ UNCHANGED <<storeVars, userVars, loadVars, listVars, isEditing, screen, adding, app>>

(***************************************************************************)
(* saveDataInDtabase: the document is added without its path, then written *)
(* again with it; both calls are made before the handler returns.          *)
(***************************************************************************)
saveDataInDtabase(id, n, t) ==
  LET path  == createpath(refPath(id))
      entry == [email |-> currentUser, name |-> n, time |-> t, path |-> EmptyPath]
      add   == [id |-> id, entry |-> entry, tells |-> screen = "tasks",
                user |-> currentUser]
      set   == [id |-> id, entry |-> [entry EXCEPT !.path = path], tells |-> FALSE,
                user |-> currentUser]
      key   == createString(n, t)
  IN  /\ RoomFor(2)
      /\ created' = [created EXCEPT ![id] = OwnerOf(entry)]
      /\ worker' = worker \o <<add, set>>
      /\ paths' = [k \in DOMAIN paths \cup {key} |-> IF k = key THEN path ELSE paths[k]]

\* A slip CountsAgree catches: the label takes array.count before the append.
passBackData_EarlyCount(id, n, t) ==
  /\ array' = Append(array, [name |-> n, time |-> t])
  /\ shown' = array'
  /\ count' = Len(array)
  /\ saveDataInDtabase(id, n, t)

\* passBackData, called by the form's save before it dismisses itself.
passBackData(id, n, t) ==
  /\ array' = Append(array, [name |-> n, time |-> t])
  /\ shown' = array'
  /\ count' = count + 1
  /\ saveDataInDtabase(id, n, t)

\* A slip the type invariant catches: checkDate is not asked.
save_AnyTime(n, t) ==
  /\ FormInFront
  /\ n # Blank /\ t # Blank
  /\ \E id \in DocIds : created[id] = NoDoc /\ passBackData(id, n, t)
  /\ adding' = FALSE
  /\ UNCHANGED <<server, mutations, sender, userVars, loadVars, isEditing, screen, alert, app>>

save(n, t) ==
  /\ FormInFront
  /\ n # Blank /\ t # Blank /\ t \in Times
  /\ \E id \in DocIds : created[id] = NoDoc /\ passBackData(id, n, t)
  /\ adding' = FALSE
  /\ UNCHANGED <<server, mutations, sender, userVars, loadVars, isEditing, screen, alert, app>>

-----------------------------------------------------------------------------
editing ==
  /\ ListInFront
  /\ isEditing' = ~isEditing
  /\ UNCHANGED <<storeVars, userVars, loadVars, listVars, screen, adding, alert, app>>

(***************************************************************************)
(* Deleting row i (swiping works outside editing mode too): deleteFromDb   *)
(* looks the path up with "!" and builds a document reference from it, and *)
(* either can end the process.                                             *)
(***************************************************************************)
DeleteTraps(i) ==
  \/ KeyOf(array[i]) \notin DOMAIN paths
  \/ ~IsDocumentPath(paths[KeyOf(array[i])])

\* A slip PathsKnown catches: the key is forgotten along with the row.
commitDelete_ForgetKey(i) ==
  /\ ListInFront /\ i \in DOMAIN array /\ ~DeleteTraps(i)
  /\ RoomFor(1)
  /\ worker' = Append(worker, [id |-> documentOf(paths[KeyOf(array[i])]),
                              entry |-> NoDoc, tells |-> FALSE, user |-> currentUser])
  /\ paths' = [k \in DOMAIN paths \ {KeyOf(array[i])} |-> paths[k]]
  /\ array' = RemoveAt(array, i)
  /\ shown' = array'
  /\ count' = count - 1
  /\ UNCHANGED <<server, mutations, created, sender, userVars, loadVars, screenVars>>

commitDelete(i) ==
  /\ ListInFront /\ i \in DOMAIN array /\ ~DeleteTraps(i)
  /\ RoomFor(1)
  /\ worker' = Append(worker, [id |-> documentOf(paths[KeyOf(array[i])]),
                              entry |-> NoDoc, tells |-> FALSE, user |-> currentUser])
  /\ array' = RemoveAt(array, i)
  /\ shown' = array'
  /\ count' = count - 1
  /\ UNCHANGED <<server, mutations, created, sender, userVars, loadVars, paths, screenVars>>

commitDeleteTrap(i) ==
  /\ ListInFront /\ i \in DOMAIN array /\ DeleteTraps(i)
  /\ app' = "crashed"
  /\ UNCHANGED <<storeVars, userVars, loadVars, listVars, isEditing, screen, adding, alert>>

\* Dragging row i to position j: the table moves its row, the array swaps two.
moveRowAt(i, j) ==
  /\ ListInFront /\ isEditing
  /\ i \in DOMAIN array /\ j \in DOMAIN array /\ i # j
  /\ array' = [array EXCEPT ![i] = array[j], ![j] = array[i]]
  /\ shown' = InsertAt(RemoveAt(shown, i), j, shown[i])
  /\ UNCHANGED <<storeVars, userVars, loadVars, paths, count, screenVars>>

DismissAlert ==
  /\ app = "running" /\ alert
  /\ alert' = FALSE
  /\ UNCHANGED <<storeVars, userVars, loadVars, listVars, isEditing, screen, adding, app>>

\* The back button of the navigation bar pops the controller.
GoBack ==
  /\ ListInFront
  /\ screen' = "welcome" /\ AbandonLoad
  /\ UNCHANGED <<storeVars, userVars, listVars, isEditing, adding, alert, app>>

(***************************************************************************)
(* A login or signup request succeeds for another account: on the way to   *)
(* the list, or late, behind it.                                           *)
(***************************************************************************)
SignIn(e) ==
  /\ app = "running" /\ e # currentUser
  /\ signIns < MaxSignIns /\ signIns' = signIns + 1
  /\ currentUser' = e
  /\ signedIn' = signedIn \cup {e}
  /\ switched' = (switched \/ screen = "tasks" \/ adding)
  /\ UNCHANGED <<storeVars, loadVars, listVars, screenVars>>

-----------------------------------------------------------------------------
(***************************************************************************)
(* The client's worker queue, on which each change of the current user     *)
(* takes its turn among the calls.                                         *)
(***************************************************************************)

\* The account that was signed in when the next call was made.
NextCaller ==
  IF QueryIsNext THEN owner
  ELSE IF worker # << >> THEN Head(worker).user ELSE currentUser

\* The client learns of the new user and turns to the queue of that account.
HandleCredentialChange ==
  /\ sender # NextCaller /\ app = "running"
  /\ sender' = NextCaller
  /\ UNCHANGED <<server, mutations, worker, created, userVars, loadVars, listVars, screenVars>>

\* The oldest call is executed: it is now persistent.
PersistWrite ==
  /\ worker # << >> /\ ~QueryIsNext /\ sender = NextCaller /\ app = "running"
  /\ mutations' = [mutations EXCEPT ![sender] = Append(@, Head(worker))]
  /\ worker' = Tail(worker)
  /\ ahead' = IF ahead = 0 THEN 0 ELSE ahead - 1
  /\ UNCHANGED <<server, created, sender, userVars, load, owner, snapshot, listVars, screenVars>>

\* The write the server deals with next, and the queue once it has done so.
Oldest == Head(mutations[sender])
Settle == mutations' = [mutations EXCEPT ![sender] = Tail(@)]

\* A slip DeletedStaysDeleted catches: setData called by the completion handler
\* of addDocument.
ServerAck_ThenSetData ==
  LET set == [Oldest EXCEPT !.entry.path = createpath(refPath(Oldest.id)), !.tells = FALSE]
  IN  /\ mutations[sender] # << >> /\ app = "running"
      /\ server' = [server EXCEPT ![Oldest.id] = Oldest.entry]
      /\ Settle
      /\ worker' = IF Oldest.tells THEN Append(worker, set) ELSE worker
      /\ UNCHANGED <<created, sender, userVars, loadVars, listVars, screenVars>>

ServerAck ==
  /\ mutations[sender] # << >> /\ app = "running"
  /\ server' = [server EXCEPT ![Oldest.id] = Oldest.entry]
  /\ Settle
  /\ UNCHANGED <<worker, created, sender, userVars, loadVars, listVars, screenVars>>

(***************************************************************************)
(* The server refuses a write for good and the client forgets it.  Only    *)
(* addDocument was given a completion handler: an alert (if the controller *)
(* is not already presenting the form), then popToRootViewController.      *)
(***************************************************************************)
ServerReject ==
  /\ "reject" \in Faults
  /\ mutations[sender] # << >> /\ app = "running"
  /\ Settle
  /\ IF Oldest.tells /\ screen = "tasks"
     THEN /\ alert' = (alert \/ ~adding)
          /\ screen' = "welcome" /\ AbandonLoad
     ELSE UNCHANGED <<alert, screen, loadVars>>
  /\ UNCHANGED <<server, worker, created, sender, userVars, listVars, isEditing, adding, app>>

\* A slip ImplementsPendingWrites catches: the mutation queue is only in memory.
Relaunch_InMemory ==
  /\ app = "crashed" \/ "kill" \in Faults
  /\ worker' = << >> /\ mutations' = [u \in Emails |-> << >>] /\ sender' = currentUser
  /\ AbandonLoad
  /\ array' = << >> /\ paths' = << >> /\ count' = 0 /\ shown' = << >>
  /\ isEditing' = FALSE /\ screen' = "welcome" /\ adding' = FALSE
  /\ alert' = FALSE /\ app' = "running"
  /\ UNCHANGED <<server, created, userVars>>

\* The process dies, by a crash or by the system's hand, and is started again.
\* Firebase Auth keeps its user.
Relaunch ==
  /\ app = "crashed" \/ "kill" \in Faults
  /\ worker' = << >> /\ mutations' = AllUntold /\ sender' = currentUser
  /\ AbandonLoad
  /\ array' = << >> /\ paths' = << >> /\ count' = 0 /\ shown' = << >>
  /\ isEditing' = FALSE /\ screen' = "welcome" /\ adding' = FALSE
  /\ alert' = FALSE /\ app' = "running"
  /\ UNCHANGED <<server, created, userVars>>

-----------------------------------------------------------------------------
UserStep ==
  \/ viewDidLoad \/ AddTask \/ cancel \/ editing \/ DismissAlert \/ GoBack
  \/ \E n \in Names \cup {Blank}, t \in Times \cup {Blank, BadTime} :
        save(n, t) \/ SaveRefused(n, t)
  \/ \E e \in Emails : SignIn(e)
  \/ \E i \in DOMAIN array : commitDelete(i) \/ commitDeleteTrap(i)
  \/ \E i, j \in DOMAIN array : moveRowAt(i, j)

SystemStep ==
  \/ RunListen \/ AnswerQuery \/ LoadFailed \/ loadTasks
  \/ HandleCredentialChange \/ PersistWrite \/ ServerAck \/ ServerReject \/ Relaunch

Next == UserStep \/ SystemStep

Spec == Init /\ [][Next]_vars

-----------------------------------------------------------------------------
(***************************************************************************)
(* Properties.                                                             *)
(***************************************************************************)

Keys == Names \X Times

\* Every variable of the controllers and of the store keeps its type.
TypeOK ==
  /\ server \in [DocIds -> Stored]
  /\ mutations \in [Emails -> Seq(Write)] /\ worker \in Seq(Write)
  /\ created \in [DocIds -> Owner \cup {NoDoc}]
  /\ {currentUser, sender, owner} \subseteq Emails
  /\ signedIn \subseteq Emails /\ signIns \in 0..MaxSignIns /\ switched \in BOOLEAN
  /\ load \in {"idle", "requested", "listening", "answered"} /\ ahead \in Nat
  /\ snapshot \in [DocIds -> Stored]
  /\ array \in Seq(ToDoElementsModel) /\ shown \in Seq(ToDoElementsModel)
  /\ DOMAIN paths \subseteq Keys /\ paths \in [DOMAIN paths -> Paths]
  /\ count \in Int
  /\ isEditing \in BOOLEAN /\ adding \in BOOLEAN /\ alert \in BOOLEAN
  /\ screen \in {"welcome", "tasks"} /\ app \in {"running", "crashed"}

(***************************************************************************)
(* The label TasksCount, updated by +1 and -1 in passBackData and commit   *)
(* and recomputed by loadTasks, agrees with array and with the rows the    *)
(* table view holds: UIKit raises an exception at insertRows or deleteRows *)
(* when the last two disagree.                                             *)
(***************************************************************************)
CountsAgree == count = Len(array) /\ Len(shown) = Len(array)

(***************************************************************************)
(* However loads, additions, moves and deletions interleave, every row has *)
(* an entry in paths: the "!" in deleteFromDb never unwraps nil.           *)
(***************************************************************************)
PathsKnown == \A i \in DOMAIN array : KeyOf(array[i]) \in DOMAIN paths

(***************************************************************************)
(* A path kept for a key is empty or leads to a document that was created  *)
(* with that very name and time, for the account whose tasks the list      *)
(* shows: deleteFromDb cannot hit a task with another text, nor one of     *)
(* another user.  If another account has signed in behind a list, tasks    *)
(* are saved for it from then on, and the document is of either.           *)
(***************************************************************************)
Owners == IF switched THEN signedIn ELSE {owner}
PathsSound ==
  \A key \in DOMAIN paths : IsDocumentPath(paths[key]) =>
     \E e \in Owners :
        created[documentOf(paths[key])] = [email |-> e, name |-> key[1], time |-> key[2]]

(***************************************************************************)
(* All users share the collection "task" and only loadTasks filters it: a  *)
(* document this device changes or deletes belongs to an account that has  *)
(* been signed in on it, and to the one the write is sent for unless       *)
(* another account has signed in behind a list or a form.                  *)
(***************************************************************************)
OtherUsersUntouched ==
  [][\A id \in DocIds :
        server[id] # NoDoc /\ server'[id] # server[id] =>
           /\ server[id].email \in signedIn
           /\ switched \/ server[id].email = sender]_vars

(***************************************************************************)
(* saveDataInDtabase writes each document twice: once a delete of it has   *)
(* been executed by the client and no write is waiting behind it, neither  *)
(* write brings the document back, also when the process is killed and     *)
(* relaunched, the writes reach the server one by one, or the accounts     *)
(* take turns.  Only a refusal of the server undoes a delete.              *)
(***************************************************************************)
Writes(ws, id) == {k \in DOMAIN ws : ws[k].id = id}
EndsDeleted(ws, id) ==
  \A k \in Writes(ws, id) : (\A j \in Writes(ws, id) : j <= k) => ws[k].entry = NoDoc

Deleted(id) ==
  /\ created[id] # NoDoc
  /\ \A k \in Writes(worker, id) : worker[k].entry = NoDoc
  /\ \A u \in Emails : EndsDeleted(mutations[u], id)
  /\ (\A u \in Emails : Writes(mutations[u], id) = {}) => server[id] = NoDoc
DeletedStaysDeleted ==
  [][\A id \in DocIds :
       Deleted(id) => Deleted(id)' \/ (ServerReject /\ Oldest.id = id)]_vars

(***************************************************************************)
(* The handlers, the worker queue and the server of this module stay       *)
(* within what PendingWrites promises and FirestoreWrites implements: the  *)
(* two writes of an addition and the delete are executed, survive a kill   *)
(* and reach the collection in the order they were called.                 *)
(***************************************************************************)
AsWrite(w) == [doc |-> w.id, value |-> w.entry]
AsWrites(ws) == [k \in DOMAIN ws |-> AsWrite(ws[k])]
AsCalls(ws) == [k \in DOMAIN ws |-> [user |-> ws[k].user, write |-> AsWrite(ws[k])]]
Store == INSTANCE PendingWrites WITH
  Users <- Emails, Docs <- DocIds, Values <- Stored,
  called <- AsCalls(worker), pending <- [u \in Emails |-> AsWrites(mutations[u])],
  docs <- server
ImplementsPendingWrites == Store!Spec

-----------------------------------------------------------------------------
(***************************************************************************)
(* What the comments of ViewController say, and the code does not do.      *)
(***************************************************************************)

\* ViewController.swift:163 "//moving cells": the row a user deletes after
\* moving cells is the row that is removed.
DeletesTheShownRow ==
  [][\A i \in DOMAIN array : commitDelete(i) => array[i] = shown[i]]_vars

=============================================================================
