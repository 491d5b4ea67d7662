----------------------- MODULE StoryboardTasks_proofs -----------------------
(***************************************************************************)
(* Safety of StoryboardTasks for every set of accounts, names, times and   *)
(* document ids, every set of faults and any number of changes of the      *)
(* account that is signed in.  The strengthening of PathsSound is that     *)
(* every copy of a document (on the server, in the queues, in a snapshot)  *)
(* agrees with what its id was created for, and every write with the       *)
(* account that called it.                                                 *)
(***************************************************************************)
EXTENDS StoryboardTasks, SequenceLemmas, SequenceTheorems, FiniteSetTheorems,
        WellFoundedInduction, TLAPS

(***************************************************************************)
(* The inductive invariant.                                                *)
(***************************************************************************)

\* An entry held for id belongs to the task id was created for, and its path
\* is still empty or is that of id.
Agrees(id, e) ==
  e # NoDoc => /\ created[id] = OwnerOf(e)
               /\ e.path \in {EmptyPath, createpath(refPath(id))}

StoreAgrees(db) == \A id \in DocIds : Agrees(id, db[id])

\* The accounts whose documents a write called by user may concern.
Reach(user) == IF switched THEN signedIn ELSE {user}

\* The writes this device may have called, and those of one account's queue.
GoodWrites ==
  {w \in Write : /\ w.user \in signedIn
                 /\ created[w.id] # NoDoc /\ created[w.id].email \in Reach(w.user)
                 /\ Agrees(w.id, w.entry)}
QueueOf(u) == {w \in GoodWrites : w.user = u}

\* The tasks a row may show.
KnownTasks == {t \in ToDoElementsModel : KeyOf(t) \in DOMAIN paths}

QueuesAgree ==
  worker \in Seq(GoodWrites) /\ \A u \in Emails : mutations[u] \in Seq(QueueOf(u))

\* A list shows tasks of an account that has been signed in: the one that still
\* is, unless another has signed in behind it.
AccountsAgree ==
  /\ currentUser \in signedIn /\ owner \in signedIn
  /\ ~switched /\ (screen = "tasks" \/ adding) => owner = currentUser

IInv ==
  /\ TypeOK /\ CountsAgree /\ PathsSound /\ AccountsAgree
  /\ StoreAgrees(server) /\ StoreAgrees(snapshot) /\ QueuesAgree
  /\ array \in Seq(KnownTasks)

-----------------------------------------------------------------------------
(***************************************************************************)
(* The queues.                                                             *)
(***************************************************************************)

\* What the invariant asks of a write includes its type.
LEMMA GoodWritesTyped ==
  Seq(GoodWrites) \subseteq Seq(Write) /\ \A u : Seq(QueueOf(u)) \subseteq Seq(Write)
<1>1. GoodWrites \subseteq Write /\ \A u : QueueOf(u) \subseteq Write
  BY DEF GoodWrites, QueueOf
<1> QED BY <1>1, SeqMonotonic

\* Steps that create no document and change no account keep what is asked of a
\* write.
LEMMA SameIds ==
  ASSUME UNCHANGED <<created, userVars>>
  PROVE  GoodWrites' = GoodWrites
BY DEF GoodWrites, Agrees, Reach, userVars

\* A queue keeps its writes when their completion handlers are dropped.
LEMMA UntoldSeq ==
  ASSUME NEW S \in {GoodWrites} \cup {QueueOf(u) : u \in Emails}, NEW ws \in Seq(S)
  PROVE  Untold(ws) \in Seq(S)
<1>1. Len(ws) \in Nat /\ DOMAIN ws = 1..Len(ws)
  BY LenProperties
<1>2. \A k \in 1..Len(ws) : [ws[k] EXCEPT !.tells = FALSE] \in S
  <2> TAKE k \in 1..Len(ws)
  <2> DEFINE v == [ws[k] EXCEPT !.tells = FALSE]
  <2>1. ws[k] \in S
    BY ElementOfSeq
  <2>2. ws[k] \in GoodWrites
    BY <2>1 DEF QueueOf
  <2>3. v \in Write /\ v.id = ws[k].id /\ v.entry = ws[k].entry /\ v.user = ws[k].user
    BY <2>2 DEF GoodWrites, Write
  <2>4. v \in GoodWrites
    <3> HIDE DEF v
    <3> QED BY <2>2, <2>3 DEF GoodWrites
  <2> HIDE DEF v
  <2>5. v \in S
    BY <2>1, <2>3, <2>4 DEF QueueOf
  <2> QED BY <2>5 DEF v
<1>3. Untold(ws) \in [1..Len(ws) -> S]
  BY <1>1, <1>2 DEF Untold
<1> QED BY <1>1, <1>3, FcnIsSeq

\* The queues agree after a step that keeps what is asked of a write, if their
\* writes satisfy it.
LEMMA QueuesNext ==
  ASSUME GoodWrites \subseteq GoodWrites', worker' \in Seq(GoodWrites'),
         mutations' = [u \in Emails |-> mutations'[u]],
         \A u \in Emails : mutations'[u] \in Seq(QueueOf(u))
  PROVE  /\ QueuesAgree' /\ worker' \in Seq(Write)
         /\ mutations' \in [Emails -> Seq(Write)]
<1>1. GoodWrites' \subseteq Write
  BY DEF GoodWrites
<1>2. worker' \in Seq(Write)
  BY <1>1, SeqMonotonic
<1>3. \A u \in Emails : QueueOf(u) \subseteq QueueOf(u)'
  BY DEF QueueOf
<1>4. \A u \in Emails : mutations'[u] \in Seq(QueueOf(u)')
  BY <1>3, SeqMonotonic
<1>5. QueuesAgree'
  BY <1>4 DEF QueuesAgree, QueueOf
<1>6. \A u \in Emails : mutations'[u] \in Seq(Write)
  BY GoodWritesTyped
<1> QED BY <1>2, <1>5, <1>6

\* A step that touches neither the queues nor what is asked of their writes.
LEMMA QueuesUntouched ==
  ASSUME IInv, UNCHANGED <<worker, mutations, created, userVars>>
  PROVE  QueuesAgree'
BY SameIds DEF IInv, QueuesAgree, QueueOf

\* No completion handler is left waiting.
LEMMA QueuesUntold ==
  ASSUME IInv, UNCHANGED <<created, userVars>>, mutations' = AllUntold,
         worker' = Untold(worker) \/ worker' = << >>
  PROVE  /\ QueuesAgree' /\ worker' \in Seq(Write)
         /\ mutations' \in [Emails -> Seq(Write)]
<1>1. GoodWrites' = GoodWrites
  BY SameIds
<1>2. worker' \in Seq(GoodWrites)
  BY UntoldSeq, EmptySeq DEF IInv, QueuesAgree
<1>3. \A u \in Emails : Untold(mutations[u]) \in Seq(QueueOf(u))
  BY UntoldSeq DEF IInv, QueuesAgree
<1>4. /\ mutations' = [u \in Emails |-> mutations'[u]]
      /\ \A u \in Emails : mutations'[u] \in Seq(QueueOf(u))
  BY <1>3 DEF AllUntold
<1> QED BY <1>1, <1>2, <1>4, QueuesNext

-----------------------------------------------------------------------------
(***************************************************************************)
(* Paths and stores.                                                       *)
(***************************************************************************)

\* The path createpath makes of a reference is not empty and leads back to the
\* document the reference is for.
LEMMA PathOfDocument ==
  ASSUME NEW id \in DocIds
  PROVE  /\ createpath(refPath(id)) \in Paths
         /\ IsDocumentPath(createpath(refPath(id)))
         /\ documentOf(createpath(refPath(id))) = id
<1>1. Tail(<<"task", id>>) = <<id>>
  OBVIOUS
<1>2. createpath(refPath(id)) = <<"", id>>
  <2> DEFINE S == {"", id}
             p == <<"">> \o <<id>>
  <2>1. p \in Seq(S) /\ Len(p) = 2 /\ p[1] = "" /\ p[2] = id
    <3>1. <<"">> \in Seq(S) /\ <<id>> \in Seq(S)
      OBVIOUS
    <3> QED BY <3>1, ConcatProperties
  <2>2. <<"", id>> \in Seq(S) /\ Len(<<"", id>>) = 2
    OBVIOUS
  <2>3. \A i \in 1..2 : p[i] = <<"", id>>[i]
    <3> DEFINE q == <<"", id>>
    <3>1. q[1] = "" /\ q[2] = id
      OBVIOUS
    <3>2. \A i \in 1..2 : i = 1 \/ i = 2
      OBVIOUS
    <3>3. \A i \in 1..2 : p[i] = q[i]
      <4> HIDE DEF p, q
      <4> QED BY <2>1, <3>1, <3>2
    <3> QED BY <3>3
  <2>4. p = <<"", id>>
    <3> HIDE DEF p, S
    <3> QED BY <2>1, <2>2, <2>3, SeqEqual
  <2> QED BY <1>1, <2>4 DEF createpath, refPath
<1>3. <<"", id>> # << >> /\ Len(<<"", id>>) = 2 /\ <<"", id>>[2] = id
  OBVIOUS
<1>4. createpath(refPath(id)) \in Paths
  BY DEF Paths
<1> QED BY <1>2, <1>3, <1>4 DEF IsDocumentPath, EmptyPath, documentOf

\* What a query sees agrees with what the ids were created for when the store
\* below it and the writes on top of it do.
LEMMA OverlayAgrees ==
  ASSUME NEW db \in [DocIds -> Stored], StoreAgrees(db),
         NEW S \in SUBSET GoodWrites, NEW ws \in Seq(S)
  PROVE  Overlay(db, ws) \in [DocIds -> Stored] /\ StoreAgrees(Overlay(db, ws))
<1>1. SUFFICES ASSUME NEW id \in DocIds
               PROVE  /\ Overlay(db, ws)[id] \in Stored
                      /\ Agrees(id, Overlay(db, ws)[id])
  <2>1. Overlay(db, ws) = [id \in DocIds |-> Overlay(db, ws)[id]]
    BY DEF Overlay
  <2> QED BY <2>1, <1>1 DEF StoreAgrees
<1> DEFINE W == {k \in DOMAIN ws : ws[k].id = id}
           last == CHOOSE k \in W : \A j \in W : j <= k
<1>2. Overlay(db, ws)[id] = IF W = {} THEN db[id] ELSE ws[last].entry
  BY DEF Overlay
<1>3. CASE W = {}
  BY <1>2, <1>3 DEF StoreAgrees
<1>4. CASE W # {}
  <2>1. Len(ws) \in Nat /\ DOMAIN ws = 1..Len(ws)
    BY LenProperties
  <2>2. \E k \in W : \A j \in W : j <= k
    BY <2>1, <1>4, LastPosition
  <2>3. last \in W
    BY <2>2
  <2>4. ws[last] \in GoodWrites /\ ws[last].id = id
    BY <2>1, <2>3, ElementOfSeq
  <2>5. ws[last].entry \in Stored /\ Agrees(id, ws[last].entry)
    BY <2>4 DEF GoodWrites, Write
  <2> QED BY <1>2, <1>4, <2>5
<1> QED BY <1>3, <1>4

-----------------------------------------------------------------------------
(***************************************************************************)
(* The initial states, and the steps grouped by the state they touch.      *)
(***************************************************************************)

\* Emptying the list satisfies every part of the invariant about the list.
LEMMA EmptyList ==
  /\ << >> \in Seq(ToDoElementsModel) /\ << >> \in Seq(KnownTasks)
  /\ << >> \in Seq(Write)
  /\ Len(<< >>) = 0
  /\ DOMAIN << >> = {} /\ << >> \in [DOMAIN << >> -> Paths]
<1>1. DOMAIN << >> = {}
  OBVIOUS
<1>2. << >> \in [DOMAIN << >> -> Paths]
  OBVIOUS
<1> QED BY <1>1, <1>2, EmptySeq

\* Nothing is asked of a snapshot without documents.
LEMMA EmptySnapshot == NoSnapshot \in [DocIds -> Stored] /\ StoreAgrees(NoSnapshot)
BY DEF NoSnapshot, Stored, StoreAgrees, Agrees

\* The invariant holds on the welcome screen of a fresh process.
LEMMA InitIInv == Init => IInv
<1> SUFFICES ASSUME Init PROVE IInv
  OBVIOUS
<1>1. /\ created \in [DocIds -> Owner \cup {NoDoc}]
      /\ server = [id \in DocIds |->
                     IF created[id] = NoDoc THEN NoDoc
                     ELSE [email |-> created[id].email, name |-> created[id].name,
                           time |-> created[id].time, path |-> createpath(refPath(id))]]
  BY DEF Init
<1>2. ASSUME NEW id \in DocIds
      PROVE  server[id] \in Stored /\ Agrees(id, server[id])
  <2>1. CASE created[id] = NoDoc
    BY <1>1, <2>1 DEF Stored, Agrees
  <2>2. CASE created[id] # NoDoc
    <3>1. created[id] \in Owner
      BY <1>1, <2>2
    <3>2. server[id] = [email |-> created[id].email, name |-> created[id].name,
                        time |-> created[id].time, path |-> createpath(refPath(id))]
      BY <1>1, <2>2
    <3>3. server[id] \in Entry
      BY <3>1, <3>2, PathOfDocument DEF Owner, Entry
    <3>4. OwnerOf(server[id]) = created[id]
      BY <3>1, <3>2 DEF Owner, OwnerOf
    <3> QED BY <3>2, <3>3, <3>4 DEF Stored, Agrees
  <2> QED BY <2>1, <2>2
<1>3. server \in [DocIds -> Stored] /\ StoreAgrees(server)
  BY <1>1, <1>2 DEF StoreAgrees
<1>4. TypeOK
  <2>1. DOMAIN paths \subseteq Keys /\ paths \in [DOMAIN paths -> Paths]
    BY EmptyList DEF Init
  <2>2. isEditing \in BOOLEAN /\ adding \in BOOLEAN /\ alert \in BOOLEAN
    BY DEF Init
  <2>3. array \in Seq(ToDoElementsModel) /\ shown \in Seq(ToDoElementsModel)
    BY EmptyList DEF Init
  <2>4. mutations \in [Emails -> Seq(Write)] /\ worker \in Seq(Write)
    BY EmptyList DEF Init
  <2>5. /\ snapshot \in [DocIds -> Stored]
        /\ load \in {"idle", "requested", "listening", "answered"} /\ ahead \in Nat
        /\ count \in Int
        /\ screen \in {"welcome", "tasks"} /\ app \in {"running", "crashed"}
    BY EmptySnapshot DEF Init
  <2>6. {currentUser, sender, owner} \subseteq Emails /\ signedIn \subseteq Emails
    BY DEF Init
  <2>7. switched \in BOOLEAN
    BY DEF Init
  <2>8. signIns \in 0..MaxSignIns
    <3>1. signIns = 0
      BY DEF Init
    <3> QED BY ONLY <3>1, BoundsAssumption
  <2> QED BY <1>1, <1>3, <2>1, <2>2, <2>3, <2>4, <2>5, <2>6, <2>7, <2>8 DEF TypeOK
<1>5. CountsAgree /\ PathsSound /\ array \in Seq(KnownTasks)
  BY EmptyList DEF Init, CountsAgree, PathsSound
<1>6. QueuesAgree
  BY EmptySeq DEF Init, QueuesAgree
<1>7. AccountsAgree
  BY DEF Init, AccountsAgree
<1> QED BY <1>3, <1>4, <1>5, <1>6, <1>7, EmptySnapshot DEF Init, IInv

\* What a step that changes no account needs for AccountsAgree: a form appears
\* only over a list.
LEMMA AccountsUntouched ==
  ASSUME IInv, UNCHANGED <<userVars, owner>>,
         screen' = "tasks" \/ adding' => screen = "tasks" \/ adding
  PROVE  AccountsAgree'
BY DEF IInv, AccountsAgree, userVars

\* Steps that only change what is on screen.
LEMMA ScreenStep ==
  ASSUME IInv, UNCHANGED <<storeVars, userVars, loadVars, listVars>>,
         screen' = "tasks" \/ adding' => screen = "tasks" \/ adding,
         isEditing' \in BOOLEAN, adding' \in BOOLEAN, alert' \in BOOLEAN,
         screen' \in {"welcome", "tasks"}, app' \in {"running", "crashed"}
  PROVE  IInv'
<1>1. AccountsAgree'
  BY AccountsUntouched DEF loadVars
<1>2. QueuesAgree'
  BY QueuesUntouched DEF storeVars
<1>3. TypeOK'
  BY DEF IInv, TypeOK, storeVars, userVars, loadVars, listVars
<1>4. CountsAgree' /\ PathsSound'
  BY DEF IInv, CountsAgree, PathsSound, Owners, storeVars, userVars, loadVars, listVars
<1>5. /\ StoreAgrees(server)' /\ StoreAgrees(snapshot)'
      /\ array' \in Seq(KnownTasks')
  BY DEF IInv, StoreAgrees, Agrees, KnownTasks, storeVars, loadVars, listVars
<1> QED BY <1>1, <1>2, <1>3, <1>4, <1>5 DEF IInv

\* A new screen, and a new process, start with an empty list.
LEMMA ListEmptied ==
  ASSUME array' = << >>, paths' = << >>, count' = 0, shown' = << >>
  PROVE  /\ array' \in Seq(ToDoElementsModel) /\ shown' \in Seq(ToDoElementsModel)
         /\ DOMAIN paths' \subseteq Keys /\ paths' \in [DOMAIN paths' -> Paths]
         /\ count' \in Int /\ CountsAgree' /\ PathsSound' /\ array' \in Seq(KnownTasks')
<1>1. CountsAgree' /\ PathsSound'
  BY EmptyList DEF CountsAgree, PathsSound
<1>2. array' \in Seq(KnownTasks')
  BY EmptySeq
<1>3. DOMAIN paths' \subseteq Keys /\ paths' \in [DOMAIN paths' -> Paths]
  BY EmptyList
<1> QED BY <1>1, <1>2, <1>3, EmptyList

\* A new ViewController starts empty and asks for the tasks (viewDidLoad).
LEMMA viewDidLoadStep == IInv /\ viewDidLoad => IInv'
<1> SUFFICES ASSUME IInv, viewDidLoad PROVE IInv'
  OBVIOUS
<1>1. UNCHANGED <<created, userVars>> /\ worker' = Untold(worker) /\ mutations' = AllUntold
  BY DEF viewDidLoad
<1>2. QueuesAgree' /\ worker' \in Seq(Write) /\ mutations' \in [Emails -> Seq(Write)]
  BY <1>1, QueuesUntold
<1>3. /\ array' \in Seq(ToDoElementsModel) /\ shown' \in Seq(ToDoElementsModel)
      /\ DOMAIN paths' \subseteq Keys /\ paths' \in [DOMAIN paths' -> Paths]
      /\ count' \in Int /\ CountsAgree' /\ PathsSound' /\ array' \in Seq(KnownTasks')
  BY ListEmptied DEF viewDidLoad
<1>4. StoreAgrees(server)' /\ StoreAgrees(snapshot)'
  BY DEF IInv, viewDidLoad, StoreAgrees, Agrees
<1>5. ahead' \in Nat
  BY LenProperties DEF IInv, TypeOK, viewDidLoad
<1>6. {currentUser, sender, owner}' \subseteq Emails
  BY DEF IInv, TypeOK, viewDidLoad, userVars
<1>7. AccountsAgree'
  BY DEF IInv, AccountsAgree, viewDidLoad, userVars
<1>8. TypeOK'
  BY <1>2, <1>3, <1>5, <1>6 DEF IInv, TypeOK, viewDidLoad, userVars
<1> QED BY <1>2, <1>3, <1>4, <1>7, <1>8 DEF IInv

\* A new process finds the persistent queues and nothing else.
LEMMA RelaunchStep == IInv /\ Relaunch => IInv'
<1> SUFFICES ASSUME IInv, Relaunch PROVE IInv'
  OBVIOUS
<1>1. UNCHANGED <<created, userVars>> /\ worker' = << >> /\ mutations' = AllUntold
  BY DEF Relaunch
<1>2. QueuesAgree' /\ worker' \in Seq(Write) /\ mutations' \in [Emails -> Seq(Write)]
  BY <1>1, QueuesUntold
<1>3. /\ array' \in Seq(ToDoElementsModel) /\ shown' \in Seq(ToDoElementsModel)
      /\ DOMAIN paths' \subseteq Keys /\ paths' \in [DOMAIN paths' -> Paths]
      /\ count' \in Int /\ CountsAgree' /\ PathsSound' /\ array' \in Seq(KnownTasks')
  BY ListEmptied DEF Relaunch
<1>4. StoreAgrees(server)'
  BY DEF IInv, Relaunch, StoreAgrees, Agrees
<1>5. snapshot' \in [DocIds -> Stored] /\ StoreAgrees(snapshot)'
  BY EmptySnapshot DEF Relaunch, AbandonLoad, StoreAgrees, Agrees, NoSnapshot
<1>6. AccountsAgree' /\ {currentUser, sender, owner}' \subseteq Emails
  BY DEF IInv, TypeOK, AccountsAgree, Relaunch, AbandonLoad, userVars
<1>7. TypeOK'
  BY <1>2, <1>3, <1>5, <1>6 DEF IInv, TypeOK, Relaunch, AbandonLoad, userVars
<1> QED BY <1>2, <1>3, <1>4, <1>5, <1>6, <1>7 DEF IInv

\* A sign-in adds to the accounts a write may be for.
LEMMA SignInStep ==
  ASSUME IInv, NEW e \in Emails, SignIn(e)
  PROVE  IInv'
<1>1. /\ UNCHANGED <<storeVars, loadVars, listVars, screenVars>>
      /\ currentUser' = e /\ signedIn' = signedIn \cup {e}
      /\ switched' = (switched \/ screen = "tasks" \/ adding)
  BY DEF SignIn
<1>2. GoodWrites \subseteq GoodWrites'
  <2> SUFFICES ASSUME NEW w \in GoodWrites PROVE w \in GoodWrites'
    OBVIOUS
  <2>1. w.user \in signedIn /\ created[w.id].email \in Reach(w.user)
    BY DEF GoodWrites
  <2>2. w.user \in signedIn' /\ created[w.id].email \in Reach(w.user)'
    BY <1>1, <2>1 DEF Reach
  <2>3. Agrees(w.id, w.entry)' = Agrees(w.id, w.entry)
    BY <1>1 DEF Agrees, storeVars
  <2> QED BY <1>1, <2>2, <2>3 DEF GoodWrites, storeVars
<1>3. QueuesAgree'
  <2>1. worker' \in Seq(GoodWrites')
    BY <1>1, <1>2, SeqMonotonic DEF IInv, QueuesAgree, storeVars
  <2>2. /\ mutations' = [u \in Emails |-> mutations'[u]]
        /\ \A u \in Emails : mutations'[u] \in Seq(QueueOf(u))
    BY <1>1 DEF IInv, TypeOK, QueuesAgree, storeVars
  <2> QED BY <1>2, <2>1, <2>2, QueuesNext
<1>4. AccountsAgree'
  BY <1>1 DEF IInv, AccountsAgree, loadVars, screenVars
<1>5. PathsSound'
  <2>1. Owners \subseteq Owners'
    BY <1>1 DEF IInv, AccountsAgree, Owners, loadVars
  <2> QED BY <1>1, <2>1 DEF IInv, PathsSound, storeVars, listVars
<1>6. TypeOK'
  <2>1. {currentUser, sender, owner}' \subseteq Emails /\ signedIn' \subseteq Emails
        /\ switched' \in BOOLEAN
    BY <1>1 DEF IInv, TypeOK, storeVars, loadVars
  <2>2. signIns' \in 0..MaxSignIns
    BY BoundsAssumption DEF IInv, TypeOK, SignIn
  <2> QED BY <1>1, <2>1, <2>2 DEF IInv, TypeOK, storeVars, loadVars, listVars, screenVars
<1>7. /\ CountsAgree' /\ StoreAgrees(server)' /\ StoreAgrees(snapshot)'
      /\ array' \in Seq(KnownTasks')
  BY <1>1 DEF IInv, CountsAgree, StoreAgrees, Agrees, KnownTasks, storeVars, loadVars, listVars
<1> QED BY <1>3, <1>4, <1>5, <1>6, <1>7 DEF IInv

\* Steps of the store and of the query leave the list as it is.
LEMMA ListUntouched ==
  ASSUME IInv, UNCHANGED <<created, userVars, owner, listVars>>
  PROVE  CountsAgree' /\ PathsSound' /\ array' \in Seq(KnownTasks')
BY DEF IInv, CountsAgree, PathsSound, Owners, KnownTasks, userVars, listVars

\* The worker queue turns to the query, or to another account.
LEMMA RunListenStep == IInv /\ (RunListen \/ HandleCredentialChange) => IInv'
<1> SUFFICES ASSUME IInv, RunListen \/ HandleCredentialChange PROVE IInv'
  OBVIOUS
<1>1. UNCHANGED <<server, mutations, worker, created, userVars, owner, ahead, snapshot,
                  listVars, screenVars>>
  BY DEF RunListen, HandleCredentialChange, storeVars, loadVars
<1>2. load' \in {"idle", "requested", "listening", "answered"} /\ sender' \in Emails
  <2>1. NextCaller \in Emails
    <3>1. worker # << >> => Head(worker) \in Write
      BY HeadTailProperties DEF IInv, TypeOK
    <3> QED BY <3>1 DEF NextCaller, IInv, TypeOK, Write
  <2> QED BY <2>1 DEF RunListen, HandleCredentialChange, IInv, TypeOK, storeVars, loadVars
<1>3. TypeOK'
  BY <1>1, <1>2 DEF IInv, TypeOK, userVars, listVars, screenVars
<1>4. StoreAgrees(server)' /\ StoreAgrees(snapshot)'
  BY <1>1 DEF IInv, StoreAgrees, Agrees
<1>5. AccountsAgree' /\ QueuesAgree'
  BY <1>1, AccountsUntouched, QueuesUntouched DEF screenVars
<1> QED BY <1>1, <1>3, <1>4, <1>5, ListUntouched DEF IInv

\* The snapshot of a query shows documents that agree with their ids.
LEMMA AnswerQueryStep == IInv /\ AnswerQuery => IInv'
<1> SUFFICES ASSUME IInv, AnswerQuery PROVE IInv'
  OBVIOUS
<1>1. PICK cached \in SUBSET DocIds :
         /\ UNCHANGED <<storeVars, userVars, owner, listVars, screenVars>>
         /\ snapshot' = QueryView(cached)
  BY DEF AnswerQuery
<1> DEFINE base == [id \in DocIds |-> IF id \in cached THEN server[id] ELSE NoDoc]
<1>2. base \in [DocIds -> Stored] /\ StoreAgrees(base)
  BY DEF IInv, TypeOK, Stored, StoreAgrees, Agrees
<1>3. snapshot' \in [DocIds -> Stored] /\ StoreAgrees(QueryView(cached))
  <2> HIDE DEF base
  <2>1. QueueOf(sender) \subseteq GoodWrites /\ mutations[sender] \in Seq(QueueOf(sender))
    BY DEF IInv, TypeOK, QueuesAgree, QueueOf
  <2>2. /\ Overlay(base, mutations[sender]) \in [DocIds -> Stored]
        /\ StoreAgrees(Overlay(base, mutations[sender]))
    BY <1>2, <2>1, OverlayAgrees
  <2>3. QueryView(cached) = Overlay(base, mutations[sender])
    BY DEF QueryView, base
  <2> QED BY <1>1, <2>2, <2>3
<1>4. StoreAgrees(snapshot)' /\ StoreAgrees(server)'
  BY <1>1, <1>3 DEF IInv, StoreAgrees, Agrees, storeVars
<1>5. QueuesAgree' /\ AccountsAgree'
  BY <1>1, QueuesUntouched, AccountsUntouched DEF storeVars, screenVars
<1>6. TypeOK'
  BY <1>3 DEF IInv, TypeOK, AnswerQuery, storeVars, userVars, listVars, screenVars
<1> QED BY <1>1, <1>4, <1>5, <1>6, ListUntouched DEF IInv, storeVars

\* The error branch of loadTasks recomputes the count from the same array.
LEMMA LoadFailedStep == IInv /\ LoadFailed => IInv'
<1> SUFFICES ASSUME IInv, LoadFailed PROVE IInv'
  OBVIOUS
<1>1. UNCHANGED <<storeVars, userVars, owner, snapshot, array, paths, screen, adding>>
  BY DEF LoadFailed
<1>2. count' = Len(array) /\ shown' = array
  BY DEF LoadFailed
<1>3. array \in Seq(ToDoElementsModel) /\ Len(array) \in Nat
  BY LenProperties DEF IInv, TypeOK
<1>4. alert' \in BOOLEAN
  BY DEF IInv, TypeOK, LoadFailed
<1>5. TypeOK'
  BY <1>1, <1>2, <1>3, <1>4 DEF IInv, TypeOK, LoadFailed, storeVars, userVars
<1>6. CountsAgree' /\ PathsSound' /\ array' \in Seq(KnownTasks')
  BY <1>1, <1>2 DEF IInv, CountsAgree, PathsSound, Owners, KnownTasks, storeVars, userVars
<1>7. StoreAgrees(server)' /\ StoreAgrees(snapshot)'
  BY <1>1 DEF IInv, StoreAgrees, Agrees, storeVars
<1>8. QueuesAgree' /\ AccountsAgree'
  BY <1>1, QueuesUntouched, AccountsUntouched DEF storeVars
<1> QED BY <1>5, <1>6, <1>7, <1>8 DEF IInv

\* Leaving the list drops the query and changes no row.
LEMMA GoBackStep == IInv /\ GoBack => IInv'
<1> SUFFICES ASSUME IInv, GoBack PROVE IInv'
  OBVIOUS
<1>1. /\ UNCHANGED <<storeVars, userVars, owner, listVars, adding>> /\ snapshot' = NoSnapshot
      /\ screen' = "welcome"
  BY DEF GoBack, AbandonLoad
<1>2. snapshot' \in [DocIds -> Stored] /\ StoreAgrees(snapshot)'
  BY <1>1, EmptySnapshot DEF StoreAgrees, Agrees, NoSnapshot
<1>3. StoreAgrees(server)' /\ QueuesAgree' /\ AccountsAgree'
  BY <1>1, QueuesUntouched, AccountsUntouched DEF IInv, StoreAgrees, Agrees, storeVars
<1>4. TypeOK'
  BY <1>1, <1>2 DEF IInv, TypeOK, GoBack, AbandonLoad, storeVars, userVars, listVars
<1> QED BY <1>1, <1>2, <1>3, <1>4, ListUntouched DEF IInv, storeVars

\* A write keeps what is asked of it when the worker queue executes it.
LEMMA PersistWriteStep == IInv /\ PersistWrite => IInv'
<1> SUFFICES ASSUME IInv, PersistWrite PROVE IInv'
  OBVIOUS
<1> DEFINE w == Head(worker)
<1>1. /\ UNCHANGED <<server, created, sender, userVars, owner, snapshot, listVars, screenVars>>
      /\ worker # << >> /\ worker' = Tail(worker) /\ sender = w.user
      /\ mutations' = [mutations EXCEPT ![sender] = Append(@, w)]
  BY DEF PersistWrite, NextCaller
<1>2. w \in GoodWrites /\ Tail(worker) \in Seq(GoodWrites)
  BY <1>1, HeadTailProperties DEF IInv, QueuesAgree
<1> HIDE DEF w
<1>3. \A u \in Emails : mutations'[u] = IF u = sender THEN Append(mutations[u], w)
                                                     ELSE mutations[u]
  BY <1>1 DEF IInv, TypeOK
<1>4. \A u \in Emails : mutations'[u] \in Seq(QueueOf(u))
  <2> TAKE u \in Emails
  <2>1. mutations[u] \in Seq(QueueOf(u))
    BY DEF IInv, QueuesAgree
  <2>2. CASE u = sender
    <3>1. w \in QueueOf(u)
      BY <1>1, <1>2, <2>2 DEF QueueOf
    <3>2. Append(mutations[u], w) \in Seq(QueueOf(u))
      BY <2>1, <3>1, AppendProperties
    <3> QED BY <1>3, <2>2, <3>2
  <2>3. CASE u # sender
    BY <1>3, <2>1, <2>3
  <2> QED BY <2>2, <2>3
<1>5. QueuesAgree' /\ worker' \in Seq(Write) /\ mutations' \in [Emails -> Seq(Write)]
  <2>1. mutations' = [u \in Emails |-> mutations'[u]]
    BY <1>1 DEF IInv, TypeOK
  <2>2. GoodWrites' = GoodWrites
    BY <1>1, SameIds
  <2> QED BY <1>1, <1>2, <1>4, <2>1, <2>2, QueuesNext
<1>6. StoreAgrees(server)' /\ StoreAgrees(snapshot)'
  BY <1>1 DEF IInv, StoreAgrees, Agrees
<1>7. ahead' \in Nat
  BY DEF IInv, TypeOK, PersistWrite
<1>8. TypeOK'
  BY <1>1, <1>5, <1>7 DEF IInv, TypeOK, PersistWrite, userVars, listVars, screenVars
<1>9. AccountsAgree'
  BY <1>1, AccountsUntouched DEF screenVars
<1> QED BY <1>1, <1>5, <1>6, <1>8, <1>9, ListUntouched DEF IInv

\* The write the server settles, and the queues without it.
LEMMA SettleStep ==
  ASSUME IInv, mutations[sender] # << >>, UNCHANGED <<created, worker, userVars>>, Settle
  PROVE  /\ Oldest \in QueueOf(sender)
         /\ QueuesAgree' /\ worker' \in Seq(Write) /\ mutations' \in [Emails -> Seq(Write)]
<1>1. sender \in Emails /\ mutations[sender] \in Seq(QueueOf(sender))
  BY DEF IInv, TypeOK, QueuesAgree
<1>2. Oldest \in QueueOf(sender) /\ Tail(mutations[sender]) \in Seq(QueueOf(sender))
  BY <1>1, HeadTailProperties DEF Oldest
<1>3. /\ mutations' = [u \in Emails |-> mutations'[u]]
      /\ \A u \in Emails : mutations'[u] = IF u = sender THEN Tail(mutations[u])
                                                        ELSE mutations[u]
  BY DEF IInv, TypeOK, Settle
<1>4. \A u \in Emails : mutations'[u] \in Seq(QueueOf(u))
  BY <1>2, <1>3 DEF IInv, QueuesAgree
<1>5. GoodWrites' = GoodWrites
  BY SameIds
<1>6. worker' \in Seq(GoodWrites)
  BY DEF IInv, QueuesAgree
<1> QED BY <1>2, <1>3, <1>4, <1>5, <1>6, QueuesNext

\* The server takes over a write that agrees with its id.
LEMMA ServerAckStep == IInv /\ ServerAck => IInv'
<1> SUFFICES ASSUME IInv, ServerAck PROVE IInv'
  OBVIOUS
<1>1. /\ UNCHANGED <<created, worker, sender, userVars, owner, snapshot, listVars, screenVars>>
      /\ mutations[sender] # << >> /\ Settle
      /\ server' = [server EXCEPT ![Oldest.id] = Oldest.entry]
  BY DEF ServerAck, loadVars
<1>2. /\ Oldest \in QueueOf(sender)
      /\ QueuesAgree' /\ worker' \in Seq(Write) /\ mutations' \in [Emails -> Seq(Write)]
  BY <1>1, SettleStep
<1>3. Oldest.id \in DocIds /\ Oldest.entry \in Stored /\ Agrees(Oldest.id, Oldest.entry)
  BY <1>2 DEF QueueOf, GoodWrites, Write
<1>4. server' \in [DocIds -> Stored]
  BY <1>1, <1>3 DEF IInv, TypeOK
<1>5. StoreAgrees(server)'
  <2>1. \A id \in DocIds : server'[id] = IF id = Oldest.id THEN Oldest.entry ELSE server[id]
    BY <1>1 DEF IInv, TypeOK
  <2>2. \A id \in DocIds : Agrees(id, server'[id])
    BY <1>3, <2>1 DEF IInv, StoreAgrees
  <2> QED BY <1>1, <2>2 DEF StoreAgrees, Agrees
<1>6. StoreAgrees(snapshot)'
  BY <1>1 DEF IInv, StoreAgrees, Agrees
<1>7. TypeOK'
  BY <1>1, <1>2, <1>4 DEF IInv, TypeOK, ServerAck, userVars, loadVars, listVars, screenVars
<1>8. AccountsAgree'
  BY <1>1, AccountsUntouched DEF screenVars
<1> QED BY <1>1, <1>2, <1>5, <1>6, <1>7, <1>8, ListUntouched DEF IInv

\* A refused write is forgotten, and the list is left if it was an addDocument.
LEMMA ServerRejectStep == IInv /\ ServerReject => IInv'
<1> SUFFICES ASSUME IInv, ServerReject PROVE IInv'
  OBVIOUS
<1>1. /\ UNCHANGED <<server, created, worker, sender, userVars, listVars, adding>>
      /\ mutations[sender] # << >> /\ Settle
  BY DEF ServerReject
<1>2. QueuesAgree' /\ worker' \in Seq(Write) /\ mutations' \in [Emails -> Seq(Write)]
  BY <1>1, SettleStep
<1>3. AbandonLoad \/ UNCHANGED loadVars
  BY DEF ServerReject
<1>4. /\ snapshot' \in [DocIds -> Stored] /\ ahead' \in Nat /\ owner' = owner
      /\ load' \in {"idle", "requested", "listening", "answered"}
  BY <1>3, EmptySnapshot DEF IInv, TypeOK, AbandonLoad, loadVars
<1>5. StoreAgrees(snapshot)'
  <2>1. CASE AbandonLoad
    BY <2>1 DEF AbandonLoad, StoreAgrees, Agrees, NoSnapshot
  <2>2. CASE UNCHANGED loadVars
    BY <1>1, <2>2 DEF IInv, StoreAgrees, Agrees, loadVars
  <2> QED BY <1>3, <2>1, <2>2
<1>6. StoreAgrees(server)'
  BY <1>1 DEF IInv, StoreAgrees, Agrees
<1>7. /\ isEditing' \in BOOLEAN /\ adding' \in BOOLEAN /\ alert' \in BOOLEAN
      /\ screen' \in {"welcome", "tasks"} /\ app' \in {"running", "crashed"}
      /\ screen' = "tasks" => screen = "tasks"
  BY DEF IInv, TypeOK, ServerReject
<1>8. TypeOK'
  BY <1>1, <1>2, <1>4, <1>7 DEF IInv, TypeOK, userVars, listVars
<1>9. AccountsAgree'
  BY <1>1, <1>4, <1>7, AccountsUntouched
<1> QED BY <1>1, <1>2, <1>4, <1>5, <1>6, <1>8, <1>9, ListUntouched DEF IInv

\* Moving a row permutes array and the rows shown (moveRowAt).
LEMMA moveRowAtStep ==
  ASSUME IInv, NEW i, NEW j, moveRowAt(i, j)
  PROVE  IInv'
<1>1. /\ array \in Seq(ToDoElementsModel) /\ Len(array) \in Nat /\ DOMAIN array = 1..Len(array)
      /\ shown \in Seq(ToDoElementsModel) /\ Len(shown) = Len(array)
  BY LenProperties DEF IInv, TypeOK, CountsAgree
<1>2. i \in 1..Len(array) /\ j \in 1..Len(array)
  BY <1>1 DEF moveRowAt
<1>3. array' \in Seq(ToDoElementsModel) /\ Len(array') = Len(array)
  BY <1>1, <1>2, SwapSeq DEF moveRowAt
<1>4. array' \in Seq(KnownTasks')
  <2>1. array' \in Seq(KnownTasks)
    BY <1>2, SwapSeq DEF moveRowAt, IInv
  <2> QED BY <2>1 DEF moveRowAt, KnownTasks
<1>5. shown' \in Seq(ToDoElementsModel) /\ Len(shown') = Len(array)
  <2> DEFINE rest == RemoveAt(shown, i)
  <2>1. rest \in Seq(ToDoElementsModel) /\ Len(rest) = Len(array) - 1
    BY <1>1, <1>2, RemoveAtSeq
  <2>2. j \in 1..(Len(rest) + 1)
    BY <1>1, <1>2, <2>1
  <2>3. shown[i] \in ToDoElementsModel
    BY <1>1, <1>2, ElementOfSeq
  <2>4. InsertAt(rest, j, shown[i]) \in Seq(ToDoElementsModel)
    <3> HIDE DEF rest
    <3> QED BY <2>1, <2>2, <2>3, InsertAtSeq
  <2>5. Len(InsertAt(rest, j, shown[i])) = Len(rest) + 1
    <3> HIDE DEF rest
    <3> QED BY <2>1, <2>2, <2>3, InsertAtSeq
  <2>6. shown' = InsertAt(rest, j, shown[i])
    BY DEF moveRowAt
  <2> HIDE DEF rest
  <2> QED BY <1>1, <2>1, <2>4, <2>5, <2>6
<1>6. UNCHANGED <<storeVars, userVars, loadVars, paths, count, screenVars>>
  BY DEF moveRowAt
<1>7. CountsAgree' /\ PathsSound'
  BY <1>3, <1>5, <1>6 DEF IInv, CountsAgree, PathsSound, Owners, storeVars, userVars, loadVars
<1>8. StoreAgrees(server)' /\ StoreAgrees(snapshot)'
  BY <1>6 DEF IInv, StoreAgrees, Agrees, storeVars, loadVars
<1>9. TypeOK'
  BY <1>3, <1>5, <1>6 DEF IInv, TypeOK, storeVars, userVars, loadVars, screenVars
<1>10. QueuesAgree' /\ AccountsAgree'
  BY <1>6, QueuesUntouched, AccountsUntouched DEF storeVars, loadVars, screenVars
<1> QED BY <1>4, <1>7, <1>8, <1>9, <1>10 DEF IInv

\* Deleting a row keeps count, rows and keys together (commit, deleteFromDb).
LEMMA commitDeleteStep ==
  ASSUME IInv, NEW i, commitDelete(i)
  PROVE  IInv'
<1> DEFINE key == KeyOf(array[i])
           id == documentOf(paths[key])
           del == [id |-> id, entry |-> NoDoc, tells |-> FALSE, user |-> currentUser]
<1>1. /\ array \in Seq(ToDoElementsModel) /\ Len(array) \in Nat /\ DOMAIN array = 1..Len(array)
      /\ i \in 1..Len(array)
  BY LenProperties DEF IInv, TypeOK, commitDelete
<1>2. key \in DOMAIN paths /\ IsDocumentPath(paths[key]) /\ paths[key] \in Paths
  BY DEF commitDelete, DeleteTraps, IInv, TypeOK
<1>3. id \in DocIds
  <2>1. PICK d \in DocIds : paths[key] = createpath(refPath(d))
    BY <1>2 DEF Paths, IsDocumentPath
  <2> QED BY <2>1, PathOfDocument
<1>4. PICK e \in Owners : created[id] = [email |-> e, name |-> key[1], time |-> key[2]]
  <2> HIDE DEF key
  <2> QED BY <1>2 DEF IInv, PathsSound
<1>5. created[id] # NoDoc /\ created[id].email \in Reach(currentUser)
  <2>1. array[i] \in ToDoElementsModel /\ e \in Emails
    BY <1>1, ElementOfSeq DEF IInv, TypeOK, Owners
  <2>2. created[id] \in Owner
    BY <1>4, <2>1 DEF KeyOf, createString, ToDoElementsModel, Owner
  <2>3. created[id].email = e
    BY <1>4
  <2>4. Owners = Reach(currentUser)
    BY DEF IInv, AccountsAgree, commitDelete, ListInFront, Owners, Reach
  <2> QED BY <2>2, <2>3, <2>4, NoDocAssumption
<1>6. del \in GoodWrites
  <2>1. currentUser \in Emails /\ currentUser \in signedIn
    BY DEF IInv, TypeOK, AccountsAgree
  <2> HIDE DEF id
  <2> QED BY <1>3, <1>5, <2>1 DEF GoodWrites, Write, Stored, Agrees
<1>7. /\ worker' = Append(worker, del)
      /\ UNCHANGED <<server, mutations, created, sender, userVars, loadVars, paths, screenVars>>
  BY DEF commitDelete
<1>8. Append(worker, del) \in Seq(GoodWrites)
  <2> HIDE DEF del
  <2> QED BY <1>6, AppendProperties DEF IInv, QueuesAgree
<1>9. QueuesAgree' /\ worker' \in Seq(Write) /\ mutations' \in [Emails -> Seq(Write)]
  <2>1. /\ mutations' = [u \in Emails |-> mutations'[u]]
        /\ \A u \in Emails : mutations'[u] \in Seq(QueueOf(u))
    BY <1>7 DEF IInv, TypeOK, QueuesAgree
  <2>2. GoodWrites' = GoodWrites
    BY <1>7, SameIds
  <2> QED BY <1>7, <1>8, <2>1, <2>2, QueuesNext
<1>10. array' = RemoveAt(array, i) /\ shown' = array' /\ count' = count - 1
  BY DEF commitDelete
<1>11. array' \in Seq(ToDoElementsModel) /\ Len(array') = Len(array) - 1
  BY <1>1, <1>10, RemoveAtSeq
<1>12. array' \in Seq(KnownTasks')
  <2>1. array' \in Seq(KnownTasks)
    BY <1>1, <1>10, RemoveAtSeq DEF IInv
  <2> QED BY <1>7, <2>1 DEF KnownTasks
<1>13. CountsAgree' /\ PathsSound'
  <2>1. CountsAgree'
    BY <1>1, <1>7, <1>10, <1>11 DEF IInv, CountsAgree
  <2>2. UNCHANGED <<created, userVars, owner, paths>>
    BY <1>7 DEF loadVars
  <2> QED BY <2>1, <2>2 DEF IInv, PathsSound, Owners, userVars
<1>14. StoreAgrees(server)' /\ StoreAgrees(snapshot)'
  BY <1>7 DEF IInv, StoreAgrees, Agrees, loadVars
<1>15. TypeOK'
  BY <1>7, <1>9, <1>10, <1>11 DEF IInv, TypeOK, userVars, loadVars, screenVars
<1>16. AccountsAgree'
  BY <1>7, AccountsUntouched DEF loadVars, screenVars
<1> QED BY <1>9, <1>12, <1>13, <1>14, <1>15, <1>16 DEF IInv

\* Handing out a fresh id takes nothing from what holds of the others.
LEMMA FreshId ==
  ASSUME IInv, NEW id \in DocIds, created[id] = NoDoc,
         NEW o \in Owner, created' = [created EXCEPT ![id] = o], UNCHANGED userVars
  PROVE  /\ \A d \in DocIds : created[d] # NoDoc => created'[d] = created[d]
         /\ \A d \in DocIds, e \in Stored : Agrees(d, e) => Agrees(d, e)'
         /\ GoodWrites \subseteq GoodWrites'
<1>1. created \in [DocIds -> Owner \cup {NoDoc}]
  BY DEF IInv, TypeOK
<1>2. \A d \in DocIds : created[d] # NoDoc => created'[d] = created[d]
  BY <1>1
<1>3. ASSUME NEW d \in DocIds, NEW e \in Stored, Agrees(d, e)
      PROVE  Agrees(d, e)'
  <2>1. CASE e = NoDoc
    BY <2>1 DEF Agrees
  <2>2. CASE e # NoDoc
    <3>1. created[d] = OwnerOf(e) /\ e.path \in {EmptyPath, createpath(refPath(d))}
      BY <1>3, <2>2 DEF Agrees
    <3>2. OwnerOf(e) \in Owner
      BY <2>2 DEF Stored, Entry, Owner, OwnerOf
    <3>3. created'[d] = OwnerOf(e)
      BY <1>2, <3>1, <3>2, NoDocAssumption
    <3> QED BY <3>1, <3>3 DEF Agrees
  <2> QED BY <2>1, <2>2
<1>4. ASSUME NEW w \in GoodWrites
      PROVE  w \in GoodWrites'
  <2>1. w \in Write /\ w.id \in DocIds /\ w.entry \in Stored
    BY DEF GoodWrites, Write
  <2>2. /\ created[w.id] # NoDoc /\ created[w.id].email \in Reach(w.user)
        /\ w.user \in signedIn /\ Agrees(w.id, w.entry)
    BY DEF GoodWrites
  <2>3. created'[w.id] = created[w.id] /\ Agrees(w.id, w.entry)'
    BY <1>2, <1>3, <2>1, <2>2
  <2>4. Reach(w.user)' = Reach(w.user) /\ signedIn' = signedIn
    BY DEF Reach, userVars
  <2> QED BY <2>1, <2>2, <2>3, <2>4 DEF GoodWrites
<1> QED BY <1>2, <1>3, <1>4

\* Adding a row adds its key, with the path of the new document (passBackData).
LEMMA saveStep ==
  ASSUME IInv, NEW n \in Names \cup {Blank}, NEW t \in Times \cup {Blank, BadTime},
         save(n, t)
  PROVE  IInv'
<1>1. n \in Names /\ t \in Times
  BY DEF save
<1>2. PICK id \in DocIds : created[id] = NoDoc /\ passBackData(id, n, t)
  BY DEF save
<1> DEFINE path  == createpath(refPath(id))
           entry == [email |-> currentUser, name |-> n, time |-> t, path |-> EmptyPath]
           withPath == [entry EXCEPT !.path = path]
           add   == [id |-> id, entry |-> entry, tells |-> screen = "tasks",
                     user |-> currentUser]
           set   == [id |-> id, entry |-> withPath, tells |-> FALSE, user |-> currentUser]
           key   == createString(n, t)
           task  == [name |-> n, time |-> t]
           mine  == [email |-> currentUser, name |-> n, time |-> t]
<1>0. currentUser \in Emails /\ currentUser \in signedIn
  BY DEF IInv, TypeOK, AccountsAgree
<1>3. /\ created' = [created EXCEPT ![id] = OwnerOf(entry)]
      /\ worker' = worker \o <<add, set>>
      /\ paths' = [k \in DOMAIN paths \cup {key} |-> IF k = key THEN path ELSE paths[k]]
      /\ array' = Append(array, task) /\ shown' = array' /\ count' = count + 1
  BY <1>2 DEF passBackData, saveDataInDtabase
<1>4. /\ UNCHANGED <<server, mutations, sender, userVars, loadVars, isEditing, screen, alert, app>>
      /\ adding' = FALSE /\ FormInFront
  BY DEF save
<1>5. mine \in Owner /\ OwnerOf(entry) = mine /\ mine # NoDoc
  BY <1>0, <1>1, NoDocAssumption DEF Owner, OwnerOf
<1>6. created \in [DocIds -> Owner \cup {NoDoc}] /\ created' = [created EXCEPT ![id] = mine]
  BY <1>3, <1>5 DEF IInv, TypeOK
<1>7. /\ created' \in [DocIds -> Owner \cup {NoDoc}] /\ created'[id] = mine
      /\ \A d \in DocIds : created[d] # NoDoc => created'[d] = created[d]
      /\ \A d \in DocIds, e \in Stored : Agrees(d, e) => Agrees(d, e)'
      /\ GoodWrites \subseteq GoodWrites'
  <2> HIDE DEF mine
  <2> QED BY <1>2, <1>4, <1>5, <1>6, FreshId
<1>8. entry \in Entry /\ withPath \in Entry /\ OwnerOf(withPath) = mine
      /\ entry.path = EmptyPath /\ withPath.path = path
  BY <1>0, <1>1, PathOfDocument DEF Entry, Paths, OwnerOf
<1>9. add \in GoodWrites' /\ set \in GoodWrites'
  <2>1. /\ add.id = id /\ add.entry = entry /\ add.user = currentUser
        /\ set.id = id /\ set.entry = withPath /\ set.user = currentUser
    <3> HIDE DEF path, entry, withPath
    <3> QED OBVIOUS
  <2>2. add \in Write /\ set \in Write
    <3> HIDE DEF entry, withPath
    <3> QED BY <1>0, <1>8 DEF Write, Stored
  <2>3. ASSUME NEW e, e = entry \/ e = withPath PROVE Agrees(id, e)'
    <3>1. created'[id] = OwnerOf(entry) /\ created'[id] = OwnerOf(withPath)
      BY <1>5, <1>7, <1>8
    <3>2. entry.path = EmptyPath /\ withPath.path = createpath(refPath(id))
      BY <1>8
    <3> HIDE DEF entry, withPath
    <3> QED BY <2>3, <3>1, <3>2 DEF Agrees
  <2>4. /\ created'[id] # NoDoc /\ created'[id].email \in Reach(currentUser)
        /\ currentUser \in signedIn /\ signedIn' = signedIn /\ switched' = switched
    BY <1>0, <1>4, <1>5, <1>7 DEF Reach, userVars
  <2> HIDE DEF add, set, entry, withPath
  <2>6. ASSUME NEW w \in Write, w.id = id, w.user = currentUser,
               w.entry = entry \/ w.entry = withPath
        PROVE  w \in GoodWrites'
    <3>1. Agrees(w.id, w.entry)'
      BY <2>3, <2>6
    <3>2. /\ created'[w.id] # NoDoc /\ created'[w.id].email \in Reach(w.user)'
          /\ w.user \in signedIn'
      BY <2>4, <2>6 DEF Reach
    <3> QED BY <2>6, <3>1, <3>2 DEF GoodWrites
  <2> QED BY <2>1, <2>2, <2>6
<1>10. QueuesAgree' /\ worker' \in Seq(Write) /\ mutations' \in [Emails -> Seq(Write)]
  <2>1. worker \in Seq(GoodWrites')
    BY <1>7, SeqMonotonic DEF IInv, QueuesAgree
  <2>2. <<add, set>> \in Seq(GoodWrites')
    <3> HIDE DEF add, set
    <3> QED BY <1>9
  <2>3. worker' \in Seq(GoodWrites')
    <3> HIDE DEF add, set
    <3> QED BY <1>3, <2>1, <2>2, ConcatProperties
  <2>4. /\ mutations' = [u \in Emails |-> mutations'[u]]
        /\ \A u \in Emails : mutations'[u] \in Seq(QueueOf(u))
    BY <1>4 DEF IInv, TypeOK, QueuesAgree
  <2> QED BY <1>7, <2>3, <2>4, QueuesNext
<1>11. StoreAgrees(server)' /\ StoreAgrees(snapshot)'
  <2>1. /\ server' = server /\ snapshot' = snapshot
        /\ \A d \in DocIds : server[d] \in Stored /\ snapshot[d] \in Stored
    BY <1>4 DEF IInv, TypeOK, loadVars
  <2>2. \A d \in DocIds : Agrees(d, server[d]) /\ Agrees(d, snapshot[d])
    BY DEF IInv, StoreAgrees
  <2>3. \A d \in DocIds : Agrees(d, server[d])' /\ Agrees(d, snapshot[d])'
    BY <1>7, <2>1, <2>2 DEF Agrees
  <2> QED BY <2>3 DEF StoreAgrees
<1>12. /\ DOMAIN paths' = DOMAIN paths \cup {key} /\ paths'[key] = path
       /\ \A k \in DOMAIN paths : k # key => paths'[k] = paths[k]
       /\ key \in Keys /\ key[1] = n /\ key[2] = t
  BY <1>1, <1>3 DEF Keys, createString
<1>13. DOMAIN paths' \subseteq Keys /\ paths' \in [DOMAIN paths' -> Paths]
  <2> HIDE DEF path, key
  <2> QED BY <1>3, <1>12, PathOfDocument DEF path, IInv, TypeOK
<1>14. PathsSound'
  <2>0. Owners' = Owners /\ currentUser \in Owners
    BY <1>0, <1>4 DEF Owners, IInv, AccountsAgree, FormInFront, userVars, loadVars
  <2> SUFFICES ASSUME NEW k \in DOMAIN paths', IsDocumentPath(paths'[k])
               PROVE  \E e \in Owners :
                         created'[documentOf(paths'[k])] = [email |-> e, name |-> k[1], time |-> k[2]]
    BY <2>0 DEF PathsSound, IsDocumentPath, documentOf
  <2>1. CASE k = key
    BY <2>0, <2>1, <1>7, <1>12, PathOfDocument
  <2>2. CASE k # key
    <3>1. k \in DOMAIN paths /\ paths'[k] = paths[k]
      BY <2>2, <1>12
    <3>2. PICK e \in Owners :
             created[documentOf(paths[k])] = [email |-> e, name |-> k[1], time |-> k[2]]
      BY <3>1 DEF IInv, PathsSound
    <3>3. k[1] \in Names /\ k[2] \in Times /\ paths[k] \in Paths /\ e \in Emails
      BY <3>1 DEF IInv, TypeOK, Keys, Owners
    <3>4. created[documentOf(paths[k])] \in Owner
      BY <3>2, <3>3 DEF Owner
    <3>5. documentOf(paths[k]) \in DocIds
      <4>1. PICK d \in DocIds : paths[k] = createpath(refPath(d))
        BY <3>1, <3>3 DEF Paths, IsDocumentPath
      <4> QED BY <4>1, PathOfDocument
    <3> QED BY <1>7, <3>1, <3>2, <3>4, <3>5, NoDocAssumption
  <2> QED BY <2>1, <2>2
<1>15. /\ array \in Seq(ToDoElementsModel) /\ Len(array) \in Nat
       /\ task \in ToDoElementsModel /\ KeyOf(task) = key
  BY <1>1, LenProperties DEF IInv, TypeOK, ToDoElementsModel, KeyOf
<1>16. array' \in Seq(ToDoElementsModel) /\ Len(array') = Len(array) + 1
  <2> HIDE DEF task
  <2> QED BY <1>3, <1>15, AppendProperties
<1>17. array' \in Seq(KnownTasks')
  <2>1. KnownTasks \subseteq KnownTasks' /\ task \in KnownTasks'
    <3> HIDE DEF task, key
    <3> QED BY <1>12, <1>15 DEF KnownTasks
  <2>2. array \in Seq(KnownTasks')
    BY <2>1, SeqMonotonic DEF IInv
  <2> HIDE DEF task
  <2> QED BY <1>3, <2>1, <2>2, AppendProperties
<1>18. CountsAgree'
  BY <1>3, <1>15, <1>16 DEF IInv, CountsAgree
<1>19. TypeOK'
  <2>1. shown' \in Seq(ToDoElementsModel) /\ count' \in Int
    BY <1>3, <1>16 DEF IInv, TypeOK
  <2>2. created' \in [DocIds -> Owner \cup {NoDoc}]
    BY <1>7
  <2> HIDE DEF path, entry, withPath, add, set, key, task, mine
  <2> QED BY <1>4, <1>10, <1>13, <1>16, <2>1, <2>2 DEF IInv, TypeOK, userVars, loadVars
<1>20. AccountsAgree'
  BY <1>4, AccountsUntouched DEF loadVars
<1> QED BY <1>10, <1>11, <1>14, <1>17, <1>18, <1>19, <1>20 DEF IInv

\* The completion handler of loadTasks adds rows together with their keys.
LEMMA loadTasksStep == IInv /\ loadTasks => IInv'
<1> SUFFICES ASSUME IInv, loadTasks PROVE IInv'
  OBVIOUS
<1> DEFINE mine == MyDocuments(snapshot)
           keys == {KeyOf(snapshot[id]) : id \in mine}
           n == Cardinality(mine)
           task(id) == [name |-> snapshot[id].name, time |-> snapshot[id].time]
<1>1. mine \subseteq DocIds /\ n \in Nat
  <2>1. mine \subseteq DocIds
    BY DEF MyDocuments
  <2>2. IsFiniteSet(mine)
    BY <2>1, DocIdsAssumption, FS_Subset
  <2> QED BY <2>1, <2>2, FS_CardinalityType
<1>2. ASSUME NEW id \in mine
      PROVE  /\ snapshot[id] \in Entry /\ snapshot[id].email = owner
             /\ created[id] = OwnerOf(snapshot[id])
             /\ snapshot[id].path \in {EmptyPath, createpath(refPath(id))}
             /\ KeyOf(snapshot[id]) \in Keys
             /\ task(id) \in ToDoElementsModel /\ KeyOf(task(id)) = KeyOf(snapshot[id])
  <2>1. id \in DocIds /\ snapshot[id] # NoDoc /\ snapshot[id].email = owner
    BY DEF MyDocuments
  <2>2. snapshot[id] \in Entry /\ Agrees(id, snapshot[id])
    BY <2>1 DEF IInv, TypeOK, Stored, StoreAgrees
  <2>3. snapshot[id].name \in Names /\ snapshot[id].time \in Times
    BY <2>2 DEF Entry
  <2>4. KeyOf(snapshot[id]) \in Keys
    BY <2>3 DEF KeyOf, createString, Keys
  <2>5. task(id) \in ToDoElementsModel /\ KeyOf(task(id)) = KeyOf(snapshot[id])
    BY <2>3 DEF ToDoElementsModel, KeyOf, createString
  <2> QED BY <2>1, <2>2, <2>4, <2>5 DEF Agrees
<1>3. PICK order \in Orderings(mine) : array' = array \o [k \in 1..n |-> task(order[k])]
  BY DEF loadTasks
<1>4. PICK last \in [keys -> mine] :
        /\ \A key \in keys : KeyOf(snapshot[last[key]]) = key
        /\ paths' = [key \in DOMAIN paths \cup keys |->
                       IF key \in keys THEN snapshot[last[key]].path ELSE paths[key]]
  BY DEF loadTasks
<1>5. /\ shown' = array' /\ count' = Len(array') /\ load' = "idle" /\ snapshot' = NoSnapshot
      /\ UNCHANGED <<storeVars, userVars, owner, ahead, screenVars>>
  BY DEF loadTasks
<1>6. keys \subseteq Keys /\ DOMAIN paths' = DOMAIN paths \cup keys
  BY <1>2, <1>4
<1>7. ASSUME NEW key \in keys
      PROVE  /\ last[key] \in mine /\ KeyOf(snapshot[last[key]]) = key
             /\ paths'[key] = snapshot[last[key]].path /\ paths'[key] \in Paths
  <2>1. last[key] \in mine /\ KeyOf(snapshot[last[key]]) = key
    BY <1>4
  <2>2. paths'[key] = snapshot[last[key]].path
    BY <1>4
  <2> QED BY <1>2, <2>1, <2>2 DEF Entry
<1>8. \A key \in DOMAIN paths : key \notin keys => paths'[key] = paths[key]
  BY <1>4
<1>9. DOMAIN paths' \subseteq Keys /\ paths' \in [DOMAIN paths' -> Paths]
  <2>1. DOMAIN paths \subseteq Keys /\ \A key \in DOMAIN paths : paths[key] \in Paths
    BY DEF IInv, TypeOK
  <2>2. \A key \in DOMAIN paths' : paths'[key] \in Paths
    <3> HIDE DEF keys
    <3> QED BY <1>6, <1>7, <1>8, <2>1
  <2>3. paths' = [key \in DOMAIN paths' |-> paths'[key]]
    BY <1>4
  <2> HIDE DEF keys
  <2> QED BY <1>6, <2>1, <2>2, <2>3
<1>10. PathsSound'
  <2>0. Owners' = Owners /\ owner \in Owners
    BY <1>5 DEF Owners, IInv, AccountsAgree, userVars
  <2> SUFFICES ASSUME NEW key \in DOMAIN paths', IsDocumentPath(paths'[key])
               PROVE  \E e \in Owners :
                         created[documentOf(paths'[key])] = [email |-> e, name |-> key[1], time |-> key[2]]
    BY <1>5, <2>0 DEF PathsSound, IsDocumentPath, documentOf, storeVars
  <2>1. CASE key \in keys
    <3> DEFINE d == last[key]
    <3>1. d \in mine /\ KeyOf(snapshot[d]) = key /\ paths'[key] = snapshot[d].path
      BY <1>7, <2>1
    <3>2. paths'[key] = createpath(refPath(d))
      BY <1>2, <3>1 DEF IsDocumentPath
    <3>3. documentOf(paths'[key]) = d
      BY <1>1, <3>1, <3>2, PathOfDocument
    <3>4. created[d] = [email |-> owner, name |-> snapshot[d].name, time |-> snapshot[d].time]
      BY <1>2, <3>1 DEF OwnerOf
    <3>5. key[1] = snapshot[d].name /\ key[2] = snapshot[d].time
      BY <3>1 DEF KeyOf, createString
    <3> QED BY <2>0, <3>3, <3>4, <3>5
  <2>2. CASE key \notin keys
    <3>1. key \in DOMAIN paths /\ paths'[key] = paths[key]
      BY <1>6, <1>8, <2>2
    <3> QED BY <3>1 DEF IInv, PathsSound
  <2> QED BY <2>1, <2>2
<1>11. ASSUME NEW k \in 1..n
       PROVE  task(order[k]) \in ToDoElementsModel /\ task(order[k]) \in KnownTasks'
  <2>1. order[k] \in mine
    BY <1>3 DEF Orderings
  <2>2. KeyOf(snapshot[order[k]]) \in DOMAIN paths'
    BY <1>6, <2>1
  <2>3. task(order[k]) \in ToDoElementsModel /\ KeyOf(task(order[k])) = KeyOf(snapshot[order[k]])
    BY <1>2, <2>1
  <2> HIDE DEF task
  <2> QED BY <2>2, <2>3 DEF KnownTasks, KeyOf, createString
<1> DEFINE loaded == [k \in 1..n |-> task(order[k])]
<1>12. loaded \in Seq(ToDoElementsModel) /\ loaded \in Seq(KnownTasks')
  <2>1. loaded \in [1..n -> ToDoElementsModel] /\ loaded \in [1..n -> KnownTasks']
    <3> HIDE DEF task, n, mine
    <3> QED BY <1>11
  <2> HIDE DEF loaded, n
  <2> QED BY <1>1, <2>1, FcnIsSeq
<1>13. array' \in Seq(ToDoElementsModel) /\ Len(array') \in Nat
  <2> HIDE DEF loaded
  <2> QED BY <1>3, <1>12, ConcatProperties, LenProperties DEF loaded, IInv, TypeOK
<1>14. array' \in Seq(KnownTasks')
  <2>1. KnownTasks \subseteq KnownTasks'
    <3> HIDE DEF keys
    <3> QED BY <1>6 DEF KnownTasks, KeyOf, createString
  <2>2. array \in Seq(KnownTasks')
    BY <2>1, SeqMonotonic DEF IInv
  <2>3. array' = array \o loaded
    BY <1>3
  <2> HIDE DEF loaded
  <2> QED BY <1>12, <2>2, <2>3, ConcatProperties
<1>15. CountsAgree'
  BY <1>5 DEF CountsAgree
<1>16. StoreAgrees(server)' /\ StoreAgrees(snapshot)' /\ QueuesAgree' /\ AccountsAgree'
  <2>1. StoreAgrees(snapshot)'
    BY <1>5 DEF StoreAgrees, Agrees, NoSnapshot
  <2>2. QueuesAgree' /\ AccountsAgree'
    BY <1>5, QueuesUntouched, AccountsUntouched DEF storeVars, screenVars
  <2> QED BY <1>5, <2>1, <2>2 DEF IInv, StoreAgrees, Agrees, storeVars
<1>17. TypeOK'
  <2>1. shown' \in Seq(ToDoElementsModel) /\ count' \in Int /\ snapshot' \in [DocIds -> Stored]
    BY <1>5, <1>13, EmptySnapshot
  <2> QED BY <1>5, <1>9, <1>13, <2>1 DEF IInv, TypeOK, storeVars, userVars, screenVars
<1> QED BY <1>10, <1>14, <1>15, <1>16, <1>17 DEF IInv

\* Every step keeps the invariant.
LEMMA NextIInv == IInv /\ [Next]_vars => IInv'
<1> SUFFICES ASSUME IInv, [Next]_vars PROVE IInv'
  OBVIOUS
<1>1. CASE UserStep
  <2>1. CASE viewDidLoad
    BY <2>1, viewDidLoadStep
  <2>2. CASE AddTask \/ cancel \/ editing \/ DismissAlert
    <3>1. UNCHANGED <<storeVars, userVars, loadVars, listVars>>
      BY <2>2 DEF AddTask, cancel, editing, DismissAlert
    <3>2. /\ isEditing \in BOOLEAN /\ adding \in BOOLEAN /\ alert \in BOOLEAN
          /\ screen \in {"welcome", "tasks"} /\ app \in {"running", "crashed"}
      BY DEF IInv, TypeOK
    <3>3. /\ isEditing' \in BOOLEAN /\ adding' \in BOOLEAN /\ alert' \in BOOLEAN
      BY <2>2, <3>2 DEF AddTask, cancel, editing, DismissAlert
    <3>4. /\ screen' \in {"welcome", "tasks"} /\ app' \in {"running", "crashed"}
          /\ screen' = "tasks" \/ adding' => screen = "tasks" \/ adding
      BY <2>2, <3>2 DEF AddTask, cancel, editing, DismissAlert, ListInFront, FormInFront
    <3> QED BY <3>1, <3>3, <3>4, ScreenStep
  <2>3. CASE GoBack
    BY <2>3, GoBackStep
  <2>4. ASSUME NEW n \in Names \cup {Blank}, NEW t \in Times \cup {Blank, BadTime}, save(n, t)
        PROVE  IInv'
    BY <2>4, saveStep
  <2>5. ASSUME NEW n \in Names \cup {Blank}, NEW t \in Times \cup {Blank, BadTime}, SaveRefused(n, t)
        PROVE  IInv'
    <3>1. UNCHANGED <<storeVars, userVars, loadVars, listVars>>
      BY <2>5 DEF SaveRefused
    <3>2. /\ isEditing' \in BOOLEAN /\ adding' \in BOOLEAN /\ alert' \in BOOLEAN
          /\ screen' \in {"welcome", "tasks"} /\ app' \in {"running", "crashed"}
          /\ screen' = "tasks" \/ adding' => screen = "tasks" \/ adding
      BY <2>5 DEF SaveRefused, IInv, TypeOK
    <3> QED BY <3>1, <3>2, ScreenStep
  <2>6. ASSUME NEW i \in DOMAIN array, commitDelete(i)
        PROVE  IInv'
    BY <2>6, commitDeleteStep
  <2>7. ASSUME NEW i \in DOMAIN array, commitDeleteTrap(i)
        PROVE  IInv'
    <3>1. UNCHANGED <<storeVars, userVars, loadVars, listVars>>
      BY <2>7 DEF commitDeleteTrap
    <3>2. /\ isEditing' \in BOOLEAN /\ adding' \in BOOLEAN /\ alert' \in BOOLEAN
          /\ screen' \in {"welcome", "tasks"} /\ app' \in {"running", "crashed"}
          /\ screen' = "tasks" \/ adding' => screen = "tasks" \/ adding
      BY <2>7 DEF commitDeleteTrap, IInv, TypeOK
    <3> QED BY <3>1, <3>2, ScreenStep
  <2>8. ASSUME NEW i \in DOMAIN array, NEW j \in DOMAIN array, moveRowAt(i, j)
        PROVE  IInv'
    BY <2>8, moveRowAtStep
  <2>9. ASSUME NEW e \in Emails, SignIn(e)
        PROVE  IInv'
    BY <2>9, SignInStep
  <2> QED BY <1>1, <2>1, <2>2, <2>3, <2>4, <2>5, <2>6, <2>7, <2>8, <2>9 DEF UserStep
<1>2. CASE SystemStep
  BY <1>2, RunListenStep, AnswerQueryStep, LoadFailedStep, loadTasksStep, PersistWriteStep,
     ServerAckStep, ServerRejectStep, RelaunchStep DEF SystemStep
<1>3. CASE UNCHANGED vars
  <2>1. UNCHANGED <<storeVars, userVars, loadVars, listVars>> /\ UNCHANGED screenVars
    BY <1>3 DEF vars
  <2>2. /\ isEditing' \in BOOLEAN /\ adding' \in BOOLEAN /\ alert' \in BOOLEAN
        /\ screen' \in {"welcome", "tasks"} /\ app' \in {"running", "crashed"}
        /\ screen' = "tasks" \/ adding' => screen = "tasks" \/ adding
    BY <2>1 DEF screenVars, IInv, TypeOK
  <2> QED BY <2>1, <2>2, ScreenStep
<1> QED BY <1>1, <1>2, <1>3 DEF Next

\* The inductive invariant holds in every reachable state.
LEMMA AlwaysIInv == Spec => []IInv
BY InitIInv, NextIInv, PTL DEF Spec

-----------------------------------------------------------------------------
(***************************************************************************)
(* The results.                                                            *)
(***************************************************************************)

\* Every variable of the two controllers and of the store keeps its type.
THEOREM TypeCorrect == Spec => []TypeOK
<1>1. IInv => TypeOK
  BY DEF IInv
<1> QED BY <1>1, AlwaysIInv, PTL

\* The label, the array and the table view always count the same rows, so
\* insertRows and deleteRows never raise UIKit's inconsistency exception.
THEOREM CountsAlwaysAgree == Spec => []CountsAgree
<1>1. IInv => CountsAgree
  BY DEF IInv
<1> QED BY <1>1, AlwaysIInv, PTL

\* deleteFromDb never unwraps nil: every row's key is in paths.
THEOREM PathsAlwaysKnown == Spec => []PathsKnown
<1>1. IInv => PathsKnown
  <2> SUFFICES ASSUME IInv, NEW i \in DOMAIN array
               PROVE  KeyOf(array[i]) \in DOMAIN paths
    BY DEF PathsKnown
  <2>1. array[i] \in KnownTasks
    BY LenProperties, ElementOfSeq DEF IInv
  <2> QED BY <2>1 DEF KnownTasks
<1> QED BY <1>1, AlwaysIInv, PTL

\* A path that is set leads to a document of the list's account (of any that has
\* been signed in, if it changed behind the list) with the row's name and time.
THEOREM PathsAlwaysSound == Spec => []PathsSound
<1>1. IInv => PathsSound
  BY DEF IInv
<1> QED BY <1>1, AlwaysIInv, PTL

(***************************************************************************)
(* Nothing this device does, now or when its queued writes reach the       *)
(* server, changes a document of an account that never signed in on it;    *)
(* and as long as no account has signed in behind a list, a write sent for *)
(* an account changes only documents of that account.                      *)
(***************************************************************************)
THEOREM OthersSafe == Spec => OtherUsersUntouched
<1> DEFINE A == \A id \in DocIds :
                  server[id] # NoDoc /\ server'[id] # server[id] =>
                     /\ server[id].email \in signedIn
                     /\ switched \/ server[id].email = sender
<1>1. IInv /\ [Next]_vars => [A]_vars
  <2> SUFFICES ASSUME IInv, Next, NEW id \in DocIds, server[id] # NoDoc, server'[id] # server[id]
               PROVE  /\ server[id].email \in signedIn
                      /\ switched \/ server[id].email = sender
    OBVIOUS
  <2>1. CASE ServerAck
    <3>1. Oldest \in QueueOf(sender) /\ server' = [server EXCEPT ![Oldest.id] = Oldest.entry]
      <4>1. sender \in Emails /\ mutations[sender] \in Seq(QueueOf(sender))
        BY DEF IInv, TypeOK, QueuesAgree
      <4> QED BY <2>1, <4>1, HeadTailProperties DEF ServerAck, Oldest
    <3>2. Oldest.id = id
      BY <3>1 DEF IInv, TypeOK
    <3>3. created[id].email \in Reach(sender) /\ sender \in signedIn
      BY <3>1, <3>2 DEF QueueOf, GoodWrites
    <3>4. created[id] = OwnerOf(server[id])
      BY DEF IInv, StoreAgrees, Agrees
    <3>5. created[id].email = server[id].email
      BY <3>4 DEF OwnerOf
    <3> QED BY <3>3, <3>5 DEF Reach
  <2>2. CASE ~ ServerAck
    <3>1. UNCHANGED server
      BY <2>2 DEF Next, UserStep, SystemStep, viewDidLoad, AddTask, cancel, editing,
         DismissAlert, GoBack, SignIn, save, SaveRefused, commitDelete, commitDeleteTrap,
         moveRowAt, RunListen, AnswerQuery, LoadFailed, loadTasks, HandleCredentialChange,
         PersistWrite, ServerReject, Relaunch, storeVars
    <3> QED BY <3>1
  <2> QED BY <2>1, <2>2
<1>2. [][A]_vars => OtherUsersUntouched
  BY DEF OtherUsersUntouched
<1> QED BY <1>1, <1>2, AlwaysIInv, PTL DEF Spec

-----------------------------------------------------------------------------
(***************************************************************************)
(* The list and its store implement PendingWrites.  The two queues are     *)
(* those of PendingWrites, seen through AsWrite.                           *)
(***************************************************************************)
asCall == [w \in Write |-> [user |-> w.user, write |-> AsWrite(w)]]
asWrite == [w \in Write |-> AsWrite(w)]
AbstractWrite == [doc : DocIds, value : Stored]

\* The mapping as a function of the writes, and its type.
LEMMA Mapping ==
  /\ asCall \in [Write -> [user : Emails, write : AbstractWrite]]
  /\ asWrite \in [Write -> AbstractWrite]
  /\ \A ws \in Seq(Write) : AsCalls(ws) = MapSeq(asCall, ws) /\ AsWrites(ws) = MapSeq(asWrite, ws)
<1>1. \A w \in Write : AsWrite(w) \in AbstractWrite
  BY DEF Write, AsWrite, AbstractWrite
<1>2. asCall \in [Write -> [user : Emails, write : AbstractWrite]] /\ asWrite \in [Write -> AbstractWrite]
  BY <1>1 DEF asCall, asWrite, Write
<1>3. ASSUME NEW ws \in Seq(Write)
      PROVE  AsCalls(ws) = MapSeq(asCall, ws) /\ AsWrites(ws) = MapSeq(asWrite, ws)
  <2>1. \A k \in DOMAIN ws : ws[k] \in Write
    BY LenProperties, ElementOfSeq
  <2>2. \A k \in DOMAIN ws : /\ asCall[ws[k]] = [user |-> ws[k].user, write |-> AsWrite(ws[k])]
                             /\ asWrite[ws[k]] = AsWrite(ws[k])
    BY <2>1 DEF asCall, asWrite
  <2> QED BY <2>2 DEF AsCalls, AsWrites, MapSeq
<1> QED BY <1>2, <1>3

\* Writes keep their place in the abstract queues when nobody waits for them.
LEMMA UntoldMapped ==
  ASSUME NEW ws \in Seq(Write)
  PROVE  AsCalls(Untold(ws)) = AsCalls(ws) /\ AsWrites(Untold(ws)) = AsWrites(ws)
<1>1. \A k \in DOMAIN ws : ws[k] \in Write
  BY LenProperties, ElementOfSeq
<1>2. DOMAIN Untold(ws) = DOMAIN ws
      /\ \A k \in DOMAIN ws : /\ AsWrite(Untold(ws)[k]) = AsWrite(ws[k])
                              /\ Untold(ws)[k].user = ws[k].user
  BY <1>1 DEF Untold, AsWrite, Write
<1> QED BY <1>2 DEF AsCalls, AsWrites

\* The handlers that only append to the worker queue call writes.
LEMMA AppendingCalls ==
  ASSUME worker \in Seq(Write), worker' \in Seq(Write), Len(worker) < Len(worker'),
         \A k \in 1..Len(worker) : worker'[k] = worker[k], UNCHANGED <<mutations, server>>
  PROVE  Store!Call
<1> DEFINE A == [user : Emails, write : AbstractWrite]
           c == MapSeq(asCall, worker)
           d == MapSeq(asCall, worker')
<1>1. c \in Seq(A) /\ d \in Seq(A)
  BY Mapping, MapSeqTyped
<1>2. Len(c) = Len(worker) /\ Len(d) = Len(worker')
  BY MapSeqLen
<1>3. Len(worker) \in Nat /\ Len(worker') \in Nat
  BY LenProperties
<1>4. \A k \in 1..Len(worker) : c[k] = asCall[worker[k]]
  BY MapSeqAt
<1>5. \A k \in 1..Len(worker') : d[k] = asCall[worker'[k]]
  BY MapSeqAt
<1>6. \A k \in 1..Len(c) : d[k] = c[k]
  <2> HIDE DEF c, d
  <2> QED BY <1>2, <1>3, <1>4, <1>5
<1>7. IsPrefix(c, d) /\ c # d
  <2> HIDE DEF c, d, A
  <2> QED BY <1>1, <1>2, <1>6, ExtensionIsPrefix
<1>8. \A k \in DOMAIN d : d[k].user \in Emails /\ d[k].write \in AbstractWrite
  <2>1. \A k \in DOMAIN d : d[k] \in A
    <3> HIDE DEF d, A
    <3> QED BY <1>1, LenProperties, ElementOfSeq
  <2> HIDE DEF d
  <2> QED BY <2>1
<1>9. AsCalls(worker) = c /\ AsCalls(worker') = d
  BY Mapping
<1>10. AsCalls(worker) # AsCalls(worker') /\ IsPrefix(AsCalls(worker), AsCalls(worker'))
       /\ \A k \in DOMAIN AsCalls(worker') :
             AsCalls(worker')[k].user \in Emails /\ AsCalls(worker')[k].write \in AbstractWrite
  <2> HIDE DEF c, d
  <2> QED BY <1>7, <1>8, <1>9
<1>11. Len(AsCalls(worker)) <= Len(AsCalls(worker'))
       /\ SubSeq(AsCalls(worker), 1, Len(AsCalls(worker)))
            = SubSeq(AsCalls(worker'), 1, Len(AsCalls(worker)))
  BY <1>10 DEF IsPrefix
<1>12. AsCalls(worker)' = AsCalls(worker')
       /\ [u \in Emails |-> AsWrites(mutations[u])]' = [u \in Emails |-> AsWrites(mutations[u])]
  BY DEF AsCalls, AsWrites
<1>13. Store!IsPrefix(AsCalls(worker), AsCalls(worker)')
  BY <1>11, <1>12 DEF Store!IsPrefix
<1> QED BY <1>10, <1>12, <1>13 DEF Store!Call, Store!Write, AbstractWrite

\* Appending to a queue, and taking its oldest write, seen through AsWrite.
LEMMA QueueMapped ==
  ASSUME NEW ws \in Seq(Write)
  PROVE  /\ \A w \in Write : AsWrites(Append(ws, w)) = Append(AsWrites(ws), AsWrite(w))
         /\ ws # << >> => /\ Head(ws) \in Write /\ AsWrites(ws) # << >>
                          /\ Head(AsWrites(ws)) = AsWrite(Head(ws))
                          /\ AsWrites(Tail(ws)) = Tail(AsWrites(ws))
<1>1. ASSUME NEW w \in Write
      PROVE  AsWrites(Append(ws, w)) = Append(AsWrites(ws), AsWrite(w))
  <2>1. Append(ws, w) \in Seq(Write)
    BY AppendProperties
  <2>2. MapSeq(asWrite, Append(ws, w)) = Append(MapSeq(asWrite, ws), asWrite[w])
    <3>1. asWrite \in [Write -> AbstractWrite]
      BY Mapping
    <3> QED BY <3>1, MapSeqAppend
  <2>3. /\ AsWrites(Append(ws, w)) = MapSeq(asWrite, Append(ws, w))
        /\ AsWrites(ws) = MapSeq(asWrite, ws) /\ asWrite[w] = AsWrite(w)
    BY <2>1, Mapping DEF asWrite
  <2> QED BY <2>2, <2>3
<1>2. ASSUME ws # << >>
      PROVE  /\ Head(ws) \in Write /\ AsWrites(ws) # << >>
             /\ Head(AsWrites(ws)) = AsWrite(Head(ws))
             /\ AsWrites(Tail(ws)) = Tail(AsWrites(ws))
  <2>1. Head(ws) \in Write /\ Tail(ws) \in Seq(Write)
    BY <1>2, HeadTailProperties
  <2>2. AsWrites(ws) = MapSeq(asWrite, ws) /\ AsWrites(Tail(ws)) = MapSeq(asWrite, Tail(ws))
    BY <2>1, Mapping
  <2>3. /\ MapSeq(asWrite, ws) # << >> /\ Head(MapSeq(asWrite, ws)) = asWrite[Head(ws)]
        /\ MapSeq(asWrite, Tail(ws)) = Tail(MapSeq(asWrite, ws))
    BY <1>2, MapSeqHeadTail
  <2>4. asWrite[Head(ws)] = AsWrite(Head(ws))
    BY <2>1 DEF asWrite
  <2> QED BY <2>1, <2>2, <2>3, <2>4
<1> QED BY <1>1, <1>2

\* The queues of all accounts, seen through AsWrite.
Queues == [u \in Emails |-> AsWrites(mutations[u])]

\* The worker queue and the server take the steps of PendingWrites.
LEMMA QueueSteps ==
  ASSUME worker \in Seq(Write), mutations \in [Emails -> Seq(Write)], sender \in Emails
  PROVE  /\ PersistWrite => Store!Persist
         /\ ServerAck => Store!Acknowledge(sender)
         /\ ServerReject => Store!Reject(sender)
         /\ Relaunch => Store!Crash
<1>0. mutations[sender] \in Seq(Write)
  OBVIOUS
<1>1. ASSUME PersistWrite PROVE Store!Persist
  <2> DEFINE w == Head(worker)
  <2>1. /\ worker # << >> /\ worker' = Tail(worker) /\ sender = w.user
        /\ mutations' = [mutations EXCEPT ![sender] = Append(@, w)]
        /\ server' = server /\ w \in Write
    BY <1>1, HeadTailProperties DEF PersistWrite, NextCaller
  <2>2. AsCalls(worker) # << >> /\ Head(AsCalls(worker)) = asCall[w]
        /\ AsCalls(Tail(worker)) = Tail(AsCalls(worker))
    <3>1. AsCalls(worker) = MapSeq(asCall, worker) /\ AsCalls(Tail(worker)) = MapSeq(asCall, Tail(worker))
      BY <2>1, Mapping, HeadTailProperties
    <3>0. worker \in Seq(Write) /\ worker # << >>
      BY <2>1
    <3>2. MapSeq(asCall, worker) # << >> /\ Head(MapSeq(asCall, worker)) = asCall[Head(worker)]
          /\ MapSeq(asCall, Tail(worker)) = Tail(MapSeq(asCall, worker))
      BY ONLY <3>0, MapSeqHeadTail
    <3> QED BY <3>1, <3>2
  <2>3. asCall[w].user = sender /\ asCall[w].write = AsWrite(w)
    <3> HIDE DEF w
    <3> QED BY <2>1 DEF asCall
  <2>4. Queues' = [Queues EXCEPT ![sender] = Append(@, AsWrite(w))]
    <3> HIDE DEF w
    <3>1. AsWrites(Append(mutations[sender], w)) = Append(AsWrites(mutations[sender]), AsWrite(w))
      BY <1>0, <2>1, QueueMapped
    <3>2. \A u \in Emails : AsWrites(mutations'[u])
                             = IF u = sender THEN Append(Queues[u], AsWrite(w)) ELSE Queues[u]
      BY <2>1, <3>1 DEF Queues
    <3> QED BY <3>2 DEF Queues, AsWrites
  <2> HIDE DEF w
  <2> QED BY <2>1, <2>2, <2>3, <2>4 DEF Store!Persist, Queues
<1>2. ASSUME mutations[sender] # << >>, Settle
      PROVE  /\ Oldest \in Write /\ Queues[sender] # << >>
             /\ Head(Queues[sender]) = AsWrite(Oldest)
             /\ Queues' = [Queues EXCEPT ![sender] = Tail(@)]
  <2> DEFINE ws == mutations[sender]
  <2>1. /\ Head(ws) \in Write /\ AsWrites(ws) # << >>
        /\ Head(AsWrites(ws)) = AsWrite(Head(ws))
        /\ AsWrites(Tail(ws)) = Tail(AsWrites(ws))
    BY <1>0, <1>2, QueueMapped
  <2>2. \A u \in Emails : mutations'[u] = IF u = sender THEN Tail(ws) ELSE mutations[u]
    BY <1>2 DEF Settle
  <2>3. \A u \in Emails : AsWrites(mutations'[u]) = IF u = sender THEN Tail(Queues[u]) ELSE Queues[u]
    BY <2>1, <2>2 DEF Queues
  <2> QED BY <2>1, <2>3 DEF Queues, Oldest, AsWrites
<1>3. ASSUME ServerAck PROVE Store!Acknowledge(sender)
  <2>1. AsWrite(Oldest).doc = Oldest.id /\ AsWrite(Oldest).value = Oldest.entry
    BY DEF AsWrite
  <2> QED BY <1>2, <1>3, <2>1 DEF ServerAck, Store!Acknowledge, Queues
<1>4. ASSUME ServerReject PROVE Store!Reject(sender)
  BY <1>2, <1>4 DEF ServerReject, Store!Reject, Queues
<1>5. ASSUME Relaunch PROVE Store!Crash
  <2>1. AsCalls(<< >>) = << >>
    BY DEF AsCalls
  <2>2. Queues' = Queues
    <3>1. \A u \in Emails : AsWrites(mutations'[u]) = AsWrites(mutations[u])
      BY <1>5, UntoldMapped DEF Relaunch, AllUntold
    <3> QED BY <3>1 DEF Queues, AsWrites
  <2> QED BY <1>5, <2>1, <2>2 DEF Relaunch, Store!Crash, Queues
<1> QED BY <1>1, <1>3, <1>4, <1>5

\* Every step of the list is one of the store, or none.
LEMMA StoreStep == IInv /\ IInv' /\ [Next]_vars => [Store!Next]_(Store!vars)
<1> SUFFICES ASSUME IInv, IInv', [Next]_vars PROVE [Store!Next]_(Store!vars)
  OBVIOUS
<1>1. /\ worker \in Seq(Write) /\ worker' \in Seq(Write) /\ mutations \in [Emails -> Seq(Write)]
      /\ sender \in Emails /\ Len(worker) \in Nat
  BY LenProperties DEF IInv, TypeOK
<1>2. ASSUME AsCalls(worker') = AsCalls(worker), Queues' = Queues, server' = server
      PROVE  UNCHANGED Store!vars
  BY <1>2 DEF Store!vars, AsCalls, Queues
<1>3. CASE PersistWrite \/ ServerAck \/ ServerReject \/ Relaunch
  BY <1>1, <1>3, QueueSteps DEF Store!Next
<1>4. CASE viewDidLoad
  <2>1. \A u \in Emails : AsWrites(mutations'[u]) = AsWrites(mutations[u])
    BY <1>1, <1>4, UntoldMapped DEF viewDidLoad, AllUntold
  <2>2. Queues' = Queues
    BY <2>1 DEF Queues, AsWrites
  <2> QED BY <1>1, <1>2, <1>4, <2>2, UntoldMapped DEF viewDidLoad
<1>5. ASSUME NEW n, NEW t, save(n, t) PROVE Store!Next
  <2>1. PICK id, add, set : worker' = worker \o <<add, set>>
    BY <1>5 DEF save, passBackData, saveDataInDtabase
  <2> DEFINE S == Write \cup {add, set}
  <2>2. worker \in Seq(S) /\ <<add, set>> \in Seq(S) /\ Len(<<add, set>>) = 2
    BY <1>1, SeqMonotonic
  <2>3. Len(worker') = Len(worker) + 2 /\ \A k \in 1..Len(worker) : worker'[k] = worker[k]
    <3> HIDE DEF S
    <3> QED BY <1>1, <2>1, <2>2, ConcatProperties
  <2>4. UNCHANGED <<mutations, server>>
    BY <1>5 DEF save
  <2> QED BY <1>1, <2>3, <2>4, AppendingCalls DEF Store!Next
<1>6. ASSUME NEW i, commitDelete(i) PROVE Store!Next
  <2>1. PICK del : worker' = Append(worker, del)
    BY <1>6 DEF commitDelete
  <2> DEFINE S == Write \cup {del}
  <2>2. worker \in Seq(S) /\ del \in S
    BY <1>1, SeqMonotonic
  <2>3. Len(worker') = Len(worker) + 1 /\ \A k \in 1..Len(worker) : worker'[k] = worker[k]
    <3> HIDE DEF S
    <3> QED BY <2>1, <2>2, AppendProperties
  <2>4. UNCHANGED <<mutations, server>>
    BY <1>6 DEF commitDelete
  <2> QED BY <1>1, <2>3, <2>4, AppendingCalls DEF Store!Next
<1>7. CASE UNCHANGED <<worker, mutations, server>>
  BY <1>2, <1>7 DEF Queues, AsWrites
<1>8. ASSUME NEW n, NEW t, SaveRefused(n, t) PROVE UNCHANGED <<worker, mutations, server>>
  BY <1>8 DEF SaveRefused, storeVars
<1>9. ASSUME NEW i, commitDeleteTrap(i) PROVE UNCHANGED <<worker, mutations, server>>
  BY <1>9 DEF commitDeleteTrap, storeVars
<1>10. ASSUME NEW i, NEW j, moveRowAt(i, j) PROVE UNCHANGED <<worker, mutations, server>>
  BY <1>10 DEF moveRowAt, storeVars
<1>11. CASE \/ AddTask \/ cancel \/ editing \/ DismissAlert \/ GoBack
            \/ RunListen \/ AnswerQuery \/ LoadFailed \/ loadTasks
            \/ HandleCredentialChange \/ UNCHANGED vars
  <2>1. UNCHANGED <<worker, mutations, server>>
    BY <1>11 DEF AddTask, cancel, editing, DismissAlert, GoBack, RunListen, AnswerQuery,
       LoadFailed, loadTasks, HandleCredentialChange, vars, storeVars
  <2> QED BY <1>7, <2>1
<1>12. ASSUME NEW e, SignIn(e) PROVE UNCHANGED <<worker, mutations, server>>
  BY <1>12 DEF SignIn, storeVars
<1> QED BY <1>3, <1>4, <1>5, <1>6, <1>7, <1>8, <1>9, <1>10, <1>11, <1>12
    DEF Next, UserStep, SystemStep

\* A fresh process has called nothing and has nothing pending.
LEMMA StoreInit == Init => Store!Init
<1> SUFFICES ASSUME Init PROVE Store!Init
  OBVIOUS
<1>1. AsCalls(worker) = << >> /\ Queues = [u \in Emails |-> << >>]
  BY DEF Init, AsCalls, AsWrites, Queues
<1>2. server \in [DocIds -> Stored]
  BY InitIInv DEF IInv, TypeOK
<1> QED BY <1>1, <1>2 DEF Store!Init, Queues

\* The two writes of an addition and the delete are executed, survive a kill and
\* reach the collection "task" in the order in which the handlers called them.
THEOREM StoreImplemented == Spec => ImplementsPendingWrites
<1>1. Spec => Store!Init
  BY StoreInit DEF Spec
<1> QED BY <1>1, StoreStep, AlwaysIInv, PTL DEF Spec, ImplementsPendingWrites, Store!Spec

-----------------------------------------------------------------------------
(***************************************************************************)
(* A deleted document stays deleted.                                       *)
(***************************************************************************)

\* A queue that ends with a delete still does after executing one more, or a
\* write of another document.
LEMMA DeletedAppend ==
  ASSUME NEW ws \in Seq(Write), NEW w \in Write, NEW id,
         EndsDeleted(ws, id), w.id = id => w.entry = NoDoc
  PROVE  /\ EndsDeleted(Append(ws, w), id)
         /\ Writes(Append(ws, w), id) = {} => Writes(ws, id) = {}
<1> DEFINE a == Append(ws, w)
           n == Len(ws)
<1>1. /\ n \in Nat /\ DOMAIN ws = 1..n /\ DOMAIN a = 1..(n + 1)
      /\ a[n + 1] = w /\ \A k \in 1..n : a[k] = ws[k]
  BY LenProperties, AppendProperties
<1> HIDE DEF a, n
<1>2. Writes(ws, id) \subseteq Writes(a, id)
  BY <1>1 DEF Writes
<1>3. ASSUME NEW k \in Writes(a, id), \A j \in Writes(a, id) : j <= k
      PROVE  a[k].entry = NoDoc
  <2>1. k \in 1..(n + 1) /\ a[k].id = id
    BY <1>1 DEF Writes
  <2>2. CASE k = n + 1
    BY <1>1, <2>1, <2>2
  <2>3. CASE k # n + 1
    <3>1. k \in 1..n
      BY <1>1, <2>1, <2>3
    <3>2. k \in Writes(ws, id) /\ a[k] = ws[k]
      BY <1>1, <2>1, <3>1 DEF Writes
    <3>3. \A j \in Writes(ws, id) : j <= k
      BY <1>2, <1>3
    <3> QED BY <3>2, <3>3 DEF EndsDeleted
  <2> QED BY <2>2, <2>3
<1>4. EndsDeleted(a, id)
  BY <1>3 DEF EndsDeleted
<1> QED BY <1>2, <1>4 DEF a

\* So it does when its oldest write is settled; and if that leaves no write of
\* the document, there was none, or it was that delete.
LEMMA DeletedTail ==
  ASSUME NEW ws \in Seq(Write), ws # << >>, NEW id, EndsDeleted(ws, id)
  PROVE  /\ EndsDeleted(Tail(ws), id)
         /\ Writes(Tail(ws), id) = {} =>
               \/ Writes(ws, id) = {} /\ Head(ws).id # id
               \/ Head(ws).id = id /\ Head(ws).entry = NoDoc
<1> DEFINE a == Tail(ws)
           n == Len(ws)
<1>1. /\ n \in Nat \ {0} /\ DOMAIN ws = 1..n /\ DOMAIN a = 1..(n - 1)
      /\ Head(ws) = ws[1] /\ \A k \in 1..(n - 1) : a[k] = ws[k + 1]
  <2>1. a \in Seq(Write)
    BY TailParts
  <2> QED BY <2>1, TailParts, LenProperties
<1> HIDE DEF a, n
<1>2. ASSUME NEW j \in Writes(ws, id), j # 1 PROVE j - 1 \in Writes(a, id)
  <2>1. j \in 1..n /\ ws[j].id = id
    BY <1>1 DEF Writes
  <2>2. j - 1 \in 1..(n - 1) /\ (j - 1) + 1 = j
    BY <1>1, <1>2, <2>1
  <2>3. a[j - 1] = ws[j]
    BY <1>1, <2>2
  <2> QED BY <1>1, <2>1, <2>2, <2>3 DEF Writes
<1>3. ASSUME NEW k \in Writes(a, id), \A j \in Writes(a, id) : j <= k
      PROVE  a[k].entry = NoDoc
  <2>1. k \in 1..(n - 1) /\ a[k].id = id
    BY <1>1 DEF Writes
  <2>2. k + 1 \in 1..n /\ a[k] = ws[k + 1]
    BY <1>1, <2>1
  <2>3. k + 1 \in Writes(ws, id)
    BY <1>1, <2>1, <2>2 DEF Writes
  <2>4. ASSUME NEW j \in Writes(ws, id) PROVE j <= k + 1
    <3>1. j \in 1..n
      BY <1>1 DEF Writes
    <3>2. CASE j = 1
      BY <2>1, <3>2
    <3>3. CASE j # 1
      <4>1. j - 1 <= k
        BY <1>2, <1>3, <3>3
      <4> QED BY <2>1, <3>1, <4>1
    <3> QED BY <3>2, <3>3
  <2> QED BY <2>2, <2>3, <2>4 DEF EndsDeleted
<1>4. EndsDeleted(a, id)
  BY <1>3 DEF EndsDeleted
<1>5. ASSUME Writes(a, id) = {}
      PROVE  \/ Writes(ws, id) = {} /\ Head(ws).id # id
             \/ Head(ws).id = id /\ Head(ws).entry = NoDoc
  <2>1. \A j \in Writes(ws, id) : j = 1
    BY <1>2, <1>5
  <2>2. CASE Head(ws).id = id
    <3>1. 1 \in Writes(ws, id)
      BY <1>1, <2>2 DEF Writes
    <3>2. ws[1].entry = NoDoc
      BY <2>1, <3>1 DEF EndsDeleted
    <3> QED BY <1>1, <2>2, <3>2
  <2>3. CASE Head(ws).id # id
    <3>1. 1 \notin Writes(ws, id)
      BY <1>1, <2>3 DEF Writes
    <3> QED BY <2>1, <2>3, <3>1
  <2> QED BY <2>2, <2>3
<1> QED BY <1>4, <1>5 DEF a

\* Who waits for a write does not change what it writes.
LEMMA DeletedUntold ==
  ASSUME NEW ws \in Seq(Write), NEW id
  PROVE  /\ Writes(Untold(ws), id) = Writes(ws, id)
         /\ \A k \in Writes(ws, id) : Untold(ws)[k].entry = ws[k].entry
         /\ EndsDeleted(Untold(ws), id) = EndsDeleted(ws, id)
<1>1. \A k \in DOMAIN ws : ws[k] \in Write
  BY LenProperties, ElementOfSeq
<1>2. /\ DOMAIN Untold(ws) = DOMAIN ws
      /\ \A k \in DOMAIN ws : Untold(ws)[k].id = ws[k].id /\ Untold(ws)[k].entry = ws[k].entry
  BY <1>1 DEF Untold, Write
<1>3. Writes(Untold(ws), id) = Writes(ws, id)
  BY <1>2 DEF Writes
<1>4. \A k \in Writes(ws, id) : Untold(ws)[k].entry = ws[k].entry
  BY <1>2 DEF Writes
<1> QED BY <1>3, <1>4 DEF EndsDeleted

\* The parts of Deleted: calls not yet executed, and the queues with the server.
OnlyDeletes(id) == \A k \in Writes(worker, id) : worker[k].entry = NoDoc
Gone(id) ==
  /\ \A u \in Emails : EndsDeleted(mutations[u], id)
  /\ (\A u \in Emails : Writes(mutations[u], id) = {}) => server[id] = NoDoc

\* Dropping the handlers keeps the queues as they are.
LEMMA GoneUntold ==
  ASSUME NEW id, Gone(id), mutations \in [Emails -> Seq(Write)],
         mutations' = AllUntold, server' = server
  PROVE  Gone(id)'
<1>1. ASSUME NEW u \in Emails
      PROVE  /\ EndsDeleted(mutations'[u], id)
             /\ Writes(mutations'[u], id) = Writes(mutations[u], id)
  <2>1. mutations'[u] = Untold(mutations[u]) /\ mutations[u] \in Seq(Write)
    BY DEF AllUntold
  <2> QED BY <2>1, DeletedUntold DEF Gone
<1> QED BY <1>1 DEF Gone, EndsDeleted, Writes

\* Settling the oldest write does not bring the document back.
LEMMA GoneSettled ==
  ASSUME NEW id, Gone(id), mutations \in [Emails -> Seq(Write)], sender \in Emails,
         mutations[sender] # << >>, Settle,
         IF Oldest.id = id THEN server'[id] = Oldest.entry ELSE server'[id] = server[id]
  PROVE  Gone(id)'
<1> DEFINE ws == mutations[sender]
<1>1. ws \in Seq(Write) /\ ws # << >> /\ EndsDeleted(ws, id) /\ Oldest = Head(ws)
  BY DEF Gone, Oldest
<1>2. \A u \in Emails : mutations'[u] = IF u = sender THEN Tail(ws) ELSE mutations[u]
  BY DEF Settle
<1> HIDE DEF ws
<1>3. /\ EndsDeleted(Tail(ws), id)
      /\ Writes(Tail(ws), id) = {} =>
            \/ Writes(ws, id) = {} /\ Oldest.id # id
            \/ Oldest.id = id /\ Oldest.entry = NoDoc
  BY <1>1, DeletedTail
<1>4. \A u \in Emails : EndsDeleted(mutations'[u], id)
  BY <1>2, <1>3 DEF Gone
<1>5. ASSUME \A u \in Emails : Writes(mutations'[u], id) = {}
      PROVE  server'[id] = NoDoc
  <2>1. Writes(Tail(ws), id) = {}
    BY <1>2, <1>5
  <2>2. CASE Oldest.id = id
    BY <1>3, <2>1, <2>2
  <2>3. CASE Oldest.id # id
    <3>1. Writes(mutations[sender], id) = {}
      BY <1>3, <2>1, <2>3 DEF ws
    <3>2. \A u \in Emails : u # sender => Writes(mutations[u], id) = {}
      BY <1>2, <1>5
    <3>3. \A u \in Emails : Writes(mutations[u], id) = {}
      BY <3>1, <3>2
    <3> QED BY <2>3, <3>3 DEF Gone
  <2> QED BY <2>2, <2>3
<1> QED BY <1>4, <1>5 DEF Gone, EndsDeleted, Writes

\* Executing a call that deletes the document, or writes another one.
LEMMA GonePersisted ==
  ASSUME NEW id, Gone(id), mutations \in [Emails -> Seq(Write)], NEW w \in Write,
         w.id = id => w.entry = NoDoc,
         mutations' = [mutations EXCEPT ![sender] = Append(@, w)], server' = server
  PROVE  Gone(id)'
<1>1. ASSUME NEW u \in Emails
      PROVE  /\ EndsDeleted(mutations'[u], id)
             /\ Writes(mutations'[u], id) = {} => Writes(mutations[u], id) = {}
  <2>1. mutations[u] \in Seq(Write) /\ EndsDeleted(mutations[u], id)
    BY DEF Gone
  <2>2. mutations'[u] = Append(mutations[u], w) \/ mutations'[u] = mutations[u]
    OBVIOUS
  <2> QED BY <2>1, <2>2, DeletedAppend
<1> QED BY <1>1 DEF Gone, EndsDeleted, Writes

(***************************************************************************)
(* A delete that has been executed, with no write waiting behind it, is    *)
(* undone by no load, addition, acknowledgement, change of account or      *)
(* death of the process: only by the server's refusal of a write of that   *)
(* document.                                                               *)
(***************************************************************************)
THEOREM DeletesAreFinal == Spec => DeletedStaysDeleted
<1> DEFINE A == \A id \in DocIds :
                  Deleted(id) => Deleted(id)' \/ (ServerReject /\ Oldest.id = id)
<1>1. IInv /\ IInv' /\ [Next]_vars => [A]_vars
  <2> SUFFICES ASSUME IInv, IInv', Next, NEW id \in DocIds, Deleted(id),
                      ~(ServerReject /\ Oldest.id = id)
               PROVE  Deleted(id)'
    OBVIOUS
  <2>1. /\ worker \in Seq(Write) /\ worker' \in Seq(Write)
        /\ mutations \in [Emails -> Seq(Write)] /\ sender \in Emails
        /\ Len(worker) \in Nat /\ DOMAIN worker = 1..Len(worker) /\ DOMAIN worker' = 1..Len(worker')
        /\ server \in [DocIds -> Stored] /\ created \in [DocIds -> Owner \cup {NoDoc}]
    BY LenProperties DEF IInv, TypeOK
  <2>2. created[id] # NoDoc /\ Gone(id) /\ OnlyDeletes(id)
    BY DEF Deleted, Gone, OnlyDeletes
  <2>3. ASSUME created'[id] # NoDoc, Gone(id)', OnlyDeletes(id)'
        PROVE  Deleted(id)'
    BY <2>3 DEF Deleted, Gone, OnlyDeletes
  <2>4. CASE PersistWrite
    <3> DEFINE w == Head(worker)
    <3>1. /\ worker # << >> /\ worker' = Tail(worker) /\ server' = server /\ created' = created
          /\ mutations' = [mutations EXCEPT ![sender] = Append(@, w)]
      BY <2>4 DEF PersistWrite
    <3>2. /\ w \in Write /\ w = worker[1] /\ 1 \in 1..Len(worker)
          /\ Len(worker') = Len(worker) - 1 /\ \A k \in 1..Len(worker') : worker'[k] = worker[k + 1]
      BY <2>1, <3>1, TailParts
    <3> HIDE DEF w
    <3>3. w.id = id => w.entry = NoDoc
      BY <2>1, <2>2, <3>2 DEF OnlyDeletes, Writes
    <3>4. Gone(id)'
      BY <2>1, <2>2, <3>1, <3>2, <3>3, GonePersisted
    <3>5. OnlyDeletes(id)'
      <4>1. ASSUME NEW k \in 1..Len(worker') PROVE worker'[k] = worker[k + 1] /\ k + 1 \in 1..Len(worker)
        BY <2>1, <3>2, <4>1
      <4> QED BY <2>1, <2>2, <4>1 DEF OnlyDeletes, Writes
    <3> QED BY <2>2, <2>3, <3>1, <3>4, <3>5
  <2>5. CASE ServerAck \/ ServerReject
    <3>1. mutations[sender] # << >> /\ Settle /\ worker' = worker /\ created' = created
      BY <2>5 DEF ServerAck, ServerReject
    <3>2. IF Oldest.id = id THEN server'[id] = Oldest.entry ELSE server'[id] = server[id]
      BY <2>1, <2>5 DEF ServerAck, ServerReject
    <3>3. Gone(id)'
      BY <2>1, <2>2, <3>1, <3>2, GoneSettled
    <3>4. OnlyDeletes(id)'
      BY <2>2, <3>1 DEF OnlyDeletes, Writes
    <3> QED BY <2>2, <2>3, <3>1, <3>3, <3>4
  <2>6. CASE Relaunch
    <3>1. worker' = << >> /\ mutations' = AllUntold /\ server' = server /\ created' = created
      BY <2>6 DEF Relaunch
    <3>2. OnlyDeletes(id)'
      BY <3>1 DEF OnlyDeletes, Writes
    <3> QED BY <2>1, <2>2, <2>3, <3>1, <3>2, GoneUntold
  <2>7. CASE viewDidLoad
    <3>1. worker' = Untold(worker) /\ mutations' = AllUntold /\ server' = server
          /\ created' = created
      BY <2>7 DEF viewDidLoad
    <3>2. OnlyDeletes(id)'
      <4>1. /\ Writes(worker', id) = Writes(worker, id)
            /\ \A k \in Writes(worker, id) : worker'[k].entry = worker[k].entry
        BY <2>1, <3>1, DeletedUntold
      <4> QED BY <2>2, <4>1 DEF OnlyDeletes, Writes
    <3> QED BY <2>1, <2>2, <2>3, <3>1, <3>2, GoneUntold
  <2>8. ASSUME NEW n, NEW t, save(n, t) PROVE Deleted(id)'
    <3>1. PICK new \in DocIds : created[new] = NoDoc /\ passBackData(new, n, t)
      BY <2>8 DEF save
    <3> DEFINE entry == [email |-> currentUser, name |-> n, time |-> t, path |-> EmptyPath]
               add == [id |-> new, entry |-> entry, tells |-> screen = "tasks",
                       user |-> currentUser]
               set == [id |-> new, entry |-> [entry EXCEPT !.path = createpath(refPath(new))],
                       tells |-> FALSE, user |-> currentUser]
    <3>2. add.id = new /\ set.id = new /\ worker' = worker \o <<add, set>>
      BY <3>1 DEF passBackData, saveDataInDtabase
    <3> HIDE DEF add, set
    <3>3. UNCHANGED <<mutations, server>> /\ new # id /\ created'[id] = created[id]
      BY <2>1, <2>2, <2>8, <3>1 DEF save, passBackData, saveDataInDtabase
    <3> DEFINE S == Write \cup {add, set}
               u == <<add, set>>
    <3>4. Len(u) = 2 /\ u[1] = add /\ u[2] = set
      OBVIOUS
    <3>a. worker \in Seq(S)
      BY <2>1, SeqMonotonic
    <3>b. u \in Seq(S)
      OBVIOUS
    <3>5. /\ Len(worker') = Len(worker) + 2
          /\ \A k \in 1..(Len(worker) + 2) :
               worker'[k] = IF k <= Len(worker) THEN worker[k] ELSE u[k - Len(worker)]
      <4>1. worker' = worker \o u
        BY <3>2
      <4> HIDE DEF S, u
      <4>2. /\ Len(worker \o u) = Len(worker) + Len(u)
            /\ \A k \in 1..(Len(worker) + Len(u)) :
                 (worker \o u)[k] = IF k <= Len(worker) THEN worker[k] ELSE u[k - Len(worker)]
        BY <3>a, <3>b, ConcatProperties
      <4> QED BY <3>4, <4>1, <4>2
    <3>7. Gone(id)'
      BY <2>2, <3>3 DEF Gone, EndsDeleted, Writes
    <3>6. OnlyDeletes(id)'
      <4> SUFFICES ASSUME NEW k \in 1..(Len(worker) + 2), worker'[k].id = id
                   PROVE  worker'[k].entry = NoDoc
        BY <2>1, <3>5 DEF OnlyDeletes, Writes
      <4>1. CASE k <= Len(worker)
        <5>1. k \in 1..Len(worker) /\ worker'[k] = worker[k]
          BY <2>1, <3>5, <4>1
        <5> QED BY <2>1, <2>2, <5>1 DEF OnlyDeletes, Writes
      <4>2. CASE ~(k <= Len(worker))
        <5>1. k - Len(worker) = 1 \/ k - Len(worker) = 2
          BY <2>1, <4>2
        <5>2. worker'[k] = u[k - Len(worker)]
          BY <3>5, <4>2
        <5>3. worker'[k] = add \/ worker'[k] = set
          <6> HIDE DEF u
          <6> QED BY <3>4, <5>1, <5>2
        <5> QED BY <3>2, <3>3, <5>3
      <4> QED BY <4>1, <4>2
    <3> QED BY <2>2, <2>3, <3>3, <3>6, <3>7
  <2>9. ASSUME NEW i, commitDelete(i) PROVE Deleted(id)'
    <3>1. PICK del : del.entry = NoDoc /\ worker' = Append(worker, del)
      BY <2>9 DEF commitDelete
    <3>2. UNCHANGED <<mutations, server, created>>
      BY <2>9 DEF commitDelete
    <3> DEFINE S == Write \cup {del}
    <3>3. worker \in Seq(S) /\ del \in S
      BY <2>1, SeqMonotonic
    <3>4. /\ Len(worker') = Len(worker) + 1 /\ worker'[Len(worker) + 1] = del
          /\ \A k \in 1..Len(worker) : worker'[k] = worker[k]
      <4> HIDE DEF S
      <4> QED BY <3>1, <3>3, AppendProperties
    <3>5. OnlyDeletes(id)'
      <4> SUFFICES ASSUME NEW k \in 1..(Len(worker) + 1), worker'[k].id = id
                   PROVE  worker'[k].entry = NoDoc
        BY <2>1, <3>4 DEF OnlyDeletes, Writes
      <4>1. k \in 1..Len(worker) \/ k = Len(worker) + 1
        BY <2>1
      <4> QED BY <2>1, <2>2, <3>1, <3>4, <4>1 DEF OnlyDeletes, Writes
    <3>6. Gone(id)'
      BY <2>2, <3>2 DEF Gone, EndsDeleted, Writes
    <3> QED BY <2>2, <2>3, <3>2, <3>5, <3>6
  <2>10. CASE UNCHANGED <<worker, mutations, server, created>>
    <3>1. OnlyDeletes(id)' /\ Gone(id)'
      BY <2>2, <2>10 DEF OnlyDeletes, Gone, EndsDeleted, Writes
    <3> QED BY <2>2, <2>3, <2>10, <3>1
  <2>11. ASSUME NEW n, NEW t, SaveRefused(n, t) PROVE UNCHANGED <<worker, mutations, server, created>>
    BY <2>11 DEF SaveRefused, storeVars
  <2>12. ASSUME NEW i, commitDeleteTrap(i) PROVE UNCHANGED <<worker, mutations, server, created>>
    BY <2>12 DEF commitDeleteTrap, storeVars
  <2>13. ASSUME NEW i, NEW j, moveRowAt(i, j) PROVE UNCHANGED <<worker, mutations, server, created>>
    BY <2>13 DEF moveRowAt, storeVars
  <2>14. CASE \/ AddTask \/ cancel \/ editing \/ DismissAlert \/ GoBack
              \/ RunListen \/ AnswerQuery \/ LoadFailed \/ loadTasks \/ HandleCredentialChange
    <3>1. UNCHANGED <<worker, mutations, server, created>>
      BY <2>14 DEF AddTask, cancel, editing, DismissAlert, GoBack, RunListen, AnswerQuery,
         LoadFailed, loadTasks, HandleCredentialChange, storeVars
    <3> QED BY <2>10, <3>1
  <2>15. ASSUME NEW e, SignIn(e) PROVE UNCHANGED <<worker, mutations, server, created>>
    BY <2>15 DEF SignIn, storeVars
  <2> QED BY <2>4, <2>5, <2>6, <2>7, <2>8, <2>9, <2>10, <2>11, <2>12, <2>13, <2>14, <2>15
      DEF Next, UserStep, SystemStep
<1>2. [][A]_vars => DeletedStaysDeleted
  BY DEF DeletedStaysDeleted
<1> QED BY <1>1, <1>2, AlwaysIInv, PTL DEF Spec

-----------------------------------------------------------------------------
(***************************************************************************)
(* Why StoryboardTasks may keep a key as the pair of its name and time:    *)
(* the text of a key determines both.                                      *)
(***************************************************************************)
Text == INSTANCE TaskKeys

\* k holds the characters of n, a comma, and the characters of t.
Spells(k, n, t) ==
  /\ Len(k) = Len(n) + 1 + Len(t)
  /\ \A i \in 1..Len(n) : k[i] = n[i]
  /\ k[Len(n) + 1] = Text!Comma
  /\ \A i \in 1..Len(t) : k[Len(n) + 1 + i] = t[i]

\* The character of a key at each position.
LEMMA KeyCharacters ==
  ASSUME NEW C, Text!Comma \in C, NEW n \in Seq(C), NEW t \in Seq(C)
  PROVE  Spells(Text!createString(n, t), n, t)
<1> DEFINE m == n \o <<Text!Comma>>
<1>0. <<Text!Comma>> \in Seq(C) /\ Len(<<Text!Comma>>) = 1 /\ <<Text!Comma>>[1] = Text!Comma
      /\ Len(n) \in Nat /\ Len(t) \in Nat
  BY LenProperties
<1>1. /\ m \in Seq(C) /\ Len(m) = Len(n) + 1
      /\ \A i \in 1..Len(n) : m[i] = n[i]
      /\ m[Len(n) + 1] = Text!Comma
  <2>1. /\ m \in Seq(C) /\ Len(m) = Len(n) + 1
        /\ \A i \in 1..Len(n) + 1 : m[i] = IF i <= Len(n) THEN n[i] ELSE <<Text!Comma>>[i - Len(n)]
    BY <1>0, ConcatProperties
  <2> HIDE DEF m
  <2> QED BY <1>0, <2>1
<1>2. /\ m \o t \in Seq(C) /\ Len(m \o t) = Len(m) + Len(t)
      /\ \A i \in 1..Len(m) + Len(t) : (m \o t)[i] = IF i <= Len(m) THEN m[i] ELSE t[i - Len(m)]
  <2> HIDE DEF m
  <2> QED BY <1>1, ConcatProperties
<1>3. Text!createString(n, t) = m \o t
  BY DEF Text!createString
<1> HIDE DEF m
<1> QED BY <1>0, <1>1, <1>2, <1>3 DEF Spells

(***************************************************************************)
(* Two tasks have the same key only if they have the same name and the     *)
(* same time, provided the times hold no comma; names may.                 *)
(***************************************************************************)
THEOREM KeyDeterminesTask ==
  ASSUME NEW C, Text!Comma \in C,
         NEW n1 \in Seq(C), NEW t1 \in Seq(C), ~ Text!HasComma(t1),
         NEW n2 \in Seq(C), NEW t2 \in Seq(C), ~ Text!HasComma(t2)
  PROVE  Text!createString(n1, t1) = Text!createString(n2, t2) => n1 = n2 /\ t1 = t2
<1> DEFINE k == Text!createString(n1, t1)
           l == Text!createString(n2, t2)
<1>0. /\ Len(n1) \in Nat /\ Len(t1) \in Nat /\ Len(n2) \in Nat /\ Len(t2) \in Nat
      /\ DOMAIN t1 = 1..Len(t1) /\ DOMAIN t2 = 1..Len(t2)
  BY LenProperties
<1>1. Spells(k, n1, t1)
  BY KeyCharacters
<1>2. Spells(l, n2, t2)
  BY KeyCharacters
<1> HIDE DEF k, l
<1> SUFFICES ASSUME k = l PROVE n1 = n2 /\ t1 = t2
  BY DEF k, l
<1>3. ~ (Len(n1) < Len(n2))
  <2> SUFFICES ASSUME Len(n1) < Len(n2) PROVE FALSE
    OBVIOUS
  <2> DEFINE i == Len(n2) - Len(n1)
  <2>1. i \in 1..Len(t1) /\ Len(n1) + 1 + i = Len(n2) + 1
    BY <1>0, <1>1, <1>2 DEF Spells
  <2>2. t1[i] = Text!Comma
    BY <1>1, <1>2, <2>1 DEF Spells
  <2> QED BY <1>0, <2>1, <2>2 DEF Text!HasComma
<1>4. ~ (Len(n2) < Len(n1))
  <2> SUFFICES ASSUME Len(n2) < Len(n1) PROVE FALSE
    OBVIOUS
  <2> DEFINE i == Len(n1) - Len(n2)
  <2>1. i \in 1..Len(t2) /\ Len(n2) + 1 + i = Len(n1) + 1
    BY <1>0, <1>1, <1>2 DEF Spells
  <2>2. t2[i] = Text!Comma
    BY <1>1, <1>2, <2>1 DEF Spells
  <2> QED BY <1>0, <2>1, <2>2 DEF Text!HasComma
<1>5. Len(n1) = Len(n2) /\ Len(t1) = Len(t2)
  <2>1. Len(n1) = Len(n2)
    BY <1>0, <1>3, <1>4
  <2>2. Len(n1) + 1 + Len(t1) = Len(n2) + 1 + Len(t2)
    BY <1>1, <1>2 DEF Spells
  <2> DEFINE a == Len(n1)
             b == Len(t1)
             c == Len(t2)
  <2>3. a \in Nat /\ b \in Nat /\ c \in Nat /\ a + 1 + b = a + 1 + c
    BY <1>0, <2>1, <2>2
  <2>4. b = c
    <3> HIDE DEF a, b, c
    <3> QED BY <2>3
  <2> QED BY <2>1, <2>4
<1>6. n1 = n2
  <2>1. \A i \in 1..Len(n1) : n1[i] = n2[i]
    BY <1>1, <1>2, <1>5 DEF Spells
  <2> QED BY <1>5, <2>1, SeqEqual
<1>7. t1 = t2
  <2>1. \A i \in 1..Len(t1) : t1[i] = t2[i]
    BY <1>1, <1>2, <1>5 DEF Spells
  <2> QED BY <1>5, <2>1, SeqEqual
<1> QED BY <1>6, <1>7

=============================================================================
