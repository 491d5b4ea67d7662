----------------------- MODULE StoryboardAuth_proofs -----------------------
(***************************************************************************)
(* Proofs about StoryboardAuth, for every set of addresses and any number  *)
(* of controllers and requests.                                            *)
(***************************************************************************)
EXTENDS StoryboardAuth, SequenceLemmas, TLAPS

(***************************************************************************)
(* The inductive invariant.                                                *)
(***************************************************************************)

\* A navigation stack: only the root is the welcome screen, and the forms have
\* an identity that a completion handler can refer to.
StackOK(s) ==
  /\ s \in Seq(Controller) /\ s # << >>
  /\ \A k \in DOMAIN s : s[k].kind = "welcome" <=> k = 1
  /\ \A k \in DOMAIN s : s[k].kind \in {"login", "signup"} => s[k].id \in Controllers

\* Whoever is signed in, or is to get a mail, has an account.
AccountsOnly ==
  /\ current.email \in registered \cup {Nobody}
  /\ \A k \in DOMAIN requests :
       requests[k].kind \in {"created", "mail"} => requests[k].email \in registered

\* While the handler of a successful createUser waits, somebody is signed in:
\* without overlap, the account it has created, not mailed yet.
Newcomer(c) ==
  c.kind = "signup" /\ ~c.error =>
     current.email # Nobody /\ (~overlapped => current.email \notin mailed)
SomebodySignedUp == \A k \in DOMAIN callbacks : Newcomer(callbacks[k])

\* An account that createUser has made is not mailed before its handler has run.
NotMailedYet ==
  ~overlapped => \A k \in DOMAIN requests : requests[k].kind = "created" =>
                    requests[k].email \notin mailed

\* Without overlap there is one request or handler at most, and none once a
\* task list is on the stack; nothing covers that list.
OneAtATime ==
  ~overlapped => /\ Pending <= 1
                 /\ \A k \in DOMAIN stack : stack[k].kind = "tasks" => k = Len(stack) /\ Pending = 0

IInv ==
  /\ TypeOK /\ StackOK(stack) /\ AccountsOnly /\ SomebodySignedUp /\ NotMailedYet
  /\ OneAtATime /\ OneUserAtATime /\ MailsGoToNewcomers

-----------------------------------------------------------------------------
(***************************************************************************)
(* What the screens do to the stack.                                       *)
(***************************************************************************)

\* A stack and its elements.
LEMMA StackFacts ==
  ASSUME NEW s, StackOK(s)
  PROVE  /\ Len(s) \in Nat /\ Len(s) >= 1 /\ DOMAIN s = 1..Len(s)
         /\ \A k \in 1..Len(s) : s[k] \in Controller
<1>1. s \in Seq(Controller) /\ s # << >>
  BY DEF StackOK
<1>2. Len(s) \in Nat /\ DOMAIN s = 1..Len(s) /\ \A k \in 1..Len(s) : s[k] \in Controller
  BY <1>1, LenProperties, ElementOfSeq
<1>3. Len(s) # 0
  BY <1>1, EmptySeq
<1> QED BY <1>2, <1>3

\* Sequences of controllers with the right kinds and identities are stacks.
LEMMA StackIntro ==
  ASSUME NEW n \in Nat, n >= 1, NEW s \in [1..n -> Controller],
         \A k \in 1..n : s[k].kind = "welcome" <=> k = 1,
         \A k \in 1..n : s[k].kind \in {"login", "signup"} => s[k].id \in Controllers
  PROVE  StackOK(s) /\ Len(s) = n
<1>1. s \in Seq(Controller) /\ Len(s) = n
  BY FcnIsSeq
<1>2. s # << >>
  BY <1>1, EmptySeq
<1>3. DOMAIN s = 1..n
  OBVIOUS
<1> QED BY <1>1, <1>2, <1>3 DEF StackOK

LEMMA RootOK == StackOK(Root) /\ Len(Root) = 1 /\ Root[1].kind = "welcome"
<1> DEFINE c == New("welcome", NoId, Nobody)
           s == <<c>>
<1>1. c \in Controller /\ c.kind = "welcome"
  BY DEF New, Controller
<1> HIDE DEF c
<1>2. s \in [1..1 -> Controller] /\ s[1] = c
  BY <1>1
<1> HIDE DEF s
<1>3. StackOK(s) /\ Len(s) = 1
  BY <1>1, <1>2, StackIntro, SMTT(30)
<1>4. Root = s
  BY DEF Root, s, c
<1> QED BY <1>1, <1>2, <1>3, <1>4

\* A pushed controller is on top of those that were there.
LEMMA PushOK ==
  ASSUME NEW s, StackOK(s), NEW c \in Controller, c.kind # "welcome",
         c.kind \in {"login", "signup"} => c.id \in Controllers
  PROVE  /\ StackOK(Append(s, c)) /\ Len(Append(s, c)) = Len(s) + 1
         /\ Append(s, c)[Len(s) + 1] = c
         /\ \A k \in 1..Len(s) : Append(s, c)[k] = s[k]
<1> DEFINE t == Append(s, c)
           n == Len(s) + 1
<1>1. s \in Seq(Controller) /\ Len(s) \in Nat /\ DOMAIN s = 1..Len(s) /\ Len(s) >= 1
  BY StackFacts DEF StackOK
<1>2. t \in Seq(Controller) /\ Len(t) = n /\ t[n] = c /\ \A k \in 1..Len(s) : t[k] = s[k]
  BY <1>1, AppendProperties
<1>3. t # << >>
  BY <1>1, <1>2, EmptySeq
<1>4. DOMAIN t = 1..n
  BY <1>2, LenProperties
<1> HIDE DEF t
<1>5. ASSUME NEW k \in 1..n
      PROVE  /\ t[k].kind = "welcome" <=> k = 1
             /\ t[k].kind \in {"login", "signup"} => t[k].id \in Controllers
  <2>1. CASE k \in 1..Len(s)
    BY <1>1, <1>2, <2>1 DEF StackOK
  <2>2. CASE k = n
    <3>1. k # 1
      BY <1>1, <2>2
    <3> QED BY <1>2, <2>2, <3>1
  <2> QED BY <1>1, <2>1, <2>2
<1>6. StackOK(t)
  BY <1>2, <1>3, <1>4, <1>5 DEF StackOK
<1> QED BY <1>2, <1>6 DEF t

\* presentLoading and clearLoading change no controller's kind, identity or owner.
LEMMA LoadingOK ==
  ASSUME StackOK(stack), NEW id, NEW on \in BOOLEAN
  PROVE  /\ StackOK(SetLoading(id, on)) /\ Len(SetLoading(id, on)) = Len(stack)
         /\ \A k \in 1..Len(stack) : /\ SetLoading(id, on)[k].kind = stack[k].kind
                                     /\ SetLoading(id, on)[k].owner = stack[k].owner
<1> DEFINE s == SetLoading(id, on)
           n == Len(stack)
<1>1. n \in Nat /\ n >= 1 /\ DOMAIN stack = 1..n /\ \A k \in 1..n : stack[k] \in Controller
  BY StackFacts
<1>2. ASSUME NEW k \in 1..n
      PROVE  s[k] \in Controller /\ s[k].kind = stack[k].kind /\ s[k].owner = stack[k].owner
             /\ s[k].id = stack[k].id
  <2>1. s[k] = IF stack[k].id = id THEN [stack[k] EXCEPT !.loading = on] ELSE stack[k]
    BY <1>1 DEF SetLoading
  <2>2. stack[k] \in Controller
    BY <1>1
  <2> HIDE DEF s
  <2> QED BY <2>1, <2>2 DEF Controller
<1>3. s \in [1..n -> Controller]
  <2>1. DOMAIN s = 1..n /\ s = [k \in 1..n |-> s[k]]
    BY <1>1 DEF SetLoading
  <2> HIDE DEF s
  <2> QED BY <1>2, <2>1
<1> HIDE DEF s
<1>4. StackOK(s) /\ Len(s) = n
  <2>1. \A k \in 1..n : s[k].kind = "welcome" <=> k = 1
    BY <1>1, <1>2 DEF StackOK
  <2>2. \A k \in 1..n : s[k].kind \in {"login", "signup"} => s[k].id \in Controllers
    BY <1>1, <1>2 DEF StackOK
  <2> HIDE DEF n
  <2> QED BY <1>1, <1>3, <2>1, <2>2, StackIntro
<1> QED BY <1>2, <1>4 DEF s

\* The back button uncovers what was below the task list.
LEMMA PopOK ==
  ASSUME NEW s, StackOK(s), Last(s).kind = "tasks"
  PROVE  /\ StackOK(Front(s)) /\ Len(Front(s)) = Len(s) - 1
         /\ \A k \in 1..(Len(s) - 1) : Front(s)[k] = s[k]
<1> DEFINE n == Len(s) - 1
           t == Front(s)
<1>1. Len(s) \in Nat /\ Len(s) >= 1 /\ DOMAIN s = 1..Len(s) /\ \A k \in 1..Len(s) : s[k] \in Controller
  BY StackFacts
<1>2. Len(s) # 1
  <2>1. s[Len(s)].kind = "tasks"
    BY DEF Last
  <2> QED BY <1>1, <2>1 DEF StackOK
<1>3. n \in Nat /\ n >= 1
  BY <1>1, <1>2
<1>4. t = SubSeq(s, 1, n)
  BY DEF Front
<1>5. s \in Seq(Controller)
  BY DEF StackOK
<1>6. t \in [1..n -> Controller] /\ \A k \in 1..n : t[k] = s[k]
  <2>1. \A k \in 1..n : k \in 1..Len(s)
    BY <1>1
  <2>2. SubSeq(s, 1, n) = [k \in 1..n |-> s[k]]
    BY <1>1, <1>3
  <2> HIDE DEF n
  <2> QED BY <1>1, <1>4, <2>1, <2>2
<1> HIDE DEF t
<1>7. ASSUME NEW k \in 1..n
      PROVE  /\ t[k].kind = "welcome" <=> k = 1
             /\ t[k].kind \in {"login", "signup"} => t[k].id \in Controllers
  <2>1. k \in 1..Len(s) /\ t[k] = s[k]
    BY <1>1, <1>6
  <2> QED BY <1>1, <2>1 DEF StackOK
<1>8. StackOK(t) /\ Len(t) = n
  <2> HIDE DEF n
  <2> QED BY <1>3, <1>6, <1>7, StackIntro
<1> QED BY <1>6, <1>8 DEF t

-----------------------------------------------------------------------------
LEMMA InitIInv == Init => IInv
<1> SUFFICES ASSUME Init PROVE IInv
  OBVIOUS
<1>1. /\ requests = << >> /\ callbacks = << >> /\ requests \in Seq(Request)
      /\ callbacks \in Seq(Callback) /\ Pending = 0 /\ DOMAIN requests = {} /\ DOMAIN callbacks = {}
  BY DEF Init, Pending
<1>2. StackOK(stack) /\ Len(stack) = 1 /\ stack[1].kind = "welcome"
  BY RootOK DEF Init
<1>3. DOMAIN stack = {1}
  BY <1>2, StackFacts
<1>4. TypeOK
  BY <1>1, <1>2 DEF Init, TypeOK, StackOK
<1>5. AccountsOnly /\ SomebodySignedUp /\ NotMailedYet /\ MailsGoToNewcomers
  BY <1>1 DEF Init, AccountsOnly, SomebodySignedUp, NotMailedYet, MailsGoToNewcomers
<1>6. OneAtATime /\ OneUserAtATime
  BY <1>1, <1>2, <1>3 DEF OneAtATime, OneUserAtATime
<1> QED BY <1>2, <1>4, <1>5, <1>6 DEF IInv

\* The facts about a state of the invariant that every case uses.
LEMMA IInvFacts ==
  ASSUME IInv
  PROVE  /\ requests \in Seq(Request) /\ callbacks \in Seq(Callback)
         /\ Len(requests) \in Nat /\ DOMAIN requests = 1..Len(requests)
         /\ Len(callbacks) \in Nat /\ DOMAIN callbacks = 1..Len(callbacks)
         /\ Len(stack) \in Nat /\ Len(stack) >= 1 /\ DOMAIN stack = 1..Len(stack)
         /\ stack[Len(stack)] \in Controller /\ Top = stack[Len(stack)]
BY StackFacts, LenProperties DEF IInv, TypeOK, Top, Last

\* Steps that only touch the screens: the task lists that remain were there.
LEMMA ScreenStep ==
  ASSUME IInv, StackOK(stack'), alert' \in BOOLEAN,
         UNCHANGED <<serverVars, requests, callbacks, overlapped>>,
         ~overlapped => \A k \in DOMAIN stack' : stack'[k].kind = "tasks" =>
            /\ k = Len(stack')
            /\ \E j \in DOMAIN stack : stack[j].kind = "tasks" /\ stack[j].owner = stack'[k].owner
  PROVE  IInv'
<1>1. TypeOK'
  BY DEF IInv, TypeOK, StackOK, serverVars
<1>2. AccountsOnly' /\ SomebodySignedUp' /\ NotMailedYet' /\ MailsGoToNewcomers'
  BY DEF IInv, AccountsOnly, SomebodySignedUp, Newcomer, NotMailedYet, MailsGoToNewcomers, serverVars
<1>3. OneAtATime' /\ OneUserAtATime'
  BY DEF IInv, OneAtATime, OneUserAtATime, Pending, serverVars
<1> QED BY <1>1, <1>2, <1>3 DEF IInv

\* A form is in front: then, without overlap, no task list is on the stack.
LEMMA NoListBelow ==
  ASSUME IInv, Top.kind # "tasks", ~overlapped, NEW k \in DOMAIN stack
  PROVE  stack[k].kind # "tasks"
BY IInvFacts DEF IInv, OneAtATime

-----------------------------------------------------------------------------
(***************************************************************************)
(* The taps.                                                               *)
(***************************************************************************)
LEMMA PushStep ==
  ASSUME IInv, NEW kind \in {"login", "signup"}, Push(kind), Top.kind # "tasks"
  PROVE  IInv'
<1>1. PICK id \in Controllers : stack' = Append(stack, New(kind, id, Nobody))
  BY DEF Push
<1> DEFINE c == New(kind, id, Nobody)
<1>2. c \in Controller /\ c.kind = kind /\ c.id = id
  BY DEF New, Controller
<1> HIDE DEF c
<1>3. /\ StackOK(Append(stack, c)) /\ Len(Append(stack, c)) = Len(stack) + 1
      /\ Append(stack, c)[Len(stack) + 1] = c
      /\ \A k \in 1..Len(stack) : Append(stack, c)[k] = stack[k]
  BY <1>2, PushOK DEF IInv
<1>4. stack' = Append(stack, c)
  BY <1>1 DEF c
<1>5. StackOK(stack') /\ DOMAIN stack' = 1..(Len(stack) + 1)
  BY <1>3, <1>4, StackFacts
<1>6. ASSUME ~overlapped, NEW k \in DOMAIN stack' PROVE stack'[k].kind # "tasks"
  <2>1. k \in 1..Len(stack) \/ k = Len(stack) + 1
    BY <1>5, IInvFacts
  <2> QED BY <1>2, <1>3, <1>4, <1>6, <2>1, IInvFacts, NoListBelow
<1>7. UNCHANGED <<serverVars, requests, callbacks, alert, overlapped>>
  BY DEF Push
<1>8. alert' \in BOOLEAN
  BY <1>7 DEF IInv, TypeOK
<1> QED BY <1>5, <1>6, <1>7, <1>8, ScreenStep

LEMMA HomeStep == IInv /\ goToHome => IInv'
<1> SUFFICES ASSUME IInv, goToHome PROVE IInv'
  OBVIOUS
<1>1. stack' = Root /\ UNCHANGED <<serverVars, requests, callbacks, overlapped>>
  BY DEF goToHome
<1>2. StackOK(stack') /\ Len(stack') = 1 /\ stack'[1].kind = "welcome"
  BY <1>1, RootOK
<1>3. DOMAIN stack' = {1}
  BY <1>2, StackFacts
<1>4. alert' \in BOOLEAN
  BY DEF goToHome, IInv, TypeOK
<1> QED BY <1>1, <1>2, <1>3, <1>4, ScreenStep

LEMMA BackStep == IInv /\ GoBack => IInv'
<1> SUFFICES ASSUME IInv, GoBack PROVE IInv'
  OBVIOUS
<1>1. /\ Last(stack).kind = "tasks" /\ stack' = Front(stack)
      /\ UNCHANGED <<serverVars, requests, callbacks, overlapped>>
  BY DEF GoBack, InFront, Top
<1>2. /\ StackOK(stack') /\ Len(stack') = Len(stack) - 1
      /\ \A k \in 1..(Len(stack) - 1) : stack'[k] = stack[k]
  BY <1>1, PopOK DEF IInv
<1>3. DOMAIN stack' = 1..(Len(stack) - 1)
  BY <1>2, StackFacts
<1>4. ASSUME ~overlapped, NEW k \in DOMAIN stack' PROVE stack'[k].kind # "tasks"
  <2>1. k \in DOMAIN stack /\ k # Len(stack) /\ stack'[k] = stack[k]
    BY <1>2, <1>3, IInvFacts
  <2> QED BY <1>4, <2>1 DEF IInv, OneAtATime
<1>5. alert' \in BOOLEAN
  BY DEF GoBack, IInv, TypeOK
<1> QED BY <1>1, <1>2, <1>4, <1>5, ScreenStep

LEMMA AlertStep == IInv /\ (DismissAlert \/ InputRefused) => IInv'
<1> SUFFICES ASSUME IInv, DismissAlert \/ InputRefused PROVE IInv'
  OBVIOUS
<1>1. UNCHANGED <<serverVars, requests, callbacks, stack, overlapped>> /\ alert' \in BOOLEAN
  BY DEF DismissAlert, InputRefused
<1>2. StackOK(stack')
  BY <1>1 DEF IInv
<1>3. ~overlapped => \A k \in DOMAIN stack : stack[k].kind = "tasks" => k = Len(stack)
  BY DEF IInv, OneAtATime
<1> QED BY <1>1, <1>2, <1>3, ScreenStep

LEMMA LicenceStep == IInv /\ licenceBox => IInv'
<1> SUFFICES ASSUME IInv, licenceBox PROVE IInv'
  OBVIOUS
<1> DEFINE n == Len(stack)
<1>1. /\ Top.kind = "signup" /\ stack' = [stack EXCEPT ![n].accepted = ~Top.accepted]
      /\ UNCHANGED <<serverVars, requests, callbacks, alert, overlapped>>
  BY DEF licenceBox, InFront
<1>2. n \in Nat /\ n >= 1 /\ DOMAIN stack = 1..n /\ (\A k \in 1..n : stack[k] \in Controller)
      /\ Top = stack[n] /\ StackOK(stack)
  BY IInvFacts, StackFacts DEF IInv
<1>3. ASSUME NEW k \in 1..n
      PROVE  stack'[k] \in Controller /\ stack'[k].kind = stack[k].kind /\ stack'[k].id = stack[k].id
  <2> DEFINE b == ~Top.accepted
  <2>1. stack'[k] = IF k = n THEN [stack[k] EXCEPT !.accepted = b] ELSE stack[k]
    BY <1>1, <1>2
  <2>2. b \in BOOLEAN
    OBVIOUS
  <2>3. stack[k] \in Controller
    BY <1>2
  <2> HIDE DEF b
  <2> QED BY <2>1, <2>2, <2>3 DEF Controller
<1>4. stack' \in [1..n -> Controller]
  <2>1. DOMAIN stack' = 1..n /\ stack' = [k \in 1..n |-> stack'[k]]
    BY <1>1, <1>2
  <2> QED BY <1>3, <2>1
<1>5. StackOK(stack') /\ Len(stack') = n
  <2>1. \A k \in 1..n : stack'[k].kind = "welcome" <=> k = 1
    BY <1>2, <1>3 DEF StackOK
  <2>2. \A k \in 1..n : stack'[k].kind \in {"login", "signup"} => stack'[k].id \in Controllers
    BY <1>2, <1>3 DEF StackOK
  <2> HIDE DEF n
  <2> QED BY <1>2, <1>4, <2>1, <2>2, StackIntro
<1>6. ASSUME ~overlapped, NEW k \in DOMAIN stack' PROVE stack'[k].kind # "tasks"
  <2>1. k \in DOMAIN stack /\ stack'[k].kind = stack[k].kind
    BY <1>2, <1>3, <1>4
  <2> QED BY <1>1, <1>6, <2>1, NoListBelow
<1>7. alert' \in BOOLEAN
  BY <1>1 DEF IInv, TypeOK
<1> QED BY <1>1, <1>5, <1>6, <1>7, ScreenStep

\* loginPressed and signUp.
LEMMA SendStep ==
  ASSUME IInv, NEW kind \in {"login", "signup"}, NEW e \in Emails, NEW right \in BOOLEAN,
         Top.kind \in {"login", "signup"}, Send(kind, e, right)
  PROVE  IInv'
<1> DEFINE r == [kind |-> kind, ctrl |-> Top.id, email |-> e, right |-> right]
           n == Len(requests)
<1>1. /\ requests' = Append(requests, r) /\ stack' = SetLoading(Top.id, TRUE)
      /\ overlapped' = (overlapped \/ Pending > 0) /\ UNCHANGED <<serverVars, callbacks, alert>>
  BY DEF Send
<1>2. r \in Request /\ r.kind \notin {"created", "mail"}
  <2>1. Top.id \in Controllers
    BY IInvFacts DEF IInv, StackOK
  <2> QED BY <2>1 DEF Request
<1> HIDE DEF r
<1>3. requests' \in Seq(Request) /\ Len(requests') = n + 1 /\ requests'[n + 1] = r
      /\ (\A k \in 1..n : requests'[k] = requests[k]) /\ n \in Nat
  BY <1>1, <1>2, IInvFacts, AppendProperties
<1>4. DOMAIN requests' = 1..(n + 1)
  BY <1>3, LenProperties
<1>5. /\ StackOK(stack') /\ Len(stack') = Len(stack)
      /\ \A k \in 1..Len(stack) : stack'[k].kind = stack[k].kind
  BY <1>1, LoadingOK DEF IInv
<1>6. DOMAIN stack' = DOMAIN stack
  BY <1>5, StackFacts DEF IInv
<1>7. Pending \in Nat /\ Pending' = Pending + 1
  BY <1>1, <1>3, IInvFacts DEF Pending
<1>8. overlapped' \in BOOLEAN /\ (overlapped => overlapped') /\ (~overlapped' => ~(Pending > 0))
  <2>1. overlapped \in BOOLEAN
    BY DEF IInv, TypeOK
  <2> QED BY <1>1, <2>1, Zenon
<1>9. ASSUME ~overlapped' PROVE ~overlapped /\ Pending' = 1 /\ \A k \in DOMAIN stack' : stack'[k].kind # "tasks"
  <2>1. ~overlapped /\ Pending' = 1
    BY <1>7, <1>8, <1>9
  <2> QED BY <2>1, <1>5, <1>6, IInvFacts, NoListBelow
<1>10. ASSUME NEW k \in DOMAIN requests', requests'[k].kind \in {"created", "mail"}
       PROVE  \E j \in DOMAIN requests : requests'[k] = requests[j]
  <2>1. k \in 1..n \/ k = n + 1
    BY <1>3, <1>4
  <2> QED BY <1>2, <1>3, <1>10, <2>1, IInvFacts
<1>11. TypeOK'
  BY <1>1, <1>3, <1>5, <1>8 DEF IInv, TypeOK, StackOK, serverVars
<1>12. AccountsOnly' /\ SomebodySignedUp'
  BY <1>1, <1>8, <1>10 DEF IInv, AccountsOnly, SomebodySignedUp, Newcomer, serverVars
<1>13. NotMailedYet' /\ MailsGoToNewcomers'
  BY <1>1, <1>9, <1>10 DEF IInv, NotMailedYet, MailsGoToNewcomers, serverVars
<1>14. OneAtATime' /\ OneUserAtATime'
  BY <1>9 DEF OneAtATime, OneUserAtATime
<1> QED BY <1>5, <1>11, <1>12, <1>13, <1>14 DEF IInv

LEMMA LinkStep ==
  ASSUME IInv, NEW e \in Emails, FollowLink(e)
  PROVE  IInv'
<1> USE DEF FollowLink
<1>1. TypeOK' /\ StackOK(stack')
  BY DEF IInv, TypeOK
<1>2. AccountsOnly' /\ SomebodySignedUp' /\ NotMailedYet' /\ MailsGoToNewcomers'
  BY DEF IInv, AccountsOnly, SomebodySignedUp, Newcomer, NotMailedYet, MailsGoToNewcomers
<1>3. OneAtATime' /\ OneUserAtATime'
  BY DEF IInv, OneAtATime, OneUserAtATime, Pending
<1> QED BY <1>1, <1>2, <1>3 DEF IInv

-----------------------------------------------------------------------------
(***************************************************************************)
(* The answers of Firebase Auth.                                           *)
(***************************************************************************)

\* An answered request is gone.  Without overlap it was the only thing under
\* way, and no task list is on the stack.
LEMMA AnsweredRequest ==
  ASSUME IInv, NEW k \in DOMAIN requests, requests' = RemoveAt(requests, k)
  PROVE  /\ requests[k] \in Request
         /\ requests' \in Seq(Request) /\ Len(requests') = Len(requests) - 1
         /\ \A j \in DOMAIN requests' : \E i \in DOMAIN requests : requests'[j] = requests[i]
         /\ ~overlapped => /\ Len(requests) = 1 /\ DOMAIN requests' = {} /\ DOMAIN callbacks = {}
                           /\ \A j \in DOMAIN stack : stack[j].kind # "tasks"
<1>1. k \in 1..Len(requests) /\ requests \in Seq(Request) /\ Len(requests) \in Nat
      /\ Len(callbacks) \in Nat /\ DOMAIN callbacks = 1..Len(callbacks)
  BY IInvFacts
<1>2. requests[k] \in Request
  BY <1>1, ElementOfSeq
<1>3. requests' \in Seq(Request) /\ Len(requests') = Len(requests) - 1
  BY <1>1, RemoveAtSeq
<1>4. \A j \in DOMAIN requests' : \E i \in DOMAIN requests : requests'[j] = requests[i]
  BY <1>1, RemoveAtElement
<1>5. ASSUME ~overlapped
      PROVE  /\ Len(requests) = 1 /\ DOMAIN requests' = {} /\ DOMAIN callbacks = {}
             /\ \A j \in DOMAIN stack : stack[j].kind # "tasks"
  <2>1. Len(requests) + Len(callbacks) <= 1
    BY <1>5 DEF IInv, OneAtATime, Pending
  <2>0. Len(requests) \in Nat /\ Len(callbacks) \in Nat /\ Len(requests) >= 1
    BY <1>1
  <2>2. Len(requests) = 1 /\ Len(callbacks) = 0
    BY <2>0, <2>1
  <2>3. DOMAIN requests' = 1..0 /\ DOMAIN callbacks = 1..0
    BY <1>1, <1>3, <2>2, LenProperties
  <2>4. Pending # 0
    BY <2>2 DEF Pending
  <2> QED BY <1>5, <2>2, <2>3, <2>4 DEF IInv, OneAtATime
<1> QED BY <1>2, <1>3, <1>4, <1>5

\* The handler of a login or signup takes the place of its request.
LEMMA AnswerStep ==
  ASSUME IInv, NEW k \in DOMAIN requests, NEW error \in BOOLEAN, Answer(k, error),
         NEW kind, kind = IF requests[k].kind = "login" THEN "login" ELSE "signup"
  PROVE  /\ callbacks' \in Seq(Callback) /\ Len(callbacks') = Len(callbacks) + 1
         /\ \A j \in DOMAIN callbacks' :
              \/ \E i \in DOMAIN callbacks : callbacks'[j] = callbacks[i]
              \/ callbacks'[j].kind = kind /\ callbacks'[j].error = error
         /\ Pending' = Pending
<1> DEFINE c == [kind |-> kind, ctrl |-> requests[k].ctrl, error |-> error]
           n == Len(callbacks)
<1>1. requests' = RemoveAt(requests, k) /\ callbacks' = Append(callbacks, c)
  BY DEF Answer
<1>2. requests[k] \in Request /\ Len(requests') = Len(requests) - 1
  BY <1>1, AnsweredRequest
<1>3. c \in Callback /\ c.kind = kind /\ c.error = error
  BY <1>2 DEF Request, Callback
<1> HIDE DEF c
<1>4. callbacks \in Seq(Callback) /\ n \in Nat /\ DOMAIN callbacks = 1..n /\ Len(requests) \in Nat
  BY IInvFacts
<1>5. callbacks' \in Seq(Callback) /\ Len(callbacks') = n + 1 /\ callbacks'[n + 1] = c
      /\ \A j \in 1..n : callbacks'[j] = callbacks[j]
  BY <1>1, <1>3, <1>4, AppendProperties
<1>6. DOMAIN callbacks' = 1..(n + 1)
  BY <1>5, LenProperties
<1>7. ASSUME NEW j \in DOMAIN callbacks'
      PROVE  \/ \E i \in DOMAIN callbacks : callbacks'[j] = callbacks[i]
             \/ callbacks'[j].kind = kind /\ callbacks'[j].error = error
  <2>1. j \in 1..n \/ j = n + 1
    BY <1>4, <1>6
  <2> QED BY <1>3, <1>4, <1>5, <2>1
<1>8. Pending' = Pending
  BY <1>2, <1>4, <1>5 DEF Pending
<1> QED BY <1>5, <1>7, <1>8

LEMMA SignedInStep ==
  ASSUME IInv, NEW k \in DOMAIN requests, SignedIn(k)
  PROVE  IInv'
<1> DEFINE e == requests[k].email
<1>1. /\ requests[k].kind = "login" /\ e \in registered /\ Answer(k, FALSE)
      /\ current' = [email |-> e, verified |-> e \in verified]
      /\ UNCHANGED <<registered, verified, mailed, stack, alert, overlapped>>
  BY DEF SignedIn, UserOf
<1>2. requests' = RemoveAt(requests, k)
  BY <1>1 DEF Answer
<1>3. current'.email = e /\ e \in Emails /\ e # Nobody /\ current' \in User
  <2>1. e \in Emails /\ e # Nobody
    BY <1>1, NobodyAssumption DEF IInv, TypeOK
  <2>2. (e \in verified) \in BOOLEAN
    OBVIOUS
  <2> HIDE DEF e
  <2> QED BY <1>1, <2>1, <2>2 DEF User
<1>4. TypeOK'
  BY <1>1, <1>2, <1>3, AnsweredRequest, AnswerStep DEF IInv, TypeOK
<1>5. AccountsOnly'
  BY <1>1, <1>2, <1>3, AnsweredRequest DEF IInv, AccountsOnly
<1>6. SomebodySignedUp'
  <2>1. \A j \in DOMAIN callbacks' :
           (\E i \in DOMAIN callbacks : callbacks'[j] = callbacks[i]) \/ callbacks'[j].kind = "login"
    BY <1>1, AnswerStep
  <2>2. ~overlapped => DOMAIN callbacks = {}
    BY <1>2, AnsweredRequest
  <2> QED BY <1>1, <1>3, <2>1, <2>2 DEF IInv, SomebodySignedUp, Newcomer
<1>7. OneAtATime' /\ OneUserAtATime' /\ NotMailedYet' /\ MailsGoToNewcomers'
  <2>1. ~overlapped => /\ DOMAIN requests' = {} /\ Pending' = Pending /\ Pending <= 1
                       /\ \A j \in DOMAIN stack : stack[j].kind # "tasks"
    BY <1>1, <1>2, AnsweredRequest, AnswerStep DEF IInv, OneAtATime
  <2> QED BY <1>1, <2>1 DEF OneAtATime, OneUserAtATime, NotMailedYet, MailsGoToNewcomers
<1> QED BY <1>1, <1>4, <1>5, <1>6, <1>7 DEF IInv

\* The first half of createUser: its request goes on.
LEMMA AccountStep ==
  ASSUME IInv, NEW k \in DOMAIN requests, AccountCreated(k)
  PROVE  IInv'
<1> DEFINE r == requests[k]
           q == [r EXCEPT !.kind = "created"]
           n == Len(requests)
<1>1. /\ r.email \notin registered /\ registered' = registered \cup {r.email}
      /\ UNCHANGED <<verified, mailed, current, callbacks, stack, alert, overlapped>>
  BY DEF AccountCreated
<1>2. /\ requests \in Seq(Request) /\ n \in Nat /\ DOMAIN requests = 1..n /\ k \in 1..n
      /\ \A j \in 1..n : requests[j] \in Request
  BY IInvFacts, ElementOfSeq
<1>3. requests' = [requests EXCEPT ![k] = q]
  BY DEF AccountCreated
<1>4. r \in Request
  BY <1>2
<1> HIDE DEF r
<1>5. q \in Request /\ q.kind = "created" /\ q.email = r.email /\ r.email \in Emails
  BY <1>4 DEF Request
<1> HIDE DEF q
<1>6. /\ requests' \in Seq(Request) /\ Len(requests') = n /\ DOMAIN requests' = 1..n
      /\ \A j \in 1..n : requests'[j] = IF j = k THEN q ELSE requests[j]
  BY <1>2, <1>3, <1>5
<1>7. r.email \notin mailed
  BY <1>1 DEF IInv, TypeOK
<1>8. TypeOK' /\ StackOK(stack')
  BY <1>1, <1>5, <1>6 DEF IInv, TypeOK
<1>9. AccountsOnly' /\ SomebodySignedUp'
  BY <1>1, <1>2, <1>5, <1>6 DEF IInv, AccountsOnly, SomebodySignedUp, Newcomer
<1>10. NotMailedYet' /\ MailsGoToNewcomers'
  BY <1>1, <1>2, <1>5, <1>6, <1>7 DEF IInv, NotMailedYet, MailsGoToNewcomers
<1>11. OneAtATime' /\ OneUserAtATime'
  <2>1. Pending' = Pending
    BY <1>1, <1>6 DEF Pending
  <2> QED BY <1>1, <2>1 DEF IInv, OneAtATime, OneUserAtATime
<1> QED BY <1>8, <1>9, <1>10, <1>11 DEF IInv

LEMMA CreatedStep ==
  ASSUME IInv, NEW k \in DOMAIN requests, Created(k)
  PROVE  IInv'
<1> DEFINE e == requests[k].email
<1>1. /\ requests[k].kind = "created" /\ Answer(k, FALSE)
      /\ current' = [email |-> e, verified |-> e \in verified]
      /\ UNCHANGED <<registered, verified, mailed, stack, alert, overlapped>>
  BY DEF Created, UserOf
<1>2. requests' = RemoveAt(requests, k)
  BY <1>1 DEF Answer
<1>3. /\ current'.email = e /\ e # Nobody /\ current' \in User /\ e \in registered
      /\ ~overlapped => e \notin mailed
  <2>1. e \in Emails /\ e # Nobody
    BY <1>2, AnsweredRequest, NobodyAssumption DEF Request
  <2>2. e \in registered /\ (~overlapped => e \notin mailed)
    BY <1>1 DEF IInv, AccountsOnly, NotMailedYet
  <2>3. (e \in verified) \in BOOLEAN
    OBVIOUS
  <2> HIDE DEF e
  <2> QED BY <1>1, <2>1, <2>2, <2>3 DEF User
<1>4. TypeOK'
  BY <1>1, <1>2, <1>3, AnsweredRequest, AnswerStep DEF IInv, TypeOK
<1>5. AccountsOnly'
  BY <1>1, <1>2, <1>3, AnsweredRequest DEF IInv, AccountsOnly
<1>6. SomebodySignedUp'
  BY <1>1, <1>3 DEF SomebodySignedUp, Newcomer
<1>7. OneAtATime' /\ OneUserAtATime' /\ NotMailedYet' /\ MailsGoToNewcomers'
  <2>1. ~overlapped => /\ DOMAIN requests' = {} /\ Pending' = Pending /\ Pending <= 1
                       /\ \A j \in DOMAIN stack : stack[j].kind # "tasks"
    BY <1>1, <1>2, AnsweredRequest, AnswerStep DEF IInv, OneAtATime
  <2> QED BY <1>1, <2>1 DEF OneAtATime, OneUserAtATime, NotMailedYet, MailsGoToNewcomers
<1> QED BY <1>1, <1>4, <1>5, <1>6, <1>7 DEF IInv

LEMMA RefusedStep ==
  ASSUME IInv, NEW k \in DOMAIN requests, Refused(k)
  PROVE  IInv'
<1>1. /\ Answer(k, TRUE)
      /\ UNCHANGED <<registered, verified, mailed, current, stack, alert, overlapped>>
  BY DEF Refused, serverVars
<1>2. requests' = RemoveAt(requests, k)
  BY <1>1 DEF Answer
<1>a. requests' \in Seq(Request) /\ callbacks' \in Seq(Callback)
  BY <1>1, <1>2, AnsweredRequest, AnswerStep
<1>b. \A j \in DOMAIN requests' : \E i \in DOMAIN requests : requests'[j] = requests[i]
  BY <1>2, AnsweredRequest
<1>3. TypeOK' /\ AccountsOnly'
  BY <1>1, <1>a, <1>b DEF IInv, TypeOK, AccountsOnly
<1>4. SomebodySignedUp'
  <2>1. \A j \in DOMAIN callbacks' :
           (\E i \in DOMAIN callbacks : callbacks'[j] = callbacks[i]) \/ callbacks'[j].error = TRUE
    BY <1>1, AnswerStep
  <2> QED BY <1>1, <2>1 DEF IInv, SomebodySignedUp, Newcomer
<1>5. OneAtATime' /\ OneUserAtATime' /\ NotMailedYet' /\ MailsGoToNewcomers'
  <2>1. ~overlapped => /\ DOMAIN requests' = {} /\ Pending' = Pending /\ Pending <= 1
                       /\ \A j \in DOMAIN stack : stack[j].kind # "tasks"
    BY <1>1, <1>2, AnsweredRequest, AnswerStep DEF IInv, OneAtATime
  <2> QED BY <1>1, <2>1 DEF OneAtATime, OneUserAtATime, NotMailedYet, MailsGoToNewcomers
<1> QED BY <1>1, <1>3, <1>4, <1>5 DEF IInv

LEMMA MailStep ==
  ASSUME IInv, NEW k \in DOMAIN requests, MailAnswered(k)
  PROVE  IInv'
<1>1. /\ requests[k].kind = "mail" /\ requests' = RemoveAt(requests, k)
      /\ mailed' = mailed \/ mailed' = mailed \cup {requests[k].email}
      /\ UNCHANGED <<registered, verified, current, callbacks, stack, overlapped>>
  BY DEF MailAnswered
<1>2. alert' \in BOOLEAN
  <2>1. alert \in BOOLEAN
    BY DEF IInv, TypeOK
  <2> QED BY <2>1 DEF MailAnswered, Presented
<1>3. requests[k].email \in registered
  BY <1>1 DEF IInv, AccountsOnly
<1>4. TypeOK' /\ AccountsOnly'
  BY <1>1, <1>2, <1>3, AnsweredRequest DEF IInv, TypeOK, AccountsOnly
<1>5. ~overlapped => /\ DOMAIN requests' = {} /\ DOMAIN callbacks = {} /\ Pending' <= 1
                     /\ \A j \in DOMAIN stack : stack[j].kind # "tasks"
  <2>1. Len(requests) \in Nat /\ Len(callbacks) \in Nat
    BY IInvFacts
  <2>2. ~overlapped => /\ DOMAIN requests' = {} /\ DOMAIN callbacks = {}
                       /\ \A j \in DOMAIN stack : stack[j].kind # "tasks"
    BY <1>1, AnsweredRequest
  <2>3. Len(requests') = Len(requests) - 1
    BY <1>1, AnsweredRequest
  <2>4. ~overlapped => Len(requests) + Len(callbacks) <= 1
    BY DEF IInv, OneAtATime, Pending
  <2> QED BY <1>1, <2>1, <2>2, <2>3, <2>4 DEF Pending
<1>6. SomebodySignedUp'
  BY <1>1, <1>5 DEF IInv, SomebodySignedUp, Newcomer
<1>7. OneAtATime' /\ OneUserAtATime' /\ NotMailedYet' /\ MailsGoToNewcomers'
  BY <1>1, <1>5 DEF OneAtATime, OneUserAtATime, NotMailedYet, MailsGoToNewcomers
<1> QED BY <1>1, <1>4, <1>6, <1>7 DEF IInv

-----------------------------------------------------------------------------
(***************************************************************************)
(* The completion handlers.                                                *)
(***************************************************************************)

\* The handler that runs leaves the queue.  Without overlap it was the only
\* thing under way, and no task list is on the stack.
LEMMA NextHandler ==
  ASSUME IInv, callbacks # << >>, callbacks' = Tail(callbacks)
  PROVE  /\ Head(callbacks) \in Callback /\ Newcomer(Head(callbacks))
         /\ callbacks' \in Seq(Callback) /\ Len(callbacks') = Len(callbacks) - 1
         /\ \A j \in DOMAIN callbacks' : \E i \in DOMAIN callbacks : callbacks'[j] = callbacks[i]
         /\ ~overlapped => /\ Len(requests) = 0 /\ Len(callbacks') = 0
                           /\ \A j \in DOMAIN stack : stack[j].kind # "tasks"
<1> DEFINE n == Len(callbacks)
<1>1. callbacks \in Seq(Callback) /\ n \in Nat /\ DOMAIN callbacks = 1..n /\ Len(requests) \in Nat
  BY IInvFacts
<1>2. n >= 1
  BY <1>1, EmptySeq
<1>3. /\ Head(callbacks) \in Callback /\ Head(callbacks) = callbacks[1]
      /\ callbacks' \in Seq(Callback) /\ Len(callbacks') = n - 1
      /\ \A j \in 1..Len(callbacks') : callbacks'[j] = callbacks[j + 1]
  BY <1>1, HeadTailProperties
<1>4. Newcomer(Head(callbacks))
  BY <1>1, <1>2, <1>3 DEF IInv, SomebodySignedUp
<1>5. ASSUME NEW j \in DOMAIN callbacks' PROVE \E i \in DOMAIN callbacks : callbacks'[j] = callbacks[i]
  <2>1. j \in 1..(n - 1)
    BY <1>3, LenProperties
  <2>2. j + 1 \in DOMAIN callbacks /\ callbacks'[j] = callbacks[j + 1]
    BY <1>1, <1>3, <2>1
  <2> QED BY <2>2
<1>6. ASSUME ~overlapped
      PROVE  /\ Len(requests) = 0 /\ Len(callbacks') = 0
             /\ \A j \in DOMAIN stack : stack[j].kind # "tasks"
  <2>1. Len(requests) + n <= 1
    BY <1>6 DEF IInv, OneAtATime, Pending
  <2>2. Len(requests) = 0 /\ n = 1
    BY <1>1, <1>2, <2>1
  <2>3. Pending # 0
    BY <2>2 DEF Pending
  <2> QED BY <1>3, <1>6, <2>2, <2>3 DEF IInv, OneAtATime
<1> QED BY <1>3, <1>4, <1>5, <1>6

\* A handler that sends nothing and pushes no list.
LEMMA QuietHandler ==
  ASSUME IInv, callbacks # << >>, callbacks' = Tail(callbacks), alert' \in BOOLEAN,
         UNCHANGED <<overlapped, serverVars, requests>>, StackOK(stack'),
         Len(stack') = Len(stack),
         \A k \in 1..Len(stack) : stack'[k].kind = stack[k].kind
  PROVE  IInv'
<1>1. UNCHANGED <<registered, verified, mailed, current>>
  BY DEF serverVars
<1>2. callbacks' \in Seq(Callback)
      /\ \A j \in DOMAIN callbacks' : \E i \in DOMAIN callbacks : callbacks'[j] = callbacks[i]
  BY NextHandler
<1>3. ~overlapped => /\ Len(requests) = 0 /\ Len(callbacks') = 0
                     /\ \A j \in DOMAIN stack : stack[j].kind # "tasks"
  BY NextHandler
<1>4. DOMAIN stack' = 1..Len(stack) /\ DOMAIN stack = 1..Len(stack)
  BY StackFacts, IInvFacts
<1>5. TypeOK'
  BY <1>1, <1>2 DEF IInv, TypeOK, StackOK
<1>6. AccountsOnly' /\ SomebodySignedUp' /\ NotMailedYet' /\ MailsGoToNewcomers'
  BY <1>1, <1>2 DEF IInv, AccountsOnly, SomebodySignedUp, Newcomer, NotMailedYet, MailsGoToNewcomers
<1>7. OneAtATime' /\ OneUserAtATime'
  BY <1>1, <1>3, <1>4 DEF OneAtATime, OneUserAtATime, Pending
<1> QED BY <1>5, <1>6, <1>7 DEF IInv

\* LoginAndVerify pushes the task list of the current user on what is there.
LEMMA ListOnTop ==
  ASSUME IInv, NEW id, NEW st, st = Append(SetLoading(id, FALSE), New("tasks", NoId, current.email))
  PROVE  /\ StackOK(st) /\ Len(st) = Len(stack) + 1 /\ st[Len(stack) + 1].owner = current.email
         /\ \A k \in 1..Len(stack) : st[k].kind = stack[k].kind
<1> DEFINE s == SetLoading(id, FALSE)
           c == New("tasks", NoId, current.email)
<1>1. StackOK(s) /\ Len(s) = Len(stack) /\ \A k \in 1..Len(stack) : s[k].kind = stack[k].kind
  BY LoadingOK DEF IInv
<1>2. c \in Controller /\ c.kind = "tasks" /\ c.owner = current.email
  <2>1. current.email \in Emails \cup {Nobody}
    BY DEF IInv, TypeOK, User
  <2> QED BY <2>1 DEF New, Controller
<1>3. st = Append(s, c)
  OBVIOUS
<1> HIDE DEF s, c
<1>4. /\ StackOK(Append(s, c)) /\ Len(Append(s, c)) = Len(s) + 1
      /\ Append(s, c)[Len(s) + 1] = c /\ \A k \in 1..Len(s) : Append(s, c)[k] = s[k]
  BY <1>1, <1>2, PushOK
<1> QED BY <1>1, <1>2, <1>3, <1>4, Zenon

\* Without overlap it is the only one, and nothing else is under way.
LEMMA ListPushed ==
  ASSUME IInv, callbacks # << >>, callbacks' = Tail(callbacks), current.verified,
         UNCHANGED <<alert, overlapped, serverVars, requests>>,
         StackOK(stack'), Len(stack') = Len(stack) + 1,
         stack'[Len(stack) + 1].owner = current.email,
         \A k \in 1..Len(stack) : stack'[k].kind = stack[k].kind
  PROVE  IInv'
<1> DEFINE n == Len(stack)
<1>1. UNCHANGED <<registered, verified, mailed, current>>
  BY DEF serverVars
<1>2. callbacks' \in Seq(Callback)
      /\ \A j \in DOMAIN callbacks' : \E i \in DOMAIN callbacks : callbacks'[j] = callbacks[i]
  BY NextHandler
<1>3. ~overlapped => /\ Len(requests) = 0 /\ Len(callbacks') = 0
                     /\ \A j \in DOMAIN stack : stack[j].kind # "tasks"
  BY NextHandler
<1>4. DOMAIN stack' = 1..(n + 1) /\ DOMAIN stack = 1..n /\ n \in Nat
  BY StackFacts, IInvFacts
<1>5. ASSUME ~overlapped, NEW k \in DOMAIN stack', stack'[k].kind = "tasks"
      PROVE  k = n + 1 /\ stack'[k].owner = current.email
  <2>1. k \in 1..n \/ k = n + 1
    BY <1>4
  <2> QED BY <1>3, <1>4, <1>5, <2>1
<1>6. TypeOK'
  BY <1>1, <1>2 DEF IInv, TypeOK, StackOK
<1>7. AccountsOnly' /\ SomebodySignedUp' /\ NotMailedYet' /\ MailsGoToNewcomers'
  BY <1>1, <1>2 DEF IInv, AccountsOnly, SomebodySignedUp, Newcomer, NotMailedYet, MailsGoToNewcomers
<1>8. ~overlapped => Pending' = 0
  BY <1>3 DEF Pending
<1>9. OneAtATime'
  BY <1>5, <1>8 DEF OneAtATime
<1>10. OneUserAtATime'
  BY <1>1, <1>5 DEF OneUserAtATime
<1> QED BY <1>6, <1>7, <1>9, <1>10 DEF IInv

\* The handler of createUser sends the mail and goes home.
LEMMA RegisteredStep ==
  ASSUME IInv, callbacks # << >>, callbacks' = Tail(callbacks), Registered(Head(callbacks))
  PROVE  IInv'
<1> DEFINE c == Head(callbacks)
           r == [kind |-> "mail", ctrl |-> c.ctrl, email |-> current.email, right |-> TRUE]
           n == Len(requests)
<1>1. /\ c.kind = "signup" /\ ~c.error /\ requests' = Append(requests, r)
      /\ stack' = (IF OnStack(c.ctrl) THEN Root ELSE stack) /\ alert' \in {alert, FALSE}
      /\ UNCHANGED <<overlapped, registered, verified, mailed, current>>
  BY DEF Registered, serverVars
<1>2. callbacks' \in Seq(Callback)
      /\ \A j \in DOMAIN callbacks' : \E i \in DOMAIN callbacks : callbacks'[j] = callbacks[i]
  BY NextHandler
<1>3. ~overlapped => /\ n = 0 /\ Len(callbacks') = 0
                     /\ \A j \in DOMAIN stack : stack[j].kind # "tasks"
  BY NextHandler
<1>4. c \in Callback /\ current.email # Nobody /\ (~overlapped => current.email \notin mailed)
  BY <1>1, NextHandler DEF Newcomer
<1>5. current.email \in registered /\ current.email \in Emails
  BY <1>4 DEF IInv, TypeOK, AccountsOnly
<1>6. r \in Request /\ r.email = current.email
  BY <1>4, <1>5 DEF Request, Callback
<1> HIDE DEF r, c
<1>7. requests' \in Seq(Request) /\ Len(requests') = n + 1 /\ requests'[n + 1] = r
      /\ (\A k \in 1..n : requests'[k] = requests[k]) /\ n \in Nat
  BY <1>1, <1>6, IInvFacts, AppendProperties
<1>8. DOMAIN requests' = 1..(n + 1)
  BY <1>7, LenProperties
<1>9. ASSUME NEW k \in DOMAIN requests'
      PROVE  requests'[k] = r \/ \E j \in DOMAIN requests : requests'[k] = requests[j]
  <2>1. k \in 1..n \/ k = n + 1
    BY <1>7, <1>8
  <2> QED BY <1>7, <2>1, IInvFacts
<1>10. StackOK(stack') /\ \A k \in DOMAIN stack' : ~overlapped => stack'[k].kind # "tasks"
  <2>1. StackOK(Root) /\ DOMAIN Root = {1} /\ Root[1].kind = "welcome"
    BY RootOK, StackFacts
  <2> QED BY <1>1, <1>3, <2>1 DEF IInv
<1>11. TypeOK'
  BY <1>1, <1>2, <1>7, <1>10 DEF IInv, TypeOK, StackOK
<1>12. AccountsOnly' /\ SomebodySignedUp'
  BY <1>1, <1>2, <1>5, <1>6, <1>9 DEF IInv, AccountsOnly, SomebodySignedUp, Newcomer
<1>13. NotMailedYet' /\ MailsGoToNewcomers'
  BY <1>1, <1>4, <1>5, <1>6, <1>9 DEF IInv, NotMailedYet, MailsGoToNewcomers
<1>14. OneAtATime' /\ OneUserAtATime'
  <2>1. ~overlapped => Len(requests') = 1 /\ Len(callbacks') = 0
    BY <1>3, <1>7
  <2>2. ~overlapped => Pending' <= 1
    <3> DEFINE p == Len(requests')
               q == Len(callbacks')
    <3>1. Pending' = p + q
      BY DEF Pending
    <3>2. ~overlapped => p = 1 /\ q = 0
      BY <2>1
    <3> HIDE DEF p, q
    <3> QED BY <3>1, <3>2
  <2>3. overlapped' = overlapped
    BY <1>1
  <2>4. ~overlapped => \A k \in DOMAIN stack' : stack'[k].kind # "tasks"
    BY <1>10
  <2> QED BY <2>2, <2>3, <2>4 DEF OneAtATime, OneUserAtATime
<1> QED BY <1>10, <1>11, <1>12, <1>13, <1>14 DEF IInv

LEMMA CallbackStep == IInv /\ RunCallback => IInv'
<1> SUFFICES ASSUME IInv, RunCallback PROVE IInv'
  OBVIOUS
<1> DEFINE c == Head(callbacks)
<1>1. callbacks # << >> /\ callbacks' = Tail(callbacks)
      /\ (LoginAndVerify(c) \/ RegisterRefused(c) \/ Registered(c))
  BY DEF RunCallback
<1> HIDE DEF c
<1>2. StackOK(stack) /\ alert \in BOOLEAN
  BY DEF IInv, TypeOK
<1>3. ASSUME alert' = Presented(c.ctrl), stack' = SetLoading(c.ctrl, FALSE),
             UNCHANGED <<overlapped, serverVars, requests>>
      PROVE  IInv'
  <2>1. alert' \in BOOLEAN
    BY <1>2, <1>3 DEF Presented
  <2>2. /\ StackOK(stack') /\ Len(stack') = Len(stack)
        /\ \A k \in 1..Len(stack) : stack'[k].kind = stack[k].kind
    BY <1>2, <1>3, LoadingOK
  <2> QED BY <1>1, <1>3, <2>1, <2>2, QuietHandler
<1>4. CASE LoginAndVerify(c)
  <2>1. CASE ~OnStack(c.ctrl)
    <3>1. UNCHANGED <<stack, alert, overlapped, serverVars, requests>>
      BY <1>4, <2>1 DEF LoginAndVerify
    <3> QED BY <1>1, <1>2, <3>1, QuietHandler
  <2>2. CASE OnStack(c.ctrl) /\ (c.error \/ ~current.verified)
    <3>1. LoginRefused(c)
      BY <1>4, <2>2 DEF LoginAndVerify
    <3> QED BY <1>3, <3>1 DEF LoginRefused
  <2>3. CASE OnStack(c.ctrl) /\ ~(c.error \/ ~current.verified)
    <3>1. /\ stack' = Append(SetLoading(c.ctrl, FALSE), New("tasks", NoId, current.email))
          /\ UNCHANGED <<alert, overlapped, serverVars, requests>>
      BY <1>4, <2>3 DEF LoginAndVerify
    <3>2. /\ StackOK(stack') /\ Len(stack') = Len(stack) + 1
          /\ stack'[Len(stack) + 1].owner = current.email
          /\ \A k \in 1..Len(stack) : stack'[k].kind = stack[k].kind
      BY <3>1, ListOnTop
    <3>3. UNCHANGED <<alert, overlapped, serverVars, requests>>
      BY <3>1
    <3> QED BY <1>1, <2>3, <3>2, <3>3, ListPushed
  <2> QED BY <2>1, <2>2, <2>3
<1>5. CASE RegisterRefused(c)
  BY <1>3, <1>5 DEF RegisterRefused
<1>6. CASE Registered(c)
  BY <1>1, <1>6, RegisteredStep DEF c
<1> QED BY <1>1, <1>4, <1>5, <1>6

-----------------------------------------------------------------------------
LEMMA NextIInv == IInv /\ [Next]_vars => IInv'
<1> SUFFICES ASSUME IInv, [Next]_vars PROVE IInv'
  OBVIOUS
<1>1. CASE goToLogin \/ goToSignup
  BY <1>1, PushStep DEF goToLogin, goToSignup, InFront
<1>2. CASE goToHome \/ GoBack \/ DismissAlert \/ InputRefused \/ licenceBox
  BY <1>2, HomeStep, BackStep, AlertStep, LicenceStep
<1>3. ASSUME NEW e \in Emails, signUp(e) \/ FollowLink(e) PROVE IInv'
  BY <1>3, SendStep, LinkStep DEF signUp, InFront
<1>4. ASSUME NEW e \in Emails, NEW right \in BOOLEAN, loginPressed(e, right) PROVE IInv'
  BY <1>4, SendStep DEF loginPressed, InFront
<1>5. CASE ServiceStep
  BY <1>5, SignedInStep, AccountStep, CreatedStep, RefusedStep, MailStep DEF ServiceStep, AnswerOf
<1>6. CASE RunCallback
  BY <1>6, CallbackStep
<1>7. CASE UNCHANGED vars
  <2>1. UNCHANGED <<serverVars, requests, callbacks, overlapped, stack, alert>>
    BY <1>7 DEF vars
  <2>2. StackOK(stack') /\ alert' \in BOOLEAN
    BY <2>1 DEF IInv, TypeOK
  <2>3. ~overlapped => \A k \in DOMAIN stack : stack[k].kind = "tasks" => k = Len(stack)
    BY DEF IInv, OneAtATime
  <2> QED BY <2>1, <2>2, <2>3, ScreenStep
<1> QED BY <1>1, <1>2, <1>3, <1>4, <1>5, <1>6, <1>7 DEF Next, UserStep

LEMMA AlwaysIInv == Spec => []IInv
BY InitIInv, NextIInv, PTL DEF Spec

\* The accounts, requests, handlers and screens keep their types: sendEmailForVer
\* always finds a current user, with an account, and the welcome screen stays the
\* root of the stack, and only that.
THEOREM TypeCorrect == Spec => []TypeOK
<1>1. IInv => TypeOK
  BY DEF IInv
<1> QED BY <1>1, AlwaysIInv, PTL

\* A task list on the stack is the current user's, who is verified, as long as
\* no two requests were under way together.
THEOREM ListIsTheirs == Spec => []OneUserAtATime
<1>1. IInv => OneUserAtATime
  BY DEF IInv
<1> QED BY <1>1, AlwaysIInv, PTL

\* Under the same condition sendEmailForVer mails the account just created.
THEOREM NewcomersAreMailed == Spec => []MailsGoToNewcomers
<1>1. IInv => MailsGoToNewcomers
  BY DEF IInv
<1> QED BY <1>1, AlwaysIInv, PTL

=============================================================================
