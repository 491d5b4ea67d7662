------------------------ MODULE ExchangerAuth_proofs ------------------------
(***************************************************************************)
(* Proofs about ExchangerAuth, for every set of addresses and any number   *)
(* of requests under way.                                                  *)
(***************************************************************************)
EXTENDS ExchangerAuth, SequenceLemmas, TLAPS

\* signUpUser sends only addresses that validateEmail accepts.
Sent == {r \in Request : r.kind = "signup" => r.email \in Emails}

\* Requests that do not change who is logged in.
Harmless == {r \in Sent : r.kind \in {"reset", "gone"}}

(***************************************************************************)
(* The inductive invariant.  Without overlap there is one request at most, *)
(* and none that logs anybody in while MainUI is presented; a reset screen *)
(* whose view model says "dissmis" has sent its mail.                      *)
(***************************************************************************)
MailBeforeDismissal == dissmis => mailed
OneRequest == ~overlapped => Len(requests) <= 1
NobodyElseComes == ~overlapped /\ presentable => requests \in Seq(Harmless)

IInv ==
  /\ TypeOK /\ requests \in Seq(Sent)
  /\ MailBeforeDismissal /\ OneRequest /\ NobodyElseComes /\ MainBelongsToTheLogin

-----------------------------------------------------------------------------
\* The requests keep their places when a reset screen is dismissed.
LEMMA GoneSeq ==
  ASSUME NEW rs \in Seq(Sent)
  PROVE  Gone(rs) \in Seq(Sent) /\ Len(Gone(rs)) = Len(rs)
<1>1. Len(rs) \in Nat /\ DOMAIN rs = 1..Len(rs) /\ \A k \in 1..Len(rs) : rs[k] \in Sent
  BY LenProperties, ElementOfSeq
<1>2. \A r \in Sent : r.kind = "reset" => [r EXCEPT !.kind = "gone"] \in Sent
  BY DEF Sent, Request
<1>3. Gone(rs) \in [1..Len(rs) -> Sent]
  BY <1>1, <1>2 DEF Gone
<1> QED BY <1>1, <1>3, FcnIsSeq

\* Nor do they become logins.
LEMMA GoneHarmless ==
  ASSUME NEW rs \in Seq(Harmless)
  PROVE  Gone(rs) \in Seq(Harmless)
<1>1. Len(rs) \in Nat /\ DOMAIN rs = 1..Len(rs) /\ \A k \in 1..Len(rs) : rs[k] \in Harmless
  BY LenProperties, ElementOfSeq
<1>2. \A r \in Harmless : r.kind = "reset" => [r EXCEPT !.kind = "gone"] \in Harmless
  BY DEF Harmless, Sent, Request
<1>3. Gone(rs) \in [1..Len(rs) -> Harmless]
  BY <1>1, <1>2 DEF Gone
<1> QED BY <1>1, <1>3, FcnIsSeq

\* What is sent is typed.
LEMMA SentIsRequest == \A rs \in Seq(Sent) : rs \in Seq(Request)
<1>1. Sent \subseteq Request
  BY DEF Sent
<1> QED BY <1>1, SeqMonotonic

-----------------------------------------------------------------------------
LEMMA InitIInv == Init => IInv
<1> SUFFICES ASSUME Init PROVE IInv
  OBVIOUS
<1>1. requests \in Seq(Sent) /\ requests \in Seq(Request) /\ Len(requests) = 0
  BY DEF Init
<1>2. Len(requests) <= 1 /\ Len(requests) <= MaxRequests
  BY <1>1, MaxRequestsAssumption
<1>3. TypeOK
  BY <1>1, <1>2 DEF Init, TypeOK, Messages
<1>4. MailBeforeDismissal /\ NobodyElseComes /\ MainBelongsToTheLogin
  BY Zenon DEF Init, MailBeforeDismissal, NobodyElseComes, MainBelongsToTheLogin
<1> QED BY <1>1, <1>2, <1>3, <1>4 DEF IInv, OneRequest

\* A tap that sends a request to log in or sign up: MainUI is not presented.
LEMMA SendStep ==
  ASSUME IInv, NEW kind \in {"login", "signup"}, NEW e \in Inputs, NEW p \in Passwords,
         kind = "signup" => e \in Emails, Send(kind, e, p), ~presentable
  PROVE  /\ requests' \in Seq(Sent) /\ Len(requests') <= MaxRequests
         /\ overlapped' \in BOOLEAN /\ (~overlapped' => Len(requests') <= 1)
<1> DEFINE r == [kind |-> kind, email |-> e, password |-> p]
<1>1. r \in Sent
  BY DEF Sent, Request
<1>2. requests' = Append(requests, r) /\ Len(requests) < MaxRequests
      /\ overlapped' = (overlapped \/ requests # << >>)
  BY DEF Send
<1> HIDE DEF r
<1>3. requests \in Seq(Sent) /\ overlapped \in BOOLEAN
  BY DEF IInv, TypeOK
<1>4. requests' \in Seq(Sent) /\ Len(requests') = Len(requests) + 1
  BY <1>1, <1>2, <1>3, AppendProperties
<1>5. Len(requests) \in Nat
  BY <1>3, LenProperties
<1>6. overlapped' \in BOOLEAN /\ (~overlapped' => requests = << >>)
  BY <1>2, Zenon
<1>7. requests = << >> => Len(requests') <= 1
  BY <1>4
<1>8. Len(requests') <= MaxRequests
  BY <1>2, <1>4, <1>5, MaxRequestsAssumption
<1> QED BY <1>4, <1>6, <1>7, <1>8

\* An answer takes its request out of the list.
LEMMA AnswerStep ==
  ASSUME IInv, NEW k \in DOMAIN requests, requests' = RemoveAt(requests, k)
  PROVE  /\ requests[k] \in Sent /\ requests' \in Seq(Sent) /\ Len(requests') <= MaxRequests
         /\ ~overlapped => requests' \in Seq(Harmless) /\ Len(requests') <= 1
         /\ ~overlapped /\ presentable => requests[k] \in Harmless
<1>1. requests \in Seq(Sent) /\ Len(requests) \in Nat /\ k \in 1..Len(requests)
      /\ Len(requests) <= MaxRequests
  BY LenProperties DEF IInv, TypeOK
<1>2. requests[k] \in Sent
  BY <1>1, ElementOfSeq
<1>3. requests' \in Seq(Sent) /\ Len(requests') = Len(requests) - 1
  BY <1>1, RemoveAtSeq
<1>4. ASSUME ~overlapped PROVE requests' \in Seq(Harmless) /\ Len(requests') <= 1
  <2>1. Len(requests) <= 1
    BY <1>4 DEF IInv, OneRequest
  <2>2. Len(requests') = 0
    BY <1>1, <1>3, <2>1
  <2>3. requests' = << >>
    BY <1>3, <2>2, EmptySeq
  <2> QED BY <2>2, <2>3
<1>5. ASSUME ~overlapped, presentable PROVE requests[k] \in Harmless
  <2>1. requests \in Seq(Harmless)
    BY <1>5 DEF IInv, NobodyElseComes
  <2> QED BY <1>1, <2>1, ElementOfSeq
<1> QED BY <1>1, <1>2, <1>3, <1>4, <1>5, MaxRequestsAssumption

LEMMA NextIInv == IInv /\ [Next]_vars => IInv'
<1> SUFFICES ASSUME IInv, [Next]_vars PROVE IInv'
  OBVIOUS
<1> USE DEF MailBeforeDismissal, OneRequest, NobodyElseComes, MainBelongsToTheLogin
<1>t. TypeOK /\ requests \in Seq(Sent) /\ Len(requests) \in Nat
  BY LenProperties DEF IInv
<1>s. requests' \in Seq(Sent) => requests' \in Seq(Request)
  BY SentIsRequest
<1>1. ASSUME NEW e \in Inputs, NEW p \in Passwords, logUser(e, p) PROVE IInv'
  <2>1. Send("login", e, p) /\ ~presentable
    BY <1>1 DEF logUser, FormInFront
  <2>2. /\ requests' \in Seq(Sent) /\ Len(requests') <= MaxRequests
        /\ overlapped' \in BOOLEAN /\ (~overlapped' => Len(requests') <= 1)
    BY <2>1, SendStep
  <2> QED BY <1>1, <1>t, <1>s, <2>1, <2>2
      DEF logUser, IInv, TypeOK, Messages, signupVars, resetVars
<1>2. ASSUME NEW e \in Inputs, SignUpUser(e) PROVE IInv'
  <2>1. Send("signup", e, "right") /\ ~presentable /\ e \in Emails
    BY <1>2 DEF SignUpUser, FormInFront
  <2>2. /\ requests' \in Seq(Sent) /\ Len(requests') <= MaxRequests
        /\ overlapped' \in BOOLEAN /\ (~overlapped' => Len(requests') <= 1)
    BY <2>1, SendStep DEF Passwords
  <2> QED BY <1>2, <1>t, <1>s, <2>1, <2>2
      DEF SignUpUser, IInv, TypeOK, Messages, loginVars, resetVars
<1>3. ASSUME NEW e \in Inputs, resetPassword(e) PROVE IInv'
  <2> DEFINE r == [kind |-> "reset", email |-> e, password |-> ""]
             sent == Append(requests, r)
  <2>1. r \in Sent /\ r \in Harmless
    BY DEF Sent, Harmless, Request, Passwords
  <2>2. /\ requests' = IF dissmis THEN Gone(sent) ELSE sent
        /\ Len(requests) < MaxRequests /\ overlapped' = (overlapped \/ requests # << >>)
    BY <1>3 DEF resetPassword
  <2> HIDE DEF r
  <2>3. sent \in Seq(Sent) /\ Len(sent) = Len(requests) + 1
    BY <1>t, <2>1, AppendProperties
  <2>4. requests \in Seq(Harmless) => sent \in Seq(Harmless)
    BY <2>1, AppendProperties
  <2> HIDE DEF sent
  <2>5. requests' \in Seq(Sent) /\ Len(requests') = Len(requests) + 1
    BY <2>2, <2>3, GoneSeq
  <2>6. requests \in Seq(Harmless) => requests' \in Seq(Harmless)
    BY <2>2, <2>4, GoneHarmless
  <2>7. overlapped' \in BOOLEAN /\ (~overlapped' => ~overlapped /\ requests = << >>)
    BY <2>2, Zenon
  <2>8. Len(requests') <= MaxRequests /\ (requests = << >> => Len(requests') <= 1)
    BY <1>t, <2>2, <2>5, MaxRequestsAssumption
  <2> QED BY <1>3, <1>t, <1>s, <2>5, <2>6, <2>7, <2>8
      DEF resetPassword, IInv, TypeOK, loginVars, signupVars
<1>4. CASE SignUpRefused
  BY <1>4 DEF SignUpRefused, IInv, TypeOK, Messages, loginVars, resetVars
<1>5. CASE ForgotPassButton
  BY <1>5 DEF ForgotPassButton, IInv, TypeOK, loginVars, signupVars
<1>6. CASE Dismiss
  <2>1. requests' = Gone(requests)
    BY <1>6 DEF Dismiss
  <2>2. requests' \in Seq(Sent) /\ Len(requests') = Len(requests)
    BY <1>t, <2>1, GoneSeq
  <2>3. requests \in Seq(Harmless) => requests' \in Seq(Harmless)
    BY <2>1, GoneHarmless
  <2> QED BY <1>6, <1>t, <1>s, <2>2, <2>3 DEF Dismiss, IInv, TypeOK, loginVars, signupVars
<1>7. CASE resetPasswordBlank
  BY <1>7 DEF resetPasswordBlank, IInv, TypeOK, loginVars, signupVars
<1>8. ASSUME NEW k, Answer(k) PROVE IInv'
  <2> DEFINE r == requests[k]
  <2>1. k \in DOMAIN requests /\ requests' = RemoveAt(requests, k) /\ overlapped' = overlapped
        /\ (\/ LoggedIn(r) \/ LoginFailed(r) \/ SignedUp(r) \/ SignUpFailed(r)
            \/ ResetMailed(r) \/ ResetFailed(r))
    BY <1>8 DEF Answer
  <2>2. /\ r \in Sent /\ requests' \in Seq(Sent) /\ Len(requests') <= MaxRequests
        /\ ~overlapped => requests' \in Seq(Harmless) /\ Len(requests') <= 1
        /\ ~overlapped /\ presentable => r \in Harmless
    BY <2>1, AnswerStep
  <2> HIDE DEF r
  <2>3. CASE LoggedIn(r)
    <3>1. r \notin Harmless
      BY <2>3 DEF LoggedIn, Harmless
    <3> QED BY <1>t, <1>s, <2>1, <2>2, <2>3, <3>1 DEF LoggedIn, IInv, TypeOK, signupVars, resetVars
  <2>4. CASE LoginFailed(r)
    BY <1>t, <1>s, <2>1, <2>2, <2>4 DEF LoginFailed, IInv, TypeOK, Messages, signupVars, resetVars
  <2>5. CASE SignedUp(r)
    <3>1. r \notin Harmless /\ r.email \in Emails
      BY <2>2, <2>5 DEF SignedUp, Harmless, Sent
    <3> QED BY <1>t, <1>s, <2>1, <2>2, <2>5, <3>1 DEF SignedUp, IInv, TypeOK, loginVars, resetVars
  <2>6. CASE SignUpFailed(r)
    BY <1>t, <1>s, <2>1, <2>2, <2>6 DEF SignUpFailed, IInv, TypeOK, Messages, loginVars, resetVars
  <2>7. CASE ResetMailed(r)
    BY <1>t, <1>s, <2>1, <2>2, <2>7 DEF ResetMailed, IInv, TypeOK, loginVars, signupVars
  <2>8. CASE ResetFailed(r)
    BY <1>t, <1>s, <2>1, <2>2, <2>8 DEF ResetFailed, IInv, TypeOK, loginVars, signupVars
  <2> QED BY <2>1, <2>3, <2>4, <2>5, <2>6, <2>7, <2>8
<1>9. CASE UNCHANGED vars
  BY <1>9 DEF vars, loginVars, signupVars, resetVars, IInv, TypeOK
<1> QED BY <1>1, <1>2, <1>3, <1>4, <1>5, <1>6, <1>7, <1>8, <1>9 DEF Next, UserStep, ServiceStep

LEMMA AlwaysIInv == Spec => []IInv
BY InitIInv, NextIInv, PTL DEF Spec

-----------------------------------------------------------------------------
\* The variables of the view models and the accounts of the service keep their
\* types: no address that validateEmail refuses becomes an account.
THEOREM TypeCorrect == Spec => []TypeOK
<1>1. IInv => TypeOK
  BY DEF IInv
<1> QED BY <1>1, AlwaysIInv, PTL

\* The account in currentEmail is the one whose login presented MainUI, as
\* long as no two requests were under way together.
THEOREM MainIsTheirs == Spec => []MainBelongsToTheLogin
<1>1. IInv => MainBelongsToTheLogin
  BY DEF IInv
<1> QED BY <1>1, AlwaysIInv, PTL

\* The reset screen closes itself only after a mail was sent from it, however
\* late the answers to earlier screens come.
THEOREM ClosesAfterAMail == Spec => ResetClosesAfterAMail
<1> DEFINE A == \A e \in Inputs : resetPassword(e) /\ ~resetting' => mailed
<1>1. IInv /\ [Next]_vars => [A]_vars
  <2> SUFFICES ASSUME IInv, NEW e \in Inputs, resetPassword(e), ~resetting' PROVE mailed
    OBVIOUS
  <2>1. dissmis
    BY DEF resetPassword
  <2> QED BY <2>1 DEF IInv, MailBeforeDismissal
<1>2. [][A]_vars => ResetClosesAfterAMail
  BY DEF ResetClosesAfterAMail
<1> QED BY <1>1, <1>2, AlwaysIInv, PTL DEF Spec

=============================================================================
