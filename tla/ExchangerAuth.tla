---------------------------- MODULE ExchangerAuth ----------------------------
(***************************************************************************)
(* The login, signup and password reset screens of Exchanger, their view   *)
(* models, and the AuthentificationManager they share.  The contents of    *)
(* the text fields are inputs of the taps; the colours of their borders    *)
(* are left out.                                                           *)
(*                                                                         *)
(* A request is answered, and its completion run on the main thread, in    *)
(* one step: the completion only uses what the answer brings.  The buttons *)
(* stay active while requests are under way.                               *)
(***************************************************************************)
EXTENDS Integers, Sequences, SequencesExt

CONSTANTS
  Emails,      \* addresses validateEmail accepts
  Malformed,   \* an address it does not
  Blank,       \* an empty field
  Nobody,      \* nil
  MaxRequests  \* bound: requests under way at one time

ASSUME TextAssumption == Malformed \notin Emails /\ Blank \notin Emails \cup {Malformed}
ASSUME NobodyAssumption == Nobody \notin Emails
ASSUME MaxRequestsAssumption == MaxRequests \in Nat \ {0}

Inputs    == Emails \cup {Malformed, Blank}
Passwords == {"right", "wrong", ""}   \* of a login, seen by the service
Messages  == {"none", "wait", "error"}

VARIABLES
  registered,     \* the accounts of the Firebase project
  requests,       \* the requests under way
  currentEmail,   \* AuthentificationManager.currentEmail
  loginMessage,   \* LoginViewModel.message, "none" while showMessage is 0
  presentable,    \* LoginViewModel.presentable: is MainUI presented?
  signupMessage,  \* SignUpViewModel.message
  presented,      \* SignUpViewModel.presented: is HomeUI presented?
  resetting,      \* is PasswordResetUI presented?
  dissmis,        \* PasswordResetViewModel.dissmis
  opened,         \* whose login presented MainUI           (the last three
  mailed,         \* was a mail sent from this reset screen? are not kept by
  overlapped      \* were two requests ever under way?       the code)

loginVars  == <<loginMessage, presentable, opened>>
signupVars == <<signupMessage, presented>>
resetVars  == <<resetting, dissmis, mailed>>
vars == <<registered, requests, currentEmail, loginVars, signupVars, resetVars, overlapped>>

\* "gone" is a reset request whose screen has been dismissed.
Request == [kind : {"login", "signup", "reset", "gone"}, email : Inputs, password : Passwords]

Init ==
  /\ registered \in SUBSET Emails
  /\ requests = << >> /\ currentEmail = Nobody
  /\ loginMessage = "none" /\ presentable = FALSE /\ opened = Nobody
  /\ signupMessage = "none" /\ presented = FALSE
  /\ resetting = FALSE /\ dissmis = FALSE /\ mailed = FALSE /\ overlapped = FALSE

\* One of the two tabs of AuthorizationUI is in front.
FormInFront == ~presentable /\ ~presented /\ ~resetting

Send(kind, e, p) ==
  /\ Len(requests) < MaxRequests
  /\ requests' = Append(requests, [kind |-> kind, email |-> e, password |-> p])
  /\ overlapped' = (overlapped \/ requests # << >>)

-----------------------------------------------------------------------------
(***************************************************************************)
(* Login.                                                                  *)
(***************************************************************************)

\* logUser and logInUser.  With an empty field the completion runs at once
\* with false, and the request is sent all the same.
logUser(e, p) ==
  /\ FormInFront
  /\ Send("login", e, p)
  /\ loginMessage' = IF e = Blank \/ p = "" THEN "error" ELSE "wait"
  /\ UNCHANGED <<registered, currentEmail, presentable, opened, signupVars, resetVars>>

\* The completions of logInUser.
LoggedIn(r) ==
  /\ r.kind = "login" /\ r.email \in registered /\ r.password = "right"
  /\ currentEmail' = r.email
  /\ presentable' = TRUE
  /\ opened' = IF presentable THEN opened ELSE r.email
  /\ UNCHANGED <<registered, loginMessage, signupVars, resetVars>>

\* A slip WaitingEnds catches: an error leaves the message as it is.
LoginFailed_KeepMessage(r) ==
  /\ r.kind = "login"
  /\ UNCHANGED <<registered, currentEmail, loginVars, signupVars, resetVars>>

\* A slip MainBelongsToTheLogin catches: the view model does not look at done.
LoginFailed_Present(r) ==
  /\ r.kind = "login"
  /\ presentable' = TRUE
  /\ opened' = IF presentable THEN opened ELSE r.email
  /\ UNCHANGED <<registered, currentEmail, loginMessage, signupVars, resetVars>>

LoginFailed(r) ==
  /\ r.kind = "login"
  /\ loginMessage' = "error"
  /\ UNCHANGED <<registered, currentEmail, presentable, opened, signupVars, resetVars>>

-----------------------------------------------------------------------------
(***************************************************************************)
(* Signup.  The switch "I accept license agreement" is not looked at.      *)
(***************************************************************************)

\* A slip the type invariant catches: validateEmail is not asked.
SignUpUser_AnyEmail(e) ==
  /\ FormInFront
  /\ Send("signup", e, "right")
  /\ signupMessage' = "wait"
  /\ UNCHANGED <<registered, currentEmail, loginVars, presented, resetVars>>

SignUpUser(e) ==
  /\ FormInFront /\ e \in Emails
  /\ Send("signup", e, "right")
  /\ signupMessage' = "wait"
  /\ UNCHANGED <<registered, currentEmail, loginVars, presented, resetVars>>

\* An address or a password the validators refuse: the completion runs at once.
SignUpRefused ==
  /\ FormInFront
  /\ signupMessage' = "error"
  /\ UNCHANGED <<registered, requests, currentEmail, loginVars, presented, resetVars, overlapped>>

SignedUp(r) ==
  /\ r.kind = "signup" /\ r.email \notin registered
  /\ registered' = registered \cup {r.email}
  /\ currentEmail' = r.email
  /\ presented' = TRUE
  /\ UNCHANGED <<loginVars, signupMessage, resetVars>>

\* A slip WaitingEnds catches: the message is only set with the cover.
SignUpFailed_KeepMessage(r) ==
  /\ r.kind = "signup"
  /\ presented' = FALSE
  /\ UNCHANGED <<registered, currentEmail, loginVars, signupMessage, resetVars>>

\* presented = done, although an earlier request may have presented HomeUI.
SignUpFailed(r) ==
  /\ r.kind = "signup"
  /\ signupMessage' = "error" /\ presented' = FALSE
  /\ UNCHANGED <<registered, currentEmail, loginVars, resetVars>>

-----------------------------------------------------------------------------
(***************************************************************************)
(* Password reset.                                                         *)
(***************************************************************************)

\* A slip ResetClosesAfterAMail catches: one view model for every screen.
ForgotPassButton_SameModel ==
  /\ FormInFront
  /\ resetting' = TRUE /\ mailed' = FALSE
  /\ UNCHANGED <<registered, requests, currentEmail, loginVars, signupVars, dissmis, overlapped>>

\* A new PasswordResetUI with a view model of its own.
ForgotPassButton ==
  /\ FormInFront
  /\ resetting' = TRUE /\ dissmis' = FALSE /\ mailed' = FALSE
  /\ UNCHANGED <<registered, requests, currentEmail, loginVars, signupVars, overlapped>>

Gone(rs) == [k \in DOMAIN rs |-> IF rs[k].kind = "reset" THEN [rs[k] EXCEPT !.kind = "gone"]
                                 ELSE rs[k]]

\* The back arrow of the header.
Dismiss ==
  /\ resetting
  /\ resetting' = FALSE
  /\ requests' = Gone(requests)
  /\ UNCHANGED <<registered, currentEmail, loginVars, signupVars, dissmis, mailed, overlapped>>

\* "Send" without an address: the completion sets dissmis to false at once.
resetPasswordBlank ==
  /\ resetting
  /\ dissmis' = FALSE
  /\ UNCHANGED <<registered, requests, currentEmail, loginVars, signupVars, resetting, mailed,
                 overlapped>>

\* "Send" with one: dissmis is read before the answer can have set it.
resetPassword(e) ==
  /\ resetting /\ e # Blank
  /\ Len(requests) < MaxRequests
  /\ LET sent == Append(requests, [kind |-> "reset", email |-> e, password |-> ""])
     IN  requests' = IF dissmis THEN Gone(sent) ELSE sent
  /\ resetting' = ~dissmis
  /\ overlapped' = (overlapped \/ requests # << >>)
  /\ UNCHANGED <<registered, currentEmail, loginVars, signupVars, dissmis, mailed>>

ResetMailed(r) ==
  /\ r.kind \in {"reset", "gone"} /\ r.email \in registered
  /\ IF r.kind = "reset" THEN dissmis' = TRUE /\ mailed' = TRUE ELSE UNCHANGED <<dissmis, mailed>>
  /\ UNCHANGED <<registered, currentEmail, loginVars, signupVars, resetting>>

ResetFailed(r) ==
  /\ r.kind \in {"reset", "gone"}
  /\ dissmis' = IF r.kind = "reset" THEN FALSE ELSE dissmis
  /\ UNCHANGED <<registered, currentEmail, loginVars, signupVars, resetting, mailed>>

-----------------------------------------------------------------------------
UserStep ==
  \/ \E e \in Inputs, p \in Passwords : logUser(e, p)
  \/ \E e \in Inputs : SignUpUser(e) \/ resetPassword(e)
  \/ SignUpRefused \/ ForgotPassButton \/ Dismiss \/ resetPasswordBlank

\* Firebase answers request k, or the connection fails it.
Answer(k) ==
  /\ k \in DOMAIN requests
  /\ requests' = RemoveAt(requests, k)
  /\ LET r == requests[k]
     IN  \/ LoggedIn(r) \/ LoginFailed(r) \/ SignedUp(r) \/ SignUpFailed(r)
         \/ ResetMailed(r) \/ ResetFailed(r)
  /\ UNCHANGED overlapped

ServiceStep == \E k \in 1..MaxRequests : Answer(k)

Next == UserStep \/ ServiceStep

Spec == Init /\ [][Next]_vars

\* Every request is answered, if only by the SDK's own timeout.
FairSpec == Spec /\ \A k \in 1..MaxRequests : WF_vars(Answer(k))

-----------------------------------------------------------------------------
(***************************************************************************)
(* Properties.                                                             *)
(***************************************************************************)

\* Every variable of the view models keeps its type.
TypeOK ==
  /\ registered \subseteq Emails
  /\ requests \in Seq(Request) /\ Len(requests) <= MaxRequests
  /\ currentEmail \in Emails \cup {Nobody} /\ opened \in Emails \cup {Nobody}
  /\ loginMessage \in Messages /\ signupMessage \in Messages
  /\ presentable \in BOOLEAN /\ presented \in BOOLEAN
  /\ resetting \in BOOLEAN /\ dissmis \in BOOLEAN /\ mailed \in BOOLEAN
  /\ overlapped \in BOOLEAN

(***************************************************************************)
(* "Please wait" comes to an end on both tabs: an error message, or the    *)
(* cover of a success, whatever else is tapped or answered in between and  *)
(* although logInUser goes on after an empty field.                        *)
(***************************************************************************)
WaitingEnds ==
  /\ loginMessage = "wait" ~> (loginMessage = "error" \/ presentable)
  /\ signupMessage = "wait" ~> (signupMessage = "error" \/ presented)

(***************************************************************************)
(* MainUI is presented with the account whose login presented it in        *)
(* currentEmail, unless requests overlapped.                               *)
(***************************************************************************)
MainBelongsToTheLogin == ~overlapped /\ presentable => currentEmail = opened

(***************************************************************************)
(* PasswordResetUI closes itself only after a mail was sent from this very *)
(* screen: answers to requests of an earlier one, which may come late, do  *)
(* not count.                                                              *)
(***************************************************************************)
ResetClosesAfterAMail ==
  [][\A e \in Inputs : resetPassword(e) /\ ~resetting' => mailed]_vars

==============================================================================
