--------------------------- MODULE StoryboardAuth ---------------------------
(***************************************************************************)
(* Logging in and signing up in the storyboard app: the navigation stack   *)
(* of its view controllers, the requests they make to Firebase Auth, and   *)
(* the answers, which change Auth.auth().currentUser first and run their   *)
(* completion handler on the main thread afterwards, in turn.              *)
(*                                                                         *)
(* Nothing disables the buttons while a request is under way: the user may *)
(* tap again, go to another screen, or start a second request elsewhere.   *)
(***************************************************************************)
EXTENDS Integers, Sequences, FiniteSets, SequencesExt

CONSTANTS
  Emails,        \* addresses isvalidEmail accepts
  Nobody,        \* there is no current user
  Controllers,   \* identities of the login and signup controllers
  MaxStack,      \* bound: controllers on the navigation stack
  MaxRequests    \* bound: requests under way, and handlers waiting to run

ASSUME NobodyAssumption == Nobody \notin Emails
ASSUME BoundsAssumption == MaxStack \in Nat /\ MaxRequests \in Nat

VARIABLES
  registered,  \* the accounts of the Firebase project
  verified,    \* those whose owner has followed the link in the mail
  mailed,      \* those that were sent a mail with the link
  current,     \* Auth.auth().currentUser, with the flag it was signed in with
  requests,    \* the requests under way
  callbacks,   \* completion handlers waiting for the main thread
  stack,       \* the view controllers of the navigation controller
  alert,       \* is an alert presented?
  overlapped   \* have two requests ever been under way together? (not kept
               \* by the code)

serverVars == <<registered, verified, mailed, current>>
vars == <<serverVars, requests, callbacks, stack, alert, overlapped>>

-----------------------------------------------------------------------------
(***************************************************************************)
(* Controllers.  "tasks" stands for the ViewController of StoryboardTasks, *)
(* whose loadTasks read the email of the current user when it was pushed.  *)
(***************************************************************************)
NoId == 0
Controller ==
  [kind : {"welcome", "login", "signup", "tasks"}, id : Controllers \cup {NoId},
   loading : BOOLEAN, accepted : BOOLEAN, owner : Emails \cup {Nobody}]

ASSUME NoIdAssumption == NoId \notin Controllers

New(kind, id, owner) ==
  [kind |-> kind, id |-> id, loading |-> FALSE, accepted |-> FALSE, owner |-> owner]

Root == <<New("welcome", NoId, Nobody)>>
Top  == Last(stack)
InFront(kind) == ~alert /\ Top.kind = kind

\* The controller id is on the stack (else a weak reference to it is nil).
OnStack(id) == \E k \in DOMAIN stack : stack[k].id = id

\* The stack with the fields of controller id changed by Helper.presentLoading
\* or Helper.clearLoading.
SetLoading(id, on) ==
  [k \in DOMAIN stack |-> IF stack[k].id = id THEN [stack[k] EXCEPT !.loading = on]
                                              ELSE stack[k]]

\* present(alert) by controller id: UIKit drops it unless the controller's view
\* is in the window and nothing is presented yet.
Presented(id) == alert \/ Top.id = id

\* "created" is a createUser whose account exists already.
Request == [kind : {"login", "signup", "created", "mail"}, ctrl : Controllers,
            email : Emails, right : BOOLEAN]
Callback == [kind : {"login", "signup"}, ctrl : Controllers, error : BOOLEAN]
User == [email : Emails \cup {Nobody}, verified : BOOLEAN]

Pending == Len(requests) + Len(callbacks)

\* Accounts of earlier sessions, one of which may still be signed in: the SDK
\* keeps its user, and the app never signs out.
Init ==
  /\ registered \in SUBSET Emails
  /\ mailed \in SUBSET registered /\ verified \in SUBSET mailed
  /\ current \in {u \in User : /\ u.email \in registered \cup {Nobody}
                               /\ u.verified => u.email \in verified}
  /\ requests = << >> /\ callbacks = << >>
  /\ stack = Root /\ alert = FALSE /\ overlapped = FALSE

-----------------------------------------------------------------------------
(***************************************************************************)
(* Moving between screens.                                                 *)
(***************************************************************************)

Push(kind) ==
  /\ Len(stack) < MaxStack
  /\ \E id \in Controllers :
       /\ ~OnStack(id)
       /\ \A k \in DOMAIN requests : requests[k].ctrl # id
       /\ \A k \in DOMAIN callbacks : callbacks[k].ctrl # id
       /\ stack' = Append(stack, New(kind, id, Nobody))
  /\ UNCHANGED <<serverVars, requests, callbacks, alert, overlapped>>

\* The buttons of the welcome screen, goToLogin of the signup screen, and
\* goToSignup of the login screen.
goToLogin  == (InFront("welcome") \/ InFront("signup")) /\ Push("login")
goToSignup == (InFront("welcome") \/ InFront("login")) /\ Push("signup")

\* A slip the type invariant catches: show() instead of a pop.
goToHome_Show ==
  /\ InFront("login") \/ InFront("signup")
  /\ stack' = stack \o Root
  /\ UNCHANGED <<serverVars, requests, callbacks, alert, overlapped>>

goToHome ==
  /\ InFront("login") \/ InFront("signup")
  /\ stack' = Root
  /\ UNCHANGED <<serverVars, requests, callbacks, alert, overlapped>>

\* The back button, which only the task list shows.
GoBack ==
  /\ InFront("tasks")
  /\ stack' = Front(stack)
  /\ UNCHANGED <<serverVars, requests, callbacks, alert, overlapped>>

DismissAlert ==
  /\ alert
  /\ alert' = FALSE
  /\ UNCHANGED <<serverVars, requests, callbacks, stack, overlapped>>

-----------------------------------------------------------------------------
(***************************************************************************)
(* The two forms.  An empty field only gets a red border.                  *)
(***************************************************************************)

\* loginPressed or signUp with an email or password the rules refuse, or
\* signUp without the licence accepted: an alert, and nothing is sent.
InputRefused ==
  /\ InFront("login") \/ InFront("signup")
  /\ alert' = TRUE
  /\ UNCHANGED <<serverVars, requests, callbacks, stack, overlapped>>

Send(kind, e, right) ==
  /\ Pending < MaxRequests
  /\ requests' = Append(requests, [kind |-> kind, ctrl |-> Top.id, email |-> e, right |-> right])
  /\ stack' = SetLoading(Top.id, TRUE)
  /\ overlapped' = (overlapped \/ Pending > 0)
  /\ UNCHANGED <<serverVars, callbacks, alert>>

\* loginPressed, with a password that is right or is not.
loginPressed(e, right) == InFront("login") /\ Send("login", e, right)

licenceBox ==
  /\ InFront("signup")
  /\ stack' = [stack EXCEPT ![Len(stack)].accepted = ~Top.accepted]
  /\ UNCHANGED <<serverVars, requests, callbacks, alert, overlapped>>

signUp(e) == InFront("signup") /\ Top.accepted /\ Send("signup", e, TRUE)

-----------------------------------------------------------------------------
(***************************************************************************)
(* Firebase Auth.                                                          *)
(***************************************************************************)

\* signInFlowAuthDataResultCallbackByDecoratingCallback: request k has ended and
\* its handler is put on the main queue, after current has changed.
Answer(k, error) ==
  /\ requests' = RemoveAt(requests, k)
  /\ callbacks' = Append(callbacks,
       [kind |-> IF requests[k].kind = "login" THEN "login" ELSE "signup",
        ctrl |-> requests[k].ctrl, error |-> error])

\* updateCurrentUser, with what the service says of the account when it is asked
\* for the user: whether the link in the mail has been followed.
UserOf(e) == [email |-> e, verified |-> e \in verified]

\* signIn with the right password.
SignedIn(k) ==
  /\ requests[k].kind = "login"
  /\ requests[k].email \in registered /\ requests[k].right
  /\ Answer(k, FALSE)
  /\ current' = UserOf(requests[k].email)
  /\ UNCHANGED <<registered, verified, mailed, stack, alert, overlapped>>

\* createUser asks the service for an account first,
AccountCreated(k) ==
  /\ requests[k].kind = "signup"
  /\ requests[k].email \notin registered
  /\ requests' = [requests EXCEPT ![k].kind = "created"]
  /\ registered' = registered \cup {requests[k].email}
  /\ UNCHANGED <<verified, mailed, current, callbacks, stack, alert, overlapped>>

\* and then for its user, who is signed in.
Created(k) ==
  /\ requests[k].kind = "created"
  /\ Answer(k, FALSE)
  /\ current' = UserOf(requests[k].email)
  /\ UNCHANGED <<registered, verified, mailed, stack, alert, overlapped>>

\* A wrong password, a taken address, no connection, or a user that cannot be
\* fetched or saved: an account that was created stays.
Refused(k) ==
  /\ requests[k].kind \in {"login", "signup", "created"}
  /\ Answer(k, TRUE)
  /\ UNCHANGED <<serverVars, stack, alert, overlapped>>

\* The mail with the link goes out, or cannot be sent: then the handler in
\* sendEmailForVer asks for an alert.
MailAnswered(k) ==
  /\ requests[k].kind = "mail"
  /\ requests' = RemoveAt(requests, k)
  /\ \/ mailed' = mailed \cup {requests[k].email} /\ UNCHANGED alert
     \/ alert' = Presented(requests[k].ctrl) /\ UNCHANGED mailed
  /\ UNCHANGED <<registered, verified, current, callbacks, stack, overlapped>>

\* The owner of an address follows the link.
FollowLink(e) ==
  /\ e \in mailed \cap registered
  /\ verified' = verified \cup {e}
  /\ UNCHANGED <<registered, mailed, current, requests, callbacks, stack, alert, overlapped>>

-----------------------------------------------------------------------------
(***************************************************************************)
(* The completion handlers, run by the main thread in the order they were  *)
(* queued.                                                                 *)
(***************************************************************************)

\* A slip LoadingClears catches: clearLoading only on the way home.
LoginRefused_KeepLoading(c) ==
  /\ alert' = Presented(c.ctrl)
  /\ UNCHANGED <<stack, overlapped, serverVars, requests>>

\* LoginAndVerify on an error, or when the user is not verified.
LoginRefused(c) ==
  /\ alert' = Presented(c.ctrl)
  /\ stack' = SetLoading(c.ctrl, FALSE)
  /\ UNCHANGED <<overlapped, serverVars, requests>>

\* A slip OneUserAtATime catches: isEmailVerified is not looked at.
LoginAndVerify_AnyUser(c) ==
  /\ c.kind = "login"
  /\ IF ~OnStack(c.ctrl) THEN UNCHANGED <<stack, alert, overlapped, serverVars, requests>>
     ELSE IF c.error THEN LoginRefused(c)
     ELSE /\ stack' = Append(SetLoading(c.ctrl, FALSE), New("tasks", NoId, current.email))
          /\ UNCHANGED <<alert, overlapped, serverVars, requests>>

\* The handler of signIn: "goToMain" when the current user is verified.
LoginAndVerify(c) ==
  /\ c.kind = "login"
  /\ IF ~OnStack(c.ctrl) THEN UNCHANGED <<stack, alert, overlapped, serverVars, requests>>
     ELSE IF c.error \/ ~current.verified THEN LoginRefused(c)
     ELSE /\ stack' = Append(SetLoading(c.ctrl, FALSE), New("tasks", NoId, current.email))
          /\ UNCHANGED <<alert, overlapped, serverVars, requests>>

\* A slip MailsGoToNewcomers catches: no return after the alert.
RegisterRefused_NoReturn(c) ==
  /\ c.kind = "signup" /\ c.error /\ current.email # Nobody
  /\ requests' = Append(requests, [kind |-> "mail", ctrl |-> c.ctrl, email |-> current.email,
                                  right |-> TRUE])
  /\ alert' = Presented(c.ctrl)
  /\ stack' = SetLoading(c.ctrl, FALSE)
  /\ UNCHANGED <<overlapped, serverVars>>

\* The handler of createUser with an error.
RegisterRefused(c) ==
  /\ c.kind = "signup" /\ c.error
  /\ alert' = Presented(c.ctrl)
  /\ stack' = SetLoading(c.ctrl, FALSE)
  /\ UNCHANGED <<overlapped, serverVars, requests>>

(***************************************************************************)
(* And without: a mail to whoever is the current user by now, then back to *)
(* the welcome screen if the controller is still on the stack.  Whether    *)
(* dismiss also takes an alert away depends on how far UIKit has got with  *)
(* detaching the controller.                                               *)
(***************************************************************************)
Registered(c) ==
  /\ c.kind = "signup" /\ ~c.error
  /\ requests' = Append(requests, [kind |-> "mail", ctrl |-> c.ctrl, email |-> current.email,
                                  right |-> TRUE])
  /\ stack' = IF OnStack(c.ctrl) THEN Root ELSE stack
  /\ alert' \in {alert, FALSE}
  /\ UNCHANGED <<overlapped, serverVars>>

RunCallback ==
  /\ callbacks # << >>
  /\ callbacks' = Tail(callbacks)
  /\ LET c == Head(callbacks)
     IN  LoginAndVerify(c) \/ RegisterRefused(c) \/ Registered(c)

-----------------------------------------------------------------------------
UserStep ==
  \/ goToLogin \/ goToSignup \/ goToHome \/ GoBack \/ DismissAlert
  \/ InputRefused \/ licenceBox
  \/ \E e \in Emails : signUp(e) \/ FollowLink(e)
  \/ \E e \in Emails, right \in BOOLEAN : loginPressed(e, right)

\* The service ends a request, whichever way.
AnswerOf(k) ==
  SignedIn(k) \/ AccountCreated(k) \/ Created(k) \/ Refused(k) \/ MailAnswered(k)
ServiceStep == \E k \in DOMAIN requests : AnswerOf(k)

Next == UserStep \/ ServiceStep \/ RunCallback

Spec == Init /\ [][Next]_vars

(***************************************************************************)
(* Firebase ends every request (its own timeout makes an error of one that *)
(* gets no answer), and the main thread runs what is queued for it.        *)
(***************************************************************************)
Fairness ==
  /\ \A id \in Controllers :
       WF_vars(\E k \in DOMAIN requests : requests[k].ctrl = id /\ AnswerOf(k))
  /\ WF_vars(RunCallback)

FairSpec == Spec /\ Fairness

-----------------------------------------------------------------------------
(***************************************************************************)
(* Properties.                                                             *)
(***************************************************************************)

\* Every variable keeps its type, and only the root is the welcome screen.
TypeOK ==
  /\ registered \subseteq Emails /\ verified \subseteq registered /\ mailed \subseteq registered
  /\ current \in User
  /\ requests \in Seq(Request) /\ callbacks \in Seq(Callback)
  /\ stack \in Seq(Controller) /\ stack # << >>
  /\ \A k \in DOMAIN stack : stack[k].kind = "welcome" <=> k = 1
  /\ alert \in BOOLEAN /\ overlapped \in BOOLEAN

(***************************************************************************)
(* As long as requests do not overlap, a task list on the stack belongs to *)
(* the current user, and that user is verified: what ViewController loads  *)
(* and what it saves go to one account.                                    *)
(***************************************************************************)
OneUserAtATime ==
  ~overlapped => \A k \in DOMAIN stack : stack[k].kind = "tasks" =>
                    current.verified /\ stack[k].owner = current.email

(***************************************************************************)
(* The handler of createUser mails whoever is the current user when it     *)
(* runs: as long as requests do not overlap, that is the account it has    *)
(* just created, and no older account is mailed again.                     *)
(***************************************************************************)
MailsGoToNewcomers ==
  ~overlapped => \A k \in DOMAIN requests : requests[k].kind = "mail" =>
                    requests[k].email \in registered \ mailed

\* Every "please wait" goes away, taps in between and answers to a covered screen
\* included: every way through the handlers clears it.
Waiting(id) == \E k \in DOMAIN stack : stack[k].id = id /\ stack[k].loading
LoadingClears == \A id \in Controllers : Waiting(id) ~> ~Waiting(id)

\* LoginViewController.swift:63 "Verify your email to log in": whoever is
\* signed in while the task list is in front has verified the email.
OnlyVerifiedUsers == Top.kind = "tasks" => current.verified

=============================================================================
