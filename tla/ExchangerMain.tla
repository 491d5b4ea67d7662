---------------------------- MODULE ExchangerMain ----------------------------
(***************************************************************************)
(* The main view of Exchanger after a login: the tab with the exchange     *)
(* rates and the tab with the calculator, on one main thread, and the      *)
(* NetworkManager both call.                                               *)
(*                                                                         *)
(* getRates returns at once and its completion handler runs on the serial  *)
(* queue of URLSession, beside the main thread: a tap may fall between its *)
(* two assignments.  convert waits for its answer on a semaphore and holds *)
(* the main thread meanwhile.  The timeout of both requests is infinite.   *)
(***************************************************************************)
EXTENDS Integers, Sequences, SequencesExt

CONSTANTS
  Currencies,  \* the symbols offered by the selectors
  Amounts,     \* amounts that can be put into a URL
  BadAmount,   \* an amount (pasted) that URL(string:) cannot parse
  Blank,       \* "": nothing chosen or typed
  NoRates,     \* [:], the empty dictionary of rates
  Zero,        \* "0.0", what an answer that cannot be decoded converts to
  MaxTasks,    \* bound: requests for rates that are under way at one time
  Faults       \* the failures of the environment that may happen

ASSUME BlankAssumption == Blank \notin Currencies \cup Amounts \cup {BadAmount}
ASSUME BadAmountAssumption == BadAmount \notin Amounts
ASSUME NoRatesAssumption == NoRates \notin Currencies \cup {Blank}
ASSUME MaxTasksAssumption == MaxTasks \in Nat \ {0}
ASSUME FaultsAssumption ==
  Faults \subseteq {"transport",    \* a request may end without data
                    "undecodable"}  \* data may not decode as expected

Symbols == Currencies \cup {Blank}
Inputs  == Amounts \cup {BadAmount, Blank}

VARIABLES
  source,      \* ExcangeRatesViewModel.source
  loading,     \* ExchangeRatesUI.loading: is the text of line 25 visible?
  arr,         \* ExchangeRatesUI.arr: the base whose rates are listed
  tasks,       \* bases of the getRates requests under way, oldest first
  completing,  \* the data a completion handler is about to assign to arr
  lost,        \* has a request for rates ended without an answer?
  asked,       \* the base of the latest request (not kept by the code)
  overlapped,  \* was it made before its predecessors were done? (the same)
  from, to, amount, result, clicked,  \* CalculatorViewModel
  main,        \* the main thread: free, waiting, signalled, stuck or crashed
  asking,      \* the arguments of the convert call under way
  answer       \* its local variable result

ratesVars == <<source, loading, arr, tasks, completing, lost, asked, overlapped>>
calcVars  == <<from, to, amount, result, clicked, main, asking, answer>>
vars == <<ratesVars, calcVars>>

Idle == << >>               \* no completion handler, no convert call
Data(rates) == <<rates>>    \* a completion handler holding rates

Init ==
  /\ source = Blank /\ loading = FALSE /\ arr = NoRates
  /\ tasks = << >> /\ completing = Idle /\ lost = FALSE
  /\ asked = Blank /\ overlapped = FALSE
  /\ from = Blank /\ to = Blank /\ amount = Blank /\ result = Blank
  /\ clicked = FALSE /\ main = "free" /\ asking = Idle /\ answer = Zero

-----------------------------------------------------------------------------
(***************************************************************************)
(* The tab with the exchange rates.                                        *)
(***************************************************************************)

\* A choice in the Selector of this tab.
SelectSource(c) ==
  /\ main = "free"
  /\ source' = c
  /\ UNCHANGED <<loading, arr, tasks, completing, lost, asked, overlapped, calcVars>>

\* A slip RatesFollowTheTap catches: the old list stays until the answer.
GetRates_KeepList ==
  /\ main = "free" /\ Len(tasks) < MaxTasks
  /\ loading' = TRUE
  /\ tasks' = Append(tasks, source)
  /\ asked' = source /\ overlapped' = (tasks # << >> \/ completing # Idle)
  /\ UNCHANGED <<source, arr, completing, lost, calcVars>>

\* The button "Get rates!": the view's closure, conversion and getRates.
GetRates ==
  /\ main = "free" /\ Len(tasks) < MaxTasks
  /\ loading' = TRUE /\ arr' = NoRates
  /\ tasks' = Append(tasks, source)
  /\ asked' = source /\ overlapped' = (tasks # << >> \/ completing # Idle)
  /\ UNCHANGED <<source, completing, lost, calcVars>>

\* A slip the type invariant catches: the other parser's default.
JSONRatesParser_Zero(base) ==
  {base} \cup (IF "undecodable" \in Faults THEN {Zero} ELSE {})

\* What JSONRatesParser makes of an answer for a base.
JSONRatesParser(base) ==
  {base} \cup (IF "undecodable" \in Faults THEN {NoRates} ELSE {})

\* A slip LoadingEnds catches: the text is not hidden again.
RatesArrive_KeepText(i) ==
  /\ completing = Idle /\ main # "crashed" /\ i \in DOMAIN tasks
  /\ \E rates \in JSONRatesParser(tasks[i]) : completing' = Data(rates)
  /\ tasks' = RemoveAt(tasks, i)
  /\ UNCHANGED <<source, loading, arr, lost, asked, overlapped, calcVars>>

\* The answer to any of the requests: the first assignment of the handler.
RatesArrive(i) ==
  /\ completing = Idle /\ main # "crashed" /\ i \in DOMAIN tasks
  /\ \E rates \in JSONRatesParser(tasks[i]) : completing' = Data(rates)
  /\ tasks' = RemoveAt(tasks, i)
  /\ loading' = FALSE
  /\ UNCHANGED <<source, arr, lost, asked, overlapped, calcVars>>

\* Its second assignment.
RatesShown ==
  /\ completing # Idle /\ main # "crashed"
  /\ arr' = Head(completing)
  /\ completing' = Idle
  /\ UNCHANGED <<source, loading, tasks, lost, asked, overlapped, calcVars>>

\* A transport error: getRates prints it and never calls its completion.
RatesLost(i) ==
  /\ "transport" \in Faults
  /\ completing = Idle /\ main # "crashed" /\ i \in DOMAIN tasks
  /\ tasks' = RemoveAt(tasks, i)
  /\ lost' = TRUE
  /\ UNCHANGED <<source, loading, arr, completing, asked, overlapped, calcVars>>

-----------------------------------------------------------------------------
(***************************************************************************)
(* The tab with the calculator.                                            *)
(***************************************************************************)

\* The selectors and the field; a selector never goes back to "nothing chosen".
EnterConversion(f, t, a) ==
  /\ main = "free"
  /\ f = Blank => from = Blank
  /\ t = Blank => to = Blank
  /\ from' = f /\ to' = t /\ amount' = a
  /\ UNCHANGED <<ratesVars, result, clicked, main, asking, answer>>

Incomplete == amount = Blank \/ from = Blank \/ to = Blank

\* The button "Convert" with a field missing.
convertRefused ==
  /\ main = "free" /\ Incomplete
  /\ clicked' = TRUE
  /\ UNCHANGED <<ratesVars, from, to, amount, result, main, asking, answer>>

\* A slip ResultFitsInputs catches: the request is sent and not waited for.
convert_NoWait ==
  /\ main = "free" /\ ~Incomplete /\ amount # BadAmount /\ asking = Idle
  /\ clicked' = TRUE
  /\ asking' = <<from, to, amount>> /\ answer' = Zero
  /\ UNCHANGED <<ratesVars, from, to, amount, result, main>>

\* With all fields filled in: NetworkManager.convert up to semaphore.wait().
convert ==
  /\ main = "free" /\ ~Incomplete /\ amount # BadAmount
  /\ clicked' = TRUE
  /\ main' = "waiting" /\ asking' = <<from, to, amount>> /\ answer' = Zero
  /\ UNCHANGED <<ratesVars, from, to, amount, result>>

\* URL(string: url)! with an amount that has no place in a URL.
convertTrap ==
  /\ main = "free" /\ ~Incomplete /\ amount = BadAmount
  /\ clicked' = TRUE /\ main' = "crashed"
  /\ UNCHANGED <<ratesVars, from, to, amount, result, asking, answer>>

\* What JSONConvertParser makes of an answer to a conversion.
JSONConvertParser(args) ==
  {args} \cup (IF "undecodable" \in Faults THEN {Zero} ELSE {})

\* A slip MainThreadReturns catches: no signal when the answer does not decode.
ConvertArrives_NoSignal ==
  /\ asking # Idle /\ main # "crashed"
  /\ \E value \in JSONConvertParser(asking) :
        answer' = value /\ main' = IF value = Zero THEN main ELSE "signalled"
  /\ asking' = Idle
  /\ UNCHANGED <<ratesVars, from, to, amount, result, clicked>>

\* The handler of convert's request: it stores the value and signals.
ConvertArrives ==
  /\ asking # Idle /\ main # "crashed"
  /\ \E value \in JSONConvertParser(asking) : answer' = value
  /\ main' = "signalled"
  /\ asking' = Idle
  /\ UNCHANGED <<ratesVars, from, to, amount, result, clicked>>

\* A transport error: the handler returns and nobody signals the semaphore.
ConvertLost ==
  /\ "transport" \in Faults
  /\ asking # Idle /\ main # "crashed"
  /\ asking' = Idle /\ main' = "stuck"
  /\ UNCHANGED <<ratesVars, from, to, amount, result, clicked, answer>>

\* semaphore.wait() returns and the main thread assigns the result.
ConvertReturns ==
  /\ main = "signalled"
  /\ result' = answer /\ main' = "free"
  /\ answer' = Zero
  /\ UNCHANGED <<ratesVars, from, to, amount, clicked, asking>>

-----------------------------------------------------------------------------
UserStep ==
  \/ \E c \in Currencies : SelectSource(c)
  \/ GetRates
  \/ \E f, t \in Symbols, a \in Inputs : EnterConversion(f, t, a)
  \/ convertRefused \/ convert \/ convertTrap

NetworkStep ==
  \/ \E i \in 1..MaxTasks : RatesArrive(i) \/ RatesLost(i)
  \/ RatesShown \/ ConvertArrives \/ ConvertLost \/ ConvertReturns

Next == UserStep \/ NetworkStep

Spec == Init /\ [][Next]_vars

(***************************************************************************)
(* The queue of URLSession serves every request that ends, with or without *)
(* data, and a thread that can go on does.                                 *)
(***************************************************************************)
Fairness ==
  /\ \A i \in 1..MaxTasks : WF_vars(RatesArrive(i) \/ RatesLost(i))
  /\ WF_vars(RatesShown)
  /\ WF_vars(ConvertArrives \/ ConvertLost) /\ WF_vars(ConvertReturns)

FairSpec == Spec /\ Fairness

-----------------------------------------------------------------------------
(***************************************************************************)
(* Properties.                                                             *)
(***************************************************************************)

Conversions == Currencies \X Currencies \X Amounts

\* Every variable of the two tabs keeps its type.
TypeOK ==
  /\ source \in Symbols /\ loading \in BOOLEAN /\ lost \in BOOLEAN
  /\ arr \in Symbols \cup {NoRates}
  /\ tasks \in Seq(Symbols) /\ Len(tasks) <= MaxTasks
  /\ completing \in {Idle} \cup {Data(r) : r \in Symbols \cup {NoRates}}
  /\ asked \in Symbols /\ overlapped \in BOOLEAN
  /\ from \in Symbols /\ to \in Symbols /\ amount \in Inputs
  /\ result \in Conversions \cup {Zero, Blank} /\ clicked \in BOOLEAN
  /\ main \in {"free", "waiting", "signalled", "stuck", "crashed"}
  /\ asking \in {Idle} \cup Conversions /\ answer \in Conversions \cup {Zero}

(***************************************************************************)
(* A result the calculator shows was computed for the currencies and the   *)
(* amount that are in its fields at that moment: waiting on the semaphore  *)
(* keeps the user from changing them in between.                           *)
(***************************************************************************)
ResultFitsInputs ==
  [][result' # result => result' \in {Zero, <<from', to', amount'>>}]_vars

(***************************************************************************)
(* Rates appear only for the base of the latest tap, unless that tap was   *)
(* made before the earlier requests were done.                             *)
(***************************************************************************)
RatesFollowTheTap == ~overlapped => arr \in {NoRates, asked}

(***************************************************************************)
(* "Fetching may take a while", and then it is over: the text goes away    *)
(* unless an answer was lost or the app has crashed, although taps and the *)
(* handlers' assignments interleave.                                       *)
(***************************************************************************)
LoadingEnds == loading ~> (~loading \/ lost \/ main = "crashed")

(***************************************************************************)
(* convert gives the main thread back whatever the answer looks like,      *)
(* unless there is none.                                                   *)
(***************************************************************************)
MainThreadReturns ==
  main = "waiting" ~> main \in {"free", "stuck"}

==============================================================================
