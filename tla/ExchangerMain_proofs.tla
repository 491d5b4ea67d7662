------------------------ MODULE ExchangerMain_proofs ------------------------
(***************************************************************************)
(* Safety of ExchangerMain for every set of currencies and amounts, every  *)
(* number of requests under way and every set of faults.                   *)
(***************************************************************************)
EXTENDS ExchangerMain, SequenceLemmas, SequenceTheorems, TLAPS

(***************************************************************************)
(* The inductive invariant.  The semaphore keeps the arguments of the call *)
(* under way equal to the fields; without overlap, every request and every *)
(* handler is for the latest tap.                                          *)
(***************************************************************************)
Fields == <<from, to, amount>>

CallFitsFields ==
  /\ asking # Idle => main = "waiting" /\ asking = Fields
  /\ main = "signalled" => answer \in {Zero, Fields}

TasksFitTap ==
  ~overlapped =>
    /\ tasks \in Seq({asked})
    /\ arr \in {NoRates, asked}
    /\ completing \in {Idle, Data(NoRates), Data(asked)}

IInv == TypeOK /\ CallFitsFields /\ TasksFitTap

-----------------------------------------------------------------------------
\* Nothing has been asked when the view appears.
LEMMA InitIInv == Init => IInv
<1> SUFFICES ASSUME Init PROVE IInv
  OBVIOUS
<1>1. << >> \in Seq(Symbols) /\ << >> \in Seq({asked}) /\ Len(<< >>) = 0
  BY EmptySeq
<1>2. TypeOK
  <2>1. Len(tasks) <= MaxTasks
    BY <1>1, MaxTasksAssumption DEF Init
  <2>2. /\ source \in Symbols /\ arr \in Symbols \cup {NoRates} /\ asked \in Symbols
        /\ from \in Symbols /\ to \in Symbols /\ amount \in Inputs
        /\ tasks \in Seq(Symbols)
    BY <1>1 DEF Init, Symbols, Inputs
  <2> QED BY <2>1, <2>2 DEF Init, TypeOK
<1>3. CallFitsFields /\ TasksFitTap
  BY <1>1 DEF Init, CallFitsFields, TasksFitTap, Idle
<1> QED BY <1>2, <1>3 DEF IInv

\* Steps of the rates leave the calculator's part of the invariant alone.
LEMMA CalcUntouched ==
  ASSUME IInv, UNCHANGED calcVars
  PROVE  CallFitsFields'
BY DEF IInv, CallFitsFields, calcVars, Fields

\* Steps of the calculator leave the rates' part of it alone.
LEMMA RatesUntouched ==
  ASSUME IInv, UNCHANGED ratesVars
  PROVE  TasksFitTap'
BY DEF IInv, TasksFitTap, ratesVars

\* A choice in the selector changes no request.
LEMMA SelectSourceStep ==
  ASSUME IInv, NEW c \in Currencies, SelectSource(c)
  PROVE  IInv'
<1>1. TypeOK'
  BY DEF IInv, TypeOK, SelectSource, calcVars, Symbols
<1>2. TasksFitTap'
  BY DEF IInv, TasksFitTap, SelectSource
<1> QED BY <1>1, <1>2, CalcUntouched DEF IInv, SelectSource

\* A tap on "Get rates!" starts from an empty list; without overlap its request
\* is the only one.
LEMMA GetRatesStep ==
  ASSUME IInv, GetRates
  PROVE  IInv'
<1>1. tasks \in Seq(Symbols) /\ source \in Symbols /\ Len(tasks) \in Nat
  BY LenProperties DEF IInv, TypeOK
<1>2. Append(tasks, source) \in Seq(Symbols) /\ Len(Append(tasks, source)) = Len(tasks) + 1
  BY <1>1, AppendProperties
<1>3. TypeOK'
  BY <1>1, <1>2, MaxTasksAssumption DEF IInv, TypeOK, GetRates, calcVars
<1>4. TasksFitTap'
  <2> SUFFICES ASSUME ~overlapped'
               PROVE  /\ tasks' \in Seq({asked'})
                      /\ arr' \in {NoRates, asked'}
                      /\ completing' \in {Idle, Data(NoRates), Data(asked')}
    BY DEF TasksFitTap
  <2>1. tasks = << >> /\ completing = Idle /\ asked' = source
    BY DEF GetRates
  <2>2. Append(<< >>, source) \in Seq({source})
    BY EmptySeq, AppendProperties
  <2> QED BY <2>1, <2>2 DEF GetRates
<1> QED BY <1>3, <1>4, CalcUntouched DEF IInv, GetRates

\* An answer removes its request and leaves the handler with its rates.
LEMMA RatesArriveStep ==
  ASSUME IInv, NEW i \in 1..MaxTasks, RatesArrive(i)
  PROVE  IInv'
<1>1. tasks \in Seq(Symbols) /\ Len(tasks) \in Nat /\ Len(tasks) <= MaxTasks /\ i \in 1..Len(tasks)
  BY LenProperties DEF IInv, TypeOK, RatesArrive
<1>2. PICK rates \in JSONRatesParser(tasks[i]) : completing' = Data(rates)
  BY DEF RatesArrive
<1>3. rates \in {tasks[i], NoRates} /\ tasks[i] \in Symbols
  BY <1>1, ElementOfSeq DEF JSONRatesParser
<1>4. RemoveAt(tasks, i) \in Seq(Symbols) /\ Len(RemoveAt(tasks, i)) = Len(tasks) - 1
  BY <1>1, RemoveAtSeq
<1>5. TypeOK'
  <2>1. completing' \in {Data(r) : r \in Symbols \cup {NoRates}}
    BY <1>2, <1>3
  <2>2. tasks' \in Seq(Symbols) /\ Len(tasks') <= MaxTasks
    BY <1>1, <1>4, MaxTasksAssumption DEF RatesArrive
  <2> QED BY <2>1, <2>2 DEF IInv, TypeOK, RatesArrive, calcVars
<1>6. TasksFitTap'
  <2> SUFFICES ASSUME ~overlapped'
               PROVE  /\ tasks' \in Seq({asked'})
                      /\ arr' \in {NoRates, asked'}
                      /\ completing' \in {Idle, Data(NoRates), Data(asked')}
    BY DEF TasksFitTap
  <2>1. tasks \in Seq({asked}) /\ arr \in {NoRates, asked}
    BY DEF IInv, TasksFitTap, RatesArrive
  <2>2. tasks[i] = asked
    BY <1>1, <2>1, ElementOfSeq
  <2>3. RemoveAt(tasks, i) \in Seq({asked})
    BY <1>1, <2>1, RemoveAtSeq
  <2> QED BY <1>2, <1>3, <2>1, <2>2, <2>3 DEF RatesArrive
<1> QED BY <1>5, <1>6, CalcUntouched DEF IInv, RatesArrive

\* The handler's second assignment shows what it holds.
LEMMA RatesShownStep ==
  ASSUME IInv, RatesShown
  PROVE  IInv'
<1>1. PICK r \in Symbols \cup {NoRates} : completing = Data(r)
  BY DEF IInv, TypeOK, RatesShown, Idle
<1>2. Head(completing) = r
  BY <1>1 DEF Data
<1>3. TypeOK'
  BY <1>2 DEF IInv, TypeOK, RatesShown, calcVars
<1>4. TasksFitTap'
  <2> SUFFICES ASSUME ~overlapped'
               PROVE  /\ tasks' \in Seq({asked'})
                      /\ arr' \in {NoRates, asked'}
                      /\ completing' \in {Idle, Data(NoRates), Data(asked')}
    BY DEF TasksFitTap
  <2>1. tasks \in Seq({asked}) /\ completing \in {Data(NoRates), Data(asked)}
    BY DEF IInv, TasksFitTap, RatesShown
  <2>2. r \in {NoRates, asked}
    BY <1>1, <2>1 DEF Data
  <2> QED BY <1>2, <2>1, <2>2 DEF RatesShown
<1> QED BY <1>3, <1>4, CalcUntouched DEF IInv, RatesShown

\* A lost answer only removes its request.
LEMMA RatesLostStep ==
  ASSUME IInv, NEW i \in 1..MaxTasks, RatesLost(i)
  PROVE  IInv'
<1>1. tasks \in Seq(Symbols) /\ Len(tasks) \in Nat /\ Len(tasks) <= MaxTasks /\ i \in 1..Len(tasks)
  BY LenProperties DEF IInv, TypeOK, RatesLost
<1>2. RemoveAt(tasks, i) \in Seq(Symbols) /\ Len(RemoveAt(tasks, i)) = Len(tasks) - 1
  BY <1>1, RemoveAtSeq
<1>3. TypeOK'
  BY <1>1, <1>2, MaxTasksAssumption DEF IInv, TypeOK, RatesLost, calcVars
<1>4. TasksFitTap'
  <2>1. ~overlapped => RemoveAt(tasks, i) \in Seq({asked})
    BY <1>1, RemoveAtSeq DEF IInv, TasksFitTap
  <2> QED BY <2>1 DEF IInv, TasksFitTap, RatesLost
<1> QED BY <1>3, <1>4, CalcUntouched DEF IInv, RatesLost

-----------------------------------------------------------------------------
\* The fields change only while no call is under way: the main thread is free.
LEMMA FieldsStep ==
  ASSUME IInv, NEW f \in Symbols, NEW t \in Symbols, NEW a \in Inputs, EnterConversion(f, t, a)
  PROVE  IInv'
<1>1. TypeOK'
  BY DEF IInv, TypeOK, EnterConversion, ratesVars
<1>2. CallFitsFields'
  BY DEF IInv, CallFitsFields, EnterConversion
<1> QED BY <1>1, <1>2, RatesUntouched DEF IInv, EnterConversion

\* A tap on "Convert": refused, trapping, or waiting with the fields as they are.
LEMMA ConvertStep ==
  ASSUME IInv, convertRefused \/ convert \/ convertTrap
  PROVE  IInv'
<1>0. UNCHANGED ratesVars
  BY DEF convertRefused, convert, convertTrap
<1>1. convert => Fields \in Conversions
  BY DEF IInv, TypeOK, convert, Incomplete, Fields, Conversions, Symbols, Inputs
<1>2. TypeOK'
  <2>1. CASE convertRefused
    BY <2>1 DEF IInv, TypeOK, convertRefused, ratesVars
  <2>2. CASE convert
    BY <1>1, <2>2 DEF IInv, TypeOK, convert, ratesVars, Fields
  <2>3. CASE convertTrap
    BY <2>3 DEF IInv, TypeOK, convertTrap, ratesVars
  <2> QED BY <2>1, <2>2, <2>3
<1>3. CallFitsFields'
  BY DEF IInv, CallFitsFields, convertRefused, convert, convertTrap, Fields
<1> QED BY <1>0, <1>2, <1>3, RatesUntouched DEF IInv

\* The handler of convert's request, with an answer or without one.
LEMMA ConvertAnsweredStep ==
  ASSUME IInv, ConvertArrives \/ ConvertLost
  PROVE  IInv'
<1>0. UNCHANGED ratesVars
  BY DEF ConvertArrives, ConvertLost
<1>1. main = "waiting" /\ asking = Fields /\ asking \in Conversions
  BY DEF IInv, TypeOK, CallFitsFields, ConvertArrives, ConvertLost
<1>2. ConvertArrives => answer' \in {asking, Zero}
  BY DEF ConvertArrives, JSONConvertParser
<1>3. TypeOK'
  <2>1. CASE ConvertArrives
    BY <1>1, <1>2, <2>1 DEF IInv, TypeOK, ConvertArrives, ratesVars
  <2>2. CASE ConvertLost
    BY <1>1, <2>2 DEF IInv, TypeOK, ConvertLost, ratesVars
  <2> QED BY <2>1, <2>2
<1>4. CallFitsFields'
  BY <1>1, <1>2 DEF CallFitsFields, ConvertArrives, ConvertLost, Fields
<1> QED BY <1>0, <1>3, <1>4, RatesUntouched DEF IInv

\* The main thread goes on with the answer.
LEMMA ConvertReturnsStep ==
  ASSUME IInv, ConvertReturns
  PROVE  IInv'
<1>1. TypeOK'
  BY DEF IInv, TypeOK, ConvertReturns, ratesVars
<1>2. CallFitsFields'
  BY DEF IInv, CallFitsFields, ConvertReturns
<1> QED BY <1>1, <1>2, RatesUntouched DEF IInv, ConvertReturns

-----------------------------------------------------------------------------
\* Every step keeps the invariant.
LEMMA NextIInv == IInv /\ [Next]_vars => IInv'
<1> SUFFICES ASSUME IInv, [Next]_vars PROVE IInv'
  OBVIOUS
<1>1. CASE \E c \in Currencies : SelectSource(c)
  BY <1>1, SelectSourceStep
<1>2. CASE GetRates
  BY <1>2, GetRatesStep
<1>3. CASE \E f, t \in Symbols, a \in Inputs : EnterConversion(f, t, a)
  BY <1>3, FieldsStep
<1>4. CASE convertRefused \/ convert \/ convertTrap
  BY <1>4, ConvertStep
<1>5. CASE \E i \in 1..MaxTasks : RatesArrive(i) \/ RatesLost(i)
  BY <1>5, RatesArriveStep, RatesLostStep
<1>6. CASE RatesShown
  BY <1>6, RatesShownStep
<1>7. CASE ConvertArrives \/ ConvertLost
  BY <1>7, ConvertAnsweredStep
<1>8. CASE ConvertReturns
  BY <1>8, ConvertReturnsStep
<1>9. CASE UNCHANGED vars
  <2>1. UNCHANGED ratesVars /\ UNCHANGED calcVars
    BY <1>9 DEF vars
  <2>2. TypeOK'
    BY <2>1 DEF IInv, TypeOK, ratesVars, calcVars
  <2> QED BY <2>1, <2>2, RatesUntouched, CalcUntouched DEF IInv
<1> QED BY <1>1, <1>2, <1>3, <1>4, <1>5, <1>6, <1>7, <1>8, <1>9
        DEF Next, UserStep, NetworkStep

\* The inductive invariant holds in every reachable state.
LEMMA AlwaysIInv == Spec => []IInv
BY InitIInv, NextIInv, PTL DEF Spec

\* Every variable of the two tabs keeps its type.
THEOREM TypeCorrect == Spec => []TypeOK
<1>1. IInv => TypeOK
  BY DEF IInv
<1> QED BY <1>1, AlwaysIInv, PTL

(***************************************************************************)
(* However answers and taps interleave, the rates listed are those of the  *)
(* latest tap on "Get rates!" unless that tap overlapped earlier requests. *)
(***************************************************************************)
THEOREM RatesAlwaysFollow == Spec => []RatesFollowTheTap
<1>1. IInv => RatesFollowTheTap
  BY DEF IInv, TasksFitTap, RatesFollowTheTap
<1> QED BY <1>1, AlwaysIInv, PTL

(***************************************************************************)
(* A result that appears in the calculator is the one of the currencies    *)
(* and the amount in its fields: nothing can change them while convert     *)
(* waits on its semaphore.                                                 *)
(***************************************************************************)
THEOREM ResultsFit == Spec => ResultFitsInputs
<1> DEFINE Fits == result' # result => result' \in {Zero, <<from', to', amount'>>}
<1>1. IInv /\ [Next]_vars => [Fits]_vars
  <2> SUFFICES ASSUME IInv, Next PROVE Fits
    OBVIOUS
  <2>1. CASE ConvertReturns
    BY <2>1 DEF IInv, CallFitsFields, ConvertReturns, Fields
  <2>2. CASE ~ ConvertReturns
    BY <2>2 DEF Next, UserStep, NetworkStep, SelectSource, GetRates, EnterConversion,
       convertRefused, convert, convertTrap, RatesArrive, RatesLost, RatesShown,
       ConvertArrives, ConvertLost, calcVars
  <2> QED BY <2>1, <2>2
<1>2. Spec => [][Fits]_vars
  BY <1>1, AlwaysIInv, PTL DEF Spec
<1> QED BY <1>2 DEF ResultFitsInputs

=============================================================================
