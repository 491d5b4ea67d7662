----------------------------- MODULE StringRules -----------------------------
(***************************************************************************)
(* What the apps' text fields accept.  The email and password rules are    *)
(* the same in all three apps (Helper of the two TODO apps, Validators of  *)
(* Exchanger); the rule for times belongs to the form of the storyboard    *)
(* app.  Every rule is written as the code writes it, as a regular         *)
(* expression, and compared with a direct statement of what it accepts.    *)
(*                                                                         *)
(* A text is a sequence of UTF-16 units, each a one-character string; "mk" *)
(* is a combining mark, which continues the character before it.  The      *)
(* ranges A-Z and a-z are represented by their ends.                       *)
(***************************************************************************)
EXTENDS Regex, TaskKeys, FiniteSets

CONSTANTS
  Alphabet,  \* the characters tried in each field
  MaxLength  \* the longest text tried in each field

Fields == {"email", "password", "time"}

ASSUME AlphabetAssumption == DOMAIN Alphabet = Fields
ASSUME MaxLengthAssumption == MaxLength \in [Fields -> Nat]

VARIABLES field, text

Upper == {"A", "Z"}
Lower == {"a", "z"}
Digit == {"0", "1", "2", "3", "4", "5", "6", "7", "8", "9"}
Mark  == "mk"
Every == Upper \cup Lower \cup Digit \cup {".", "_", "%", "+", "-", "@", ":", ",", " ", Mark}

-----------------------------------------------------------------------------
(***************************************************************************)
(* The rules of the code.                                                  *)
(***************************************************************************)

LocalPart == Upper \cup Lower \cup Digit \cup {".", "_", "%", "+", "-"}
Domain    == Upper \cup Lower \cup Digit \cup {".", "-"}

\* A slip EmailRule catches: the dot before the last part left unescaped.
emailFormat_AnyDot ==
  Then(Plus(OneOf(LocalPart)), Then(OneOf({"@"}),
    Then(Plus(OneOf(Domain)), Then(OneOf(Every),
      Repeat(OneOf(Upper \cup Lower), 2, 64)))))

\* "[A-Z0-9a-z._%+-]+@[A-Za-z0-9.-]+\\.[A-Za-z]{2,64}"
emailFormat ==
  Then(Plus(OneOf(LocalPart)), Then(OneOf({"@"}),
    Then(Plus(OneOf(Domain)), Then(OneOf({"."}),
      Repeat(OneOf(Upper \cup Lower), 2, 64)))))

isvalidEmail(enteredEmail) == Matches(emailFormat, enteredEmail)

\* "^(?=.*?[A-Z])(?=.*?[a-z])(?=.*?[0-7]).{7,}$"
Octal == {"0", "1", "2", "3", "4", "5", "6", "7"}
Somewhere(S) == Ahead(Then(Repeat(OneOf(Every), 0, Unbounded), OneOf(S)))

\* A slip PasswordRule catches: one character too few.
passwordRegex_Six ==
  Then(Somewhere(Upper), Then(Somewhere(Lower), Then(Somewhere(Octal),
    Repeat(OneOf(Every), 6, Unbounded))))

passwordRegex ==
  Then(Somewhere(Upper), Then(Somewhere(Lower), Then(Somewhere(Octal),
    Repeat(OneOf(Every), 7, Unbounded))))

isValidPassword(enteredPassword) == Matches(passwordRegex, enteredPassword)

\* A slip TimeRule catches: hours up to 29.
timePattern_LateHours ==
  Then(Then(Opt(OneOf({"0", "1", "2"})), OneOf(Digit)),
    Then(OneOf({":"}), Then(OneOf({"0", "1", "2", "3", "4", "5"}), OneOf(Digit))))

\* "^([0-1]?[0-9]|2[0-3]):[0-5][0-9]$"
timePattern ==
  Then(Or(Then(Opt(OneOf({"0", "1"})), OneOf(Digit)),
          Then(OneOf({"2"}), OneOf({"0", "1", "2", "3"}))),
    Then(OneOf({":"}), Then(OneOf({"0", "1", "2", "3", "4", "5"}), OneOf(Digit))))

\* text.count, the number of characters a reader sees.
Characters(t) == Cardinality({i \in DOMAIN t : i = 1 \/ t[i] # Mark})

(***************************************************************************)
(* checkDate searches a range of text.count units: the marks that make the *)
(* text longer than that push its end out of the range.                    *)
(***************************************************************************)
Searched(t) == SubSeq(t, 1, Characters(t))
checkDate(t) == Matches(timePattern, Searched(t))

-----------------------------------------------------------------------------
(***************************************************************************)
(* A user types into one of the fields.                                    *)
(***************************************************************************)
Init == field \in Fields /\ text = << >>

Type(c) ==
  /\ Len(text) < MaxLength[field]
  /\ text' = Append(text, c)
  /\ UNCHANGED field

Next == \E c \in Alphabet[field] : Type(c)

Spec == Init /\ [][Next]_<<field, text>>

-----------------------------------------------------------------------------
(***************************************************************************)
(* Properties.                                                             *)
(***************************************************************************)

Positions(c) == {i \in DOMAIN text : text[i] = c}

(***************************************************************************)
(* isvalidEmail accepts one "@" with something before it and, behind it, a *)
(* domain whose last dot has something in front and two letters or more    *)
(* behind it, whatever the regular expression's choices.                   *)
(***************************************************************************)
EmailRule ==
  field = "email" =>
    (isvalidEmail(text) <=>
       \E at \in Positions("@"), dot \in Positions(".") :
          /\ at > 1 /\ dot > at + 1 /\ Len(text) - dot \in 2..64
          /\ \A i \in 1..(at - 1) : text[i] \in LocalPart
          /\ \A i \in (at + 1)..(dot - 1) : text[i] \in Domain
          /\ \A i \in (dot + 1)..Len(text) : text[i] \in Upper \cup Lower)

(***************************************************************************)
(* isValidPassword accepts seven or more characters that include an upper  *)
(* case letter, a lower case letter and a digit up to 7, in any order.     *)
(***************************************************************************)
PasswordRule ==
  field = "password" =>
    (isValidPassword(text) <=>
       /\ Len(text) >= 7
       /\ \A S \in {Upper, Lower, Octal} : \E i \in DOMAIN text : text[i] \in S)

DigitValue == [d \in Digit |-> CHOOSE v \in 0..9 :
                 d = <<"0", "1", "2", "3", "4", "5", "6", "7", "8", "9">>[v + 1]]

\* The hour and the minute, read as numbers, of h:mm or hh:mm.
IsTimeOfDay(t) ==
  \E p \in {2, 3} :
     /\ Len(t) = p + 2 /\ t[p] = ":"
     /\ \A i \in DOMAIN t \ {p} : t[i] \in Digit
     /\ (IF p = 2 THEN 0 ELSE 10 * DigitValue[t[1]]) + DigitValue[t[p - 1]] <= 23
     /\ 10 * DigitValue[t[p + 1]] + DigitValue[t[p + 2]] <= 59

(***************************************************************************)
(* A text checkDate accepts is a time of day, up to marks behind it: what  *)
(* lies outside the range that is searched cannot hide anything else, so   *)
(* no comma, and createString's key "name,time" can be taken apart again.  *)
(***************************************************************************)
TimeRule ==
  field = "time" =>
    (checkDate(text) <=>
       \E k \in 0..Len(text) : /\ IsTimeOfDay(SubSeq(text, 1, k))
                               /\ \A i \in (k + 1)..Len(text) : text[i] = Mark)

==============================================================================
