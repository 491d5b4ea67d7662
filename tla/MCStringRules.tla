---------------------------- MODULE MCStringRules ----------------------------
(***************************************************************************)
(* Alphabets with one character of each kind a rule tells apart, and texts *)
(* one or two characters longer than the shortest accepted one.            *)
(***************************************************************************)
EXTENDS StringRules

MCAlphabet ==
  [email    |-> {"a", "7", ".", "@", "_", " "},
   password |-> {"A", "a", "7", "9"},
   time     |-> {"1", "2", "3", "6", ":", ",", "mk"}]

MCMaxLength == [email |-> 7, password |-> 8, time |-> 6]

==============================================================================
