------------------------------ MODULE TaskKeys ------------------------------
(***************************************************************************)
(* The keys of the dictionary paths of the storyboard ViewController, as   *)
(* texts: sequences of characters.                                         *)
(***************************************************************************)
EXTENDS Integers, Sequences

Comma == ","

\* createString(n:t:): the text "name,time".
createString(n, t) == n \o <<Comma>> \o t

HasComma(t) == \E i \in DOMAIN t : t[i] = Comma

=============================================================================
