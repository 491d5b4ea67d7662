-------------------------------- MODULE Regex --------------------------------
(***************************************************************************)
(* The regular expressions of NSRegularExpression and of the predicate     *)
(* operator MATCHES, as far as the apps' validators use them: a text is a  *)
(* sequence of characters, and Ends gives the positions at which a match   *)
(* that starts at position i may end, whichever way it backtracks.         *)
(***************************************************************************)
EXTENDS Integers, Sequences

OneOf(S)          == [op |-> "one", of |-> S]
Then(r, q)        == [op |-> "then", first |-> r, second |-> q]
Or(r, q)          == [op |-> "or", first |-> r, second |-> q]
Repeat(r, lo, hi) == [op |-> "repeat", of |-> r, lo |-> lo, hi |-> hi]
Ahead(r)          == [op |-> "ahead", of |-> r]

Unbounded == 1000
Plus(r) == Repeat(r, 1, Unbounded)
Opt(r)  == Repeat(r, 0, 1)

RECURSIVE Ends(_, _, _), RepeatEnds(_, _, _, _, _)

\* The ends of between lo and hi matches of r in a row, the first of which
\* starts at a position of P.
RepeatEnds(r, s, P, lo, hi) ==
  (IF lo <= 0 THEN P ELSE {}) \cup
  (IF hi = 0 \/ P = {} THEN {}
   ELSE RepeatEnds(r, s, UNION {Ends(r, s, i) : i \in P}, lo - 1, hi - 1))

Ends(r, s, i) ==
  CASE r.op = "one"    -> IF i < Len(s) /\ s[i + 1] \in r.of THEN {i + 1} ELSE {}
    [] r.op = "then"   -> UNION {Ends(r.second, s, j) : j \in Ends(r.first, s, i)}
    [] r.op = "or"     -> Ends(r.first, s, i) \cup Ends(r.second, s, i)
    [] r.op = "repeat" -> RepeatEnds(r.of, s, {i}, r.lo, r.hi)
    [] r.op = "ahead"  -> IF Ends(r.of, s, i) = {} THEN {} ELSE {i}

\* "^r$", and MATCHES: the match covers the whole text.
Matches(r, s) == Len(s) \in Ends(r, s, 0)

==============================================================================
