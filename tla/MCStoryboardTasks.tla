-------------------------- MODULE MCStoryboardTasks --------------------------
(***************************************************************************)
(* Small instances of StoryboardTasks for TLC: two accounts taking turns,  *)
(* one task name and up to two times, so that equal and different keys     *)
(* both occur, and the document ids named by a configuration.  Ids are     *)
(* never reused, so DocIds bounds the additions and the rows; MaxWrites    *)
(* bounds the writes that wait in the client at once, MaxSignIns how often *)
(* the user changes.                                                       *)
(***************************************************************************)
EXTENDS StoryboardTasks

\* Accounts, document ids and times are opaque: no definition tells two apart.
Symmetry ==
  Permutations(Emails) \cup Permutations(DocIds) \cup Permutations(Times)

=============================================================================
