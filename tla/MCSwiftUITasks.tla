--------------------------- MODULE MCSwiftUITasks ---------------------------
(***************************************************************************)
(* Two documents and two tasks, so that a task can be there twice or       *)
(* beside the other one; a screen of one row, so that two rows already     *)
(* scroll; two complete inputs and one that is not.                        *)
(***************************************************************************)
EXTENDS SwiftUITasks

MCTyped == Task \cup {[name |-> CHOOSE n \in Names : TRUE, time |-> Blank]}

=============================================================================
