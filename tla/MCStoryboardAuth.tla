-------------------------- MODULE MCStoryboardAuth --------------------------
(***************************************************************************)
(* Two addresses and two requests under way, so that answers overlap and   *)
(* come out of order, and room for a form above a form and a list on top.  *)
(***************************************************************************)
EXTENDS StoryboardAuth

=============================================================================
