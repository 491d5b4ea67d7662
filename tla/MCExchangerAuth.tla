--------------------------- MODULE MCExchangerAuth ---------------------------
(***************************************************************************)
(* Two addresses, and three requests under way: two of one screen and one  *)
(* of another, answered in any order.                                      *)
(***************************************************************************)
EXTENDS ExchangerAuth

==============================================================================
