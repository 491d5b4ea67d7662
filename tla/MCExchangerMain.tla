--------------------------- MODULE MCExchangerMain ---------------------------
(***************************************************************************)
(* Two currencies, one good amount and two requests under way: enough for  *)
(* answers out of order and for a tap between the handler's assignments.   *)
(***************************************************************************)
EXTENDS ExchangerMain

==============================================================================
