------------------------------ MODULE MCPages ------------------------------
(* Pages on small instances.                                               *)
EXTENDS Pages, TLC

CONSTANTS cash, card, eur, usd

MCCurrencyOf == (cash :> eur) @@ (card :> usd)
=============================================================================
