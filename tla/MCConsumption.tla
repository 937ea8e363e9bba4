--------------------------- MODULE MCConsumption ---------------------------
(* Two rates; what the sensors showed before there was a store.             *)
EXTENDS Consumption

MCEarlier == [total |-> 7, canister |-> 3]
=============================================================================
