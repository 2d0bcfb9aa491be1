-------------------------------- MODULE Sums --------------------------------
(***************************************************************************)
(* Sums of what a function gives, as the queries and the screens add up    *)
(* amounts.                                                                *)
(***************************************************************************)
EXTENDS Integers, FiniteSetsExt

SumOver(fun, keys) == MapThenSumSet(LAMBDA k : fun[k], keys)
=============================================================================
