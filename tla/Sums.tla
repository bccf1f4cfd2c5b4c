---------------------------------- MODULE Sums ----------------------------------
(***************************************************************************)
(* Sums of amounts: of the values of a function, on some of its domain or  *)
(* on all.                                                                 *)
(***************************************************************************)
EXTENDS Integers, FiniteSetsExt

SumOver(f, S) == MapThenSumSet(LAMBDA x : f[x], S)

Total(f) == SumOver(f, DOMAIN f)
=================================================================================
