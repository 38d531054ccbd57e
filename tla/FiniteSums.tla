----------------------------- MODULE FiniteSums -----------------------------
(* Sums over finite sets, of which the averages of the route history and   *)
(* the totals of the live metrics are made.                                *)
EXTENDS FiniteSetsExt

\* The sum of what f has on S.
SumOf(f, S) == MapThenSumSet(LAMBDA x : f[x], S)
=============================================================================
