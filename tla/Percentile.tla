----------------------------- MODULE Percentile -----------------------------
(***************************************************************************)
(* percentile() of src/rpc_throughput.cpp over whole microseconds, in exact *)
(* arithmetic: the rank, and the result, are kept in hundredths.  That the *)
(* code rounds them to doubles is left out.                                *)
(***************************************************************************)
EXTENDS Integers, Sequences

\* rank = pct / 100 * (size - 1)
Rank(sorted, pct) == pct * (Len(sorted) - 1)

\* Counted from 1: floor(rank), ceil(rank) and what is between.
Lo(sorted, pct) == Rank(sorted, pct) \div 100 + 1
Hi(sorted, pct) == (Rank(sorted, pct) + 99) \div 100 + 1
Frac(sorted, pct) == Rank(sorted, pct) % 100

\* Mutant: interpolated from the wrong end.
PercentilePast(sorted, pct) ==
  100 * sorted[Hi(sorted, pct)]
    + (sorted[Hi(sorted, pct)] - sorted[Lo(sorted, pct)]) * Frac(sorted, pct)

\* Hundredths of a microsecond.
Percentile(sorted, pct) ==
  100 * sorted[Lo(sorted, pct)]
    + (sorted[Hi(sorted, pct)] - sorted[Lo(sorted, pct)]) * Frac(sorted, pct)

Ascending(s) == \A i, j \in DOMAIN s : i <= j => s[i] <= s[j]
=============================================================================
