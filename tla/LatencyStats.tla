---------------------------- MODULE LatencyStats ----------------------------
(***************************************************************************)
(* The latencies run_test (src/rpc_throughput.cpp) collects, and what      *)
(* compute_stats makes of them.  The standard deviation, a square root, is *)
(* left out; times are in hundredths of a microsecond.                     *)
(***************************************************************************)
EXTENDS Percentile, FiniteSets

CONSTANTS
  Micros,          \* latencies, in whole microseconds
  MaxSamples       \* bound: successful calls

ASSUME StatsAssumption == Micros \subseteq Nat /\ MaxSamples \in Nat

VARIABLE latencies \* of the calls that succeeded, in the order of the calls

StatsInit == latencies = <<>>

\* latencies.push_back(us): the call returned, us microseconds after it began.
\* A call that throws leaves no latency.
Collect ==
  /\ Len(latencies) < MaxSamples
  /\ \E us \in Micros : latencies' = Append(latencies, us)

StatsSpec == StatsInit /\ [][Collect]_latencies
----------------------------------------------------------------------------
(* compute_stats, when there is a latency.                                 *)

\* Mutant: the percentiles are taken before the sort.
Unsorted == latencies

\* Where std::sort puts a latency: after those that are less, and after its
\* equals before it, which it cannot be told from.
Place(i) ==
  Cardinality({j \in DOMAIN latencies :
                 latencies[j] < latencies[i] \/ (latencies[j] = latencies[i] /\ j <= i)})

sorted ==
  [k \in DOMAIN latencies |-> latencies[CHOOSE i \in DOMAIN latencies : Place(i) = k]]

min_us == 100 * sorted[1]
max_us == 100 * sorted[Len(sorted)]

\* Added up from the first to the last.
Total(s) ==
  LET sum[k \in 0 .. Len(s)] == IF k = 0 THEN 0 ELSE sum[k - 1] + s[k]
  IN  sum[Len(s)]

mean_us == (100 * Total(sorted)) \div Len(latencies)

\* The percentiles, in hundredths.
Pcts == <<50, 90, 95, 99>>
----------------------------------------------------------------------------
(* Properties.                                                             *)

\* The columns of the report are in order, whatever the samples, however few.
StatsOrdered ==
  latencies # <<>> =>
    /\ min_us <= mean_us /\ mean_us <= max_us
    /\ min_us <= Percentile(sorted, 50)
    /\ \A k \in 1 .. 3 :
         Percentile(sorted, Pcts[k]) <= Percentile(sorted, Pcts[k + 1])
    /\ Percentile(sorted, 99) <= max_us

\* The calls no slower, and the calls faster, than v hundredths.
NoSlower(v) == {i \in DOMAIN latencies : 100 * latencies[i] <= v}
Faster(v) == {i \in DOMAIN latencies : 100 * latencies[i] < v}

\* What a percentile means, with no sorting in sight: of n calls at least
\* pct% of the n - 1 others, rounded down, were no slower than the call at the
\* percentile, and at most pct% of them, rounded up, were faster.
PercentileRanks ==
  latencies # <<>> =>
    \A k \in DOMAIN Pcts :
      LET v == Percentile(sorted, Pcts[k])
          others == Pcts[k] * (Len(latencies) - 1)
      IN  /\ Cardinality(NoSlower(v)) >= others \div 100 + 1
          /\ Cardinality(Faster(v)) <= (others + 99) \div 100
=============================================================================
