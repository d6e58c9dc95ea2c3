\* Descriptions of up to two tests, right and wrong, of at most three calls in
\* all; one call of qrpc_call; up to six latencies.
CONSTANTS
  Descriptions <- MCDescriptions
  DefaultIterations = 2
  IdSpace = 3
  RecvCap = 2
  MaxCalls = 3
  MaxConnects = 1
  Micros = {0, 1, 3, 10}
  MaxSamples = 6
SPECIFICATION MCSpec
INVARIANTS HonestReport ErrorsBeforeTraffic ExitTells StatsOrdered PercentileRanks
PROPERTY RunEnds
\* The programs exit, and the latencies are bounded.
CHECK_DEADLOCK FALSE
