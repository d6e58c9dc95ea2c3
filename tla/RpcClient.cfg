\* Ids 0..1: a late answer can carry the id of a later call.  The client's
\* thread is fair; the router need not answer.
CONSTANTS
  IdSpace = 2
  RecvCap = 3
  MaxCalls = 3
  MaxConnects = 2
SPECIFICATION FairSpec
INVARIANTS TypeOK OwnAnswer MismatchNeedsAbandoned
PROPERTY CallReturns
\* The client may stop calling, and the number of calls is bounded.
CHECK_DEADLOCK FALSE
