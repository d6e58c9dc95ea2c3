\* Both policies, a queue of two, three messages, two set_params.  The agent
\* polls and both threads run; nothing is asked of the router.
CONSTANTS
  m1 = m1
  m2 = m2
  Methods = {m1, m2}
  EpIdSpace = 2
  MaxMsgs = 3
  Configs <- MCConfigs
  MaxSetups = 2
SPECIFICATION FairSpec
INVARIANTS TypeOK EndpointOwned HonestAnswer ErrorIsFinal OnlyOldestLost NoStrayResponse
PROPERTIES ImplementsMailbox StopReturns FailureTold
\* The bounds, and the destructor, end every behaviour.
CHECK_DEADLOCK FALSE
