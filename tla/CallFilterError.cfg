\* What the agent is told when a call of the filter fails.
CONSTANTS
  Kinds = {"filter"}
  MaxInputs = 3
  IdSpace = 3
  RecvCap = 2
  MaxCalls = 3
  MaxConnects = 2
SPECIFICATION PluginSpec
INVARIANT ErrorTraced
\* The inputs are bounded, and a critical return stops the agent.
CHECK_DEADLOCK FALSE
