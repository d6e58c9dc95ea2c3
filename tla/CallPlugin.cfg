\* Each plugin, three inputs, three calls, and set_params twice; ids that do
\* not wrap.
CONSTANTS
  Kinds = {"source", "sink", "filter"}
  MaxInputs = 3
  IdSpace = 3
  RecvCap = 2
  MaxCalls = 3
  MaxConnects = 2
SPECIFICATION PluginSpec
INVARIANTS PluginTypeOK PublishedForInput SetUpMeansOpen SinkErrorTraced
PROPERTY ImplementsRpcCall
\* The inputs are bounded, and a critical return stops the agent.
CHECK_DEADLOCK FALSE
