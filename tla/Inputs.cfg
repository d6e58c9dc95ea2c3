\* The arguments and the parameters of MCInputs; two calls of set_params, each a
\* mode and two more parameters.
CONSTANTS
  MaxInt <- MCMaxInt
  Doubles <- MCDoubles
  Nearest <- MCNearest
  Args <- MCArgs
  Texts <- MCTexts
  Params <- MCParams
  SizeT = 16
  FloatSizeT <- MCFloatSizeT
  DefaultMaxQueue = 4
  MaxSets = 2
SPECIFICATION MCSpec
INVARIANTS EchoedUnchanged SupportedAccepted SetUpAsConfigured RefusalExplained
\* An argument arrives, and the calls of set_params are bounded.
CHECK_DEADLOCK FALSE
