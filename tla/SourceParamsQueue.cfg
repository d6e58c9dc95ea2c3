\* The instance of Inputs.cfg: one with a negative max_queue.
CONSTANTS
  MaxInt <- MCMaxInt
  Doubles <- MCDoubles
  Nearest <- MCNearest
  Args <- MCArgs
  Texts <- MCTexts
  Params <- MCParams
  SizeT = 16
  FloatSizeT <- MCFloatSizeT
  DefaultMaxQueue = 4
  MaxSets = 2
SPECIFICATION MCSpec
INVARIANTS QueuePositive
CHECK_DEADLOCK FALSE
