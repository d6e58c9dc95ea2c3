\* The instance of Inputs.cfg: an integer above int64_t among the arguments.
CONSTANTS
  MaxInt <- MCMaxInt
  Doubles <- MCDoubles
  Nearest <- MCNearest
  Args <- MCArgs
  Texts <- MCTexts
  Params <- MCParams
  SizeT = 16
  FloatSizeT <- MCFloatSizeT
  DefaultMaxQueue = 4
  MaxSets = 2
SPECIFICATION MCSpec
INVARIANTS RangeChecked
CHECK_DEADLOCK FALSE
