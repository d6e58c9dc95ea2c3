\* Three clients on two descriptors: the third is given a used number.  The
\* threads run, and the clients read.
CONSTANTS
  m1 = m1
  Methods = {m1}
  Frames <- MCFrames
  NConns = 3
  NFds = 2
  MaxFrames = 2
  Interrupts = TRUE
SPECIFICATION MCSpec
INVARIANTS TypeOK RegistrantAlive NoInterleaving AnsweredOnce
PROPERTIES UnregisterOwnOnly EveryRequestAnswered
\* The bounds, and the exit of the process, end every behaviour.
CHECK_DEADLOCK FALSE
