\* A descriptor closed between a lookup and the write.
CONSTANTS
  m1 = m1
  Methods = {m1}
  Frames <- MCRouted
  NConns = 3
  NFds = 2
  MaxFrames = 2
  Interrupts = FALSE
SPECIFICATION Spec
INVARIANT NotifiedRegistrant
\* The bounds, and the exit of the process, end every behaviour.
CHECK_DEADLOCK FALSE
