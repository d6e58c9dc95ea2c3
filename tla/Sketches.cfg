\* A clock of 16 values under gaps short, of a period, and longer than a turn;
\* a ring of four filled almost three times; two methods under a flood.
CONSTANTS
  Word = 16
  Period = 3
  Gaps = {0, 1, 2, 3, 5, 15, 17}
  MaxClock = 70
  SIZE = 4
  MaxPushes = 11
  m1 = m1
  m2 = m2
  Methods = {m1, m2}
  EpIdSpace = 2
  MaxMsgs = 1
  BufCap = 3
SPECIFICATION MCSpec
INVARIANTS HoldsLatest WindowRecent StartedWhole
PROPERTIES Paced Prompt RequestOutlastsFlood
\* The clock and the samples are bounded, and start_receiver returns.
CHECK_DEADLOCK FALSE
