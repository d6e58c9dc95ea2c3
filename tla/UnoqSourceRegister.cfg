\* A second method is registered while the first is in service.
CONSTANTS
  m1 = m1
  m2 = m2
  Methods = {m1, m2}
  EpIdSpace = 2
  MaxMsgs = 1
  Configs <- MCTwoMethods
  MaxSetups = 1
SPECIFICATION Spec
INVARIANT NotificationsAccumulated
\* The bounds, and the destructor, end every behaviour.
CHECK_DEADLOCK FALSE
