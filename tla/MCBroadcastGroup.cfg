CONSTANTS
  Senders = {s1, s2}
  Hooks = {x1}
  Capacity = 1
  NoHook = NoHook
  Me = m
  Others = {o}
  Unnamed = m
  Rangers = {s1}
SPECIFICATION GSpec
INVARIANTS NoLostWakeup FanOut
PROPERTIES ValueReturns CancelledReturns
CHECK_DEADLOCK FALSE
