CONSTANTS
  g1 = g1
  g2 = g2
  Waiters <- TwoWaiters
  Deliverers = {d1}
  Closers = {c1}
  MaxCalls <- Calls
  Nil = Nil
SPECIFICATION Spec
INVARIANTS ReadyHasValue NoLostWakeup
PROPERTY WaitReturns
