CONSTANTS
  Worker = {w1, w2}
  Client = {evloop}
  Task = {t1, t2, t3}
  None = None
  Moved = Moved
SPECIFICATION Spec
INVARIANTS TypeOK ExactUntilOverlap
PROPERTIES NotifyDrains ImplementsQueue WakeupLostOnlyInWindow
CHECK_DEADLOCK FALSE
