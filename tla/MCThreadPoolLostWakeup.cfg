CONSTANTS
  Worker = {w1}
  Client = {evloop}
  Task = {t1, t2}
  None = None
  Moved = Moved
SPECIFICATION Spec
PROPERTY SubmittedIsFetched
CHECK_DEADLOCK FALSE
