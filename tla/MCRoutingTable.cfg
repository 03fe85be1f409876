CONSTANTS
  Worker = {w1, w2}
  Dest = {alice}
  Ip = {a, b}
  MaxTtl = 3
  MaxCalls = 2
  None = None
  Undefined = Undefined
SPECIFICATION Spec
INVARIANTS TypeOK WholeRoutes NoLostUpdate NoDeadlock
PROPERTIES CallsReturn 
CHECK_DEADLOCK FALSE
