CONSTANTS
  na = na  nb = nb  px = px  py = py  w1 = w1  w2 = w2
  Blank = ""  Nobody = Nobody  Garbage = Garbage  None = None
  Node = {na}
  Outsider = {px, py}
  Worker = {w1}
  Key <- HandlerKey
  Body <- HandlerBody
  Candidates <- NoCandidates
  CacheSize = 2
  InitTtl = 2
  TtlMod = 4
  MaxInjected = 2
SPECIFICATION Spec
INVARIANT RouteIsPeerAddress
CHECK_DEADLOCK FALSE
