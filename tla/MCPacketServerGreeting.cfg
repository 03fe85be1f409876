CONSTANTS
  na = na  nb = nb  px = px  py = py  w1 = w1  w2 = w2
  Blank = ""  Nobody = Nobody  Garbage = Garbage  None = None
  Node = {na, nb}
  Outsider = {px, py}
  Worker = {w1}
  Key <- FloodKey
  Body <- FloodBody
  Candidates <- EachOther
  CacheSize = 2
  InitTtl = 2
  TtlMod = 4
  MaxInjected = 0
SPECIFICATION Spec
INVARIANT GreetingDelivered
CHECK_DEADLOCK FALSE
