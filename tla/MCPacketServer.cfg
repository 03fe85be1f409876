CONSTANTS
  na = na  nb = nb  px = px  py = py  w1 = w1  w2 = w2
  Blank = ""  Nobody = Nobody  Garbage = Garbage  None = None
  Node = {na, nb}
  Outsider = {px}
  Worker = {w1, w2}
  Key <- FloodKey
  Body <- FloodBody
  Candidates <- OneWay
  CacheSize = 1
  InitTtl = 2
  TtlMod = 4
  MaxInjected = 2
SYMMETRY WorkerSymmetry
SPECIFICATION Spec
INVARIANTS TypeOK HopsBounded RoutesVerified SeenOncePerWindow
 
CHECK_DEADLOCK FALSE
