CONSTANTS
  p1 = p1  p2 = p2  p3 = p3  p4 = p4  p5 = p5
  Blank = Blank
  Key <- MCKey
  CacheSize = 4
SPECIFICATION Spec
INVARIANTS TypeOK MapMatchesList
PROPERTY ImplementsWindow
