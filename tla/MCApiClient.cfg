CONSTANTS
  Email = {alice, bob}
  None = None
  PostSize = 1
  GetSize = 3
  MaxBlock = 3
  MaxBody = 7
  MaxCommands = 4
SPECIFICATION Spec
INVARIANTS TypeOK GetBlocksFit OwnAccount
CHECK_DEADLOCK FALSE
