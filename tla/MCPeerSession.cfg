CONSTANTS
  Thread = {t1, t2}
  Peer = {p, q}
  Key = {ka, kb}
  Self = kb
  m1 = m1
  m2 = m2
  Msg = {m1, m2}
  Session = {s1, s2}
  Ctx = {c1, c2}
  Packet <- MCPacket
  MaxPackets = 3
  None = None
SPECIFICATION Spec
INVARIANTS TypeOK SignsOwnMessage OneSession SignedByPeer CoversPayload
CONSTRAINT OneSide
SYMMETRY Symmetry
CHECK_DEADLOCK FALSE
