CONSTANTS
  Container = {c1, c2}
  Fd = {f1, f2}
  Opening <- OpeningWords
  Quoting <- QuotingWords
  Size <- Sizes
  Line <- Lines
  MaxLines = 1
  None = None
SPECIFICATION Spec
INVARIANTS TypeOK SocketsNotShared NoThreadOutlives JoinsOnlyClosed
PROPERTY AcceptsAgain
CHECK_DEADLOCK FALSE
