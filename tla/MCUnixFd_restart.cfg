CONSTANTS
  Servers = {s1, s2}
  Clients = {c1}
  Nobody = Nobody
  Backlog = 1
  ReadLen = 3
  Bytes = {"e", "x", "i", "o", "q", "u", "t"}
  Texts <- MCTexts
  MaxLines = 1
SPECIFICATION FairSpec
CHECK_DEADLOCK FALSE
PROPERTIES SocketFileRemoved
