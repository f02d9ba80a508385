CONSTANTS
  s1 = s1
  s2 = s2
  c1 = c1
  c2 = c2
  p1 = p1
  p2 = p2
  Servers = {s1, s2}
  Clients = {c1, c2}
  Ports = {p1, p2}
  Local = s1
  Outsider = Outsider
  Nobody = Nobody
  Mixes <- MCMixes
  Times = 2
  Timeout = 1
  FormLens = {"full", "short", "negative"}
SPECIFICATION FairSpec
CHECK_DEADLOCK FALSE
INVARIANTS AnswersOnlyRequests FoundMeansServer PrintsOwnPort
PROPERTIES ClientsEnd
