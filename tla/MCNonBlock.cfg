CONSTANTS
  c1 = c1
  c2 = c2
  c3 = c3
  Clients = {c1, c2, c3}
  NoConn = NoConn
  Backlog = 1
  Messages <- Typed
SPECIFICATION FairSpec
INVARIANTS AnswersOnce
PROPERTIES CommandAnswered
