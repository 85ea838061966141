CONSTANTS
  s1 = s1
  s2 = s2
  d1 = d1
  d2 = d2
  a1 = a1
  a2 = a2
  b1 = b1
  i1 = i1
  i2 = i2
  i3 = i3
  Sources = {s1, s2}
  Rounds = {r1}
  Domains = {d1, d2}
  Used = {s1}
  Item = {i1, i2, i3}
  NoCursor = NoCursor
  Companies = {a1, a2, b1}
  Thin = {i1, i2}
  Lanes = 2
  Chunk = 1
  MaxPages = 1
  PageLimit = 2
  MaxEdits = 2
  Tested = {"ready"}
  Told = {"failed", "blocked", "ready"}
  Home <- MCHome
  Connector <- MCConnector
  Pages <- MCPages
  Place <- MCPlace
  Sent <- MCSent
  Reports <- MCReports
SPECIFICATION Spec
INVARIANTS TwoGates CountersAgree ClosedWhenDone NothingFetchedIsLost
PROPERTIES ClosedStaysClosed
CHECK_DEADLOCK FALSE
