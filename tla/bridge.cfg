CONSTANTS
  n1 = n1
  n2 = n2
  i1 = i1
  c = c
  h1 = h1
  NoOne = NoOne
  MaxQuestions = 2
  Codes = {c}
  Code <- MCCode
  Notifiers = {n1, n2}
  Handlers = {h1}
  Inbounds = {i1}
  Limit = 1
  MaxMessages = 2
  MaxFaults = 1
SPECIFICATION FairSpec
INVARIANTS SentOnce MessageAnswersItsQuestion
PROPERTIES PendingIsTried
