CONSTANTS
  s1 = s1
  s2 = s2
  n1 = n1
  n2 = n2
  u1 = u1
  u2 = u2
  u3 = u3
  t1 = t1
  t2 = t2
  t3 = t3
  c1 = c1
  c2 = c2
  d1 = d1
  d2 = d2
  r1 = r1
  NoRound = NoRound
  NoId = NoId
  NoJob = NoJob
  Blank = Blank
  Rounds = {NoRound, r1}
  MaxWrites = 4
  MaxChecks = 1
  MaxRedirects = 3
  Portal <- MCPortal
  Replies <- MCReplies
  Decisions = {"merged"}
  Delivered <- UnnamedDelivered
  Items <- UnnamedItems
  Forms <- MCForms
  Older <- MCOlder
  Alike <- MCAlike
  HumanEdits <- CompanyEdits
  AgentPatches <- MCAgentPatches
SPECIFICATION Spec
PROPERTY HumanValueKept
CHECK_DEADLOCK FALSE
