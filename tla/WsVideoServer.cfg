SPECIFICATION FairSpec
CONSTANTS
  c1 = c1
  c2 = c2
  c3 = c3
  Clients <- MCThreeClients
  Width = 8
  ZeroAbove = 2
  Reports <- MCReports
  Garbage <- MCGarbage
INVARIANTS TypeOK WalkSafe NotUnderstated
PROPERTIES RateRecovers
