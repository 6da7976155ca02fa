SPECIFICATION Spec
CONSTANTS
  c1 = c1
  c2 = c2
  c3 = c3
  Clients <- MCTwoClients
  Width = 8
  ZeroAbove = 2
  Reports <- MCReports
  Garbage <- MCCleared
INVARIANTS RecordsTheMaximum
