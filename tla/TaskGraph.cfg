CONSTANTS
  g1 = g1
  g2 = g2
  g3 = g3
  t1 = t1
  t2 = t2
  t3 = t3
  Groups = {g1, g2, g3}
  Tasks = {t1, t2, t3}
  GroupOf <- Owner
  Edges <- Diamond
  Workers = {w1, w2}
  Client = client
  DependeesFirst = TRUE
  MaxStarts = 1
SPECIFICATION FairSpec
INVARIANTS TaskInv TaskOnce ReportedOnceOver AfterDependencies AssertionsHold
PROPERTIES StopDrains GroupsFinish CallsReturn
