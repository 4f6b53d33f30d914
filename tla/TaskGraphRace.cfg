CONSTANTS
  g1 = g1
  g2 = g2
  g3 = g3
  t1 = t1
  t2 = t2
  t3 = t3
  Groups = {g1, g2}
  Tasks = {t1, t2}
  GroupOf <- ChainOwner
  Edges <- Chain
  Workers = {w1, w2}
  Client = client
  DependeesFirst = FALSE
  MaxStarts = 1
SPECIFICATION Spec
INVARIANT AssertionsHold
