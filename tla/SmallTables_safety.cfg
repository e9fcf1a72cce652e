SPECIFICATION FairSpec
CONSTANTS
  Worker = {w1, w2}
  Customer = {c1, c2}
  Name = {n1, n2}
  Bug = {b1}
  Nothing = Nothing
  MaxChange = 1
  MaxFault = 1
INVARIANTS LtssIsOneList FullListsAll FewRowsPerBug
PROPERTY PseudoQueuesArrive
