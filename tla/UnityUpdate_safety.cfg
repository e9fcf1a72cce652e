SPECIFICATION Spec
CONSTANTS
  Updater = {u1, u2}
  SR = {s1, s2}
  Queue = {q1, q2}
  Fields = {f1}
  Branch = {owner}
  NoRow = NoRow
  UndoesTxn = TRUE
  MaxChange = 1
  MaxFault = 1
  MaxCrash = 2
  MaxClock = 1
SYMMETRY Symmetry
INVARIANTS TypeOK PairInv PassInv FinishedMatchesList
PROPERTIES RestampOnlyOnMove MirrorSpec
CHECK_DEADLOCK FALSE
