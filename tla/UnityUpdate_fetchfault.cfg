SPECIFICATION Spec
CONSTANTS
  Updater = {u1}
  SR = {s1, s2}
  Queue = {q1, q2}
  Fields = {f1}
  Branch = {owner}
  NoRow = NoRow
  UndoesTxn = TRUE
  MaxChange = 0
  MaxFault = 1
  MaxCrash = 0
  MaxClock = 0
INVARIANT FinishedMeansInSync
CHECK_DEADLOCK FALSE
