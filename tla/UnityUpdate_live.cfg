SPECIFICATION FairSpec
CONSTANTS
  Updater = {u1, u2}
  SR = {s1}
  Queue = {q1, q2}
  Fields = {f1, f2}
  Branch = {owner, subowner}
  NoRow = NoRow
  UndoesTxn = FALSE
  MaxChange = 1
  MaxFault = 1
  MaxCrash = 1
  MaxClock = 0
PROPERTY ConvergesUnlessTorn
CHECK_DEADLOCK FALSE
