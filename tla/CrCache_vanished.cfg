SPECIFICATION FairSpec
CONSTANTS
  Worker = {w1}
  CR = {c1}
  SR = {s1}
  Desc = {d1}
  NoRow = NoRow
  Garbage = Garbage
  Kinds = {"updateDB"}
  MaxChange = 0
  MaxFault = 0
PROPERTY UpdatesComplete
CHECK_DEADLOCK FALSE
