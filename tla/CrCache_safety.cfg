SPECIFICATION FairSpec
CONSTANTS
  Worker = {w1, w2}
  CR = {c1, c2}
  SR = {s1}
  Desc = {d1}
  NoRow = NoRow
  Garbage = Garbage
  Kinds = {"updateDB", "userqueue", "srforcr", "qmon"}
  MaxChange = 1
  MaxFault = 1
INVARIANTS TypeOK WaitsEmptyHanded DoneIsCommitted SrForCrLeavesNoTrace
PROPERTY RequestsGetThrough
CHECK_DEADLOCK FALSE
