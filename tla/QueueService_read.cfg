SPECIFICATION Spec
CONSTANTS
  Updater = {u1}
  SR = {s1, s2}
  Queue = {q1}
  Fields = {f1, f2}
  Branch = {owner}
  Chat = {c1, c2}
  Name = {n1}
  NoRow = NoRow
  NoChat = NoChat
  NoCustomer = NoCustomer
  UndoesTxn = TRUE
  MaxChange = 1
  MaxFault = 1
  MaxCrash = 1
  MaxClock = 0
SYMMETRY Symmetry
INVARIANTS EntryOfOneVersion ChatShown
CHECK_DEADLOCK FALSE
