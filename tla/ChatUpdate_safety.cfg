SPECIFICATION ChatFairSpec
CONSTANTS
  Updater = {u1, u2}
  Chat = {c1, c2}
  SR = {s1}
  Name = {n1, n2}
  NoRow = NoRow
  MaxChange = 1
  MaxFault = 1
  MaxCrash = 1
INVARIANTS TypeOK FinishedMatchesList
PROPERTY ChatsConverge
CHECK_DEADLOCK FALSE
