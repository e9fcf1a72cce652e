SPECIFICATION FairSpec
CONSTANTS
  Proc = {p1, p2}
  User = {kueued, root}
  Nobody = Nobody
  Service = kueued
  Pid = {1, 2, 3, 4, 5}
  NoPid = 0
  Command = {c1, c2}
  MaxEvent = 4
INVARIANTS OneInstance RunningServes JobIsKnown KillsOwnJob
PROPERTY UpdatesComeBack
