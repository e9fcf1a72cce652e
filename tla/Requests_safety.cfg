SPECIFICATION Spec
CONSTANTS
  w1 = w1
  w2 = w2
  Worker = {w1, w2}
  Serve <- MCServe
  None = None
  MaxCut = 1
INVARIANTS IdleHoldsNothing FailuresExplained OneAnswer JobSeesFinished
