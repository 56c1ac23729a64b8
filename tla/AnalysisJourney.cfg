CONSTANTS
  Chunks = {c1}
  FaultCodes = {f1, f2}
  Priorities = {f1}
  TopKs = {1, 3}
  SeedTopK = 3
  Requests <- MCRequests
  Results <- MCResults
  MaxRestarts = 1
  MaxActivity = 3
  Operators = {o1,o2}
  Targets = {0, 3, 4}
  MaxOperations = 2
SPECIFICATION Spec
INVARIANT AcceptedIsRecorded
INVARIANT ShownIsTheNewestAnswer
INVARIANT OperatorsDoNotCollide
PROPERTY PanelSettles
CHECK_DEADLOCK FALSE
