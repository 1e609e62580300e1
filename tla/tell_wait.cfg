SPECIFICATION MCSpec
CONSTANTS
  ParentLen = 4
  ChildLen = 3
  Limit = 6
INVARIANTS ClientsInv
PROPERTIES SecondAfterPeerGone TakesTurns DeadlockIsBroken EndsUnlessParentFails
  ChildLeftBehind
CHECK_DEADLOCK FALSE
