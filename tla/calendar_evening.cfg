SPECIFICATION Spec
CONSTANTS
  NotSeeded = NotSeeded
  HandRunSlots = {"evening"}
  Horizon = 8
  MaxHands = 1
  MaxMissed = 0
INVARIANTS
  WindowIsCourtLocal
CHECK_DEADLOCK FALSE
