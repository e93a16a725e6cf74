SPECIFICATION Spec
CONSTANTS
  NotSeeded = NotSeeded
  HandRunSlots = {"morning", "daytime"}
  Horizon = 44
  MaxHands = 2
  MaxMissed = 1
INVARIANTS
  TypeOK
  WindowIsCourtLocal
  NoThresholdEmpty
  CadencesAreAsDocumented
  LadderFollowsTheTable
  OneHearingPassesThrough
CHECK_DEADLOCK FALSE
