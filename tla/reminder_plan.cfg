SPECIFICATION PlanSpec
CONSTANTS
  Numbers <- Stored
  Dialable <- E164Numbers
  Unusable = Unusable
  Days = {"mon", "tue"}
  Texts = {"early", "late"}
  NoText = "none"
  DialOf <- Normal
  TagOf <- Tag
  Label = "ONE_DAY"
  MaxRows = 3
  Mark = Mark
  Varied = 6
  MaxTyped = 13
INVARIANTS
  PlansTheFirstOfEach
  DialsWhatWasTyped
  SenderTakesWhatIsQueued
CHECK_DEADLOCK FALSE
