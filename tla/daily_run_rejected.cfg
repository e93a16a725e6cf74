SPECIFICATION Spec
CONSTANTS
  Numbers = {"a", "b", "c", "x"}
  Dialable = {"a", "b", "c"}
  Unusable = "unusable"
  Days = {"day"}
  Texts = {"copy"}
  NoText = "none"
  DialOf <- Dial
  TagOf <- Tag
  Thresholds = {"SEVEN_DAYS", "ONE_DAY"}
  Rows <- SomeRows
  Runs = {"daily"}
  Requested <- Events
  Unparsable = Unparsable
  NotPublishing = NotPublishing
  ForcedDry = {}
  StackDry = FALSE
  BatchLimit = 2
  Invocations <- Retries
  Faults = {"entry"}
  MaxFaults = 1
INVARIANTS
  NoQuietSuccess
CHECK_DEADLOCK FALSE
