SPECIFICATION FairSpec
CONSTANTS
  Numbers = {"a", "b", "c", "x"}
  Dialable = {"a", "b", "c"}
  Unusable = "unusable"
  Days = {"day"}
  Texts = {"copy"}
  NoText = "none"
  DialOf <- Dial
  TagOf <- Tag
  Thresholds = {"SEVEN_DAYS", "ONE_DAY"}
  Rows <- SomeRows
  Runs = {"daily", "byhand", "dry", "typo"}
  Requested <- Events
  Unparsable = Unparsable
  NotPublishing = NotPublishing
  ForcedDry = {"dry"}
  StackDry = FALSE
  BatchLimit = 2
  Invocations <- Retries
  Faults = {"query", "entry", "batch", "crash"}
  MaxFaults = 2
INVARIANTS
  TypeOK
  EveryReminderIsQueuedOrReported
  CopiesComeFromRuns
PROPERTIES
  EventuallyQueued
CHECK_DEADLOCK FALSE
