SPECIFICATION FairSpec
CONSTANTS
  w1 = w1
  w2 = w2
  Numbers = {"a"}
  Dialable = {"a"}
  Unusable = "unusable"
  Days = {"day"}
  Texts = {"copy"}
  NoText = "none"
  DialOf <- Dial
  TagOf <- Tag
  Thresholds = {"SEVEN_DAYS", "ONE_DAY"}
  Rows <- OneHearing
  Runs = {"daily"}
  Requested <- Daily
  Unparsable = Unparsable
  NotPublishing = NotPublishing
  ForcedDry = {}
  StackDry = FALSE
  BatchLimit = 2
  Invocations <- Retries
  Faults = {"query", "entry", "batch", "crash"}
  MaxFaults = 1
  Workers = {w1, w2}
  NoId = NoId
  NoRequest = NoRequest
  DeliveryAttempts = 3
  SenderTimeout = 0
  VisibilityTimeout = 1
  SenderFaults = {"log_read", "reject", "lost_answer", "log_write", "delete", "crash", "crash_mid_send"}
  MaxSenderFaults = 1
  MaxRedeliveries = 1
  Reminders <- TheReminder
  MaxCopies = 2
INVARIANTS
  TypeOK
  NobodyIsForgotten
  RetriesDoNotMultiply
PROPERTIES
  EveryReminderEnds
  RemindersReachPeople
