SPECIFICATION Spec
CONSTANTS
  w1 = w1
  w2 = w2
  Numbers = {"a"}
  Dialable = {"a"}
  Unusable = "unusable"
  Days = {"day"}
  Texts = {"copy"}
  NoText = "none"
  DialOf <- Dial
  TagOf <- Tag
  Thresholds = {"SEVEN_DAYS", "ONE_DAY"}
  Rows <- OneHearing
  Runs = {"daily"}
  Requested <- Daily
  Unparsable = Unparsable
  NotPublishing = NotPublishing
  ForcedDry = {}
  StackDry = FALSE
  BatchLimit = 2
  Invocations <- Retries
  Faults = {"query"}
  MaxFaults = 1
  Workers = {w1, w2}
  NoId = NoId
  NoRequest = NoRequest
  DeliveryAttempts = 3
  SenderTimeout = 0
  VisibilityTimeout = 1
  SenderFaults = {}
  MaxSenderFaults = 0
  MaxRedeliveries = 0
  Reminders <- TheReminder
  MaxCopies = 2
INVARIANTS
  RetryIsSafe
