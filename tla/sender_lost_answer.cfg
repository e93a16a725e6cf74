SPECIFICATION Spec
CONSTANTS
  m1 = m1
  m2 = m2
  d1 = d1
  k1 = k1
  w1 = w1
  w2 = w2
  Messages = {m1}
  Direct = {}
  Workers = {w1}
  ReminderIds = {k1}
  NoId = NoId
  NoRequest = NoRequest
  ReminderIdOf <- SharedIds
  BodyOf <- AllOk
  HasTable = TRUE
  DeliveryAttempts = 3
  SenderTimeout = 1
  VisibilityTimeout = 2
  Faults = {"log_read", "reject", "lost_answer", "delete"}
  MaxFaults = 1
  MaxRedeliveries = 0
INVARIANTS
  RetryNeverTextsAgain
