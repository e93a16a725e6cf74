SPECIFICATION Spec
CONSTANTS
  m1 = m1
  m2 = m2
  d1 = d1
  k1 = k1
  w1 = w1
  w2 = w2
  Messages = {m1, m2}
  Direct = {d1}
  Workers = {w1, w2}
  ReminderIds = {k1}
  NoId = NoId
  NoRequest = NoRequest
  ReminderIdOf <- SharedIds
  BodyOf <- AllOk
  HasTable = TRUE
  DeliveryAttempts = 3
  SenderTimeout = 1
  VisibilityTimeout = 2
  Faults = {"log_read", "reject", "lost_answer", "log_write", "delete", "crash", "crash_mid_send"}
  MaxFaults = 2
  MaxRedeliveries = 1
SYMMETRY Interchangeable
INVARIANTS
  TypeOK
  NoSilentMiss
  LogIsHonest
  OneInvocationPerMessage
  ExtraTextsAreEarned
  OnlyRacesTextTwice
PROPERTIES
  SettledForGood
