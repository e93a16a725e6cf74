SPECIFICATION UrlSpec
CONSTANTS
  m1 = m1
  w1 = w1
  w2 = w2
  k1 = k1
  Messages = {m1}
  Direct = {"post", "again", "plain", "keyless", "garbled", "landline", "get", "put"}
  Workers = {w1, w2}
  ReminderIds = {k1}
  NoId = NoId
  NoRequest = NoRequest
  ReminderIdOf <- Ids
  BodyOf <- ContentOf
  HasTable = TRUE
  DeliveryAttempts = 2
  SenderTimeout = 0
  VisibilityTimeout = 1
  Faults = {"log_read", "reject", "lost_answer", "log_write", "delete", "crash", "crash_mid_send"}
  MaxFaults = 1
  MaxRedeliveries = 0
  Method <- Methods
  KeyShown <- KeysShown
  NoKey = NoKey
  Unread = Unread
  NoAnswer = NoAnswer
  MaxCalls = 2
  MaxRotations = 1
SYMMETRY AlikeWorkers
INVARIANTS
  RefusalsTextNobody
  SuccessMeansTexted
PROPERTIES
  KeysDieWithContainers
