SPECIFICATION DeploymentSpec
CONSTANTS
  Loads = {"deploy", "undo", "ada", "typo"}
  Deploy = "deploy"
  Undo = "undo"
  Local = FALSE
  Kind <- KindOf
  NoPhone = NoPhone
  PhoneOf <- Phones
  Typed <- Numbers
  Dialable = {"+14045551234", "+14045559999"}
  Unusable = "unusable"
  DialOf <- Dial
  Reserved = "555-01XX"
  Nobody = Nobody
  Invocations <- Attempts
  Faults = {"load", "phone", "count", "put", "crash"}
  MaxFaults = 4
INVARIANTS
  DeploymentTypeOK
  LadderIsWhole
  NumbersComeByHand
  CloudFormationHearsBack
  StackIsSeeded
  OnlyOthersTakeTheLogGroup
PROPERTIES
  AnswersAreHonest
  EventuallyAnswered
  DeploymentSettles
CHECK_DEADLOCK FALSE
