SPECIFICATION FairSpec
CONSTANTS
  Settings <- AllModes
  Capacity = 1
  WaitTime = 2
  MaxMessages = 4
  MaxFailures = 2
  Kinds = {"key", "delta", "flush"}
  Client = Client
  Consumer = Consumer
  EOF = EOF
  EXIT = EXIT
  EINVAL = EINVAL
  EIO = EIO
  EAGAIN = EAGAIN
  NoError = NoError
  NoMessage = NoMessage
INVARIANTS TypeOK EachOnce FinalisedOnce GivesUpClean OneStray
PROPERTY ClientReturns
