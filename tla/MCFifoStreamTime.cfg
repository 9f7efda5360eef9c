SPECIFICATION FairSpec
CONSTANTS
  Settings <- StreamingOnly
  Capacity = 1
  WaitTime = 2
  MaxMessages = 3
  MaxFailures = 3
  Kinds = {"key"}
  Client = Client
  Consumer = Consumer
  EOF = EOF
  EXIT = EXIT
  EINVAL = EINVAL
  EIO = EIO
  EAGAIN = EAGAIN
  NoError = NoError
  NoMessage = NoMessage
PROPERTY WaitsStreamTime
