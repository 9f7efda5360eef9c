SPECIFICATION FairSpec
CONSTANTS
  Settings <- DroppingOnly
  Capacity = 1
  WaitTime = 2
  MaxMessages = 4
  MaxFailures = 0
  Kinds = {"key", "delta"}
  Client = Client
  Consumer = Consumer
  EOF = EOF
  EXIT = EXIT
  EINVAL = EINVAL
  EIO = EIO
  EAGAIN = EAGAIN
  NoError = NoError
  NoMessage = NoMessage
INVARIANT KeyframeAfterGap
