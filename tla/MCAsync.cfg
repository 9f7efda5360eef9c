SPECIFICATION Spec
CONSTANTS
  Size = 5
  BufferCapacity = 2
  ReadBackCapacity = 2
  ShortSeekThreshold = 1
  WriteSize = 2
  MaxRead = 2
  MaxFailures = 1
  NoCall = NoCall
  EOF = EOF
  EIO = EIO
  EXIT = EXIT
  EINVAL = EINVAL
  NoError = NoError
INVARIANTS TypeOK RingIsWindow
PROPERTY ImplementsStream CallsReturn
