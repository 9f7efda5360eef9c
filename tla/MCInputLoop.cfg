SPECIFICATION Spec
CONSTANTS
  InputFiles = {2}
  NbPackets = 1
  Loops = 1
  Capacity = 2
  Main = Main
  Reader = Reader
  EOF = EOF
  EIO = EIO
  EAGAIN = EAGAIN
  NoError = NoError
  NoMessage = NoMessage
INVARIANT LoopedAsOften
