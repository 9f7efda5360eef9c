SPECIFICATION FairTranscoding
CONSTANTS
  InputFiles = {1, 2}
  NbPackets = 4
  Loops = 1
  Capacity = 2
  Main = Main
  Reader = Reader
  EOF = EOF
  EIO = EIO
  EAGAIN = EAGAIN
  NoError = NoError
  NoMessage = NoMessage
  Files = {1, 2}
  Topologies <- All
  MaxQueued = 3
  DecoderDelay = 1
  EncoderDelay = 1
  NoOutput = NoOutput
  MaxPackets = 2
INVARIANTS TranscodingTypeOK InOrder LoopsSafely NothingLeft PacketsInOrder ReadsWhatIsDue NothingGivenUp
PROPERTY Ends
