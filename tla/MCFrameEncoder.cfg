SPECIFICATION Spec
CONSTANTS
  NbThreads = 2
  BufferSize = 4
  MaxFrames = 5
  MayFail = {2}
  Data = {1, 2, 3, 4}
  NoData = 0
  Client = Client
INVARIANTS TypeOK BuffersShared
PROPERTIES ImplementsPipeline CallsReturn
CHECK_DEADLOCK FALSE
