SPECIFICATION FairSpec
CONSTANTS
  NbThreads = 2
  MaxPackets = 3
  Settings <- Services
  Main = Main
  NoThread = NoThread
INVARIANTS HwaccelLocked ContextsHandedOver NoBufferLeft
PROPERTY CallsReturn
