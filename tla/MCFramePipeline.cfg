SPECIFICATION Spec
CONSTANTS
  NbThreads = 2
  MaxPackets = 5
  Settings <- DelayKinds
  Main = Main
  NoThread = NoThread
INVARIANTS TypeOK SetupInOrder
PROPERTY ImplementsPipeline
