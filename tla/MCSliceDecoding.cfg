SPECIFICATION FairDecodingSpec
CONSTANTS
  NbWorkers = 2
  MaxJobs = 4
  MaxExecutes = 2
  MaxWavefronts = 1
  Main = Main
  Ctbs = 3
  Damaged = {1}
  MbWidth = 4
  MbHeight = 3
  SbRows = 2
INVARIANTS TypeOK PoolSafe DecodingOrder
PROPERTIES QuiescentUpdate ImplementsParallelFor CallsReturn
