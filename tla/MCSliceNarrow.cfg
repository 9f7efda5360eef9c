SPECIFICATION FairDecodingSpec
CONSTANTS
  NbWorkers = 1
  MaxJobs = 2
  MaxExecutes = 1
  MaxWavefronts = 1
  Main = Main
  Ctbs = 2
  Damaged = {}
  MbWidth = 2
  MbHeight = 2
  SbRows = 1
PROPERTY CallsReturn
CHECK_DEADLOCK FALSE
