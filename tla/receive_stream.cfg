SPECIFICATION FairSpec
CONSTANTS
  Ends <- ThreeChunks
  InCap = 2
  ErrCap = 2
  ErrOutput = 2
  MaxRead = 3
INVARIANTS TypeOK InOrder OkMeansWhole NoMutualWait
PROPERTIES TransferEnds
