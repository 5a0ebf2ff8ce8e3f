SPECIFICATION FairSpec
CONSTANTS
  Length = 8
  OutCap = 3
  ErrCap = 2
  ErrOutput = 2
  MaxRead = 3
  MaxWrite = 3
  MaxChunk = 2
INVARIANTS TypeOK ReadsBack ChunkBounded RawSizesAddUp NoMutualWait
PROPERTIES TransferEnds
