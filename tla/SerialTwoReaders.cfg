CONSTANTS
  r1 = r1
  r2 = r2
  Readers <- TwoReaders
  ReaderPrio <- Nested
  RX_BUF_SIZE = 4
  FIFO_SIZE = 2
  Bytes = {0, 1}
SPECIFICATION FairSpec
PROPERTY ImplementsByteChannel
