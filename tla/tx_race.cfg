\* Transmissions may end anywhere.
SPECIFICATION Spec
CONSTANTS
  TX_START = 29
  Sizes = {13, 14, 60, 300, 1514}
  ReadAddresses = {2000, 4094}
  MaxWrites = 3
INVARIANTS
  BufferIsStable
  
  TxifIsFresh
  ErdptIsReturned
