\* readFd() and retrieve() on one input Buffer, refined to the byte stream.
CONSTANTS
  CheapPrepend <- MCCheapPrepend
  InitialSize <- MCInitialSize
  ExtraSize <- MCExtraSize
  MaxBytes <- MCMaxBytes
SPECIFICATION Spec
INVARIANT ZonesOrdered
PROPERTY ByteStreamSpec
\* Once the peer's bytes are all read and retrieved the connection waits
\* for more that never come.
CHECK_DEADLOCK FALSE
