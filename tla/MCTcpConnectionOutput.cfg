\* The output path of one connection with a flow-controlled source, a peer
\* that may send, half-close or reset: safety and liveness.
CONSTANTS
  HighWaterMark <- MCHighWaterMark
  SndBuf <- MCSndBuf
  MaxMsg <- MCMaxMsg
  MaxSends <- MCMaxSends
  MaxIn <- MCMaxIn
SPECIFICATION Spec
INVARIANT WritingIffQueued
INVARIANT OutputBounded
PROPERTY PausedResumes
PROPERTY ShutdownCompletes
PROPERTY ResetCloses
PROPERTY OutputStreamSpec
