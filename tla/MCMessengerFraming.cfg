\* Framing between a cercall writer and Messenger::read, with a peer
\* that may also write zero length prefixes.
CONSTANTS
  Radix = 4
  HeaderSize = 2
  SizeBits = 4
  Payloads <- MCPayloads
  MaxWrites = 4
  ForeignPeer = TRUE
SPECIFICATION Spec
INVARIANT FramesRoundTrip
INVARIANT ReaderFollowsFrames
PROPERTY EveryFrameDelivered
\* The writer stops after MaxWrites, and the reader stops for good after
\* the exception of a zero prefix; both then wait.
CHECK_DEADLOCK FALSE
