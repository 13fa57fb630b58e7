\* A zero length prefix on the wire: spec.md closes the session with
\* ProtocolError; Messenger::read throws and stops reading.
CONSTANTS
  Radix = 4
  HeaderSize = 2
  SizeBits = 4
  Payloads <- MCPayloads
  MaxWrites = 2
  ForeignPeer = TRUE
SPECIFICATION Spec
INVARIANT ZeroLengthClosesSession
CHECK_DEADLOCK FALSE
