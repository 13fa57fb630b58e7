------------------------------ MODULE Messenger ------------------------------
(***************************************************************************)
(* The message framing of cercall (include/cercall/details/messenger.h)  *)
(* over one direction of a stream transport.  The writer is              *)
(* write_message_with_header: the message has HEADER_SIZE bytes reserved  *)
(* in front, which receive the payload length as a MessageSizeType.  The *)
(* reader is Messenger::read driven by BasicStreamTransport::read, which  *)
(* completes only once exactly the requested number of bytes is in:      *)
(* HEADER_SIZE bytes in state HEADER, then the announced length in state  *)
(* MESSAGE, then the handler runs and the next header is requested.       *)
(*                                                                         *)
(* The widths are scaled down: a byte is a digit in 0..Radix-1 and       *)
(* MessageSizeType is SizeBits wide; HEADER_SIZE bytes hold it exactly,   *)
(* as 4 bytes hold a uint32_t.  Byte order is little endian (copy_n and  *)
(* memcpy of the integer on the same architecture on both sides).        *)
(***************************************************************************)
EXTENDS Naturals, Sequences, SequencesExt

CONSTANTS
  Radix,        \* values of one byte
  HeaderSize,   \* HEADER_SIZE = sizeof(MessageSizeType), in bytes
  SizeBits,     \* width of MessageSizeType in bits
  Payloads,     \* payloads the serializer may produce (byte sequences)
  MaxWrites,    \* bound: write attempts
  ForeignPeer   \* the peer may be a program that writes a zero length

SizeCap == 2^SizeBits
ASSUME Radix^HeaderSize = SizeCap
ASSUME \A p \in Payloads : p # <<>>

VARIABLES
  wire,       \* bytes written and not yet read
  stream,     \* history: every byte written, in order
  sent,       \* history: payloads whose frame was written
  frames,     \* history: the bytes of those frames, in order
  attempts,   \* write attempts so far
  rstate,     \* myReceiveState: HEADER or MESSAGE, or "raised" once read threw
  rsize,      \* myIncomingMsgSize
  delivered   \* payloads passed to myMsgHandler, in order

vars == <<wire, stream, sent, frames, attempts, rstate, rsize, delivered>>

(* memcpy(&msg[0], &msgSize, HEADER_SIZE): the little-endian bytes. *)
EncodeSize(n) == [i \in 1..HeaderSize |-> (n \div Radix^(i - 1)) % Radix]

(* Mutant: only the first byte of the header is copied. *)
DecodeSizeFirstByte(bs) == Head(bs)

(* std::copy_n of HEADER_SIZE bytes into myIncomingMsgSize. *)
RECURSIVE DecodeSize(_)
DecodeSize(bs) == IF bs = <<>> THEN 0 ELSE Head(bs) + Radix * DecodeSize(Tail(bs))

(* Mutant: the read completes only when more than n bytes are in. *)
AvailableBeyond(n) == Len(wire) > n

(* async_read of exactly n bytes completes once n bytes have arrived. *)
Available(n) == Len(wire) >= n

(* Mutant: the length check is left out. *)
TooLongNever(len) == FALSE

(* msg.length() > numeric_limits<MessageSizeType>::max() - HEADER_SIZE *)
TooLong(len) == len > (SizeCap - 1) - HeaderSize

(* static_cast<MessageSizeType>(msg.size()) - HEADER_SIZE, stored back   *)
(* into a MessageSizeType: both conversions wrap modulo 2^SizeBits.      *)
HeaderValue(len) == ((len % SizeCap) - HeaderSize) % SizeCap

(* write_message_with_header for one serialized payload: throw           *)
(* length_error (nothing written), or write header and payload.          *)
Write(p) ==
  LET msgLen == HeaderSize + Len(p)
      frame  == EncodeSize(HeaderValue(msgLen)) \o p
  IN
  /\ attempts < MaxWrites
  /\ attempts' = attempts + 1
  /\ IF TooLong(msgLen)
     THEN UNCHANGED <<wire, stream, sent, frames>>
     ELSE /\ wire' = wire \o frame
          /\ stream' = stream \o frame
          /\ sent' = Append(sent, p)
          /\ frames' = frames \o frame
  /\ UNCHANGED <<rstate, rsize, delivered>>

(* A peer that is not a cercall Messenger sends a zero length prefix. *)
ForeignWrite ==
  /\ ForeignPeer
  /\ attempts < MaxWrites
  /\ attempts' = attempts + 1
  /\ wire' = wire \o EncodeSize(0)
  /\ stream' = stream \o EncodeSize(0)
  /\ UNCHANGED <<sent, frames, rstate, rsize, delivered>>

(* Messenger::read in state HEADER with HEADER_SIZE bytes read: a zero   *)
(* length throws runtime_error (myReceiveState stays HEADER, no read is *)
(* requested: "raised"); otherwise the state becomes MESSAGE and that  *)
(* many bytes are requested.                                              *)
ReadHeader ==
  LET n == DecodeSize(SubSeq(wire, 1, HeaderSize)) IN
  /\ rstate = "HEADER"
  /\ Available(HeaderSize)
  /\ wire' = SubSeq(wire, HeaderSize + 1, Len(wire))
  /\ IF n = 0
     THEN /\ rstate' = "raised"
          /\ UNCHANGED rsize
     ELSE /\ rstate' = "MESSAGE"
          /\ rsize' = n
  /\ UNCHANGED <<stream, sent, frames, attempts, delivered>>

(* Messenger::read in state MESSAGE with the payload read: the handler   *)
(* gets it, the state returns to HEADER and the next header is asked for.*)
ReadMessage ==
  /\ rstate = "MESSAGE"
  /\ Available(rsize)
  /\ delivered' = Append(delivered, SubSeq(wire, 1, rsize))
  /\ wire' = SubSeq(wire, rsize + 1, Len(wire))
  /\ rstate' = "HEADER"
  /\ UNCHANGED <<stream, sent, frames, attempts, rsize>>

Init ==
  /\ wire = <<>>
  /\ stream = <<>>
  /\ sent = <<>>
  /\ frames = <<>>
  /\ attempts = 0
  /\ rstate = "HEADER"
  /\ rsize = 0
  /\ delivered = <<>>

Next ==
  \/ \E p \in Payloads : Write(p)
  \/ ForeignWrite
  \/ ReadHeader
  \/ ReadMessage

(* The transport's read completions are run by the event loop. *)
Spec == Init /\ [][Next]_vars /\ WF_vars(ReadHeader) /\ WF_vars(ReadMessage)

-----------------------------------------------------------------------------
(* Reference definition of the wire format: a byte sequence is split      *)
(* into frames, each a HeaderSize-byte little-endian length followed by   *)
(* that many payload bytes; an incomplete frame at the end is not yet a   *)
(* frame.  A zero length is not a frame of this format.  The length is   *)
(* read back as the value whose encoding the header is.                   *)
FrameLength(hdr) == CHOOSE n \in 0..(SizeCap - 1) : EncodeSize(n) = hdr

RECURSIVE Frames(_)
Frames(bs) ==
  IF Len(bs) < HeaderSize THEN <<>>
  ELSE LET n == FrameLength(SubSeq(bs, 1, HeaderSize)) IN
       IF n = 0 \/ Len(bs) < HeaderSize + n THEN <<>>
       ELSE <<SubSeq(bs, HeaderSize + 1, HeaderSize + n)>>
              \o Frames(SubSeq(bs, HeaderSize + n + 1, Len(bs)))

(* The writer's frames parse back, by the reference definition, into     *)
(* exactly the payloads written, in order: the length prefix is never    *)
(* truncated by the MessageSizeType conversions, because the length     *)
(* check refuses every message whose length would not fit.               *)
FramesRoundTrip == Frames(frames) = sent

(* The incremental reader agrees with the reference: the handler has    *)
(* been given a prefix of the frames of the byte stream, each exactly    *)
(* one payload, never a payload split or merged at a wrong boundary.     *)
ReaderFollowsFrames == IsPrefix(delivered, Frames(stream))

(* Every frame written is eventually handed to the handler, unless the   *)
(* reader has stopped on a zero length prefix of a foreign peer.          *)
EveryFrameDelivered ==
  \A k \in 1..MaxWrites :
    [](Len(sent) >= k => <>(Len(delivered) >= k \/ rstate = "raised"))

(* spec.md (8, boundary behaviours): a length prefix of 0 on the wire    *)
(* closes the session with ProtocolError, so reading never just stops    *)
(* with the session left open.  Messenger::read throws runtime_error     *)
(* instead, out of handle_recv and the event loop, and requests no       *)
(* further read; nothing closes the transport.                           *)
ZeroLengthClosesSession == rstate # "raised"
=============================================================================
