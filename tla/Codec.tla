------------------------------- MODULE Codec -------------------------------
(***************************************************************************)
(* The packet format and the framing of streams (fproxy-rs/src/protocol.rs *)
(* and send_tcp_frame of client.rs).                                       *)
(*                                                                         *)
(* A packet is a session id, a sequence number and a payload, the numbers  *)
(* big-endian in fields of fixed width.  On a stream a packet follows its  *)
(* length.  The length field is one digit here, as wide as the largest     *)
(* frame: what matters of it is that a longer frame does not fit in it.    *)
(***************************************************************************)
EXTENDS Integers, Sequences

LOCAL INSTANCE SequencesExt

CONSTANTS Base,         \* values of a byte
          IdLen,        \* bytes of a session id
          SeqLen,       \* bytes of a sequence number
          MaxFrame,     \* MAX_TCP_FRAME_SIZE, the largest u16
          MaxDatagram   \* the largest UDP payload the socket layer sends

ASSUME CodecAssumption ==
    /\ Base \in Nat \ {0, 1} /\ IdLen \in Nat \ {0} /\ SeqLen \in Nat \ {0}
    /\ MaxFrame \in Nat \ {0} /\ MaxDatagram \in Nat

HEADER_SIZE == IdLen + SeqLen
IdRange == Base ^ IdLen
SeqRange == Base ^ SeqLen

Digits(n, len) == [i \in 1..len |-> (n \div Base ^ (len - i)) % Base]
Number(bytes) == FoldLeft(LAMBDA n, b : n * Base + b, 0, bytes)

\* to_be_bytes and from_be_bytes of the standard library: the bytes of a number
\* fill its field, and reading them gives the number back.
ASSUME BigEndian ==
    /\ \A id \in 0..IdRange - 1 :
          Digits(id, IdLen) \in [1..IdLen -> 0..Base - 1] /\ Number(Digits(id, IdLen)) = id
    /\ \A seq \in 0..SeqRange - 1 :
          Digits(seq, SeqLen) \in [1..SeqLen -> 0..Base - 1] /\ Number(Digits(seq, SeqLen)) = seq

encode_packet(id, seq, payload) == Digits(id, IdLen) \o Digits(seq, SeqLen) \o payload

\* PacketTooShort; a longer packet always decodes.
TooShort(packet) == Len(packet) < HEADER_SIZE

decode_packet(packet) ==
    [id      |-> Number(SubSeq(packet, 1, IdLen)),
     seq     |-> Number(SubSeq(packet, IdLen + 1, HEADER_SIZE)),
     payload |-> SubSeq(packet, HEADER_SIZE + 1, Len(packet))]

\* The length is cast to u16.
Frame(packet) == <<Len(packet) % (MaxFrame + 1)>> \o packet

\* Mutant: the client relies on the cast instead of checking the length.
FitsUnchecked(packet) == TRUE

\* "frame too large" in send_tcp_frame.
FitsFrame(packet) == Len(packet) <= MaxFrame

\* A stream whose next frame has arrived, and the frame.  A length of 0 is
\* invalid and ends the connection.
HasFrame(stream) == stream # <<>> /\ Head(stream) # 0 /\ Len(stream) > Head(stream)
BadLength(stream) == stream # <<>> /\ Head(stream) = 0
FirstFrame(stream) == SubSeq(stream, 2, Head(stream) + 1)
AfterFrame(stream) == SubSeq(stream, Head(stream) + 2, Len(stream))

=============================================================================
