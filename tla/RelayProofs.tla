---------------------------- MODULE RelayProofs ----------------------------
(***************************************************************************)
(* The relay as a whole, for every configuration, format, size and bound:  *)
(* what is read from a stream is what was written, dead paths are old, and *)
(* the relay implements LossyRelay.                                        *)
(***************************************************************************)
EXTENDS Relay, DedupWindowProofs, SequenceTheorems, TLAPS

-----------------------------------------------------------------------------
(* Configuration *)

\* A client that starts uses servers at one address only, each of them an IP
\* address and none of them an empty host, however its options were divided
\* between the command line and the file (Config::validate, Endpoint::parse).
THEOREM ClientServersShareHost ==
    ASSUME NEW args, NEW yaml,
           Or(args.mode, yaml.mode) = "client",
           load(args, yaml) # Refused
    PROVE  LET servers == load(args, yaml).servers
           IN  \A i \in DOMAIN servers :
                  servers[i].host = servers[1].host
<1> DEFINE servers == ParseList(Or(Or(args.servers, yaml.servers), <<>>))
<1>1. load(args, yaml) = LoadClient(args, yaml)
  BY DEF load
<1>2. LoadClient(args, yaml) # Refused
  BY <1>1
<1>3. SameIp(servers) /\ LoadClient(args, yaml).servers = servers
  BY <1>2 DEF LoadClient
<1>4. load(args, yaml).servers = servers
  BY <1>1, <1>3
<1>5. \A i \in DOMAIN servers : servers[i].host = servers[1].host
  BY <1>3 DEF SameIp
<1> HIDE DEF servers
<1> QED
  BY <1>4, <1>5

\* A server that starts has a window of at least one number and a timeout that
\* is not zero: what the models of the server assume of their constants.
THEOREM ServerDefaults ==
    ASSUME NEW args, NEW yaml,
           Or(args.mode, yaml.mode) = "server",
           load(args, yaml) # Refused,
           {args.dedup_window, yaml.dedup_window} \subseteq Nat \cup {Absent},
           {args.session_timeout, yaml.session_timeout}
               \subseteq Nat \cup {Absent, Unparsable}
    PROVE  /\ load(args, yaml).dedup_window \in Nat \ {0}
           /\ load(args, yaml).session_timeout \in Nat \ {0}
<1> DEFINE window == Or(Or(args.dedup_window, yaml.dedup_window), 0)
           timeout == Or(args.session_timeout, yaml.session_timeout)
<1>1. load(args, yaml) = LoadServer(args, yaml)
  BY DEF load
<1>2. LoadServer(args, yaml) # Refused
  BY <1>1
<1>3. /\ LoadServer(args, yaml).dedup_window =
             IF window = 0 THEN DEFAULT_DEDUP_WINDOW ELSE window
      /\ LoadServer(args, yaml).session_timeout = Timeout(timeout)
  BY <1>2 DEF LoadServer
<1>4. window \in Nat /\ timeout \in Nat \cup {Absent, Unparsable}
  BY DEF Or
<1>5. Timeout(timeout) \in Nat \ {0}
  BY <1>4, ConfigAssumption DEF Timeout
<1> HIDE DEF window, timeout
<1> QED
  BY <1>1, <1>3, <1>4, <1>5, ConfigAssumption

-----------------------------------------------------------------------------
(* Packets and frames *)

LEMMA WidthFacts ==
    /\ IdLen \in Nat /\ IdLen > 0 /\ SeqLen \in Nat /\ SeqLen > 0
    /\ HEADER_SIZE = IdLen + SeqLen /\ HEADER_SIZE \in Nat /\ HEADER_SIZE > 0
    /\ MaxFrame \in Nat /\ HEADER_SIZE + 1 <= MaxFrame
    /\ IdRange \in Nat /\ SeqRange \in Nat /\ SeqRange > 2
BY CodecAssumption, RelayAssumption DEF HEADER_SIZE

\* A number written to a field is a sequence of bytes as long as the field.
LEMMA DigitsBytes ==
    /\ \A id \in 0..IdRange - 1 :
          Digits(id, IdLen) \in Seq(Nat) /\ Len(Digits(id, IdLen)) = IdLen
    /\ \A q \in 0..SeqRange - 1 :
          Digits(q, SeqLen) \in Seq(Nat) /\ Len(Digits(q, SeqLen)) = SeqLen
<1>1. \A n \in Nat : \A x \in [1..n -> 0..Base - 1] : x \in Seq(Nat) /\ Len(x) = n
  <2>1. 0..Base - 1 \subseteq Nat
    BY CodecAssumption
  <2> QED
    BY <2>1
<1> QED
  BY <1>1, BigEndian, WidthFacts

\* A sequence put together from three, and what is cut out of it.
LEMMA ThreeParts ==
    ASSUME NEW x \in Seq(Nat), NEW y \in Seq(Nat), NEW z \in Seq(Nat)
    PROVE  /\ x \o y \o z \in Seq(Nat)
           /\ Len(x \o y \o z) = Len(x) + Len(y) + Len(z)
           /\ Len(x) > 0 => (x \o y \o z)[1] = x[1]
OBVIOUS

LEMMA CutFirst ==
    ASSUME NEW x \in Seq(Nat), NEW y \in Seq(Nat), NEW z \in Seq(Nat)
    PROVE  SubSeq(x \o y \o z, 1, Len(x)) = x
OBVIOUS

LEMMA CutSecond ==
    ASSUME NEW x \in Seq(Nat), NEW y \in Seq(Nat), NEW z \in Seq(Nat)
    PROVE  SubSeq(x \o y \o z, Len(x) + 1, Len(x) + Len(y)) = y
OBVIOUS

LEMMA CutThird ==
    ASSUME NEW x \in Seq(Nat), NEW y \in Seq(Nat), NEW z \in Seq(Nat)
    PROVE  SubSeq(x \o y \o z, Len(x) + Len(y) + 1, Len(x \o y \o z)) = z
OBVIOUS

\* Decoding a packet gives back what was encoded.
LEMMA Decoded ==
    ASSUME NEW id \in 0..IdRange - 1, NEW q \in 0..SeqRange - 1, NEW payload \in Seq(Nat)
    PROVE  LET p == encode_packet(id, q, payload)
           IN  /\ p \in Seq(Nat) /\ Len(p) = HEADER_SIZE + Len(payload)
               /\ ~TooShort(p)
               /\ decode_packet(p).id = id
               /\ decode_packet(p).seq = q
               /\ decode_packet(p).payload = payload
<1>1. PICK a, b : a = Digits(id, IdLen) /\ b = Digits(q, SeqLen)
  OBVIOUS
<1>2. /\ a \in Seq(Nat) /\ b \in Seq(Nat) /\ Len(a) = IdLen /\ Len(b) = SeqLen
      /\ Number(a) = id /\ Number(b) = q
  BY <1>1, DigitsBytes, BigEndian
<1>3. PICK p : p = a \o b \o payload
  OBVIOUS
<1>4. encode_packet(id, q, payload) = p
  BY <1>1, <1>3, Zenon DEF encode_packet
<1>5. /\ p \in Seq(Nat) /\ Len(p) = HEADER_SIZE + Len(payload)
      /\ SubSeq(p, 1, IdLen) = a
      /\ SubSeq(p, IdLen + 1, HEADER_SIZE) = b
      /\ SubSeq(p, HEADER_SIZE + 1, Len(p)) = payload
  <2>1. a \in Seq(Nat) /\ b \in Seq(Nat)
    BY <1>2
  <2>2. /\ a \o b \o payload \in Seq(Nat)
        /\ Len(a \o b \o payload) = Len(a) + Len(b) + Len(payload)
    BY <2>1, ThreeParts, Zenon
  <2>3. Len(a) + Len(b) = HEADER_SIZE
    BY <1>2, WidthFacts
  <2>4. SubSeq(a \o b \o payload, 1, Len(a)) = a
    BY <2>1, CutFirst, Zenon
  <2>5. SubSeq(a \o b \o payload, Len(a) + 1, Len(a) + Len(b)) = b
    BY <2>1, CutSecond, Zenon
  <2>6. SubSeq(a \o b \o payload, Len(a) + Len(b) + 1, Len(a \o b \o payload)) = payload
    BY <2>1, CutThird, Zenon
  <2> QED
    BY <1>2, <1>3, <2>2, <2>3, <2>4, <2>5, <2>6, Zenon
<1>6. Len(payload) \in Nat
  OBVIOUS
<1>7. ~TooShort(p)
  BY <1>5, <1>6, WidthFacts DEF TooShort
<1>8. decode_packet(p) = [id |-> id, seq |-> q, payload |-> payload]
  BY <1>2, <1>5, Zenon DEF decode_packet
<1> QED
  BY <1>4, <1>5, <1>7, <1>8

\* What fits a frame: the length written before it is its length.
Frames == {p \in Seq(Nat) : Len(p) \in 1..MaxFrame}

LEMMA FrameFits ==
    ASSUME NEW p \in Frames
    PROVE  /\ Frame(p) = <<Len(p)>> \o p
           /\ Frame(p) \in Seq(Nat) /\ Len(Frame(p)) = Len(p) + 1
           /\ p \in Seq(Nat) /\ Len(p) \in Nat /\ Len(p) > 0
<1>1. /\ p \in Seq(Nat) /\ Len(p) \in Nat /\ Len(p) > 0
      /\ Len(p) < MaxFrame + 1 /\ MaxFrame + 1 \in Nat
  BY WidthFacts DEF Frames
<1>2. Len(p) % (MaxFrame + 1) = Len(p)
  BY <1>1
<1>3. Frame(p) = <<Len(p)>> \o p
  BY <1>2 DEF Frame
<1>4. Frame(p) \in Seq(Nat) /\ Len(Frame(p)) = Len(p) + 1
  BY <1>1, <1>3
<1> QED
  BY <1>1, <1>3, <1>4

\* The first frame of a stream, and what follows it.
LEMMA FrameAtHead ==
    ASSUME NEW p \in Frames, NEW y \in Seq(Nat)
    PROVE  LET b == Frame(p) \o y
           IN  /\ b \in Seq(Nat) /\ b # <<>> /\ HasFrame(b) /\ ~BadLength(b)
               /\ FirstFrame(b) = p /\ AfterFrame(b) = y
<1>1. PICK l : l = <<Len(p)>>
  OBVIOUS
<1>2. /\ Frame(p) = l \o p /\ p \in Seq(Nat) /\ Len(p) \in Nat /\ Len(p) > 0
      /\ l \in Seq(Nat) /\ Len(l) = 1 /\ l[1] = Len(p)
  <2>1. /\ Frame(p) = l \o p /\ p \in Seq(Nat) /\ Len(p) \in Nat /\ Len(p) > 0
    BY <1>1, FrameFits, Zenon
  <2>2. l \in Seq(Nat) /\ Len(l) = 1 /\ l[1] = Len(p)
    BY <1>1, <2>1
  <2> QED
    BY <2>1, <2>2
<1>3. PICK b : b = l \o p \o y
  OBVIOUS
<1>4. /\ b \in Seq(Nat) /\ Len(b) = Len(l) + Len(p) + Len(y)
      /\ SubSeq(b, Len(l) + 1, Len(l) + Len(p)) = p
      /\ SubSeq(b, Len(l) + Len(p) + 1, Len(b)) = y
      /\ b[1] = l[1]
  <2>1. l \in Seq(Nat) /\ p \in Seq(Nat) /\ Len(l) > 0
    BY <1>2
  <2>2. /\ l \o p \o y \in Seq(Nat) /\ Len(l \o p \o y) = Len(l) + Len(p) + Len(y)
        /\ (l \o p \o y)[1] = l[1]
    BY <2>1, ThreeParts, Zenon
  <2>3. SubSeq(l \o p \o y, Len(l) + 1, Len(l) + Len(p)) = p
    BY <2>1, CutSecond, Zenon
  <2>4. SubSeq(l \o p \o y, Len(l) + Len(p) + 1, Len(l \o p \o y)) = y
    BY <2>1, CutThird, Zenon
  <2> QED
    BY <1>3, <2>2, <2>3, <2>4, Zenon
<1>5. Len(y) \in Nat
  OBVIOUS
<1>6. b # <<>> /\ Head(b) = Len(p) /\ Len(b) > Len(p)
  BY <1>2, <1>4, <1>5
<1>7. HasFrame(b) /\ ~BadLength(b)
  BY <1>2, <1>6 DEF HasFrame, BadLength
<1>8. Len(l) + 1 = 2 /\ Len(l) + Len(p) = Head(b) + 1 /\ Len(l) + Len(p) + 1 = Head(b) + 2
  BY <1>2, <1>6
<1>9. FirstFrame(b) = p /\ AfterFrame(b) = y
  BY <1>4, <1>8, Zenon DEF FirstFrame, AfterFrame
<1> QED
  BY <1>2, <1>3, <1>4, <1>6, <1>7, <1>9, Zenon

-----------------------------------------------------------------------------
(* Streams *)

\* What is left of a stream is the frames of some items, <<number, packet>>, in
\* the order of their numbers.  P has the stream, and with a stream that is not
\* over what is left of it after its first frame, under that frame's number.
Chain(P, items) ==
    \A x \in P : x[2] # <<>> =>
        \E i \in items, y \in Seq(Nat) :
            x[2] = Frame(i[2]) \o y /\ x[1] <= i[1] /\ <<i[1], y>> \in P

\* A stream of items from number s on.
Stream(items, s, b) ==
    \E P \in SUBSET (Nat \X Seq(Nat)) : Chain(P, items) /\ <<s, b>> \in P

LEMMA InPairs ==
    ASSUME NEW A, NEW B, NEW a \in A, NEW b \in B
    PROVE  <<a, b>> \in A \X B
OBVIOUS

LEMMA StreamEmpty ==
    ASSUME NEW items, NEW s \in Nat
    PROVE  Stream(items, s, <<>>)
<1> DEFINE P == {<<s, <<>>>>}
<1>1. P \in SUBSET (Nat \X Seq(Nat)) /\ <<s, <<>>>> \in P
  <2>1. <<>> \in Seq(Nat)
    BY EmptySeq
  <2>2. PICK e : e = <<>> /\ e \in Seq(Nat)
    BY <2>1
  <2>3. <<s, e>> \in Nat \X Seq(Nat)
    BY <2>2, InPairs, Zenon
  <2> QED
    BY <2>2, <2>3, Zenon
<1>2. Chain(P, items)
  BY DEF Chain
<1> HIDE DEF P
<1> QED
  BY <1>1, <1>2 DEF Stream

LEMMA StreamBytes ==
    ASSUME NEW items, NEW s, NEW b, Stream(items, s, b)
    PROVE  s \in Nat /\ b \in Seq(Nat)
BY DEF Stream

LEMMA StreamGrow ==
    ASSUME NEW items, NEW more, items \subseteq more, NEW s, NEW b, Stream(items, s, b)
    PROVE  Stream(more, s, b)
<1>1. PICK P \in SUBSET (Nat \X Seq(Nat)) : Chain(P, items) /\ <<s, b>> \in P
  BY DEF Stream
<1>2. Chain(P, more)
  BY <1>1 DEF Chain
<1> QED
  BY <1>1, <1>2 DEF Stream

LEMMA StreamLower ==
    ASSUME NEW items, NEW s, NEW b, Stream(items, s, b), NEW t \in Nat, t <= s,
           items \subseteq Nat \X Frames
    PROVE  Stream(items, t, b)
<1>1. PICK P \in SUBSET (Nat \X Seq(Nat)) : Chain(P, items) /\ <<s, b>> \in P
  BY DEF Stream
<1>2. PICK Q : Q = P \cup {<<t, b>>}
  OBVIOUS
<1>3. Q \in SUBSET (Nat \X Seq(Nat)) /\ <<t, b>> \in Q /\ s \in Nat
  BY <1>1, <1>2
<1>4. Chain(Q, items)
  <2> SUFFICES ASSUME NEW x \in Q, x[2] # <<>>
               PROVE  \E i \in items, y \in Seq(Nat) :
                         x[2] = Frame(i[2]) \o y /\ x[1] <= i[1] /\ <<i[1], y>> \in Q
    BY DEF Chain
  <2>1. CASE x \in P
    BY <1>1, <1>2, <2>1 DEF Chain
  <2>2. CASE x = <<t, b>>
    <3>1. <<s, b>> \in P /\ <<s, b>>[2] # <<>> /\ <<s, b>>[2] = b /\ <<s, b>>[1] = s
      BY <1>1, <2>2
    <3>2. PICK i \in items, y \in Seq(Nat) :
             b = Frame(i[2]) \o y /\ s <= i[1] /\ <<i[1], y>> \in P
      BY <1>1, <3>1, Zenon DEF Chain
    <3>3. i[1] \in Nat /\ t <= i[1]
      BY <1>3, <3>2
    <3> QED
      BY <1>2, <2>2, <3>2, <3>3
  <2> QED
    BY <1>2, <2>1, <2>2
<1> QED
  BY <1>3, <1>4 DEF Stream

LEMMA StreamHead ==
    ASSUME NEW items, items \subseteq Nat \X Frames,
           NEW s, NEW b, Stream(items, s, b), b # <<>>
    PROVE  /\ HasFrame(b) /\ ~BadLength(b)
           /\ \E i \in items : /\ FirstFrame(b) = i[2] /\ s <= i[1]
                               /\ Stream(items, i[1], AfterFrame(b))
<1>1. PICK P \in SUBSET (Nat \X Seq(Nat)) : Chain(P, items) /\ <<s, b>> \in P
  BY DEF Stream
<1>2. <<s, b>>[2] = b /\ <<s, b>>[1] = s
  OBVIOUS
<1>3. PICK i \in items, y \in Seq(Nat) :
         b = Frame(i[2]) \o y /\ s <= i[1] /\ <<i[1], y>> \in P
  BY <1>1, <1>2, Zenon DEF Chain
<1>4. i[2] \in Frames
  OBVIOUS
<1>5. HasFrame(b) /\ ~BadLength(b) /\ FirstFrame(b) = i[2] /\ AfterFrame(b) = y
  BY <1>3, <1>4, FrameAtHead, Zenon
<1>6. Stream(items, i[1], y)
  BY <1>1, <1>3, Zenon DEF Stream
<1> QED
  BY <1>3, <1>5, <1>6, Zenon

LEMMA Associative ==
    \A x, y, z \in Seq(Nat) : (x \o y) \o z = x \o (y \o z)
BY ConcatAssociative, SMTT(60)

\* A frame is written behind a stream.
LEMMA StreamAppend ==
    ASSUME NEW items, items \subseteq Nat \X Frames,
           NEW s, NEW b, Stream(items, s, b),
           NEW k \in Nat, NEW p, <<k, p>> \in items,
           s <= k, \A i \in items : i[1] <= k
    PROVE  Stream(items, s, b \o Frame(p))
<1>1. PICK P \in SUBSET (Nat \X Seq(Nat)) : Chain(P, items) /\ <<s, b>> \in P
  BY DEF Stream
<1>2. p \in Frames
  OBVIOUS
<1>3. PICK f : f = Frame(p) /\ f \in Seq(Nat)
  BY <1>2, FrameFits, Zenon
<1>4. PICK Q : Q = {<<x[1], x[2] \o f>> : x \in {z \in P : z[1] <= k}} \cup {<<k, <<>>>>}
  OBVIOUS
<1>5. Q \in SUBSET (Nat \X Seq(Nat))
  <2>1. ASSUME NEW x \in P PROVE <<x[1], x[2] \o f>> \in Nat \X Seq(Nat)
    <3>1. x[1] \in Nat /\ x[2] \o f \in Seq(Nat)
      BY <1>3
    <3> QED
      BY <3>1, InPairs, Zenon
  <2>2. <<k, <<>>>> \in Nat \X Seq(Nat)
    <3>1. PICK e : e = <<>> /\ e \in Seq(Nat)
      BY EmptySeq
    <3>2. <<k, e>> \in Nat \X Seq(Nat)
      BY <3>1, InPairs, Zenon
    <3> QED
      BY <3>1, <3>2, Zenon
  <2> QED
    BY <1>4, <2>1, <2>2, Zenon
<1>6. ASSUME NEW t \in Nat, NEW c, <<t, c>> \in P, t <= k
      PROVE  <<t, c \o f>> \in Q
  <2>1. <<t, c>>[1] = t /\ <<t, c>>[2] = c
    OBVIOUS
  <2> QED
    BY <1>4, <1>6, <2>1, Zenon
<1>7. Chain(Q, items)
  <2> SUFFICES ASSUME NEW z \in Q, z[2] # <<>>
               PROVE  \E i \in items, y \in Seq(Nat) :
                         z[2] = Frame(i[2]) \o y /\ z[1] <= i[1] /\ <<i[1], y>> \in Q
    BY DEF Chain
  <2>1. z # <<k, <<>>>>
    OBVIOUS
  <2>2. PICK x \in P : x[1] <= k /\ z = <<x[1], x[2] \o f>>
    BY <1>4, <2>1
  <2>3. /\ x[1] \in Nat /\ x[2] \in Seq(Nat) /\ z[1] = x[1] /\ z[2] = x[2] \o f
    BY <2>2
  <2>4. CASE x[2] = <<>>
    <3>1. z[2] = f \o <<>>
      BY <1>3, <2>3, <2>4
    <3>2. <<k, p>>[1] = k /\ <<k, p>>[2] = p /\ <<>> \in Seq(Nat) /\ <<k, <<>>>> \in Q
      BY <1>4
    <3> QED
      BY <1>3, <2>2, <2>3, <3>1, <3>2, Zenon
  <2>5. CASE x[2] # <<>>
    <3>1. PICK i \in items, y \in Seq(Nat) :
             x[2] = Frame(i[2]) \o y /\ x[1] <= i[1] /\ <<i[1], y>> \in P
      BY <1>1, <2>5, Zenon DEF Chain
    <3>2. i[1] \in Nat /\ i[1] <= k /\ i[2] \in Frames
      OBVIOUS
    <3>3. PICK g : g = Frame(i[2]) /\ g \in Seq(Nat)
      BY <3>2, FrameFits, Zenon
    <3>4. z[2] = g \o (y \o f) /\ y \o f \in Seq(Nat)
      <4>1. PICK u : u = x[2] /\ u = g \o y
        BY <3>1, <3>3, Zenon
      <4>2. (g \o y) \o f = g \o (y \o f)
        BY <1>3, <3>3, Associative, Zenon
      <4>3. y \o f \in Seq(Nat)
        BY <1>3
      <4> QED
        BY <2>3, <4>1, <4>2, <4>3, Zenon
    <3>5. <<i[1], y \o f>> \in Q
      BY <1>6, <3>1, <3>2, Zenon
    <3> QED
      BY <2>3, <3>1, <3>3, <3>4, <3>5, Zenon
  <2> QED
    BY <2>4, <2>5
<1>8. <<s, b \o f>> \in Q
  <2>1. s \in Nat
    BY <1>1
  <2> QED
    BY <1>1, <1>6, <2>1, Zenon
<1> QED
  BY <1>3, <1>5, <1>7, <1>8 DEF Stream

-----------------------------------------------------------------------------
(* What the programs are configured with *)

\* The host of the client's servers.
Host == cfg.servers[1].host

LEMMA ClientEndpoints ==
    ASSUME NEW args, NEW yaml,
           Or(args.mode, yaml.mode) = "client",
           load(args, yaml) # Refused
    PROVE  LET servers == load(args, yaml).servers
           IN  \A i \in DOMAIN servers :
                  servers[i].host \in Ips /\ servers[i].proto \in {"udp", "tcp"}
<1> DEFINE texts == Or(Or(args.servers, yaml.servers), <<>>)
<1>1. load(args, yaml) = LoadClient(args, yaml)
  BY DEF load
<1>2. ParsesAll(texts) /\ LoadClient(args, yaml).servers = ParseList(texts)
  BY <1>1 DEF LoadClient
<1>3. load(args, yaml).servers = ParseList(texts)
  BY <1>1, <1>2
<1> HIDE DEF texts
<1>4. ASSUME NEW i \in DOMAIN ParseList(texts)
      PROVE  ParseList(texts)[i].host \in Ips /\ ParseList(texts)[i].proto \in {"udp", "tcp"}
  <2>1. i \in DOMAIN texts /\ ParseList(texts)[i] = Parsed(texts[i])
    BY DEF ParseList
  <2>2. texts[i].proto \in {"udp", "tcp"} /\ texts[i].host \in Ips \cup {NoHost}
    BY <1>2, <2>1 DEF ParsesAll, Parses
  <2>3. Normalize(texts[i].host) \in Ips
    BY <2>2, ConfigAssumption DEF Normalize
  <2>4. Parsed(texts[i]).host = Normalize(texts[i].host) /\ Parsed(texts[i]).proto = texts[i].proto
    BY DEF Parsed
  <2> QED
    BY <2>1, <2>2, <2>3, <2>4
<1> QED
  BY <1>3, <1>4

\* Every server the client uses is at one host, and the servers' window is not
\* empty.
LEMMA ConfiguredFacts ==
    ASSUME cfg \in Configured
    PROVE  /\ cfg.dedup_window \in Nat \ {0}
           /\ \A e \in Endpoints("udp") : e.host = Host /\ e.host \in Ips /\ e.proto = "udp"
           /\ \A e \in Endpoints("tcp") : e.host = Host /\ e.host \in Ips /\ e.proto = "tcp"
<1>1. PICK c \in {load(a, y) : a \in ClientArgs, y \in ClientYaml} \ {Refused},
           s \in {load(a, y) : a \in ServerArgs, y \in ServerYaml} \ {Refused} :
         cfg = [servers |-> c.servers, dedup_window |-> s.dedup_window]
  BY DEF Configured
<1>2. PICK a \in ServerArgs, y \in ServerYaml : s = load(a, y)
  OBVIOUS
<1>3. cfg.dedup_window \in Nat \ {0}
  BY <1>1, <1>2, OptionsAssumption, ServerDefaults
<1>4. PICK b \in ClientArgs, z \in ClientYaml : c = load(b, z)
  OBVIOUS
<1>5. cfg.servers = load(b, z).servers /\ load(b, z) # Refused
  BY <1>1, <1>4
<1>6. Or(b.mode, z.mode) = "client"
  BY OptionsAssumption
<1>7. \A i \in DOMAIN cfg.servers : cfg.servers[i].host = Host
  BY <1>5, <1>6, ClientServersShareHost DEF Host
<1>8. \A i \in DOMAIN cfg.servers : cfg.servers[i].host \in Ips
  BY <1>5, <1>6, ClientEndpoints
<1> QED
  BY <1>3, <1>7, <1>8 DEF Endpoints

\* A path is that of one connection, and none is of a datagram.
LEMMA PathFacts ==
    ASSUME cfg \in Configured
    PROVE  /\ \A c \in Connections : c[1] \in Endpoints("tcp") /\ c[2] \in 1..MaxConns
                                     /\ c = <<c[1], c[2]>> /\ c[1].host = Host /\ Host \in Ips
           /\ \A c \in Connections : IsStream(PathOfConn(c)) /\ PathOfConn(c) \in TcpPaths
           /\ \A c, d \in Connections : PathOfConn(c) = PathOfConn(d) => c = d
           /\ \A p \in UdpPaths : ~IsStream(p) /\ p.ep.host = Host /\ Host \in Ips
           /\ \A p \in TcpPaths : IsStream(p)
<1>1. \A c \in Connections : c[1] \in Endpoints("tcp") /\ c[2] \in 1..MaxConns /\ c = <<c[1], c[2]>>
  BY DEF Connections
<1>2. /\ \A e \in Endpoints("udp") : e.host = Host /\ e.host \in Ips /\ e.proto = "udp"
      /\ \A e \in Endpoints("tcp") : e.host = Host /\ e.host \in Ips /\ e.proto = "tcp"
  BY ConfiguredFacts
<1>3. \A c \in Connections : c[1].host = Host /\ Host \in Ips
  BY <1>1, <1>2
<1>4. \A c \in Connections : IsStream(PathOfConn(c)) /\ PathOfConn(c) \in TcpPaths
  BY <1>1, <1>2 DEF PathOfConn, PathOf, IsStream, TcpPaths
<1>5. \A c, d \in Connections : PathOfConn(c) = PathOfConn(d) => c = d
  <2> SUFFICES ASSUME NEW c \in Connections, NEW d \in Connections, PathOfConn(c) = PathOfConn(d)
               PROVE  c = d
    OBVIOUS
  <2>1. /\ PathOfConn(c).ep = c[1] /\ PathOfConn(c).peer = c[2]
        /\ PathOfConn(d).ep = d[1] /\ PathOfConn(d).peer = d[2]
    BY DEF PathOfConn, PathOf
  <2> QED
    BY <1>1, <2>1, Zenon
<1>6. \A p \in UdpPaths : ~IsStream(p) /\ p.ep.host = Host /\ Host \in Ips
  BY <1>2 DEF UdpPaths, PathOf, IsStream
<1>7. \A p \in TcpPaths : IsStream(p)
  BY <1>4 DEF TcpPaths
<1> QED
  BY <1>1, <1>3, <1>4, <1>5, <1>6, <1>7

-----------------------------------------------------------------------------
(* The inductive invariant *)

\* The packet number k, and response r of a session under number n.
PacketOf(x, k) == encode_packet(x.session, x.seq, [i \in 1..PayloadLen[k] |-> k])
ResponseOf(s, n, r) == encode_packet(s, n, [i \in 1..ResponseLen[r] |-> r])

SentPackets == {PacketOf(sent[k], k) : k \in 1..Len(sent)}
ResponsePackets ==
    {ResponseOf(s, answered[r].n, r) : s \in ClientSessions, r \in 1..Len(answered)}

\* What is written to streams: packets that fit a frame, under their session,
\* and responses, whose order does not matter.
UpItems ==
    {<<sent[k].session, PacketOf(sent[k], k)>> :
        k \in {j \in 1..Len(sent) : FitsFrame(PacketOf(sent[j], j))}}
DownItems == {<<0, p>> : p \in ResponsePackets}

\* A datagram in the network is a packet the client sent or a response.
InFlight ==
    net_up \subseteq UdpPaths \X SentPackets /\ net_down \subseteq UdpPaths \X ResponsePackets

\* A connection carries the packets of one session after those of another, and
\* none of a session before the last it served.
StreamsOK ==
    \A c \in Connections : /\ Stream(UpItems, served[c], conns[c].up)
                           /\ Stream(DownItems, 0, conns[c].down)

\* At a target session not created yet nothing passed, and to a session not
\* created yet nothing was returned.
Unborn ==
    /\ \A o \in Targets : o > target => passed[o] = <<>>
    /\ \A s \in ClientSessions : s > used => returned[s] = {}

\* Sessions are at the client's servers only, and none has two ids.
OneOwner ==
    /\ \A h \in Ips, s \in ClientSessions : sessions[h][s] # 0 => h = Host
    /\ \A h \in Ips : \A s, x \in ClientSessions :
          sessions[h][s] # 0 /\ sessions[h][s] = sessions[h][x] => s = x

\* What passed a window is recorded in it.
PassedRecorded ==
    \A o \in Targets : \A i \in DOMAIN passed[o] :
        IsDuplicate(dedup[o], sent[passed[o][i]].seq)
ReturnedRecorded ==
    \A s \in ClientSessions : \A r \in returned[s] :
        IsDuplicate(response_dedup[s], answered[r].n)

\* A connection is a path of sessions up to the last it served, and of that one
\* only while the server can still take it away.
PathsServed ==
    \A c \in Connections, s \in ClientSessions :
        PathOfConn(c) \in client_paths[c[1].host][s] =>
            \/ s < served[c]
            \/ s = served[c] /\ conns[c].server /\ conn_to_session[c] = s

Carried == InFlight /\ StreamsOK
Remembered == Unborn /\ OneOwner /\ PassedRecorded /\ ReturnedRecorded
RelayInv == TypeOK /\ Carried /\ Remembered /\ PathsServed

-----------------------------------------------------------------------------
(* Packets, responses and what carries them *)

LEMMA PayloadFacts ==
    /\ Len(PayloadLen) \in Nat /\ 2 * Len(PayloadLen) <= SeqRange
    /\ \A k \in Packets : k \in Nat /\ PayloadLen[k] \in Nat /\ PayloadLen[k] > 0
BY RelayAssumption DEF Packets

LEMMA DecodedRecord ==
    ASSUME NEW p
    PROVE  LET m == decode_packet(p)
           IN  m = [id |-> m.id, seq |-> m.seq, payload |-> m.payload]
BY DEF decode_packet

LEMMA PacketFacts ==
    ASSUME NEW x \in [session : 1..MaxSessions, seq : 0..SeqRange - 1, n : Nat],
           NEW k \in Packets
    PROVE  LET p == PacketOf(x, k)
               m == decode_packet(p)
           IN  /\ p \in Seq(Nat) /\ Len(p) > 0 /\ ~TooShort(p)
               /\ m.id = x.session /\ m.seq = x.seq
               /\ m.payload # <<>> /\ m.payload[1] = k /\ Len(m.payload) = PayloadLen[k]
               /\ m = [id |-> x.session, seq |-> x.seq,
                       payload |-> [i \in 1..PayloadLen[k] |-> k]]
<1>1. PICK payload : payload = [i \in 1..PayloadLen[k] |-> k]
  OBVIOUS
<1>2. PayloadLen[k] \in Nat /\ PayloadLen[k] > 0 /\ k \in Nat
  BY PayloadFacts
<1>3. /\ payload \in Seq(Nat) /\ Len(payload) = PayloadLen[k] /\ payload[1] = k
      /\ payload # <<>>
  <2>1. payload \in [1..PayloadLen[k] -> Nat] /\ payload[1] = k
    BY <1>1, <1>2
  <2> QED
    BY <1>2, <2>1
<1>4. x.session \in 0..IdRange - 1 /\ x.seq \in 0..SeqRange - 1
  BY RelayAssumption
<1>5. PacketOf(x, k) = encode_packet(x.session, x.seq, payload)
  BY <1>1, Zenon DEF PacketOf
<1>6. PICK p : p = PacketOf(x, k)
  OBVIOUS
<1>7. /\ p \in Seq(Nat) /\ Len(p) = HEADER_SIZE + Len(payload) /\ ~TooShort(p)
      /\ decode_packet(p).id = x.session /\ decode_packet(p).seq = x.seq
      /\ decode_packet(p).payload = payload
  BY <1>3, <1>4, <1>5, <1>6, Decoded
<1>8. Len(p) > 0
  <2>1. Len(p) = HEADER_SIZE + PayloadLen[k]
    BY <1>3, <1>7
  <2> QED
    BY <1>2, <2>1, WidthFacts
<1>9. decode_packet(p) = [id |-> x.session, seq |-> x.seq, payload |-> payload]
  BY <1>7, DecodedRecord
<1> QED
  BY <1>1, <1>3, <1>6, <1>7, <1>8, <1>9, Zenon

LEMMA ResponseFacts ==
    ASSUME NEW s \in ClientSessions, NEW n \in 0..SeqRange - 1, NEW r \in Responses
    PROVE  LET p == ResponseOf(s, n, r)
               m == decode_packet(p)
           IN  /\ p \in Frames /\ ~TooShort(p)
               /\ m.id = s /\ m.seq = n /\ m.payload[1] = r
<1>1. PICK payload : payload = [i \in 1..ResponseLen[r] |-> r]
  OBVIOUS
<1>0. r \in Nat /\ ResponseLen[r] \in 1..MaxDatagram /\ MaxDatagram \in Nat
  BY RelayAssumption, CodecAssumption DEF Responses
<1>2. /\ payload \in Seq(Nat) /\ Len(payload) = ResponseLen[r] /\ payload[1] = r
  <2>1. payload \in [1..ResponseLen[r] -> Nat] /\ payload[1] = r /\ ResponseLen[r] \in Nat
    BY <1>0, <1>1
  <2> QED
    BY <2>1
<1>3. s \in 0..IdRange - 1
  BY RelayAssumption DEF ClientSessions
<1>4. PICK p : p = ResponseOf(s, n, r)
  OBVIOUS
<1>5. p = encode_packet(s, n, payload)
  BY <1>1, <1>4, Zenon DEF ResponseOf
<1>6. /\ p \in Seq(Nat) /\ Len(p) = HEADER_SIZE + Len(payload) /\ ~TooShort(p)
      /\ decode_packet(p).id = s /\ decode_packet(p).seq = n
      /\ decode_packet(p).payload = payload
  <2>1. payload \in Seq(Nat)
    BY <1>2
  <2> QED
    BY <2>1, <1>3, <1>5, Decoded
<1>7. p \in Frames
  <2>1. MaxDatagram + HEADER_SIZE <= MaxFrame
    BY RelayAssumption
  <2> QED
    BY <1>0, <1>2, <1>6, <2>1, WidthFacts, SMTT(30) DEF Frames
<1> QED
  BY <1>1, <1>2, <1>4, <1>6, <1>7, Zenon

\* And what it decodes to.
LEMMA ResponseDecodes ==
    ASSUME NEW s \in ClientSessions, NEW n \in 0..SeqRange - 1, NEW r \in Responses
    PROVE  /\ ~TooShort(ResponseOf(s, n, r))
           /\ decode_packet(ResponseOf(s, n, r)) =
                  [id |-> s, seq |-> n, payload |-> [i \in 1..ResponseLen[r] |-> r]]
<1>1. PICK payload : payload = [i \in 1..ResponseLen[r] |-> r]
  OBVIOUS
<1>2. r \in Nat /\ ResponseLen[r] \in Nat
  BY RelayAssumption, CodecAssumption DEF Responses
<1>3. payload \in Seq(Nat)
  BY <1>1, <1>2
<1>4. s \in 0..IdRange - 1
  BY RelayAssumption DEF ClientSessions
<1>5. PICK p : p = ResponseOf(s, n, r)
  OBVIOUS
<1>6. p = encode_packet(s, n, payload)
  BY <1>1, <1>5, Zenon DEF ResponseOf
<1>7. /\ ~TooShort(p)
      /\ decode_packet(p).id = s /\ decode_packet(p).seq = n
      /\ decode_packet(p).payload = payload
  BY <1>3, <1>4, <1>6, Decoded
<1>8. decode_packet(p) = [id |-> s, seq |-> n, payload |-> payload]
  BY <1>7, DecodedRecord
<1> QED
  BY <1>1, <1>5, <1>7, <1>8, Zenon

\* What HistoryOK says of one packet and of one response.
LEMMA SentFacts ==
    ASSUME TypeOK, NEW k \in 1..Len(sent)
    PROVE  /\ sent[k] \in [session : 1..MaxSessions, seq : 0..SeqRange - 1, n : Nat]
           /\ sent[k].session \in 1..used /\ sent[k].session \in ClientSessions
           /\ sent[k].seq \in Nat /\ k \in Packets
<1>1. used \in 0..MaxSessions /\ MaxSessions \in Nat
  BY RelayAssumption DEF TypeOK, ClientOK
<1>2. /\ sent \in Seq([session : 1..used, seq : 0..SeqRange - 1, n : Nat])
      /\ Len(sent) <= Len(PayloadLen)
  BY DEF TypeOK, HistoryOK
<1>3. sent[k] \in [session : 1..used, seq : 0..SeqRange - 1, n : Nat]
  BY <1>2, ElementOfSeq, Zenon
<1>4. k \in Packets
  BY <1>2, PayloadFacts DEF Packets
<1>5. PICK x : x = sent[k]
  OBVIOUS
<1>6. x \in [session : 1..MaxSessions, seq : 0..SeqRange - 1, n : Nat] /\ x.session \in 1..used
  <2>1. 1..used \subseteq 1..MaxSessions
    BY <1>1
  <2> QED
    BY <1>3, <1>5, <2>1
<1>7. x.session \in ClientSessions /\ x.seq \in Nat
  BY <1>6, WidthFacts DEF ClientSessions
<1> QED
  BY <1>4, <1>5, <1>6, <1>7

LEMMA AnsweredFacts ==
    ASSUME TypeOK, NEW r \in 1..Len(answered)
    PROVE  /\ answered[r].target \in 1..target /\ answered[r].target \in Targets
           /\ answered[r].n \in 0..SeqRange - 1 /\ answered[r].n \in Nat
           /\ r \in Responses /\ r \in Nat
<1>1. target \in 0..MaxTargets /\ MaxTargets \in Nat /\ MaxResponses \in Nat
  BY RelayAssumption DEF TypeOK, ServersOK
<1>2. /\ answered \in Seq([target : 1..target, n : 0..SeqRange - 1])
      /\ Len(answered) <= MaxResponses
  BY DEF TypeOK, HistoryOK
<1>3. answered[r] \in [target : 1..target, n : 0..SeqRange - 1]
  BY <1>2, ElementOfSeq, Zenon
<1> QED
  BY <1>1, <1>2, <1>3, WidthFacts DEF Targets, Responses

LEMMA ItemsOK ==
    ASSUME TypeOK
    PROVE  /\ UpItems \subseteq Nat \X Frames /\ DownItems \subseteq Nat \X Frames
           /\ \A i \in UpItems : i[1] \in 1..used
           /\ \A i \in UpItems : \E k \in 1..Len(sent) :
                 i[1] = sent[k].session /\ i[2] = PacketOf(sent[k], k)
           /\ \A i \in DownItems : i[1] = 0 /\ i[2] \in ResponsePackets
<1>1. ASSUME NEW i \in UpItems
      PROVE  /\ i \in Nat \X Frames /\ i[1] \in 1..used
             /\ \E k \in 1..Len(sent) : i[1] = sent[k].session /\ i[2] = PacketOf(sent[k], k)
  <2>1. PICK k \in 1..Len(sent) : /\ i = <<sent[k].session, PacketOf(sent[k], k)>>
                                  /\ FitsFrame(PacketOf(sent[k], k))
    BY DEF UpItems
  <2>2. /\ sent[k] \in [session : 1..MaxSessions, seq : 0..SeqRange - 1, n : Nat]
        /\ sent[k].session \in 1..used /\ k \in Packets
    BY SentFacts
  <2>3. PICK p : p = PacketOf(sent[k], k)
    OBVIOUS
  <2>4. p \in Seq(Nat) /\ Len(p) > 0
    BY <2>2, <2>3, PacketFacts, Zenon
  <2>5. p \in Frames
    BY <2>1, <2>3, <2>4, WidthFacts DEF Frames, FitsFrame
  <2>6. sent[k].session \in Nat
    BY <2>2
  <2> QED
    BY <2>1, <2>2, <2>3, <2>5, <2>6
<1>2. ASSUME NEW i \in DownItems
      PROVE  i \in Nat \X Frames /\ i[1] = 0 /\ i[2] \in ResponsePackets
  <2>1. PICK p \in ResponsePackets : i = <<0, p>>
    BY DEF DownItems
  <2>2. PICK s \in ClientSessions, r \in 1..Len(answered) : p = ResponseOf(s, answered[r].n, r)
    BY <2>1 DEF ResponsePackets
  <2>3. answered[r].n \in 0..SeqRange - 1 /\ r \in Responses
    BY AnsweredFacts
  <2>4. p \in Frames
    BY <2>2, <2>3, ResponseFacts, Zenon
  <2> QED
    BY <2>1, <2>4
<1> QED
  BY <1>1, <1>2

-----------------------------------------------------------------------------
(* The invariant holds at the start *)

LEMMA NewWindow == New \in Window /\ WellFormed(New) /\ \A q : ~IsDuplicate(New, q)
BY DEF New, Window, WellFormed, IsDuplicate

LEMMA NoPackets == <<>> \in Seq(Nat) /\ Len(<<>>) = 0 /\ DOMAIN <<>> = {}
BY EmptySeq

LEMMA InitType == Init => TypeOK
<1> SUFFICES ASSUME Init PROVE TypeOK
  OBVIOUS
<1>1. /\ {MaxResponses, MaxSessions, MaxTargets, MaxConns, MaxFaults} \subseteq Nat
      /\ SeqRange \in Nat /\ 0 \in 0..SeqRange - 1
  BY RelayAssumption, WidthFacts
<1>2. cfg \in Configured
  BY DEF Init
<1>3. ClientOK
  BY <1>1, NewWindow DEF Init, ClientOK
<1>4. ServersOK
  BY <1>1, NewWindow DEF Init, ServersOK
<1>5. NetworkOK
  <2>1. NoConn \in [client : BOOLEAN, server : BOOLEAN, up : Seq(Nat), down : Seq(Nat)]
    BY NoPackets DEF NoConn
  <2>2. conns = [c \in Connections |-> NoConn] /\ faults = 0
        /\ dialed = [e \in Endpoints("tcp") |-> 0]
    BY DEF Init
  <2> QED
    BY <1>1, <2>1, <2>2 DEF NetworkOK
<1>6. HistoryOK
  <2>1. /\ sent = <<>> /\ answered = <<>>
        /\ passed = [o \in Targets |-> <<>>] /\ forwarded = [o \in Targets |-> {}]
        /\ refused = {} /\ unheard = {} /\ returned = [s \in ClientSessions |-> {}]
        /\ served = [c \in Connections |-> 0] /\ used = 0
    BY DEF Init
  <2>2. \A S : <<>> \in Seq(S)
    BY EmptySeq
  <2>3. /\ sent \in Seq([session : 1..used, seq : 0..SeqRange - 1, n : Nat]) /\ Len(sent) = 0
        /\ answered \in Seq([target : 1..target, n : 0..SeqRange - 1]) /\ Len(answered) = 0
        /\ passed \in [Targets -> Seq(1..Len(sent))]
    BY <2>1, <2>2, NoPackets
  <2>4. Len(sent) <= Len(PayloadLen) /\ Len(answered) <= MaxResponses
    BY <1>1, <2>3, PayloadFacts
  <2>5. /\ forwarded \in [Targets -> SUBSET (1..Len(sent))]
        /\ refused \subseteq Targets \X (1..Len(sent))
        /\ returned \in [ClientSessions -> SUBSET (1..Len(answered))]
        /\ unheard \subseteq ClientSessions \X (1..Len(answered))
        /\ served \in [Connections -> 0..used]
    BY <2>1
  <2> QED
    BY <2>3, <2>4, <2>5 DEF HistoryOK
<1> QED
  BY <1>2, <1>3, <1>4, <1>5, <1>6 DEF TypeOK

LEMMA InitInv == Init => RelayInv
<1> SUFFICES ASSUME Init PROVE RelayInv
  OBVIOUS
<1>1. TypeOK
  BY InitType
<1>2. InFlight
  BY DEF Init, InFlight
<1>3. StreamsOK
  <2> SUFFICES ASSUME NEW c \in Connections
               PROVE  /\ Stream(UpItems, served[c], conns[c].up)
                      /\ Stream(DownItems, 0, conns[c].down)
    BY DEF StreamsOK
  <2>1. served[c] = 0 /\ conns[c].up = <<>> /\ conns[c].down = <<>>
    BY DEF Init, NoConn
  <2>2. \A items : Stream(items, 0, <<>>)
    BY StreamEmpty
  <2> QED
    BY <2>1, <2>2
<1>4. Unborn
  BY DEF Init, Unborn
<1>5. OneOwner
  BY DEF Init, OneOwner
<1>6. PassedRecorded
  BY NoPackets DEF Init, PassedRecorded
<1>7. ReturnedRecorded
  BY DEF Init, ReturnedRecorded
<1>8. PathsServed
  <2>1. cfg \in Configured /\ client_paths = [h \in Ips |-> [s \in ClientSessions |-> {}]]
    BY DEF Init
  <2>2. \A c \in Connections : c[1].host \in Ips
    BY <2>1, PathFacts
  <2> QED
    BY <2>1, <2>2 DEF PathsServed
<1> QED
  BY <1>1, <1>2, <1>3, <1>4, <1>5, <1>6, <1>7, <1>8 DEF RelayInv, Carried, Remembered

-----------------------------------------------------------------------------
(* What a step leaves alone *)

LEMMA CfgFixed ==
    ASSUME cfg' = cfg
    PROVE  /\ Endpoints("udp")' = Endpoints("udp") /\ Endpoints("tcp")' = Endpoints("tcp")
           /\ Connections' = Connections /\ TcpPaths' = TcpPaths /\ Host' = Host
<1>1. Endpoints("udp")' = Endpoints("udp") /\ Endpoints("tcp")' = Endpoints("tcp")
  BY DEF Endpoints
<1>2. Connections' = Connections
  BY <1>1 DEF Connections
<1>3. TcpPaths' = TcpPaths
  BY <1>2 DEF TcpPaths
<1>4. Host' = Host
  BY DEF Host
<1> QED
  BY <1>1, <1>2, <1>3, <1>4

LEMMA UdpPathsFixed ==
    ASSUME cfg' = cfg, born' = born
    PROVE  UdpPaths' = UdpPaths
BY CfgFixed DEF UdpPaths

LEMMA SentFixed ==
    ASSUME sent' = sent
    PROVE  SentPackets' = SentPackets /\ UpItems' = UpItems
BY DEF SentPackets, UpItems

LEMMA AnsweredFixed ==
    ASSUME answered' = answered
    PROVE  ResponsePackets' = ResponsePackets /\ DownItems' = DownItems
<1>1. ResponsePackets' = ResponsePackets
  BY DEF ResponsePackets
<1> QED
  BY <1>1 DEF DownItems

\* A connection, and what writing to its streams or closing an end makes of it.
Conn == [client : BOOLEAN, server : BOOLEAN, up : Seq(Nat), down : Seq(Nat)]

LEMMA ConnUp ==
    ASSUME NEW k \in Conn, NEW x \in Seq(Nat)
    PROVE  /\ [k EXCEPT !.up = x] \in Conn
           /\ [k EXCEPT !.up = x].up = x /\ [k EXCEPT !.up = x].down = k.down
           /\ [k EXCEPT !.up = x].client = k.client /\ [k EXCEPT !.up = x].server = k.server
BY DEF Conn

LEMMA ConnDown ==
    ASSUME NEW k \in Conn, NEW x \in Seq(Nat)
    PROVE  /\ [k EXCEPT !.down = x] \in Conn
           /\ [k EXCEPT !.down = x].down = x /\ [k EXCEPT !.down = x].up = k.up
           /\ [k EXCEPT !.down = x].client = k.client /\ [k EXCEPT !.down = x].server = k.server
BY DEF Conn

LEMMA ConnEnds ==
    ASSUME NEW k \in Conn
    PROVE  /\ [k EXCEPT !.client = FALSE] \in Conn
           /\ [k EXCEPT !.client = FALSE].up = k.up /\ [k EXCEPT !.client = FALSE].down = k.down
           /\ [k EXCEPT !.client = FALSE].server = k.server
           /\ [k EXCEPT !.client = FALSE, !.down = <<>>] \in Conn
           /\ [k EXCEPT !.client = FALSE, !.down = <<>>].up = k.up
           /\ [k EXCEPT !.client = FALSE, !.down = <<>>].down = <<>>
           /\ [k EXCEPT !.client = FALSE, !.down = <<>>].server = k.server
           /\ [k EXCEPT !.server = FALSE, !.up = <<>>] \in Conn
           /\ [k EXCEPT !.server = FALSE, !.up = <<>>].up = <<>>
           /\ [k EXCEPT !.server = FALSE, !.up = <<>>].down = k.down
           /\ [k EXCEPT !.server = FALSE, !.up = <<>>].server = FALSE
BY NoPackets DEF Conn

LEMMA TypeFacts ==
    ASSUME TypeOK
    PROVE  /\ cfg \in Configured
           /\ used \in Nat /\ used <= MaxSessions /\ MaxSessions \in Nat /\ current \in {0, used}
           /\ target \in Nat /\ target <= MaxTargets /\ MaxTargets \in Nat /\ MaxConns \in Nat
           /\ conns \in [Connections -> Conn] /\ DOMAIN conns = Connections
           /\ served \in [Connections -> 0..used]
           /\ sent \in Seq([session : 1..used, seq : 0..SeqRange - 1, n : Nat])
           /\ answered \in Seq([target : 1..target, n : 0..SeqRange - 1])
           /\ Len(sent) \in Nat /\ Len(answered) \in Nat
<1>1. used \in 0..MaxSessions /\ current \in {0, used} /\ target \in 0..MaxTargets
  BY DEF TypeOK, ClientOK, ServersOK
<1>2. MaxSessions \in Nat /\ MaxTargets \in Nat /\ MaxConns \in Nat
  BY RelayAssumption
<1>3. conns \in [Connections -> Conn] /\ DOMAIN conns = Connections
  BY DEF TypeOK, NetworkOK, Conn
<1>4. /\ sent \in Seq([session : 1..used, seq : 0..SeqRange - 1, n : Nat])
      /\ answered \in Seq([target : 1..target, n : 0..SeqRange - 1])
      /\ served \in [Connections -> 0..used]
  BY DEF TypeOK, HistoryOK
<1>5. Len(sent) \in Nat /\ Len(answered) \in Nat
  BY <1>4, LenProperties, Zenon
<1> QED
  BY <1>1, <1>2, <1>3, <1>4, <1>5 DEF TypeOK

-----------------------------------------------------------------------------
(* The client sends *)

\* What sending the next packet writes to a connection: nothing, or its frame,
\* to the connection as it is or to one that is dialed now.
LEMMA SendWrites ==
    ASSUME TypeOK, NEW s, NEW dial, NEW packet, SendTcp(dial, packet)
    PROVE  /\ conns' = [c \in Connections |-> conns'[c]]
           /\ \A c \in Connections :
                 \E k \in {conns[c], [NoConn EXCEPT !.client = TRUE, !.server = TRUE]} :
                    \/ conns'[c] = k
                    \/ FitsFrame(packet) /\ conns'[c] = [k EXCEPT !.up = k.up \o Frame(packet)]
<1>1. DOMAIN conns = Connections
  BY TypeFacts
<1> DEFINE use == [e \in Endpoints("tcp") |->
                      IF e \in dial THEN dialed[e] + 1 ELSE tcp_sessions[e]]
           fresh(c) == c[1] \in dial /\ c[2] = use[c[1]]
           conn(c) == IF fresh(c) THEN [NoConn EXCEPT !.client = TRUE, !.server = TRUE]
                      ELSE conns[c]
           carries(c) == use[c[1]] = c[2] /\ conn(c).server /\ FitsFrame(packet)
<1>2. conns' = [c \in DOMAIN conns |->
                   IF carries(c) THEN [conn(c) EXCEPT !.up = @ \o Frame(packet)] ELSE conn(c)]
  BY DEF SendTcp
<1> HIDE DEF fresh, use
<1>3. \A c \in Connections : conn(c) \in {conns[c], [NoConn EXCEPT !.client = TRUE, !.server = TRUE]}
  OBVIOUS
<1>4. \A c \in Connections : carries(c) => FitsFrame(packet)
  OBVIOUS
<1> HIDE DEF conn, carries
<1>5. \A c \in Connections : conns'[c] =
         IF carries(c) THEN [conn(c) EXCEPT !.up = conn(c).up \o Frame(packet)] ELSE conn(c)
  BY <1>1, <1>2, Zenon
<1>6. conns' = [c \in Connections |-> conns'[c]]
  BY <1>1, <1>2, <1>5
<1> QED
  BY <1>3, <1>4, <1>5, <1>6, Zenon

\* The history of packets after one more.
LEMMA SendHistory ==
    ASSUME TypeOK, NEW s \in ClientSessions, NEW q \in 0..SeqRange - 1, NEW dial,
           SendPacket(s, q, dial), used <= s
    PROVE  /\ sent' \in Seq([session : 1..s, seq : 0..SeqRange - 1, n : Nat])
           /\ Len(sent') = Len(sent) + 1 /\ Len(sent') <= Len(PayloadLen)
           /\ \A k \in 1..Len(sent) : sent'[k] = sent[k]
           /\ sent'[Len(sent) + 1].session = s /\ sent'[Len(sent) + 1].seq = q
<1> DEFINE S == [session : 1..s, seq : 0..SeqRange - 1, n : Nat]
           n == Cardinality({j \in 1..Len(sent) : sent[j].session = s})
           e == [session |-> s, seq |-> q, n |-> n]
<1>1. sent' = Append(sent, e) /\ Len(sent) + 1 \in Packets
  BY DEF SendPacket
<1>2. Len(sent) \in Nat /\ s \in Nat /\ used \in Nat /\ s \in 1..s
  BY TypeFacts, RelayAssumption DEF ClientSessions
<1>3. sent \in Seq(S)
  <2>1. [session : 1..used, seq : 0..SeqRange - 1, n : Nat] \subseteq S
    BY <1>2
  <2>2. sent \in Seq([session : 1..used, seq : 0..SeqRange - 1, n : Nat])
    BY TypeFacts
  <2> HIDE DEF S
  <2> QED
    BY <2>1, <2>2, SeqMonotonic, Zenon
<1>4. n \in Nat
  <2>1. IsFiniteSet(1..Len(sent))
    BY <1>2, FS_Interval
  <2> QED
    BY <2>1, FS_Subset, FS_CardinalityType
<1> HIDE DEF n
<1>5. e \in S /\ e.session = s /\ e.seq = q
  BY <1>2, <1>4
<1> HIDE DEF e, S
<1>6. /\ sent' \in Seq(S) /\ Len(sent') = Len(sent) + 1
      /\ \A k \in 1..Len(sent) : sent'[k] = sent[k]
      /\ sent'[Len(sent) + 1] = e
  <2>1. sent \in Seq(S) /\ e \in S
    BY <1>3, <1>5
  <2>2. PICK t : t = Append(sent, e)
    OBVIOUS
  <2>3. /\ t \in Seq(S) /\ Len(t) = Len(sent) + 1
        /\ \A k \in 1..Len(sent) : t[k] = sent[k]
        /\ t[Len(sent) + 1] = e
    BY <2>1, <2>2, AppendProperties
  <2> QED
    BY <1>1, <2>2, <2>3
<1>7. Len(sent') <= Len(PayloadLen)
  BY <1>1, <1>2, <1>6, PayloadFacts DEF Packets
<1> QED
  BY <1>5, <1>6, <1>7 DEF S

\* The numbers of sessions and connections after it.
LEMMA SendCounts ==
    ASSUME TypeOK, NEW s \in ClientSessions, NEW q \in 0..SeqRange - 1, NEW dial,
           SendPacket(s, q, dial)
    PROVE  /\ seq' \in [ClientSessions -> 0..SeqRange - 1]
           /\ tcp_sessions' \in [Endpoints("tcp") -> 0..MaxConns]
           /\ dialed' \in [Endpoints("tcp") -> 0..MaxConns]
           /\ \A e \in Endpoints("tcp") : tcp_sessions'[e] <= dialed'[e]
<1>1. seq \in [ClientSessions -> 0..SeqRange - 1] /\ seq' = [seq EXCEPT ![s] = (q + 1) % SeqRange]
  BY DEF TypeOK, ClientOK, SendPacket
<1>2. (q + 1) % SeqRange \in 0..SeqRange - 1
  BY WidthFacts
<1>3. \E packet : SendTcp(dial, packet)
  BY DEF SendPacket
<1>4. /\ dial \subseteq {e \in Endpoints("tcp") : tcp_sessions[e] = 0 /\ dialed[e] < MaxConns}
      /\ tcp_sessions' = [e \in Endpoints("tcp") |->
                             IF e \in dial THEN dialed[e] + 1 ELSE tcp_sessions[e]]
      /\ dialed' = [e \in Endpoints("tcp") |->
                       IF e \in dial THEN dialed[e] + 1 ELSE dialed[e]]
  BY <1>3 DEF SendTcp
<1>5. /\ tcp_sessions \in [Endpoints("tcp") -> 0..MaxConns]
      /\ dialed \in [Endpoints("tcp") -> 0..MaxConns]
      /\ \A e \in Endpoints("tcp") : tcp_sessions[e] <= dialed[e]
      /\ MaxConns \in Nat
  BY RelayAssumption DEF TypeOK, ClientOK, NetworkOK
<1>6. seq' \in [ClientSessions -> 0..SeqRange - 1]
  BY <1>1, <1>2
<1> QED
  BY <1>4, <1>5, <1>6

\* What is in the network after it.
LEMMA SendCarries ==
    ASSUME TypeOK, Carried, NEW s \in ClientSessions, NEW q \in 0..SeqRange - 1, NEW dial,
           SendPacket(s, q, dial), used <= s,
           cfg' = cfg, born' = born, served' = served, answered' = answered
    PROVE  /\ conns' \in [Connections -> Conn]
           /\ \A c \in Connections : conns[c].server => conns'[c].server
           /\ Carried'
<1> DEFINE k == Len(sent) + 1
           p == PacketOf(sent'[k], k)
<1>1. /\ sent' \in Seq([session : 1..s, seq : 0..SeqRange - 1, n : Nat])
      /\ Len(sent') = k /\ Len(sent) \in Nat
      /\ \A j \in 1..Len(sent) : sent'[j] = sent[j]
      /\ sent'[k].session = s /\ sent'[k].seq = q
  BY SendHistory, TypeFacts
<1>a. /\ \A j \in 1..Len(sent) : j \in 1..Len(sent') /\ j \in 1..k /\ sent'[j] = sent[j]
      /\ \A j \in 1..k : j = k \/ j \in 1..Len(sent)
  <2>1. Len(sent) \in Nat /\ Len(sent') = Len(sent) + 1
    BY <1>1
  <2>2. /\ \A j \in 1..Len(sent) : j \in 1..Len(sent') /\ j \in 1..k
        /\ \A j \in 1..k : j = k \/ j \in 1..Len(sent)
    BY <2>1
  <2> QED
    BY <1>1, <2>2, Zenon
<1>2. k \in Packets /\ SendUdp(p) /\ SendTcp(dial, p)
  BY <1>1 DEF SendPacket, PacketOf
<1>3. s \in Nat /\ s <= MaxSessions /\ MaxSessions \in Nat
  BY RelayAssumption DEF ClientSessions
<1>4. sent'[k] \in [session : 1..MaxSessions, seq : 0..SeqRange - 1, n : Nat]
  <2>1. k \in 1..Len(sent')
    BY <1>1
  <2>2. sent'[k] \in [session : 1..s, seq : 0..SeqRange - 1, n : Nat]
    BY <1>1, <2>1, ElementOfSeq, Zenon
  <2> QED
    BY <1>3, <2>2
<1>5. p \in Seq(Nat) /\ Len(p) > 0
  BY <1>2, <1>4, PacketFacts, Zenon
<1>6. SentPackets \subseteq SentPackets' /\ p \in SentPackets'
  <2>1. ASSUME NEW j \in 1..Len(sent) PROVE PacketOf(sent[j], j) \in SentPackets'
    <3>1. j \in 1..Len(sent') /\ sent'[j] = sent[j]
      BY <1>a
    <3> QED
      BY <3>1 DEF SentPackets
  <2>2. k \in 1..Len(sent')
    BY <1>1
  <2>3. p \in SentPackets'
    BY <2>2, Zenon DEF SentPackets
  <2> QED
    BY <2>1, <2>3 DEF SentPackets
<1>7. /\ UpItems \subseteq UpItems' /\ (FitsFrame(p) => <<s, p>> \in UpItems')
      /\ \A i \in UpItems' : i \in UpItems \/ (i = <<s, p>> /\ FitsFrame(p))
  <2>1. \A j \in 1..k : FitsFrame(PacketOf(sent'[j], j)) =>
           <<sent'[j].session, PacketOf(sent'[j], j)>> \in UpItems'
    BY <1>1, Zenon DEF UpItems
  <2>2. ASSUME NEW j \in 1..Len(sent), FitsFrame(PacketOf(sent[j], j))
        PROVE  <<sent[j].session, PacketOf(sent[j], j)>> \in UpItems'
    <3>1. j \in 1..k /\ sent'[j] = sent[j]
      BY <1>a
    <3> QED
      BY <2>1, <2>2, <3>1
  <2>3. UpItems \subseteq UpItems'
    BY <2>2 DEF UpItems
  <2>4. FitsFrame(p) => <<s, p>> \in UpItems'
    <3>1. k \in 1..k
      BY <1>1
    <3> QED
      BY <1>1, <2>1, <3>1, Zenon
  <2>5. ASSUME NEW i \in UpItems' PROVE i \in UpItems \/ (i = <<s, p>> /\ FitsFrame(p))
    <3>1. PICK j \in 1..k : /\ FitsFrame(PacketOf(sent'[j], j))
                            /\ i = <<sent'[j].session, PacketOf(sent'[j], j)>>
      BY <1>1 DEF UpItems
    <3>2. CASE j = k
      BY <1>1, <3>1, <3>2
    <3>3. CASE j # k
      <4>1. j \in 1..Len(sent) /\ sent'[j] = sent[j]
        BY <1>a, <3>3
      <4>2. /\ FitsFrame(PacketOf(sent[j], j))
            /\ i = <<sent[j].session, PacketOf(sent[j], j)>>
        BY <3>1, <4>1
      <4>3. <<sent[j].session, PacketOf(sent[j], j)>> \in UpItems
        BY <4>1, <4>2, Zenon DEF UpItems
      <4>4. i \in UpItems
        BY <4>2, <4>3
      <4> QED
        BY <4>4, Zenon
    <3> QED
      BY <3>2, <3>3
  <2> QED
    BY <2>3, <2>4, <2>5
<1>8. /\ UpItems' \subseteq Nat \X Frames /\ \A i \in UpItems' : i[1] \in Nat /\ i[1] <= s
  <2>1. /\ UpItems \subseteq Nat \X Frames /\ \A i \in UpItems : i[1] \in 1..used
        /\ used \in Nat
    BY ItemsOK, TypeFacts
  <2>2. FitsFrame(p) => p \in Frames
    BY <1>5, WidthFacts DEF FitsFrame, Frames
  <2> HIDE DEF p
  <2> QED
    BY <1>3, <1>7, <2>1, <2>2
<1> HIDE DEF p, k
<1>9. ASSUME NEW c \in Connections
      PROVE  /\ conns'[c] \in Conn /\ (conns[c].server => conns'[c].server)
             /\ Stream(UpItems', served[c], conns'[c].up)
             /\ Stream(DownItems, 0, conns'[c].down)
  <2> DEFINE fresh == [NoConn EXCEPT !.client = TRUE, !.server = TRUE]
  <2>1. fresh \in Conn /\ fresh.server /\ fresh.up = <<>> /\ fresh.down = <<>>
    BY NoPackets DEF NoConn, Conn
  <2>2. PICK x \in {conns[c], fresh} :
           \/ conns'[c] = x
           \/ FitsFrame(p) /\ conns'[c] = [x EXCEPT !.up = x.up \o Frame(p)]
    BY <1>2, SendWrites, Zenon
  <2>3. conns[c] \in Conn /\ served[c] \in Nat /\ served[c] <= s
    BY <1>3, TypeFacts
  <2>4. /\ x \in Conn /\ (conns[c].server => x.server)
        /\ Stream(UpItems, served[c], x.up) /\ Stream(DownItems, 0, x.down)
    <3>1. CASE x = conns[c]
      BY <2>3, <3>1 DEF Carried, StreamsOK
    <3>2. CASE x = fresh
      <4>1. \A items : Stream(items, served[c], <<>>) /\ Stream(items, 0, <<>>)
        BY <2>3, StreamEmpty
      <4> QED
        BY <2>1, <3>2, <4>1
    <3> QED
      BY <3>1, <3>2
  <2> HIDE DEF fresh
  <2>5. Stream(UpItems', served[c], x.up)
    BY <1>7, <2>4, StreamGrow
  <2>6. CASE conns'[c] = x
    BY <2>4, <2>5, <2>6
  <2>7. CASE FitsFrame(p) /\ conns'[c] = [x EXCEPT !.up = x.up \o Frame(p)]
    <3>1. p \in Frames /\ <<s, p>> \in UpItems'
      BY <1>5, <1>7, <2>7, WidthFacts DEF FitsFrame, Frames
    <3>2. Stream(UpItems', served[c], x.up \o Frame(p))
      BY <1>3, <1>8, <2>3, <2>5, <3>1, StreamAppend
    <3>3. x.up \o Frame(p) \in Seq(Nat)
      BY <3>2, StreamBytes
    <3>4. /\ conns'[c] \in Conn /\ conns'[c].up = x.up \o Frame(p) /\ conns'[c].down = x.down
          /\ conns'[c].server = x.server
      <4>1. PICK y : y = x.up \o Frame(p) /\ y \in Seq(Nat)
        BY <3>3, Zenon
      <4>2. conns'[c] = [x EXCEPT !.up = y] /\ x \in Conn
        BY <2>4, <2>7, <4>1, Zenon
      <4>3. /\ [x EXCEPT !.up = y] \in Conn
            /\ [x EXCEPT !.up = y].up = y /\ [x EXCEPT !.up = y].down = x.down
            /\ [x EXCEPT !.up = y].server = x.server
        BY <4>1, <4>2, ConnUp
      <4> HIDE DEF Conn
      <4> QED
        BY <4>1, <4>2, <4>3, Zenon
    <3> QED
      BY <2>4, <3>2, <3>4
  <2> QED
    BY <2>2, <2>6, <2>7
<1>10. conns' \in [Connections -> Conn]
  BY <1>2, <1>9, SendWrites
<1>11. Connections' = Connections /\ UdpPaths' = UdpPaths /\ DownItems' = DownItems
       /\ ResponsePackets' = ResponsePackets
  BY CfgFixed, UdpPathsFixed, AnsweredFixed
<1>12. StreamsOK'
  BY <1>9, <1>11 DEF StreamsOK
<1>13. InFlight'
  <2>1. net_up \subseteq UdpPaths \X SentPackets /\ net_down \subseteq UdpPaths \X ResponsePackets
    BY DEF Carried, InFlight
  <2>2. net_down' = net_down
        /\ \A d \in net_up' : \/ d \in net_up
                              \/ \E e \in Endpoints("udp") : d = <<PathOf(e, born), p>>
    BY <1>2 DEF SendUdp
  <2>3. born \in 1..born
    BY DEF TypeOK, ClientOK
  <2>4. \A e \in Endpoints("udp") : PathOf(e, born) \in UdpPaths
    BY <2>3 DEF UdpPaths
  <2>5. net_up' \subseteq UdpPaths \X SentPackets'
    BY <1>6, <2>1, <2>2, <2>4
  <2> QED
    BY <1>11, <2>1, <2>2, <2>5 DEF InFlight
<1> QED
  BY <1>9, <1>10, <1>12, <1>13 DEF Carried

\* What one more packet, and perhaps one more session, keeps.
LEMMA SendKeeps ==
    ASSUME RelayInv, NEW s \in ClientSessions, NEW q \in 0..SeqRange - 1, NEW dial,
           SendPacket(s, q, dial), used <= s, used' = s, current' = s,
           UNCHANGED <<cfg, born, server, faults, passed, forwarded, refused, served, replies>>,
           response_dedup' \in [ClientSessions -> Window],
           \A x \in ClientSessions : WellFormed(response_dedup'[x]),
           ReturnedRecorded'
    PROVE  RelayInv'
<1>1. TypeOK /\ Carried
  BY DEF RelayInv
<1>2. /\ cfg' = cfg /\ born' = born /\ faults' = faults /\ served' = served
      /\ sessions' = sessions /\ target' = target /\ dedup' = dedup
      /\ response_seq' = response_seq /\ client_paths' = client_paths
      /\ conn_to_session' = conn_to_session
      /\ passed' = passed /\ forwarded' = forwarded /\ refused' = refused
      /\ answered' = answered /\ returned' = returned /\ unheard' = unheard
  BY DEF server, replies
<1>3. /\ Endpoints("tcp")' = Endpoints("tcp") /\ Connections' = Connections
      /\ TcpPaths' = TcpPaths /\ UdpPaths' = UdpPaths /\ Host' = Host
  BY <1>2, CfgFixed, UdpPathsFixed
<1>4. /\ conns' \in [Connections -> Conn]
      /\ \A c \in Connections : conns[c].server => conns'[c].server
      /\ Carried'
  BY <1>1, <1>2, SendCarries
<1>5. /\ sent' \in Seq([session : 1..s, seq : 0..SeqRange - 1, n : Nat])
      /\ Len(sent') = Len(sent) + 1 /\ Len(sent') <= Len(PayloadLen) /\ Len(sent) \in Nat
      /\ \A k \in 1..Len(sent) : sent'[k] = sent[k]
  BY <1>1, SendHistory, TypeFacts
<1>6. s \in Nat /\ s <= MaxSessions /\ MaxSessions \in Nat /\ used \in Nat /\ s \in 0..MaxSessions
  BY <1>1, TypeFacts DEF ClientSessions
<1>7. ClientOK'
  <2>1. /\ seq' \in [ClientSessions -> 0..SeqRange - 1]
        /\ tcp_sessions' \in [Endpoints("tcp") -> 0..MaxConns]
        /\ \A e \in Endpoints("tcp") : tcp_sessions'[e] <= dialed'[e]
    BY <1>1, SendCounts
  <2>2. born' \in 1..faults' + 1
    BY <1>1, <1>2 DEF TypeOK, ClientOK
  <2> QED
    BY <1>3, <1>6, <2>1, <2>2 DEF ClientOK
<1>8. ServersOK'
  <2>1. conn_to_session' \in [Connections -> 0..used']
    <3>1. conn_to_session \in [Connections -> 0..used] /\ 0..used \subseteq 0..s
      BY <1>1, <1>6 DEF TypeOK, ServersOK
    <3> QED
      BY <1>2, <3>1
  <2> QED
    BY <1>1, <1>2, <1>3, <2>1 DEF TypeOK, ServersOK
<1>9. NetworkOK'
  <2>1. dialed' \in [Endpoints("tcp") -> 0..MaxConns]
    BY <1>1, SendCounts
  <2>2. faults' \in 0..MaxFaults
    BY <1>1, <1>2 DEF TypeOK, NetworkOK
  <2> QED
    BY <1>3, <1>4, <2>1, <2>2 DEF NetworkOK, Conn
<1>10. HistoryOK'
  <2>1. 1..Len(sent) \subseteq 1..Len(sent') /\ 0..used \subseteq 0..s
    <3>1. Len(sent') = Len(sent) + 1 /\ Len(sent) \in Nat
      BY <1>5
    <3>2. used \in Nat /\ s \in Nat /\ used <= s
      BY <1>6
    <3> QED
      BY <3>1, <3>2
  <2>2. passed \in [Targets -> Seq(1..Len(sent'))]
    <3>1. passed \in [Targets -> Seq(1..Len(sent))]
      BY <1>1 DEF TypeOK, HistoryOK
    <3>2. ASSUME NEW o \in Targets PROVE passed[o] \in Seq(1..Len(sent'))
      <4>1. passed[o] \in Seq(1..Len(sent))
        BY <3>1
      <4> QED
        BY <2>1, <4>1, SeqMonotonic, Zenon
    <3> QED
      BY <3>1, <3>2
  <2>3. /\ forwarded \in [Targets -> SUBSET (1..Len(sent'))]
        /\ refused \subseteq Targets \X (1..Len(sent'))
        /\ served \in [Connections -> 0..s]
    BY <1>1, <2>1 DEF TypeOK, HistoryOK
  <2>4. /\ answered \in Seq([target : 1..target, n : 0..SeqRange - 1])
        /\ Len(answered) <= MaxResponses
        /\ returned \in [ClientSessions -> SUBSET (1..Len(answered))]
        /\ unheard \subseteq ClientSessions \X (1..Len(answered))
    BY <1>1 DEF TypeOK, HistoryOK
  <2> QED
    BY <1>2, <1>3, <1>5, <2>2, <2>3, <2>4 DEF HistoryOK
<1>11. TypeOK'
  BY <1>1, <1>2, <1>7, <1>8, <1>9, <1>10 DEF TypeOK
<1>12. Unborn'
  BY <1>2, <1>6 DEF RelayInv, Remembered, Unborn, ClientSessions
<1>13. OneOwner'
  BY <1>2, <1>3 DEF RelayInv, Remembered, OneOwner
<1>14. PassedRecorded'
  <2> SUFFICES ASSUME NEW o \in Targets, NEW i \in DOMAIN passed[o]
               PROVE  IsDuplicate(dedup[o], sent'[passed[o][i]].seq)
    BY <1>2 DEF PassedRecorded
  <2>1. passed[o] \in Seq(1..Len(sent))
    BY <1>1 DEF TypeOK, HistoryOK
  <2>2. passed[o][i] \in 1..Len(sent)
    BY <2>1
  <2>3. sent'[passed[o][i]] = sent[passed[o][i]]
    BY <1>5, <2>2
  <2> QED
    BY <2>3 DEF RelayInv, Remembered, PassedRecorded
<1>15. PathsServed'
  BY <1>2, <1>3, <1>4 DEF RelayInv, PathsServed
<1> QED
  BY <1>4, <1>11, <1>12, <1>13, <1>14, <1>15 DEF RelayInv, Remembered

LEMMA SourcePacketKeeps ==
    ASSUME RelayInv, NEW dial, SourcePacket(dial)
    PROVE  RelayInv'
<1>1. /\ current # 0 /\ SendPacket(current, seq[current], dial) /\ current' = current
      /\ used' = used /\ response_dedup' = response_dedup
      /\ UNCHANGED <<cfg, born, server, faults, passed, forwarded, refused, served, replies>>
  BY DEF SourcePacket
<1>2. /\ current = used /\ current \in ClientSessions /\ used \in Nat
      /\ seq[current] \in 0..SeqRange - 1
      /\ response_dedup \in [ClientSessions -> Window]
      /\ \A x \in ClientSessions : WellFormed(response_dedup[x])
  <2>1. /\ seq \in [ClientSessions -> 0..SeqRange - 1]
        /\ response_dedup \in [ClientSessions -> Window]
        /\ \A x \in ClientSessions : WellFormed(response_dedup[x])
    BY DEF RelayInv, TypeOK, ClientOK
  <2>2. current = used /\ current \in ClientSessions /\ used \in Nat
    BY <1>1, TypeFacts DEF RelayInv, ClientSessions
  <2> QED
    BY <2>1, <2>2
<1>3. ReturnedRecorded'
  BY <1>1 DEF RelayInv, Remembered, ReturnedRecorded, replies
<1> QED
  BY <1>1, <1>2, <1>3, SendKeeps

LEMMA InitialSeq ==
    ASSUME NEW draw \in Draws
    PROVE  initial_seq(draw) \in 0..SeqRange - 1
<1>1. draw \in 0..SeqRange - 1
  BY RelayAssumption
<1>2. PICK h : h = (SeqRange - 1) \div 2 /\ h \in Nat /\ h > 0 /\ h <= SeqRange - 1
  BY WidthFacts
<1>3. draw % h \in 0..h - 1
  BY <1>1, <1>2, WidthFacts
<1> QED
  BY <1>2, <1>3, WidthFacts DEF initial_seq

LEMMA SourceOpensKeeps ==
    ASSUME RelayInv, NEW draw \in Draws, NEW dial, SourceOpens(draw, dial)
    PROVE  RelayInv'
<1> DEFINE s == used + 1
<1>1. /\ used < MaxSessions /\ used' = s /\ current' = s
      /\ response_dedup' = [response_dedup EXCEPT ![s] = New]
      /\ SendPacket(s, initial_seq(draw), dial)
      /\ UNCHANGED <<cfg, born, server, faults, passed, forwarded, refused, served, replies>>
  BY DEF SourceOpens, response_window
<1>2. used \in Nat /\ s \in ClientSessions /\ used <= s
  <2>1. used \in Nat /\ MaxSessions \in Nat
    BY TypeFacts DEF RelayInv
  <2> QED
    BY <1>1, <2>1 DEF ClientSessions
<1>3. initial_seq(draw) \in 0..SeqRange - 1
  BY InitialSeq
<1>4. /\ response_dedup \in [ClientSessions -> Window]
      /\ \A x \in ClientSessions : WellFormed(response_dedup[x])
  BY DEF RelayInv, TypeOK, ClientOK
<1> HIDE DEF s
<1>5. /\ response_dedup' \in [ClientSessions -> Window]
      /\ \A x \in ClientSessions : WellFormed(response_dedup'[x])
      /\ \A x \in ClientSessions : x # s => response_dedup'[x] = response_dedup[x]
  BY <1>1, <1>2, <1>4, NewWindow
<1>6. ReturnedRecorded'
  <2>1. returned[s] = {}
    BY <1>2 DEF RelayInv, Remembered, Unborn, s
  <2>2. returned' = returned /\ answered' = answered
    BY <1>1 DEF replies
  <2> QED
    BY <1>5, <2>1, <2>2 DEF RelayInv, Remembered, ReturnedRecorded
<1> QED
  BY <1>1, <1>2, <1>3, <1>5, <1>6, SendKeeps

-----------------------------------------------------------------------------
(* A server receives *)

\* The target session that packet k is handled at, and whether it is refused.
Known(k) == sessions[Host][sent[k].session]
At(k) == IF Known(k) = 0 THEN target + 1 ELSE Known(k)
WindowOf(k) == IF Known(k) = 0 THEN New ELSE dedup[At(k)]
Refuses(k) == IsDuplicate(WindowOf(k), sent[k].seq)

LEMMA HandledAt ==
    ASSUME RelayInv, NEW k \in 1..Len(sent), Host \in Ips
    PROVE  /\ Known(k) \in 0..target /\ At(k) \in Nat /\ At(k) > 0
           /\ sent[k].session \in ClientSessions /\ sent[k].seq \in Nat
           /\ Refuses(k) => Known(k) # 0
           /\ Known(k) # 0 => Refuses(k) = IsDuplicate(dedup[At(k)], sent[k].seq)
           /\ At(k) \in Targets => WellFormed(WindowOf(k))
<1>1. sent[k].session \in ClientSessions /\ sent[k].seq \in Nat
  BY SentFacts DEF RelayInv
<1>2. /\ sessions \in [Ips -> [ClientSessions -> 0..target]] /\ target \in Nat
      /\ \A o \in Targets : WellFormed(dedup[o])
  BY TypeFacts DEF RelayInv, TypeOK, ServersOK
<1>3. Known(k) \in 0..target
  BY <1>1, <1>2 DEF Known
<1>4. At(k) \in Nat /\ At(k) > 0
  BY <1>2, <1>3 DEF At
<1>5. Refuses(k) => Known(k) # 0
  BY NewWindow DEF Refuses, WindowOf
<1>6. At(k) \in Targets => WellFormed(WindowOf(k))
  BY <1>2, NewWindow DEF WindowOf
<1>7. Known(k) # 0 => Refuses(k) = IsDuplicate(dedup[At(k)], sent[k].seq)
  BY DEF Refuses, WindowOf
<1> QED
  BY <1>1, <1>3, <1>4, <1>5, <1>6, <1>7

\* What handling packet k on path p assigns.
LEMMA Handled ==
    ASSUME NEW k \in 1..Len(sent), NEW m, NEW p, NEW reached,
           m.id = sent[k].session, m.seq = sent[k].seq, m.payload[1] = k,
           HandlePacket(Host, m, p, reached)
    PROVE  /\ At(k) \in Targets
           /\ target' = IF Known(k) = 0 THEN At(k) ELSE target
           /\ sessions' = [sessions EXCEPT ![Host][sent[k].session] = At(k)]
           /\ dedup' = [dedup EXCEPT ![At(k)] = Mark(WindowOf(k), sent[k].seq, cfg.dedup_window)]
           /\ client_paths' = IF Refuses(k) THEN client_paths
                              ELSE [client_paths EXCEPT ![Host][sent[k].session] =
                                       WithPath(client_paths[Host][sent[k].session], p)]
           /\ passed' = IF Refuses(k) THEN passed
                        ELSE [passed EXCEPT ![At(k)] = Append(passed[At(k)], k)]
           /\ forwarded' \in {forwarded, [forwarded EXCEPT ![At(k)] = forwarded[At(k)] \cup {k}]}
           /\ refused' \in {refused, refused \cup {<<At(k), k>>}}
<1>1. /\ sessions[Host][m.id] = Known(k)
      /\ (IF Known(k) = 0 THEN target + 1 ELSE Known(k)) = At(k)
      /\ (IF Known(k) = 0 THEN New ELSE dedup[At(k)]) = WindowOf(k)
      /\ IsDuplicate(WindowOf(k), m.seq) = Refuses(k)
  BY DEF Known, At, WindowOf, Refuses
<1>2. /\ At(k) \in Targets
      /\ target' = IF Known(k) = 0 THEN At(k) ELSE target
      /\ sessions' = [sessions EXCEPT ![Host][sent[k].session] = At(k)]
      /\ dedup' = [dedup EXCEPT ![At(k)] = Mark(WindowOf(k), sent[k].seq, cfg.dedup_window)]
  BY <1>1, Zenon DEF HandlePacket
<1>3. client_paths' = IF Refuses(k) THEN client_paths
                      ELSE [client_paths EXCEPT ![Host][sent[k].session] =
                               WithPath(client_paths[Host][sent[k].session], p)]
  BY <1>1, Zenon DEF HandlePacket
<1>4. passed' = IF Refuses(k) THEN passed
                ELSE [passed EXCEPT ![At(k)] = Append(passed[At(k)], k)]
  BY <1>1, Zenon DEF HandlePacket
<1>5. forwarded' \in {forwarded, [forwarded EXCEPT ![At(k)] = forwarded[At(k)] \cup {k}]}
  <2>1. forwarded' = IF IsDuplicate(WindowOf(k), m.seq) \/ ~reached THEN forwarded
                     ELSE [forwarded EXCEPT ![At(k)] = forwarded[At(k)] \cup {k}]
    BY <1>1, Zenon DEF HandlePacket
  <2> QED
    BY <2>1
<1>6. refused' \in {refused, refused \cup {<<At(k), k>>}}
  <2>1. \/ refused' = refused
        \/ refused' = refused \cup {<<At(k), k>>}
    BY <1>1, Zenon DEF HandlePacket
  <2> QED
    BY <2>1
<1> QED
  BY <1>2, <1>3, <1>4, <1>5, <1>6

\* The types of what it assigns.
LEMMA HandledTypes ==
    ASSUME RelayInv, NEW k \in 1..Len(sent), NEW m, NEW p \in UdpPaths \cup TcpPaths, NEW reached,
           m.id = sent[k].session, m.seq = sent[k].seq, m.payload[1] = k,
           HandlePacket(Host, m, p, reached), Host \in Ips
    PROVE  /\ target' \in 0..MaxTargets /\ target <= target' /\ At(k) <= target'
           /\ sessions' \in [Ips -> [ClientSessions -> 0..target']]
           /\ dedup' \in [Targets -> Window]
           /\ \A o \in Targets : WellFormed(dedup'[o])
           /\ client_paths' \in [Ips -> [ClientSessions -> SUBSET (UdpPaths \cup TcpPaths)]]
           /\ passed' \in [Targets -> Seq(1..Len(sent))]
           /\ forwarded' \in [Targets -> SUBSET (1..Len(sent))]
           /\ refused' \subseteq Targets \X (1..Len(sent))
<1> DEFINE s == sent[k].session
           o == At(k)
<1>1. /\ Known(k) \in 0..target /\ s \in ClientSessions /\ sent[k].seq \in Nat
      /\ o \in Targets /\ WellFormed(WindowOf(k))
  BY HandledAt, Handled, Zenon
<1>2. /\ target \in Nat /\ target <= MaxTargets /\ MaxTargets \in Nat /\ o \in Nat
      /\ cfg.dedup_window \in Nat \ {0}
  BY TypeFacts, ConfiguredFacts, HandledAt DEF RelayInv
<1>3. target' \in 0..MaxTargets /\ target <= target' /\ o <= target' /\ o \in 0..target'
  <2>1. target' = IF Known(k) = 0 THEN o ELSE target
    BY Handled, Zenon
  <2>2. o = IF Known(k) = 0 THEN target + 1 ELSE Known(k)
    BY DEF At
  <2>3. o <= MaxTargets
    BY <1>1, <1>2 DEF Targets
  <2> HIDE DEF o
  <2> QED
    BY <1>1, <1>2, <2>1, <2>2, <2>3
<1> HIDE DEF o, s
<1>4. sessions' \in [Ips -> [ClientSessions -> 0..target']]
  <2>1. /\ sessions' = [sessions EXCEPT ![Host][s] = o]
        /\ sessions \in [Ips -> [ClientSessions -> 0..target]]
    BY Handled, Zenon DEF RelayInv, TypeOK, ServersOK, s, o
  <2>2. 0..target \subseteq 0..target'
    BY <1>2, <1>3
  <2>3. sessions \in [Ips -> [ClientSessions -> 0..target']]
    BY <2>1, <2>2
  <2> QED
    BY <1>1, <1>3, <2>1, <2>3
<1>5. dedup' \in [Targets -> Window] /\ \A x \in Targets : WellFormed(dedup'[x])
  <2>1. PICK w : w = Mark(WindowOf(k), sent[k].seq, cfg.dedup_window)
    OBVIOUS
  <2>2. WellFormed(w) /\ w \in Window
    <3>1. WellFormed(w)
      BY <1>1, <1>2, <2>1, MarkWellFormed
    <3> QED
      BY <3>1 DEF WellFormed
  <2>3. dedup' = [dedup EXCEPT ![o] = w]
    BY <2>1, Handled, Zenon DEF o
  <2>4. dedup \in [Targets -> Window] /\ \A x \in Targets : WellFormed(dedup[x])
    BY DEF RelayInv, TypeOK, ServersOK
  <2> QED
    BY <1>1, <2>2, <2>3, <2>4
<1>6. client_paths' \in [Ips -> [ClientSessions -> SUBSET (UdpPaths \cup TcpPaths)]]
  <2>1. client_paths \in [Ips -> [ClientSessions -> SUBSET (UdpPaths \cup TcpPaths)]]
    BY DEF RelayInv, TypeOK, ServersOK
  <2>2. PICK ps : ps = WithPath(client_paths[Host][s], p)
    OBVIOUS
  <2>3. ps \in SUBSET (UdpPaths \cup TcpPaths)
    <3>1. client_paths[Host][s] \in SUBSET (UdpPaths \cup TcpPaths)
      BY <1>1, <2>1
    <3> QED
      BY <2>2, <3>1 DEF WithPath
  <2>4. client_paths' = client_paths \/ client_paths' = [client_paths EXCEPT ![Host][s] = ps]
    <3>1. client_paths' = IF Refuses(k) THEN client_paths
                          ELSE [client_paths EXCEPT ![Host][s] =
                                   WithPath(client_paths[Host][s], p)]
      BY Handled DEF s
    <3> QED
      BY <2>2, <3>1, Zenon
  <2> QED
    BY <1>1, <2>1, <2>3, <2>4
<1>7. passed' \in [Targets -> Seq(1..Len(sent))]
  <2>1. passed \in [Targets -> Seq(1..Len(sent))]
    BY DEF RelayInv, TypeOK, HistoryOK
  <2>2. PICK x : x = Append(passed[o], k)
    OBVIOUS
  <2>3. x \in Seq(1..Len(sent))
    <3>1. passed[o] \in Seq(1..Len(sent))
      BY <1>1, <2>1
    <3> QED
      BY <2>2, <3>1, AppendProperties, Zenon
  <2>4. passed' = passed \/ passed' = [passed EXCEPT ![o] = x]
    BY <2>2, Handled, Zenon DEF o
  <2> QED
    BY <1>1, <2>1, <2>3, <2>4
<1>8. forwarded' \in [Targets -> SUBSET (1..Len(sent))]
  <2>1. forwarded \in [Targets -> SUBSET (1..Len(sent))]
    BY DEF RelayInv, TypeOK, HistoryOK
  <2>2. forwarded' \in {forwarded, [forwarded EXCEPT ![o] = forwarded[o] \cup {k}]}
    BY Handled, Zenon DEF o
  <2>3. forwarded[o] \cup {k} \in SUBSET (1..Len(sent))
    BY <1>1, <2>1
  <2> QED
    BY <1>1, <2>1, <2>2, <2>3
<1>9. refused' \subseteq Targets \X (1..Len(sent))
  <2>1. refused \subseteq Targets \X (1..Len(sent))
    BY DEF RelayInv, TypeOK, HistoryOK
  <2>2. refused' \in {refused, refused \cup {<<o, k>>}}
    BY Handled, Zenon DEF o
  <2> QED
    BY <1>1, <2>1, <2>2
<1> QED
  BY <1>3, <1>4, <1>5, <1>6, <1>7, <1>8, <1>9 DEF o

\* Which sessions and packets it leaves where.
LEMMA HandledKeeps ==
    ASSUME RelayInv, NEW k \in 1..Len(sent), NEW m, NEW p \in UdpPaths \cup TcpPaths, NEW reached,
           m.id = sent[k].session, m.seq = sent[k].seq, m.payload[1] = k,
           HandlePacket(Host, m, p, reached), Host \in Ips,
           cfg' = cfg, used' = used, sent' = sent, returned' = returned,
           response_dedup' = response_dedup, answered' = answered
    PROVE  Remembered'
<1> DEFINE s == sent[k].session
           o == At(k)
<1>1. /\ Known(k) \in 0..target /\ s \in ClientSessions /\ sent[k].seq \in Nat
      /\ o \in Targets /\ WellFormed(WindowOf(k))
      /\ Refuses(k) => Known(k) # 0
      /\ Known(k) # 0 => Refuses(k) = IsDuplicate(dedup[At(k)], sent[k].seq)
  BY HandledAt, Handled, Zenon
<1>2. /\ target \in Nat /\ o \in Nat /\ target' \in Nat
      /\ cfg.dedup_window \in Nat \ {0} /\ target <= target' /\ o <= target'
  <2>1. target' \in 0..MaxTargets /\ target <= target' /\ o <= target'
    BY HandledTypes, Zenon
  <2>2. o \in Nat
    BY HandledAt, Zenon
  <2> HIDE DEF o
  <2> QED
    BY <2>1, <2>2, TypeFacts, ConfiguredFacts DEF RelayInv
<1>3. \A x \in Targets : x > target => passed[x] = <<>>
  BY DEF RelayInv, Remembered, Unborn
<1>4. /\ passed \in [Targets -> Seq(1..Len(sent))]
      /\ sessions \in [Ips -> [ClientSessions -> 0..target]]
      /\ dedup \in [Targets -> Window] /\ \A x \in Targets : WellFormed(dedup[x])
  BY DEF RelayInv, TypeOK, HistoryOK, ServersOK
<1>5. o = IF Known(k) = 0 THEN target + 1 ELSE Known(k)
  BY DEF At
<1>6. /\ sessions' = [sessions EXCEPT ![Host][s] = o]
      /\ dedup' = [dedup EXCEPT ![o] = Mark(WindowOf(k), sent[k].seq, cfg.dedup_window)]
      /\ passed' = IF Refuses(k) THEN passed ELSE [passed EXCEPT ![o] = Append(passed[o], k)]
  BY Handled, Zenon
<1>7. Known(k) = sessions[Host][s]
  BY DEF Known
<1> HIDE DEF o, s
<1>8. Unborn'
  <2>1. ASSUME NEW x \in Targets, x > target' PROVE passed'[x] = <<>>
    <3>1. x # o /\ x > target
      BY <1>2, <2>1 DEF Targets
    <3> QED
      BY <1>3, <1>4, <1>6, <3>1
  <2> QED
    BY <2>1 DEF RelayInv, Remembered, Unborn
<1>9. OneOwner'
  <2>1. /\ \A h \in Ips, x \in ClientSessions : sessions[h][x] # 0 => h = Host
        /\ \A h \in Ips : \A x, y \in ClientSessions :
              sessions[h][x] # 0 /\ sessions[h][x] = sessions[h][y] => x = y
    BY DEF RelayInv, Remembered, OneOwner
  <2>2. Host' = Host
    BY CfgFixed
  <2>3. \A h \in Ips, x \in ClientSessions :
           sessions'[h][x] = IF h = Host /\ x = s THEN o ELSE sessions[h][x]
    BY <1>1, <1>4, <1>6
  <2>4. \A x \in ClientSessions : sessions[Host][x] = o /\ o # 0 => x = s
    <3> SUFFICES ASSUME NEW x \in ClientSessions, sessions[Host][x] = o, o # 0 PROVE x = s
      OBVIOUS
    <3>1. sessions[Host][x] \in 0..target
      BY <1>4
    <3>2. Known(k) # 0 /\ o = sessions[Host][s]
      BY <1>2, <1>5, <1>7, <3>1
    <3> QED
      BY <1>1, <2>1, <3>2
  <2>5. \A h \in Ips, x \in ClientSessions : sessions'[h][x] # 0 => h = Host
    BY <2>1, <2>3
  <2>6. ASSUME NEW h \in Ips, NEW x \in ClientSessions, NEW y \in ClientSessions,
               sessions'[h][x] # 0, sessions'[h][x] = sessions'[h][y]
        PROVE  x = y
    <3>1. h = Host
      BY <2>5, <2>6
    <3>2. CASE x = s
      BY <1>1, <2>3, <2>4, <2>6, <3>1, <3>2
    <3>3. CASE y = s
      BY <1>1, <2>3, <2>4, <2>6, <3>1, <3>3
    <3>4. CASE x # s /\ y # s
      BY <2>1, <2>3, <2>6, <3>4
    <3> QED
      BY <3>2, <3>3, <3>4
  <2> QED
    BY <2>2, <2>5, <2>6 DEF OneOwner
<1>10. PassedRecorded'
  <2>1. PICK q : q = sent[k].seq /\ q \in Nat
    BY <1>1
  <2>2. PICK w : w = WindowOf(k) /\ WellFormed(w)
    BY <1>1
  <2>3. PICK v : v = Mark(w, q, cfg.dedup_window)
    OBVIOUS
  <2>4. dedup' = [dedup EXCEPT ![o] = v]
    BY <1>6, <2>1, <2>2, <2>3
  <2>5. IsDuplicate(v, q) /\ \A z \in Nat : IsDuplicate(w, z) => IsDuplicate(v, z)
    BY <1>2, <2>1, <2>2, <2>3, MarkRecords, DuplicateStable
  <2>6. \A x \in Targets : \A i \in DOMAIN passed[x] :
           /\ IsDuplicate(dedup[x], sent[passed[x][i]].seq)
           /\ sent[passed[x][i]].seq \in Nat
    <3> SUFFICES ASSUME NEW x \in Targets, NEW i \in DOMAIN passed[x]
                 PROVE  /\ IsDuplicate(dedup[x], sent[passed[x][i]].seq)
                        /\ sent[passed[x][i]].seq \in Nat
      OBVIOUS
    <3>1. passed[x] \in Seq(1..Len(sent))
      BY <1>4
    <3>2. passed[x][i] \in 1..Len(sent)
      BY <3>1
    <3>3. sent[passed[x][i]].seq \in Nat
      BY <3>2, SentFacts DEF RelayInv
    <3> QED
      BY <3>3 DEF RelayInv, Remembered, PassedRecorded
  <2>7. \A i \in DOMAIN passed[o] : IsDuplicate(v, sent[passed[o][i]].seq)
    <3>1. CASE Known(k) = 0
      <4>1. passed[o] = <<>>
        BY <1>1, <1>2, <1>3, <1>5, <3>1
      <4> QED
        BY <4>1, NoPackets
    <3>2. CASE Known(k) # 0
      <4>1. w = dedup[o]
        BY <2>2, <3>2 DEF WindowOf, o
      <4> QED
        BY <1>1, <2>5, <2>6, <4>1
    <3> QED
      BY <3>1, <3>2
  <2> SUFFICES ASSUME NEW x \in Targets, NEW i \in DOMAIN passed'[x]
               PROVE  IsDuplicate(dedup'[x], sent[passed'[x][i]].seq)
    BY DEF PassedRecorded
  <2>8. CASE x # o
    <3>1. passed'[x] = passed[x] /\ dedup'[x] = dedup[x]
      BY <1>4, <1>6, <2>8
    <3> QED
      BY <2>6, <3>1
  <2>9. CASE x = o
    <3>1. dedup'[x] = v
      BY <1>1, <1>4, <2>4, <2>9
    <3>2. CASE passed' = passed
      BY <2>7, <2>9, <3>1, <3>2
    <3>3. CASE passed' = [passed EXCEPT ![o] = Append(passed[o], k)]
      <4>1. passed[o] \in Seq(1..Len(sent))
        BY <1>1, <1>4
      <4>2. PICK l : l = passed'[x] /\ l = Append(passed[o], k)
        BY <1>1, <1>4, <2>9, <3>3
      <4>3. /\ DOMAIN l = 1..Len(passed[o]) + 1 /\ DOMAIN passed[o] = 1..Len(passed[o])
            /\ Len(passed[o]) \in Nat
            /\ \A j \in 1..Len(passed[o]) : l[j] = passed[o][j]
            /\ l[Len(passed[o]) + 1] = k
        BY <4>1, <4>2
      <4>4. i \in 1..Len(passed[o]) \/ i = Len(passed[o]) + 1
        BY <4>2, <4>3
      <4> QED
        BY <2>1, <2>5, <2>7, <3>1, <4>2, <4>3, <4>4
    <3> QED
      BY <1>6, <3>2, <3>3
  <2> QED
    BY <2>8, <2>9
<1>11. ReturnedRecorded'
  BY DEF RelayInv, Remembered, ReturnedRecorded
<1> QED
  BY <1>8, <1>9, <1>10, <1>11 DEF Remembered

\* The one path it adds.
LEMMA HandledPaths ==
    ASSUME RelayInv, NEW k \in 1..Len(sent), NEW m, NEW p \in UdpPaths \cup TcpPaths, NEW reached,
           m.id = sent[k].session, m.seq = sent[k].seq, m.payload[1] = k,
           HandlePacket(Host, m, p, reached), Host \in Ips,
           NEW c \in Connections, NEW x \in ClientSessions,
           PathOfConn(c) \in client_paths'[Host][x]
    PROVE  \/ PathOfConn(c) \in client_paths[Host][x]
           \/ ~Refuses(k) /\ x = sent[k].session /\ PathOfConn(c) = p
<1>1. client_paths' = IF Refuses(k) THEN client_paths
                      ELSE [client_paths EXCEPT ![Host][sent[k].session] =
                               WithPath(client_paths[Host][sent[k].session], p)]
  BY Handled
<1>2. client_paths \in [Ips -> [ClientSessions -> SUBSET (UdpPaths \cup TcpPaths)]]
  BY DEF RelayInv, TypeOK, ServersOK
<1>3. PICK ps : ps = WithPath(client_paths[Host][sent[k].session], p)
  OBVIOUS
<1>4. \A z \in ps : z \in client_paths[Host][sent[k].session] \/ z = p
  BY <1>3 DEF WithPath
<1>5. CASE Refuses(k)
  BY <1>1, <1>5
<1>6. CASE ~Refuses(k)
  <2>1. client_paths' = [client_paths EXCEPT ![Host][sent[k].session] = ps]
    BY <1>1, <1>3, <1>6
  <2>2. client_paths'[Host][x] = IF x = sent[k].session THEN ps ELSE client_paths[Host][x]
    BY <1>2, <2>1
  <2> QED
    BY <1>4, <1>6, <2>2
<1> QED
  BY <1>5, <1>6

\* What a step of a server leaves alone of the types.
LEMMA ServerStepType ==
    ASSUME TypeOK, UNCHANGED <<cfg, client, dialed, faults, sent, replies>>,
           ServersOK', conns' \in [Connections -> Conn],
           passed' \in [Targets -> Seq(1..Len(sent))],
           forwarded' \in [Targets -> SUBSET (1..Len(sent))],
           refused' \subseteq Targets \X (1..Len(sent)),
           served' \in [Connections -> 0..used], target <= target'
    PROVE  TypeOK'
<1>1. /\ cfg' = cfg /\ current' = current /\ used' = used /\ seq' = seq
      /\ response_dedup' = response_dedup /\ tcp_sessions' = tcp_sessions /\ born' = born
      /\ dialed' = dialed /\ faults' = faults /\ sent' = sent
      /\ answered' = answered /\ returned' = returned /\ unheard' = unheard
  BY DEF client, replies
<1>2. Connections' = Connections /\ Endpoints("tcp")' = Endpoints("tcp")
  BY <1>1, CfgFixed
<1>3. ClientOK'
  BY <1>1, <1>2 DEF TypeOK, ClientOK
<1>4. NetworkOK'
  BY <1>1, <1>2 DEF TypeOK, NetworkOK, Conn
<1>5. answered \in Seq([target : 1..target', n : 0..SeqRange - 1])
  <2>1. target \in Nat /\ target' \in Nat
    BY TypeFacts DEF ServersOK
  <2>2. [target : 1..target, n : 0..SeqRange - 1]
           \subseteq [target : 1..target', n : 0..SeqRange - 1]
    BY <2>1
  <2>3. answered \in Seq([target : 1..target, n : 0..SeqRange - 1])
    BY TypeFacts
  <2> QED
    BY <2>2, <2>3, SeqMonotonic, Zenon
<1>6. HistoryOK'
  <2>1. /\ sent \in Seq([session : 1..used, seq : 0..SeqRange - 1, n : Nat])
        /\ Len(sent) <= Len(PayloadLen) /\ Len(answered) <= MaxResponses
        /\ returned \in [ClientSessions -> SUBSET (1..Len(answered))]
        /\ unheard \subseteq ClientSessions \X (1..Len(answered))
    BY DEF TypeOK, HistoryOK
  <2> QED
    BY <1>1, <1>2, <1>5, <2>1 DEF HistoryOK
<1> QED
  BY <1>1, <1>3, <1>4, <1>6 DEF TypeOK

LEMMA DatagramPacket ==
    ASSUME RelayInv, NEW d \in net_up
    PROVE  /\ d[1] \in UdpPaths /\ d[1].ep.host = Host /\ Host \in Ips
           /\ \E k \in 1..Len(sent) :
                 LET m == decode_packet(d[2])
                 IN  m.id = sent[k].session /\ m.seq = sent[k].seq /\ m.payload[1] = k
<1>1. d[1] \in UdpPaths /\ d[2] \in SentPackets
  BY DEF RelayInv, Carried, InFlight
<1>2. d[1].ep.host = Host /\ Host \in Ips
  BY <1>1, TypeFacts, PathFacts DEF RelayInv
<1>3. PICK k \in 1..Len(sent) : d[2] = PacketOf(sent[k], k)
  BY <1>1 DEF SentPackets
<1>4. /\ sent[k] \in [session : 1..MaxSessions, seq : 0..SeqRange - 1, n : Nat]
      /\ k \in Packets
  BY SentFacts DEF RelayInv
<1>5. LET m == decode_packet(d[2])
      IN  m.id = sent[k].session /\ m.seq = sent[k].seq /\ m.payload[1] = k
  BY <1>3, <1>4, PacketFacts
<1> QED
  BY <1>1, <1>2, <1>5

LEMMA RecvUdpKeeps ==
    ASSUME RelayInv, NEW d, NEW reached, RecvUdp(d, reached)
    PROVE  RelayInv'
<1>1. PICK k \in 1..Len(sent) :
         LET m == decode_packet(d[2])
         IN  m.id = sent[k].session /\ m.seq = sent[k].seq /\ m.payload[1] = k
  BY DatagramPacket DEF RecvUdp
<1>2. PICK m : m = decode_packet(d[2])
  OBVIOUS
<1>3. d[1] \in UdpPaths /\ d[1].ep.host = Host /\ Host \in Ips
  BY DatagramPacket, Zenon DEF RecvUdp
<1>4. PICK p : p = d[1] /\ p \in UdpPaths
  BY <1>3
<1>5. /\ m.id = sent[k].session /\ m.seq = sent[k].seq /\ m.payload[1] = k
      /\ HandlePacket(Host, m, p, reached)
  BY <1>1, <1>2, <1>3, <1>4, Zenon DEF RecvUdp
<1>6. /\ UNCHANGED <<cfg, client, dialed, faults, sent, replies>>
      /\ response_seq' = response_seq /\ conn_to_session' = conn_to_session
      /\ served' = served /\ conns' = conns /\ net_up' = net_up /\ net_down' = net_down
  BY DEF RecvUdp, network
<1>7. /\ cfg' = cfg /\ born' = born /\ used' = used /\ response_dedup' = response_dedup
      /\ sent' = sent /\ answered' = answered /\ returned' = returned
  BY <1>6 DEF client, replies
<1>8. /\ Connections' = Connections /\ TcpPaths' = TcpPaths /\ UdpPaths' = UdpPaths
      /\ SentPackets' = SentPackets /\ UpItems' = UpItems
      /\ ResponsePackets' = ResponsePackets /\ DownItems' = DownItems
  BY <1>7, CfgFixed, UdpPathsFixed, SentFixed, AnsweredFixed
<1>9. TypeOK /\ p \in UdpPaths \cup TcpPaths
  BY <1>4 DEF RelayInv
<1>10. /\ target' \in 0..MaxTargets /\ target <= target' /\ At(k) <= target'
       /\ sessions' \in [Ips -> [ClientSessions -> 0..target']]
       /\ dedup' \in [Targets -> Window]
       /\ \A o \in Targets : WellFormed(dedup'[o])
       /\ client_paths' \in [Ips -> [ClientSessions -> SUBSET (UdpPaths \cup TcpPaths)]]
       /\ passed' \in [Targets -> Seq(1..Len(sent))]
       /\ forwarded' \in [Targets -> SUBSET (1..Len(sent))]
       /\ refused' \subseteq Targets \X (1..Len(sent))
  BY <1>3, <1>5, <1>9, HandledTypes, Zenon
<1>11. ServersOK'
  BY <1>6, <1>7, <1>8, <1>9, <1>10 DEF TypeOK, ServersOK
<1>12. TypeOK'
  <2>1. conns' \in [Connections -> Conn] /\ served' \in [Connections -> 0..used]
    BY <1>6, <1>9, TypeFacts
  <2> QED
    BY <1>6, <1>9, <1>10, <1>11, <2>1, ServerStepType, Zenon
<1>13. Carried'
  BY <1>6, <1>8 DEF RelayInv, Carried, InFlight, StreamsOK
<1>14. Remembered'
  BY <1>3, <1>5, <1>7, <1>9, HandledKeeps, Zenon
<1>15. PathsServed'
  <2> SUFFICES ASSUME NEW c \in Connections, NEW s \in ClientSessions,
                      PathOfConn(c) \in client_paths'[c[1].host][s]
               PROVE  \/ s < served[c]
                      \/ s = served[c] /\ conns[c].server /\ conn_to_session[c] = s
    BY <1>6, <1>8 DEF PathsServed
  <2>1. c[1].host = Host /\ IsStream(PathOfConn(c)) /\ ~IsStream(p)
    BY <1>4, <1>9, TypeFacts, PathFacts
  <2>2. PathOfConn(c) \in client_paths[Host][s]
    BY <1>3, <1>5, <1>9, <2>1, HandledPaths
  <2> QED
    BY <2>1, <2>2 DEF RelayInv, PathsServed
<1> QED
  BY <1>12, <1>13, <1>14, <1>15 DEF RelayInv

\* The next frame of a connection is a packet of the last session it served or
\* of a later one.
LEMMA FramePacket ==
    ASSUME RelayInv, NEW c \in Connections, HasFrame(conns[c].up)
    PROVE  \E k \in 1..Len(sent) :
              LET m == decode_packet(FirstFrame(conns[c].up))
              IN  /\ m.id = sent[k].session /\ m.seq = sent[k].seq
                  /\ m.payload # <<>> /\ m.payload[1] = k /\ Len(m.payload) = PayloadLen[k]
                  /\ ~TooShort(FirstFrame(conns[c].up))
                  /\ served[c] <= sent[k].session
                  /\ Stream(UpItems, sent[k].session, AfterFrame(conns[c].up))
<1>1. PICK b : b = conns[c].up
  OBVIOUS
<1>2. Stream(UpItems, served[c], b) /\ b # <<>>
  BY <1>1 DEF RelayInv, Carried, StreamsOK, HasFrame
<1>3. TypeOK /\ UpItems \subseteq Nat \X Frames
  BY ItemsOK DEF RelayInv
<1>4. PICK i \in UpItems : /\ FirstFrame(b) = i[2] /\ served[c] <= i[1]
                           /\ Stream(UpItems, i[1], AfterFrame(b))
  BY <1>2, <1>3, StreamHead, Zenon
<1>5. PICK k \in 1..Len(sent) : i[1] = sent[k].session /\ i[2] = PacketOf(sent[k], k)
  BY <1>3, ItemsOK
<1>6. /\ sent[k] \in [session : 1..MaxSessions, seq : 0..SeqRange - 1, n : Nat]
      /\ k \in Packets
  BY <1>3, SentFacts
<1>7. PICK p : p = PacketOf(sent[k], k)
  OBVIOUS
<1>8. /\ ~TooShort(p)
      /\ decode_packet(p).id = sent[k].session /\ decode_packet(p).seq = sent[k].seq
      /\ decode_packet(p).payload # <<>> /\ decode_packet(p).payload[1] = k
      /\ Len(decode_packet(p).payload) = PayloadLen[k]
  BY <1>6, <1>7, PacketFacts
<1>9. FirstFrame(b) = p /\ served[c] <= sent[k].session
      /\ Stream(UpItems, sent[k].session, AfterFrame(b))
  BY <1>4, <1>5, <1>7
<1> QED
  BY <1>1, <1>8, <1>9

LEMMA UpMoved ==
    ASSUME TypeOK, NEW c \in Connections, NEW y \in Seq(Nat),
           conns' = [conns EXCEPT ![c].up = y]
    PROVE  /\ conns' \in [Connections -> Conn]
           /\ \A d \in Connections :
                 /\ conns'[d].up = (IF d = c THEN y ELSE conns[d].up)
                 /\ conns'[d].down = conns[d].down
                 /\ conns'[d].client = conns[d].client /\ conns'[d].server = conns[d].server
<1>1. conns \in [Connections -> Conn] /\ conns[c] \in Conn
  BY TypeFacts
<1>2. PICK k : k = [conns[c] EXCEPT !.up = y]
  OBVIOUS
<1>3. /\ k \in Conn /\ k.up = y /\ k.down = conns[c].down
      /\ k.client = conns[c].client /\ k.server = conns[c].server
  BY <1>1, <1>2, ConnUp
<1>4. conns' = [conns EXCEPT ![c] = k]
  BY <1>2
<1> QED
  BY <1>1, <1>3, <1>4

LEMMA RecvTcpKeeps ==
    ASSUME RelayInv, NEW c \in Connections, NEW reached, RecvTcp(c, reached)
    PROVE  RelayInv'
<1>1. PICK m : m = decode_packet(FirstFrame(conns[c].up))
  OBVIOUS
<1>2. HasFrame(conns[c].up)
  BY DEF RecvTcp
<1>3. PICK k \in 1..Len(sent) :
         /\ m.id = sent[k].session /\ m.seq = sent[k].seq /\ m.payload[1] = k
         /\ served[c] <= sent[k].session
         /\ Stream(UpItems, sent[k].session, AfterFrame(conns[c].up))
  BY <1>1, <1>2, FramePacket
<1>4. PICK p : p = PathOfConn(c)
  OBVIOUS
<1>5. TypeOK /\ c[1].host = Host /\ Host \in Ips /\ p \in UdpPaths \cup TcpPaths
  BY <1>4, TypeFacts, PathFacts DEF RelayInv
<1>6. HandlePacket(Host, m, p, reached)
  BY <1>1, <1>4, <1>5, Zenon DEF RecvTcp
<1>7. /\ UNCHANGED <<cfg, client, dialed, faults, sent, replies>>
      /\ response_seq' = response_seq /\ net_up' = net_up /\ net_down' = net_down
      /\ conns[c].server
      /\ conns' = [conns EXCEPT ![c].up = AfterFrame(conns[c].up)]
  BY DEF RecvTcp
<1>8. /\ cfg' = cfg /\ born' = born /\ used' = used /\ response_dedup' = response_dedup
      /\ sent' = sent /\ answered' = answered /\ returned' = returned
  BY <1>7 DEF client, replies
<1>9. /\ Connections' = Connections /\ TcpPaths' = TcpPaths /\ UdpPaths' = UdpPaths
      /\ SentPackets' = SentPackets /\ UpItems' = UpItems
      /\ ResponsePackets' = ResponsePackets /\ DownItems' = DownItems
  BY <1>8, CfgFixed, UdpPathsFixed, SentFixed, AnsweredFixed
<1>10. /\ sent[k].session \in ClientSessions /\ sent[k].session \in 1..used
       /\ used \in Nat
  BY <1>5, SentFacts, TypeFacts
<1>11. /\ conn_to_session' = IF Refuses(k) THEN conn_to_session
                             ELSE [conn_to_session EXCEPT ![c] = sent[k].session]
       /\ served' = IF Refuses(k) THEN served ELSE [served EXCEPT ![c] = sent[k].session]
  <2>1. Refuses(k) <=> sessions[Host][m.id] # 0 /\ IsDuplicate(dedup[sessions[Host][m.id]], m.seq)
    <3>1. sessions[Host][m.id] = Known(k)
      BY <1>3 DEF Known
    <3>2. CASE Known(k) = 0
      <4>1. ~Refuses(k)
        BY <3>2, NewWindow, Zenon DEF Refuses, WindowOf
      <4> QED
        BY <3>1, <3>2, <4>1
    <3>3. CASE Known(k) # 0
      <4>1. Refuses(k) <=> IsDuplicate(dedup[Known(k)], m.seq)
        BY <1>3, <3>3, Zenon DEF Refuses, WindowOf, At
      <4> QED
        BY <3>1, <3>3, <4>1
    <3> QED
      BY <3>2, <3>3
  <2>2. /\ conn_to_session' = IF Refuses(k) THEN conn_to_session
                              ELSE [conn_to_session EXCEPT ![c] = m.id]
        /\ served' = IF Refuses(k) THEN served ELSE [served EXCEPT ![c] = m.id]
    BY <1>1, <1>5, <2>1, Zenon DEF RecvTcp
  <2> QED
    BY <1>3, <2>2
<1>12. /\ conn_to_session \in [Connections -> 0..used] /\ served \in [Connections -> 0..used]
       /\ response_seq \in [Targets -> 0..SeqRange - 1]
  BY <1>5 DEF TypeOK, ServersOK, HistoryOK
<1>13. /\ conn_to_session' \in [Connections -> 0..used] /\ served' \in [Connections -> 0..used]
       /\ \A d \in Connections : d # c =>
             conn_to_session'[d] = conn_to_session[d] /\ served'[d] = served[d]
       /\ Refuses(k) => conn_to_session' = conn_to_session /\ served' = served
       /\ ~Refuses(k) => conn_to_session'[c] = sent[k].session /\ served'[c] = sent[k].session
  <2>1. sent[k].session \in 0..used
    BY <1>10
  <2>2. CASE Refuses(k)
    BY <1>11, <1>12, <2>2
  <2>3. CASE ~Refuses(k)
    BY <1>11, <1>12, <2>1, <2>3
  <2> QED
    BY <2>2, <2>3
<1>14. PICK y \in Seq(Nat) : y = AfterFrame(conns[c].up) /\ Stream(UpItems, sent[k].session, y)
  BY <1>3, StreamBytes
<1>15. /\ conns' \in [Connections -> Conn]
       /\ \A d \in Connections :
             /\ conns'[d].up = (IF d = c THEN y ELSE conns[d].up)
             /\ conns'[d].down = conns[d].down /\ conns'[d].server = conns[d].server
  <2>1. conns' = [conns EXCEPT ![c].up = y]
    BY <1>7, <1>14
  <2> QED
    BY <1>5, <2>1, UpMoved
<1>16. /\ target' \in 0..MaxTargets /\ target <= target' /\ At(k) <= target'
       /\ sessions' \in [Ips -> [ClientSessions -> 0..target']]
       /\ dedup' \in [Targets -> Window]
       /\ \A o \in Targets : WellFormed(dedup'[o])
       /\ client_paths' \in [Ips -> [ClientSessions -> SUBSET (UdpPaths \cup TcpPaths)]]
       /\ passed' \in [Targets -> Seq(1..Len(sent))]
       /\ forwarded' \in [Targets -> SUBSET (1..Len(sent))]
       /\ refused' \subseteq Targets \X (1..Len(sent))
  BY <1>3, <1>5, <1>6, HandledTypes, Zenon
<1>17. ServersOK'
  BY <1>7, <1>8, <1>9, <1>12, <1>13, <1>16 DEF ServersOK
<1>18. TypeOK'
  BY <1>5, <1>7, <1>13, <1>15, <1>16, <1>17, ServerStepType, Zenon
<1>19. Remembered'
  BY <1>3, <1>5, <1>6, <1>8, HandledKeeps, Zenon
<1>20. StreamsOK'
  <2> SUFFICES ASSUME NEW d \in Connections
               PROVE  /\ Stream(UpItems, served'[d], conns'[d].up)
                      /\ Stream(DownItems, 0, conns'[d].down)
    BY <1>9 DEF StreamsOK
  <2>1. Stream(UpItems, served[d], conns[d].up) /\ Stream(DownItems, 0, conns[d].down)
    BY DEF RelayInv, Carried, StreamsOK
  <2>2. CASE d # c
    BY <1>13, <1>15, <2>1, <2>2
  <2>3. CASE d = c
    <3>1. served'[c] \in Nat /\ served'[c] <= sent[k].session
      BY <1>3, <1>10, <1>12, <1>13
    <3>2. UpItems \subseteq Nat \X Frames
      BY <1>5, ItemsOK
    <3>3. Stream(UpItems, served'[c], y)
      BY <1>14, <3>1, <3>2, StreamLower
    <3> QED
      BY <1>15, <2>1, <2>3, <3>3
  <2> QED
    BY <2>2, <2>3
<1>21. InFlight'
  BY <1>7, <1>9 DEF RelayInv, Carried, InFlight
<1>22. PathsServed'
  <2> SUFFICES ASSUME NEW d \in Connections, NEW s \in ClientSessions,
                      PathOfConn(d) \in client_paths'[d[1].host][s]
               PROVE  \/ s < served'[d]
                      \/ s = served'[d] /\ conns'[d].server /\ conn_to_session'[d] = s
    BY <1>9 DEF PathsServed
  <2>1. d[1].host = Host
    BY <1>5, TypeFacts, PathFacts
  <2>2. \/ PathOfConn(d) \in client_paths[Host][s]
        \/ ~Refuses(k) /\ s = sent[k].session /\ PathOfConn(d) = p
    BY <1>3, <1>5, <1>6, <2>1, HandledPaths
  <2>3. CASE PathOfConn(d) \in client_paths[Host][s]
    <3>1. \/ s < served[d]
          \/ s = served[d] /\ conns[d].server /\ conn_to_session[d] = s
      BY <2>1, <2>3 DEF RelayInv, PathsServed
    <3>2. CASE d # c \/ Refuses(k)
      BY <1>13, <1>15, <3>1, <3>2
    <3>3. CASE d = c /\ ~Refuses(k)
      <4>1. s \in Nat /\ served[d] \in Nat /\ sent[k].session \in Nat
        BY <1>10, <1>12 DEF ClientSessions
      <4> QED
        BY <1>3, <1>7, <1>13, <1>15, <3>1, <3>3, <4>1
    <3> QED
      BY <3>2, <3>3
  <2>4. CASE ~Refuses(k) /\ s = sent[k].session /\ PathOfConn(d) = p
    <3>1. d = c
      BY <1>4, <1>5, <2>4, TypeFacts, PathFacts
    <3> QED
      BY <1>7, <1>13, <1>15, <2>4, <3>1
  <2> QED
    BY <2>2, <2>3, <2>4
<1> QED
  BY <1>18, <1>19, <1>20, <1>21, <1>22 DEF RelayInv, Carried

-----------------------------------------------------------------------------
(* The other steps *)

\* What is a type still when nothing was sent, handled or answered.
LEMMA QuietType ==
    ASSUME TypeOK,
           UNCHANGED <<cfg, used, seq, target, dedup, response_seq, dialed, sent, passed,
                       forwarded, refused, answered, served>>,
           current' \in {0, used},
           response_dedup' \in [ClientSessions -> Window],
           \A s \in ClientSessions : WellFormed(response_dedup'[s]),
           tcp_sessions' \in [Endpoints("tcp") -> 0..MaxConns],
           \A e \in Endpoints("tcp") : tcp_sessions'[e] <= dialed[e],
           born' \in 1..faults' + 1, faults' \in 0..MaxFaults,
           sessions' \in [Ips -> [ClientSessions -> 0..target]],
           client_paths' \in [Ips -> [ClientSessions -> SUBSET (UdpPaths' \cup TcpPaths)]],
           conn_to_session' \in [Connections -> 0..used],
           conns' \in [Connections -> Conn],
           returned' \in [ClientSessions -> SUBSET (1..Len(answered))],
           unheard' \subseteq ClientSessions \X (1..Len(answered))
    PROVE  TypeOK'
<1>1. /\ cfg' = cfg /\ used' = used /\ seq' = seq /\ target' = target /\ dedup' = dedup
      /\ response_seq' = response_seq /\ dialed' = dialed /\ sent' = sent /\ passed' = passed
      /\ forwarded' = forwarded /\ refused' = refused /\ answered' = answered
      /\ served' = served
  OBVIOUS
<1>2. /\ Connections' = Connections /\ Endpoints("tcp")' = Endpoints("tcp")
      /\ TcpPaths' = TcpPaths
  BY <1>1, CfgFixed
<1>3. ClientOK'
  BY <1>1, <1>2 DEF TypeOK, ClientOK
<1>4. ServersOK'
  BY <1>1, <1>2 DEF TypeOK, ServersOK
<1>5. NetworkOK'
  BY <1>1, <1>2 DEF TypeOK, NetworkOK, Conn
<1>6. HistoryOK'
  BY <1>1, <1>2 DEF TypeOK, HistoryOK
<1> QED
  BY <1>1, <1>3, <1>4, <1>5, <1>6 DEF TypeOK

\* What a step that leaves a variable alone can take of the types.
LEMMA QuietFacts ==
    ASSUME TypeOK
    PROVE  /\ current \in {0, used}
           /\ response_dedup \in [ClientSessions -> Window]
           /\ \A s \in ClientSessions : WellFormed(response_dedup[s])
           /\ tcp_sessions \in [Endpoints("tcp") -> 0..MaxConns]
           /\ \A e \in Endpoints("tcp") : tcp_sessions[e] <= dialed[e]
           /\ born \in 1..faults + 1 /\ faults \in 0..MaxFaults
           /\ sessions \in [Ips -> [ClientSessions -> 0..target]]
           /\ client_paths \in [Ips -> [ClientSessions -> SUBSET (UdpPaths \cup TcpPaths)]]
           /\ conn_to_session \in [Connections -> 0..used]
           /\ conns \in [Connections -> Conn]
           /\ returned \in [ClientSessions -> SUBSET (1..Len(answered))]
           /\ unheard \subseteq ClientSessions \X (1..Len(answered))
BY DEF TypeOK, ClientOK, ServersOK, NetworkOK, HistoryOK, Conn

LEMMA FaultCounted ==
    ASSUME TypeOK, faults < MaxFaults, faults' = faults + 1, born' = born
    PROVE  born' \in 1..faults' + 1 /\ faults' \in 0..MaxFaults
<1>1. born \in 1..faults + 1 /\ faults \in 0..MaxFaults
  BY QuietFacts
<1>2. MaxFaults \in Nat
  BY RelayAssumption
<1> QED
  BY <1>1, <1>2

LEMMA RememberedFixed ==
    ASSUME Remembered,
           UNCHANGED <<cfg, used, target, sessions, dedup, sent, passed, response_dedup,
                       answered, returned>>
    PROVE  Remembered'
<1>1. Unborn'
  BY DEF Remembered, Unborn
<1>2. OneOwner'
  BY CfgFixed DEF Remembered, OneOwner
<1>3. PassedRecorded' /\ ReturnedRecorded'
  BY DEF Remembered, PassedRecorded, ReturnedRecorded
<1> QED
  BY <1>1, <1>2, <1>3 DEF Remembered

\* Streams that are read or lost.
LEMMA CarriedQuiet ==
    ASSUME RelayInv, UNCHANGED <<cfg, net_up, net_down, sent, answered, served>>,
           UdpPaths \subseteq UdpPaths',
           \A c \in Connections :
              /\ \/ conns'[c].up \in {conns[c].up, <<>>}
                 \/ Stream(UpItems, served[c], conns'[c].up)
              /\ \/ conns'[c].down \in {conns[c].down, <<>>}
                 \/ Stream(DownItems, 0, conns'[c].down)
    PROVE  Carried'
<1>1. /\ Connections' = Connections
      /\ SentPackets' = SentPackets /\ UpItems' = UpItems
      /\ ResponsePackets' = ResponsePackets /\ DownItems' = DownItems
  BY CfgFixed, SentFixed, AnsweredFixed
<1>2. InFlight'
  BY <1>1 DEF RelayInv, Carried, InFlight
<1>3. ASSUME NEW c \in Connections
      PROVE  /\ Stream(UpItems, served[c], conns'[c].up)
             /\ Stream(DownItems, 0, conns'[c].down)
  <2>1. Stream(UpItems, served[c], conns[c].up) /\ Stream(DownItems, 0, conns[c].down)
    BY DEF RelayInv, Carried, StreamsOK
  <2>2. served[c] \in Nat
    BY <2>1, StreamBytes
  <2>3. Stream(UpItems, served[c], <<>>) /\ Stream(DownItems, 0, <<>>)
    BY <2>2, StreamEmpty
  <2> QED
    BY <2>1, <2>3
<1>4. StreamsOK'
  BY <1>1, <1>3 DEF StreamsOK
<1> QED
  BY <1>2, <1>4 DEF Carried

\* Paths of a server that may close ends of connections.
LEMMA PathsKept ==
    ASSUME RelayInv, UNCHANGED <<cfg, served>>,
           \A c \in Connections, s \in ClientSessions :
              PathOfConn(c) \in client_paths'[c[1].host][s] =>
                 /\ PathOfConn(c) \in client_paths[c[1].host][s]
                 /\ \/ conns'[c].server = conns[c].server
                       /\ conn_to_session'[c] = conn_to_session[c]
                    \/ conn_to_session[c] # s
    PROVE  PathsServed'
<1>1. Connections' = Connections
  BY CfgFixed
<1> SUFFICES ASSUME NEW c \in Connections, NEW s \in ClientSessions,
                    PathOfConn(c) \in client_paths'[c[1].host][s]
             PROVE  \/ s < served[c]
                    \/ s = served[c] /\ conns'[c].server /\ conn_to_session'[c] = s
  BY <1>1 DEF PathsServed
<1>2. \/ s < served[c]
      \/ s = served[c] /\ conns[c].server /\ conn_to_session[c] = s
  BY DEF RelayInv, PathsServed
<1> QED
  BY <1>2

LEMMA DropTcpKeeps ==
    ASSUME RelayInv, NEW c \in Connections, DropTcp(c)
    PROVE  RelayInv'
<1>1. /\ HasFrame(conns[c].up)
      /\ conns' = [conns EXCEPT ![c].up = AfterFrame(conns[c].up)]
      /\ UNCHANGED <<cfg, client, server, net_up, net_down, dialed, faults, requests, replies>>
  BY DEF DropTcp
<1>2. /\ UNCHANGED <<cfg, used, seq, target, dedup, response_seq, dialed, sent, passed,
                     forwarded, refused, answered, served>>
      /\ UNCHANGED <<current, response_dedup, tcp_sessions, born, faults, sessions,
                     client_paths, conn_to_session, returned, unheard, net_up, net_down>>
  BY <1>1 DEF client, server, requests, replies
<1>3. TypeOK /\ UpItems \subseteq Nat \X Frames
  BY ItemsOK DEF RelayInv
<1>4. PICK k \in 1..Len(sent) :
         /\ served[c] <= sent[k].session
         /\ Stream(UpItems, sent[k].session, AfterFrame(conns[c].up))
  BY <1>1, FramePacket
<1>5. served[c] \in Nat
  BY <1>3, TypeFacts
<1>6. PICK y \in Seq(Nat) : y = AfterFrame(conns[c].up) /\ Stream(UpItems, served[c], y)
  BY <1>3, <1>4, <1>5, StreamLower, StreamBytes
<1>7. /\ conns' \in [Connections -> Conn]
      /\ \A d \in Connections :
            /\ conns'[d].up = (IF d = c THEN y ELSE conns[d].up)
            /\ conns'[d].down = conns[d].down /\ conns'[d].server = conns[d].server
  <2>1. conns' = [conns EXCEPT ![c].up = y]
    BY <1>1, <1>6
  <2> QED
    BY <1>3, <2>1, UpMoved
<1>8. UdpPaths' = UdpPaths
  BY <1>2, UdpPathsFixed
<1>9. TypeOK'
  BY <1>2, <1>3, <1>7, <1>8, QuietType, QuietFacts
<1>10. Carried'
  BY <1>2, <1>6, <1>7, <1>8, CarriedQuiet
<1>11. Remembered'
  BY <1>2, RememberedFixed DEF RelayInv
<1>12. PathsServed'
  BY <1>2, <1>7, PathsKept
<1> QED
  BY <1>9, <1>10, <1>11, <1>12 DEF RelayInv

LEMMA ServerClosesKeeps ==
    ASSUME RelayInv, NEW c \in Connections, ServerCloses(c)
    PROVE  RelayInv'
<1> DEFINE s == conn_to_session[c]
<1>1. /\ client_paths' = IF s = 0 THEN client_paths
                         ELSE [client_paths EXCEPT ![c[1].host][s] =
                                  Unpath(client_paths[c[1].host][s], c)]
      /\ conn_to_session' = [conn_to_session EXCEPT ![c] = 0]
      /\ conns' = [conns EXCEPT ![c].server = FALSE, ![c].up = <<>>]
      /\ UNCHANGED <<cfg, client, sessions, target, dedup, response_seq, net_up,
                     net_down, dialed, faults, requests, replies>>
  BY DEF ServerCloses
<1>2. /\ UNCHANGED <<cfg, used, seq, target, dedup, response_seq, dialed, sent, passed,
                     forwarded, refused, answered, served>>
      /\ UNCHANGED <<current, response_dedup, tcp_sessions, born, faults, sessions,
                     returned, unheard, net_up, net_down>>
  BY <1>1 DEF client, requests, replies
<1>3. TypeOK /\ c[1].host = Host /\ Host \in Ips /\ \A d \in Connections : d[1].host = Host
  BY TypeFacts, PathFacts DEF RelayInv
<1>4. /\ conns \in [Connections -> Conn] /\ conns[c] \in Conn
      /\ conn_to_session \in [Connections -> 0..used]
      /\ client_paths \in [Ips -> [ClientSessions -> SUBSET (UdpPaths \cup TcpPaths)]]
  BY <1>3, TypeFacts, QuietFacts
<1>5. s \in ClientSessions \/ s = 0
  <2>1. conn_to_session[c] \in 0..used /\ used \in Nat /\ used <= MaxSessions
    BY <1>3, <1>4, TypeFacts
  <2>2. MaxSessions \in Nat
    BY RelayAssumption
  <2> QED
    BY <2>1, <2>2 DEF ClientSessions
<1> HIDE DEF s
<1>6. PICK x : x = [conns[c] EXCEPT !.server = FALSE, !.up = <<>>]
  OBVIOUS
<1>7. x \in Conn /\ x.up = <<>> /\ x.down = conns[c].down
  BY <1>4, <1>6, ConnEnds
<1>8. conns' = [conns EXCEPT ![c] = x]
  BY <1>1, <1>4, <1>6
<1>9. /\ conns' \in [Connections -> Conn] /\ conns'[c] = x
      /\ \A d \in Connections : d # c => conns'[d] = conns[d]
      /\ conn_to_session' \in [Connections -> 0..used]
      /\ \A d \in Connections : d # c => conn_to_session'[d] = conn_to_session[d]
  <2>1. 0 \in 0..used
    BY <1>3, TypeFacts
  <2> QED
    BY <1>1, <1>4, <1>7, <1>8, <2>1
<1>10. /\ client_paths' \in [Ips -> [ClientSessions -> SUBSET (UdpPaths \cup TcpPaths)]]
       /\ \A z \in ClientSessions :
             client_paths'[Host][z] = IF z = s THEN client_paths[Host][z] \ {PathOfConn(c)}
                                      ELSE client_paths[Host][z]
  <2>1. CASE s = 0
    <3>1. \A z \in ClientSessions : z # s
      BY <2>1 DEF ClientSessions
    <3> QED
      BY <1>1, <1>4, <2>1, <3>1
  <2>2. CASE s # 0
    <3>1. PICK ps : ps = client_paths[Host][s] \ {PathOfConn(c)}
      OBVIOUS
    <3>2. ps \in SUBSET (UdpPaths \cup TcpPaths) /\ s \in ClientSessions
      BY <1>3, <1>4, <1>5, <2>2, <3>1
    <3>3. client_paths' = [client_paths EXCEPT ![Host][s] = ps]
      BY <1>1, <1>3, <2>2, <3>1 DEF Unpath
    <3> QED
      BY <1>3, <1>4, <3>1, <3>2, <3>3
  <2> QED
    BY <2>1, <2>2
<1>11. UdpPaths' = UdpPaths /\ TcpPaths' = TcpPaths
  BY <1>2, UdpPathsFixed, CfgFixed
<1>12. TypeOK'
  BY <1>2, <1>3, <1>9, <1>10, <1>11, QuietType, QuietFacts
<1>13. Carried'
  BY <1>2, <1>7, <1>9, <1>11, CarriedQuiet
<1>14. Remembered'
  BY <1>2, RememberedFixed DEF RelayInv
<1>15. PathsServed'
  <2> SUFFICES ASSUME NEW d \in Connections, NEW z \in ClientSessions,
                      PathOfConn(d) \in client_paths'[d[1].host][z]
               PROVE  /\ PathOfConn(d) \in client_paths[d[1].host][z]
                      /\ \/ conns'[d].server = conns[d].server
                            /\ conn_to_session'[d] = conn_to_session[d]
                         \/ conn_to_session[d] # z
    BY <1>2, PathsKept
  <2>1. /\ PathOfConn(d) \in client_paths[d[1].host][z]
        /\ z # s \/ PathOfConn(d) # PathOfConn(c)
    BY <1>3, <1>10
  <2>2. CASE d # c
    BY <1>9, <2>1, <2>2
  <2>3. CASE d = c
    BY <2>1, <2>3 DEF s
  <2> QED
    BY <2>2, <2>3
<1> QED
  BY <1>12, <1>13, <1>14, <1>15 DEF RelayInv

LEMMA ClientClosesKeeps ==
    ASSUME RelayInv, NEW c \in Connections, ClientCloses(c)
    PROVE  RelayInv'
<1>1. /\ conns' = [conns EXCEPT ![c].client = FALSE]
      /\ tcp_sessions' = [tcp_sessions EXCEPT ![c[1]] = 0]
      /\ UNCHANGED <<cfg, current, used, seq, response_dedup, born, server, net_up,
                     net_down, dialed, faults, requests, replies>>
  BY DEF ClientCloses
<1>2. /\ UNCHANGED <<cfg, used, seq, target, dedup, response_seq, dialed, sent, passed,
                     forwarded, refused, answered, served>>
      /\ UNCHANGED <<current, response_dedup, born, faults, sessions, client_paths,
                     conn_to_session, returned, unheard, net_up, net_down>>
  BY <1>1 DEF server, requests, replies
<1>3. TypeOK /\ conns \in [Connections -> Conn] /\ conns[c] \in Conn
  BY TypeFacts DEF RelayInv
<1>4. PICK x : x = [conns[c] EXCEPT !.client = FALSE]
  OBVIOUS
<1>5. x \in Conn /\ x.up = conns[c].up /\ x.down = conns[c].down /\ x.server = conns[c].server
  BY <1>3, <1>4, ConnEnds
<1>6. conns' = [conns EXCEPT ![c] = x]
  BY <1>1, <1>3, <1>4
<1>7. /\ conns' \in [Connections -> Conn] /\ conns'[c] = x
      /\ \A d \in Connections : d # c => conns'[d] = conns[d]
  BY <1>3, <1>5, <1>6
<1>8. /\ tcp_sessions' \in [Endpoints("tcp") -> 0..MaxConns]
      /\ \A e \in Endpoints("tcp") : tcp_sessions'[e] <= dialed[e]
  <2>1. /\ tcp_sessions \in [Endpoints("tcp") -> 0..MaxConns]
        /\ \A e \in Endpoints("tcp") : tcp_sessions[e] <= dialed[e]
        /\ dialed \in [Endpoints("tcp") -> 0..MaxConns] /\ MaxConns \in Nat
    BY <1>3, QuietFacts, TypeFacts DEF TypeOK, NetworkOK
  <2>2. \A e \in Endpoints("tcp") : dialed[e] \in Nat
    BY <2>1
  <2>3. /\ 0 \in 0..MaxConns
        /\ \A e \in Endpoints("tcp") : tcp_sessions'[e] = (IF e = c[1] THEN 0 ELSE tcp_sessions[e])
    BY <1>1, <2>1
  <2>4. tcp_sessions' \in [Endpoints("tcp") -> 0..MaxConns]
    BY <1>1, <2>1, <2>3
  <2>5. \A e \in Endpoints("tcp") : tcp_sessions'[e] <= dialed[e]
    BY <2>1, <2>2, <2>3
  <2> QED
    BY <2>4, <2>5
<1>9. UdpPaths' = UdpPaths /\ TcpPaths' = TcpPaths
  BY <1>2, UdpPathsFixed, CfgFixed
<1>10. TypeOK'
  BY <1>2, <1>3, <1>7, <1>8, <1>9, QuietType, QuietFacts
<1>11. Carried'
  BY <1>2, <1>5, <1>7, <1>9, CarriedQuiet
<1>12. Remembered'
  BY <1>2, RememberedFixed DEF RelayInv
<1>13. PathsServed'
  BY <1>2, <1>5, <1>7, PathsKept
<1> QED
  BY <1>10, <1>11, <1>12, <1>13 DEF RelayInv

LEMMA SourceExpiresKeeps ==
    ASSUME RelayInv, SourceExpires
    PROVE  RelayInv'
<1>1. /\ faults < MaxFaults /\ faults' = faults + 1 /\ current' = 0
      /\ UNCHANGED <<cfg, used, seq, response_dedup, tcp_sessions, born, server, network,
                     requests, replies>>
  BY DEF SourceExpires, Fault
<1>2. /\ UNCHANGED <<cfg, used, seq, target, dedup, response_seq, dialed, sent, passed,
                     forwarded, refused, answered, served>>
      /\ UNCHANGED <<response_dedup, tcp_sessions, born, sessions, client_paths,
                     conn_to_session, returned, unheard, net_up, net_down, conns>>
  BY <1>1 DEF server, network, requests, replies
<1>3. TypeOK
  BY DEF RelayInv
<1>4. born' \in 1..faults' + 1 /\ faults' \in 0..MaxFaults
  BY <1>1, <1>2, <1>3, FaultCounted
<1>5. UdpPaths' = UdpPaths /\ TcpPaths' = TcpPaths
  BY <1>2, UdpPathsFixed, CfgFixed
<1>6. TypeOK'
  BY <1>1, <1>2, <1>3, <1>4, <1>5, QuietType, QuietFacts
<1>7. Carried'
  BY <1>2, <1>5, CarriedQuiet
<1>8. Remembered'
  BY <1>2, RememberedFixed DEF RelayInv
<1>9. PathsServed'
  BY <1>2, PathsKept
<1> QED
  BY <1>6, <1>7, <1>8, <1>9 DEF RelayInv

LEMMA ConnExpiresKeeps ==
    ASSUME RelayInv, NEW e \in Endpoints("tcp"), ConnExpires(e)
    PROVE  RelayInv'
<1>1. PICK c : c = <<e, tcp_sessions[e]>>
  OBVIOUS
<1>2. /\ faults < MaxFaults /\ faults' = faults + 1 /\ tcp_sessions[e] # 0
      /\ tcp_sessions' = [tcp_sessions EXCEPT ![e] = 0]
      /\ conns' = [conns EXCEPT ![c].client = FALSE, ![c].down = <<>>]
      /\ UNCHANGED <<cfg, current, used, seq, response_dedup, born, server, net_up,
                     net_down, dialed, requests, replies>>
  BY <1>1 DEF ConnExpires, Fault
<1>3. /\ UNCHANGED <<cfg, used, seq, target, dedup, response_seq, dialed, sent, passed,
                     forwarded, refused, answered, served>>
      /\ UNCHANGED <<current, response_dedup, born, sessions, client_paths,
                     conn_to_session, returned, unheard, net_up, net_down>>
  BY <1>2 DEF server, requests, replies
<1>4. /\ TypeOK
      /\ tcp_sessions \in [Endpoints("tcp") -> 0..MaxConns]
      /\ \A x \in Endpoints("tcp") : tcp_sessions[x] <= dialed[x]
      /\ dialed \in [Endpoints("tcp") -> 0..MaxConns] /\ MaxConns \in Nat
  BY QuietFacts, TypeFacts DEF RelayInv, TypeOK, NetworkOK
<1>5. c \in Connections
  <2>1. tcp_sessions[e] \in 1..MaxConns
    BY <1>2, <1>4
  <2> QED
    BY <1>1, <2>1 DEF Connections
<1>6. conns \in [Connections -> Conn] /\ conns[c] \in Conn
  BY <1>4, <1>5, TypeFacts
<1>7. PICK x : x = [conns[c] EXCEPT !.client = FALSE, !.down = <<>>]
  OBVIOUS
<1>8. x \in Conn /\ x.up = conns[c].up /\ x.down = <<>> /\ x.server = conns[c].server
  BY <1>6, <1>7, ConnEnds
<1>9. conns' = [conns EXCEPT ![c] = x]
  BY <1>2, <1>6, <1>7
<1>10. /\ conns' \in [Connections -> Conn] /\ conns'[c] = x
       /\ \A d \in Connections : d # c => conns'[d] = conns[d]
  BY <1>5, <1>6, <1>8, <1>9
<1>11. /\ tcp_sessions' \in [Endpoints("tcp") -> 0..MaxConns]
       /\ \A y \in Endpoints("tcp") : tcp_sessions'[y] <= dialed[y]
  BY <1>2, <1>4
<1>12. born' \in 1..faults' + 1 /\ faults' \in 0..MaxFaults
  BY <1>2, <1>3, <1>4, FaultCounted
<1>13. UdpPaths' = UdpPaths /\ TcpPaths' = TcpPaths
  BY <1>3, UdpPathsFixed, CfgFixed
<1>14. TypeOK'
  BY <1>3, <1>4, <1>10, <1>11, <1>12, <1>13, QuietType, QuietFacts
<1>15. Carried'
  BY <1>3, <1>8, <1>10, <1>13, CarriedQuiet
<1>16. Remembered'
  BY <1>3, RememberedFixed DEF RelayInv
<1>17. PathsServed'
  BY <1>3, <1>8, <1>10, PathsKept
<1> QED
  BY <1>14, <1>15, <1>16, <1>17 DEF RelayInv

\* Sessions that are lost have no owner to share with.
LEMMA OwnersLost ==
    ASSUME Remembered,
           UNCHANGED <<cfg, used, target, dedup, sent, passed, response_dedup, answered,
                       returned>>,
           \A h \in Ips, s \in ClientSessions : sessions'[h][s] \in {0, sessions[h][s]}
    PROVE  Remembered'
<1>1. Unborn'
  BY DEF Remembered, Unborn
<1>2. OneOwner'
  <2>1. Host' = Host
    BY CfgFixed
  <2>2. OneOwner
    BY DEF Remembered
  <2>3. \A h \in Ips, s \in ClientSessions : sessions'[h][s] # 0 => h = Host
    BY <2>2 DEF OneOwner
  <2>4. \A h \in Ips : \A s, x \in ClientSessions :
           sessions'[h][s] # 0 /\ sessions'[h][s] = sessions'[h][x] => s = x
    BY <2>2 DEF OneOwner
  <2> QED
    BY <2>1, <2>3, <2>4 DEF OneOwner
<1>3. PassedRecorded' /\ ReturnedRecorded'
  BY DEF Remembered, PassedRecorded, ReturnedRecorded
<1> QED
  BY <1>1, <1>2, <1>3 DEF Remembered

LEMMA TargetExpiresKeeps ==
    ASSUME RelayInv, NEW h \in Ips, NEW s \in ClientSessions, TargetExpires(h, s)
    PROVE  RelayInv'
<1>1. /\ faults < MaxFaults /\ faults' = faults + 1
      /\ sessions' = [sessions EXCEPT ![h][s] = 0]
      /\ client_paths' = [client_paths EXCEPT ![h][s] = {}]
      /\ UNCHANGED <<cfg, client, target, dedup, response_seq, conn_to_session, network,
                     requests, replies>>
  BY DEF TargetExpires, Fault
<1>2. /\ UNCHANGED <<cfg, used, seq, target, dedup, response_seq, dialed, sent, passed,
                     forwarded, refused, answered, served>>
      /\ UNCHANGED <<current, response_dedup, tcp_sessions, born, conn_to_session,
                     returned, unheard, net_up, net_down, conns>>
  BY <1>1 DEF client, network, requests, replies
<1>3. /\ TypeOK /\ target \in Nat
      /\ sessions \in [Ips -> [ClientSessions -> 0..target]]
      /\ client_paths \in [Ips -> [ClientSessions -> SUBSET (UdpPaths \cup TcpPaths)]]
  BY QuietFacts, TypeFacts DEF RelayInv
<1>4. born' \in 1..faults' + 1 /\ faults' \in 0..MaxFaults
  BY <1>1, <1>2, <1>3, FaultCounted
<1>5. UdpPaths' = UdpPaths /\ TcpPaths' = TcpPaths
  BY <1>2, UdpPathsFixed, CfgFixed
<1>6. /\ sessions' \in [Ips -> [ClientSessions -> 0..target]]
      /\ \A g \in Ips, x \in ClientSessions : sessions'[g][x] \in {0, sessions[g][x]}
  <2>1. 0 \in 0..target
    BY <1>3
  <2> QED
    BY <1>1, <1>3, <2>1
<1>7. /\ client_paths' \in [Ips -> [ClientSessions -> SUBSET (UdpPaths \cup TcpPaths)]]
      /\ \A g \in Ips, x \in ClientSessions : client_paths'[g][x] \subseteq client_paths[g][x]
  BY <1>1, <1>3
<1>8. TypeOK'
  BY <1>2, <1>3, <1>4, <1>5, <1>6, <1>7, QuietType, QuietFacts
<1>9. Carried'
  BY <1>2, <1>5, CarriedQuiet
<1>10. Remembered'
  BY <1>2, <1>6, OwnersLost DEF RelayInv
<1>11. PathsServed'
  <2>1. \A c \in Connections : c[1].host \in Ips
    BY <1>3, TypeFacts, PathFacts
  <2> QED
    BY <1>2, <1>7, <2>1, PathsKept
<1> QED
  BY <1>8, <1>9, <1>10, <1>11 DEF RelayInv

LEMMA ServerRestartsKeeps ==
    ASSUME RelayInv, NEW h \in Ips, ServerRestarts(h)
    PROVE  RelayInv'
<1> DEFINE lost(c) == c[1].host = h
           none == [s \in ClientSessions |-> 0]
           bare == [s \in ClientSessions |-> {}]
<1>1. /\ faults < MaxFaults /\ faults' = faults + 1
      /\ sessions' = [sessions EXCEPT ![h] = none]
      /\ client_paths' = [client_paths EXCEPT ![h] = bare]
      /\ conn_to_session' = [c \in Connections |->
                                IF lost(c) THEN 0 ELSE conn_to_session[c]]
      /\ conns' = [c \in Connections |->
                      IF lost(c) THEN [conns[c] EXCEPT !.server = FALSE, !.up = <<>>]
                      ELSE conns[c]]
      /\ UNCHANGED <<cfg, client, target, dedup, response_seq, net_up, net_down, dialed,
                     requests, replies>>
  BY DEF ServerRestarts, Fault
<1>2. /\ UNCHANGED <<cfg, used, seq, target, dedup, response_seq, dialed, sent, passed,
                     forwarded, refused, answered, served>>
      /\ UNCHANGED <<current, response_dedup, tcp_sessions, born,
                     returned, unheard, net_up, net_down>>
  BY <1>1 DEF client, requests, replies
<1>3. /\ TypeOK /\ target \in Nat /\ used \in Nat
      /\ sessions \in [Ips -> [ClientSessions -> 0..target]]
      /\ client_paths \in [Ips -> [ClientSessions -> SUBSET (UdpPaths \cup TcpPaths)]]
      /\ conn_to_session \in [Connections -> 0..used]
      /\ conns \in [Connections -> Conn]
  BY QuietFacts, TypeFacts DEF RelayInv
<1>4. born' \in 1..faults' + 1 /\ faults' \in 0..MaxFaults
  BY <1>1, <1>2, <1>3, FaultCounted
<1>5. UdpPaths' = UdpPaths /\ TcpPaths' = TcpPaths
  BY <1>2, UdpPathsFixed, CfgFixed
<1>6. /\ sessions' \in [Ips -> [ClientSessions -> 0..target]]
      /\ \A g \in Ips, x \in ClientSessions : sessions'[g][x] \in {0, sessions[g][x]}
  <2>1. none \in [ClientSessions -> 0..target] /\ \A x \in ClientSessions : none[x] = 0
    BY <1>3
  <2> HIDE DEF none
  <2> QED
    BY <1>1, <1>3, <2>1
<1>7. /\ client_paths' \in [Ips -> [ClientSessions -> SUBSET (UdpPaths \cup TcpPaths)]]
      /\ \A g \in Ips, x \in ClientSessions :
            /\ client_paths'[g][x] \subseteq client_paths[g][x]
            /\ g = h => client_paths'[g][x] = {}
  <2>1. bare \in [ClientSessions -> SUBSET (UdpPaths \cup TcpPaths)]
        /\ \A x \in ClientSessions : bare[x] = {}
    OBVIOUS
  <2> HIDE DEF bare
  <2> QED
    BY <1>1, <1>3, <2>1
<1>8. conn_to_session' \in [Connections -> 0..used]
  <2>1. 0 \in 0..used
    BY <1>3
  <2>2. ASSUME NEW c \in Connections PROVE conn_to_session'[c] \in 0..used
    BY <1>1, <1>3, <2>1
  <2> QED
    BY <1>1, <2>2
<1>9. ASSUME NEW c \in Connections
      PROVE  /\ conns'[c] \in Conn
             /\ conns'[c].up \in {conns[c].up, <<>>} /\ conns'[c].down = conns[c].down
             /\ ~lost(c) => conns'[c] = conns[c]
  <2>1. PICK x : x = [conns[c] EXCEPT !.server = FALSE, !.up = <<>>]
    OBVIOUS
  <2>2. x \in Conn /\ x.up = <<>> /\ x.down = conns[c].down
    BY <1>3, <2>1, ConnEnds
  <2>3. conns'[c] = IF lost(c) THEN x ELSE conns[c]
    BY <1>1, <2>1
  <2> QED
    BY <1>3, <2>2, <2>3
<1>10. conns' \in [Connections -> Conn]
  BY <1>1, <1>9
<1>11. TypeOK'
  BY <1>2, <1>3, <1>4, <1>5, <1>6, <1>7, <1>8, <1>10, QuietType, QuietFacts
<1>12. Carried'
  BY <1>2, <1>5, <1>9, CarriedQuiet
<1>13. Remembered'
  BY <1>2, <1>6, OwnersLost DEF RelayInv
<1>14. PathsServed'
  <2> SUFFICES ASSUME NEW c \in Connections, NEW s \in ClientSessions,
                      PathOfConn(c) \in client_paths'[c[1].host][s]
               PROVE  /\ PathOfConn(c) \in client_paths[c[1].host][s]
                      /\ \/ conns'[c].server = conns[c].server
                            /\ conn_to_session'[c] = conn_to_session[c]
                         \/ conn_to_session[c] # s
    BY <1>2, PathsKept
  <2>1. c[1].host \in Ips
    BY <1>3, TypeFacts, PathFacts
  <2>2. ~lost(c) /\ PathOfConn(c) \in client_paths[c[1].host][s]
    BY <1>7, <2>1
  <2> QED
    BY <1>1, <1>9, <2>2
<1> QED
  BY <1>11, <1>12, <1>13, <1>14 DEF RelayInv

LEMMA ClientRestartsKeeps ==
    ASSUME RelayInv, ClientRestarts
    PROVE  RelayInv'
<1>1. /\ faults < MaxFaults /\ faults' = faults + 1
      /\ current' = 0 /\ born' = born + 1
      /\ tcp_sessions' = [e \in Endpoints("tcp") |-> 0]
      /\ conns' = [c \in Connections |->
                      [conns[c] EXCEPT !.client = FALSE, !.down = <<>>]]
      /\ UNCHANGED <<cfg, used, seq, response_dedup, server, net_up, net_down, dialed,
                     requests, replies>>
  BY DEF ClientRestarts, Fault
<1>2. /\ UNCHANGED <<cfg, used, seq, target, dedup, response_seq, dialed, sent, passed,
                     forwarded, refused, answered, served>>
      /\ UNCHANGED <<response_dedup, sessions, client_paths, conn_to_session,
                     returned, unheard, net_up, net_down>>
  BY <1>1 DEF server, requests, replies
<1>3. /\ TypeOK /\ MaxConns \in Nat /\ born \in 1..faults + 1 /\ faults \in 0..MaxFaults
      /\ client_paths \in [Ips -> [ClientSessions -> SUBSET (UdpPaths \cup TcpPaths)]]
      /\ conns \in [Connections -> Conn]
      /\ dialed \in [Endpoints("tcp") -> 0..MaxConns]
  BY QuietFacts, TypeFacts DEF RelayInv, TypeOK, NetworkOK
<1>4. born' \in 1..faults' + 1 /\ faults' \in 0..MaxFaults /\ 1..born \subseteq 1..born'
  <2>1. born \in 1..faults + 1 /\ faults \in 0..MaxFaults /\ MaxFaults \in Nat
    BY <1>3, RelayAssumption
  <2>2. faults < MaxFaults /\ faults' = faults + 1 /\ born' = born + 1
    BY <1>1
  <2> QED
    BY <2>1, <2>2
<1>5. UdpPaths \subseteq UdpPaths' /\ TcpPaths' = TcpPaths
  <2>1. Endpoints("udp")' = Endpoints("udp") /\ TcpPaths' = TcpPaths
    BY <1>2, CfgFixed
  <2> QED
    BY <1>4, <2>1 DEF UdpPaths
<1>6. client_paths' \in [Ips -> [ClientSessions -> SUBSET (UdpPaths' \cup TcpPaths)]]
  BY <1>2, <1>3, <1>5
<1>7. ASSUME NEW c \in Connections
      PROVE  /\ conns'[c] \in Conn /\ conns'[c].server = conns[c].server
             /\ conns'[c].up = conns[c].up /\ conns'[c].down = <<>>
  <2>1. PICK x : x = [conns[c] EXCEPT !.client = FALSE, !.down = <<>>]
    OBVIOUS
  <2>2. x \in Conn /\ x.up = conns[c].up /\ x.down = <<>> /\ x.server = conns[c].server
    BY <1>3, <2>1, ConnEnds
  <2>3. conns'[c] = x
    BY <1>1, <2>1
  <2> QED
    BY <2>2, <2>3
<1>8. conns' \in [Connections -> Conn]
  BY <1>1, <1>7
<1>9. /\ tcp_sessions' \in [Endpoints("tcp") -> 0..MaxConns]
      /\ \A e \in Endpoints("tcp") : tcp_sessions'[e] <= dialed[e]
  <2>1. 0 \in 0..MaxConns /\ \A e \in Endpoints("tcp") : 0 <= dialed[e]
    BY <1>3
  <2>2. tcp_sessions' = [e \in Endpoints("tcp") |-> 0]
    BY <1>1
  <2> QED
    BY <2>1, <2>2
<1>10. TypeOK'
  BY <1>1, <1>2, <1>3, <1>4, <1>6, <1>8, <1>9, QuietType, QuietFacts
<1>11. Carried'
  BY <1>2, <1>5, <1>7, CarriedQuiet
<1>12. Remembered'
  BY <1>2, RememberedFixed DEF RelayInv
<1>13. PathsServed'
  BY <1>2, <1>7, PathsKept
<1> QED
  BY <1>10, <1>11, <1>12, <1>13 DEF RelayInv

-----------------------------------------------------------------------------
(* Responses *)

\* The history of responses after one more.
LEMMA AnsweredGrows ==
    ASSUME TypeOK, NEW o \in 1..target, NEW n \in 0..SeqRange - 1,
           Len(answered) + 1 \in Responses,
           answered' = Append(answered, [target |-> o, n |-> n])
    PROVE  /\ answered' \in Seq([target : 1..target, n : 0..SeqRange - 1])
           /\ Len(answered') = Len(answered) + 1 /\ Len(answered') <= MaxResponses
           /\ 1..Len(answered) \subseteq 1..Len(answered')
           /\ \A j \in 1..Len(answered) : answered'[j] = answered[j]
           /\ answered'[Len(answered) + 1] = [target |-> o, n |-> n]
           /\ ResponsePackets \subseteq ResponsePackets' /\ DownItems \subseteq DownItems'
           /\ \A x \in ClientSessions :
                 /\ ResponseOf(x, n, Len(answered) + 1) \in ResponsePackets'
                 /\ <<0, ResponseOf(x, n, Len(answered) + 1)>> \in DownItems'
<1> DEFINE S == [target : 1..target, n : 0..SeqRange - 1]
           e == [target |-> o, n |-> n]
<1>1. answered \in Seq(S) /\ Len(answered) \in Nat
  BY TypeFacts
<1>2. e \in S /\ e.n = n
  OBVIOUS
<1> HIDE DEF S, e
<1>3. /\ answered' \in Seq(S) /\ Len(answered') = Len(answered) + 1
      /\ \A j \in 1..Len(answered) : answered'[j] = answered[j]
      /\ answered'[Len(answered) + 1] = e
  <2>1. PICK a : a = Append(answered, e)
    OBVIOUS
  <2>2. /\ a \in Seq(S) /\ Len(a) = Len(answered) + 1
        /\ \A j \in 1..Len(answered) : a[j] = answered[j]
        /\ a[Len(answered) + 1] = e
    <3>1. answered \in Seq(S) /\ e \in S
      BY <1>1, <1>2
    <3> QED
      BY <2>1, <3>1, AppendProperties
  <2>3. answered' = a
    BY <2>1 DEF e
  <2> QED
    BY <2>2, <2>3
<1>4. 1..Len(answered) \subseteq 1..Len(answered') /\ Len(answered) + 1 \in 1..Len(answered')
  <2>1. Len(answered') = Len(answered) + 1 /\ Len(answered) \in Nat
    BY <1>1, <1>3
  <2> QED
    BY <2>1
<1>5. Len(answered') <= MaxResponses
  <2>1. Len(answered') = Len(answered) + 1 /\ Len(answered) + 1 \in Responses
    BY <1>3
  <2> QED
    BY <2>1, RelayAssumption DEF Responses
<1>6. \A x \in ClientSessions : \A j \in 1..Len(answered') :
         ResponseOf(x, answered'[j].n, j) \in ResponsePackets'
  BY DEF ResponsePackets
<1>7. ResponsePackets \subseteq ResponsePackets'
  <2>1. ASSUME NEW x \in ClientSessions, NEW j \in 1..Len(answered)
        PROVE  ResponseOf(x, answered[j].n, j) \in ResponsePackets'
    <3>1. j \in 1..Len(answered') /\ answered'[j] = answered[j]
      BY <1>3, <1>4
    <3> QED
      BY <1>6, <3>1
  <2> QED
    BY <2>1 DEF ResponsePackets
<1>8. \A x \in ClientSessions : ResponseOf(x, n, Len(answered) + 1) \in ResponsePackets'
  <2>1. answered'[Len(answered) + 1].n = n
    BY <1>2, <1>3
  <2> QED
    BY <1>4, <1>6, <2>1, Zenon
<1>9. DownItems \subseteq DownItems' /\ \A p \in ResponsePackets' : <<0, p>> \in DownItems'
  BY <1>7 DEF DownItems
<1> QED
  BY <1>3, <1>4, <1>5, <1>7, <1>8, <1>9 DEF S, e

LEMMA RespondKeeps ==
    ASSUME RelayInv, NEW h \in Ips, NEW s \in ClientSessions, Respond(h, s)
    PROVE  RelayInv'
<1> DEFINE r == Len(answered) + 1
<1>1. PICK o : o = sessions[h][s]
  OBVIOUS
<1>2. PICK p : p = ResponseOf(s, response_seq[o], r)
  OBVIOUS
<1>3. PICK ps : ps = client_paths[h][s]
  OBVIOUS
<1>4. /\ o # 0 /\ r \in Responses
      /\ response_seq' = [response_seq EXCEPT ![o] = (response_seq[o] + 1) % SeqRange]
      /\ answered' = Append(answered, [target |-> o, n |-> response_seq[o]])
      /\ net_up' = net_up
      /\ net_down' = net_down \cup
                        {<<x, p>> : x \in {y \in ps : ~IsStream(y) /\ Len(p) <= MaxDatagram}}
      /\ conns' = [c \in Connections |->
                      IF PathOfConn(c) \in ps /\ conns[c].client /\ conns[c].server
                      THEN [conns[c] EXCEPT !.down = conns[c].down \o Frame(p)] ELSE conns[c]]
      /\ UNCHANGED <<cfg, client, sessions, target, dedup, client_paths,
                     conn_to_session, dialed, faults, requests, returned, unheard>>
  BY <1>1, <1>2, <1>3 DEF Respond, ResponseOf
<1>5. /\ cfg' = cfg /\ dialed' = dialed /\ faults' = faults /\ sent' = sent
      /\ passed' = passed /\ forwarded' = forwarded /\ refused' = refused /\ served' = served
      /\ sessions' = sessions /\ target' = target /\ dedup' = dedup
      /\ client_paths' = client_paths /\ conn_to_session' = conn_to_session
      /\ returned' = returned /\ unheard' = unheard
      /\ current' = current /\ used' = used /\ seq' = seq
      /\ response_dedup' = response_dedup /\ tcp_sessions' = tcp_sessions /\ born' = born
  BY <1>4 DEF client, requests
<1>6. /\ TypeOK /\ target \in Nat /\ target <= MaxTargets /\ MaxTargets \in Nat
      /\ sessions \in [Ips -> [ClientSessions -> 0..target]]
      /\ client_paths \in [Ips -> [ClientSessions -> SUBSET (UdpPaths \cup TcpPaths)]]
      /\ conns \in [Connections -> Conn]
      /\ response_seq \in [Targets -> 0..SeqRange - 1]
  BY QuietFacts, TypeFacts DEF RelayInv, TypeOK, ServersOK
<1>7. o \in 1..target /\ o \in Targets
  <2>1. o \in 0..target
    BY <1>1, <1>6
  <2> QED
    BY <1>4, <1>6, <2>1 DEF Targets
<1>8. PICK n \in 0..SeqRange - 1 : n = response_seq[o]
  BY <1>6, <1>7
<1>9. /\ answered' \in Seq([target : 1..target, n : 0..SeqRange - 1])
      /\ Len(answered') <= MaxResponses
      /\ 1..Len(answered) \subseteq 1..Len(answered')
      /\ \A j \in 1..Len(answered) : answered'[j] = answered[j]
      /\ ResponsePackets \subseteq ResponsePackets' /\ DownItems \subseteq DownItems'
      /\ p \in ResponsePackets' /\ <<0, p>> \in DownItems'
  BY <1>2, <1>4, <1>6, <1>7, <1>8, AnsweredGrows
<1>10. p \in Frames
  <2>1. r \in Responses
    BY <1>4
  <2> HIDE DEF r
  <2> QED
    BY <1>2, <1>8, <2>1, ResponseFacts, Zenon
<1> HIDE DEF r
<1>11. /\ Connections' = Connections /\ TcpPaths' = TcpPaths /\ UdpPaths' = UdpPaths
       /\ Endpoints("tcp")' = Endpoints("tcp") /\ Host' = Host
       /\ SentPackets' = SentPackets /\ UpItems' = UpItems
  BY <1>5, CfgFixed, UdpPathsFixed, SentFixed
<1>12. ASSUME NEW c \in Connections
       PROVE  /\ conns'[c] \in Conn /\ conns'[c].up = conns[c].up
              /\ conns'[c].server = conns[c].server
              /\ Stream(DownItems', 0, conns'[c].down)
  <2>1. Stream(DownItems, 0, conns[c].down)
    BY DEF RelayInv, Carried, StreamsOK
  <2>2. conns[c] \in Conn
    BY <1>6
  <2>3. CASE conns'[c] = conns[c]
    BY <1>9, <2>1, <2>2, <2>3, StreamGrow
  <2>4. CASE conns'[c] = [conns[c] EXCEPT !.down = conns[c].down \o Frame(p)]
    <3>1. PICK more : more = DownItems \cup {<<0, p>>}
      OBVIOUS
    <3>2. Stream(more, 0, conns[c].down) /\ more \subseteq DownItems'
      BY <1>9, <2>1, <3>1, StreamGrow
    <3>3. more \subseteq Nat \X Frames /\ \A i \in more : i[1] = 0
      BY <1>6, <1>10, <3>1, ItemsOK
    <3>4. Stream(more, 0, conns[c].down \o Frame(p))
      <4>1. <<0, p>> \in more /\ 0 \in Nat /\ 0 <= 0 /\ \A i \in more : i[1] <= 0
        BY <3>1, <3>3
      <4> QED
        BY <3>2, <3>3, <4>1, StreamAppend
    <3>5. PICK y \in Seq(Nat) : y = conns[c].down \o Frame(p) /\ Stream(DownItems', 0, y)
      <4>1. PICK y : y = conns[c].down \o Frame(p)
        OBVIOUS
      <4>2. PICK items : items = DownItems'
        OBVIOUS
      <4>3. Stream(items, 0, y)
        BY <3>2, <3>4, <4>1, <4>2, StreamGrow
      <4>4. y \in Seq(Nat)
        BY <4>3, StreamBytes
      <4> QED
        BY <4>1, <4>2, <4>3, <4>4
    <3>6. PICK k : k = [conns[c] EXCEPT !.down = y]
      OBVIOUS
    <3>7. k \in Conn /\ k.down = y /\ k.up = conns[c].up /\ k.server = conns[c].server
      BY <2>2, <3>6, ConnDown
    <3>8. conns'[c] = k
      BY <2>4, <3>5, <3>6
    <3> QED
      BY <3>5, <3>7, <3>8
  <2> QED
    BY <1>4, <2>3, <2>4
<1>13. conns' \in [Connections -> Conn]
  BY <1>4, <1>12
<1>14. response_seq' \in [Targets -> 0..SeqRange - 1]
  <2>1. PICK z : z = (n + 1) % SeqRange /\ z \in 0..SeqRange - 1
    BY WidthFacts
  <2> QED
    BY <1>4, <1>6, <1>7, <1>8, <2>1
<1>15. TypeOK'
  <2>1. ClientOK'
    BY <1>5, <1>6, <1>11 DEF TypeOK, ClientOK
  <2>2. ServersOK'
    BY <1>5, <1>6, <1>11, <1>14 DEF TypeOK, ServersOK
  <2>3. NetworkOK'
    BY <1>5, <1>6, <1>11, <1>13 DEF TypeOK, NetworkOK, Conn
  <2>4. HistoryOK'
    <3>1. /\ sent \in Seq([session : 1..used, seq : 0..SeqRange - 1, n : Nat])
          /\ Len(sent) <= Len(PayloadLen)
          /\ passed \in [Targets -> Seq(1..Len(sent))]
          /\ forwarded \in [Targets -> SUBSET (1..Len(sent))]
          /\ refused \subseteq Targets \X (1..Len(sent))
          /\ returned \in [ClientSessions -> SUBSET (1..Len(answered))]
          /\ unheard \subseteq ClientSessions \X (1..Len(answered))
          /\ served \in [Connections -> 0..used]
      BY <1>6 DEF TypeOK, HistoryOK
    <3>2. /\ returned \in [ClientSessions -> SUBSET (1..Len(answered'))]
          /\ unheard \subseteq ClientSessions \X (1..Len(answered'))
      BY <1>9, <3>1
    <3> QED
      BY <1>5, <1>9, <1>11, <3>1, <3>2 DEF HistoryOK
  <2> QED
    BY <1>5, <1>6, <2>1, <2>2, <2>3, <2>4 DEF TypeOK
<1>16. StreamsOK'
  BY <1>5, <1>11, <1>12 DEF RelayInv, Carried, StreamsOK
<1>17. InFlight'
  <2>1. ps \subseteq UdpPaths \cup TcpPaths
    BY <1>3, <1>6
  <2>2. \A x \in TcpPaths : IsStream(x)
    BY <1>6, TypeFacts, PathFacts
  <2>3. net_up \subseteq UdpPaths \X SentPackets /\ net_down \subseteq UdpPaths \X ResponsePackets
    BY DEF RelayInv, Carried, InFlight
  <2>4. net_down' \subseteq UdpPaths \X ResponsePackets'
    BY <1>4, <1>9, <2>1, <2>2, <2>3
  <2> QED
    BY <1>4, <1>11, <2>3, <2>4 DEF InFlight
<1>18. Remembered'
  <2>1. Unborn' /\ PassedRecorded'
    BY <1>5 DEF RelayInv, Remembered, Unborn, PassedRecorded
  <2>2. OneOwner'
    BY <1>5, <1>11 DEF RelayInv, Remembered, OneOwner
  <2>3. ReturnedRecorded'
    <3>1. \A x \in ClientSessions : returned[x] \subseteq 1..Len(answered)
      BY <1>6 DEF TypeOK, HistoryOK
    <3> QED
      BY <1>5, <1>9, <3>1 DEF RelayInv, Remembered, ReturnedRecorded
  <2> QED
    BY <2>1, <2>2, <2>3 DEF Remembered
<1>19. PathsServed'
  BY <1>5, <1>11, <1>12 DEF RelayInv, PathsServed
<1> QED
  BY <1>15, <1>16, <1>17, <1>18, <1>19 DEF RelayInv, Carried

\* What returning response r in session s keeps.
LEMMA ReturnKeeps ==
    ASSUME RelayInv, NEW s \in ClientSessions, s = used, NEW m, NEW r \in 1..Len(answered),
           m.seq = answered[r].n, m.payload[1] = r, ReturnResponse(s, m),
           UNCHANGED <<cfg, used, target, sessions, dedup, sent, passed, answered>>
    PROVE  /\ response_dedup' \in [ClientSessions -> Window]
           /\ \A x \in ClientSessions : WellFormed(response_dedup'[x])
           /\ returned' \in [ClientSessions -> SUBSET (1..Len(answered))]
           /\ unheard' \subseteq ClientSessions \X (1..Len(answered))
           /\ Remembered'
<1>1. /\ TypeOK
      /\ response_dedup \in [ClientSessions -> Window]
      /\ \A x \in ClientSessions : WellFormed(response_dedup[x])
      /\ returned \in [ClientSessions -> SUBSET (1..Len(answered))]
      /\ unheard \subseteq ClientSessions \X (1..Len(answered))
      /\ used \in Nat
  BY QuietFacts, TypeFacts DEF RelayInv
<1>2. PICK q \in Nat : q = answered[r].n
  BY <1>1, AnsweredFacts
<1>3. PICK w : w = response_dedup[s] /\ WellFormed(w)
  BY <1>1
<1>4. PICK v : v = Mark(w, q, RespDedupSize)
  OBVIOUS
<1>5. RespDedupSize \in Nat \ {0}
  BY RelayAssumption
<1>6. WellFormed(v) /\ v \in Window
  <2>1. WellFormed(v)
    BY <1>3, <1>4, <1>5, MarkWellFormed
  <2> QED
    BY <2>1 DEF WellFormed
<1>7. IsDuplicate(v, q) /\ \A z \in Nat : IsDuplicate(w, z) => IsDuplicate(v, z)
  BY <1>3, <1>4, <1>5, MarkRecords, DuplicateStable
<1>8. response_dedup' = [response_dedup EXCEPT ![s] = v]
  BY <1>2, <1>3, <1>4 DEF ReturnResponse
<1>9. /\ returned' = returned \/ returned' = [returned EXCEPT ![s] = returned[s] \cup {r}]
      /\ unheard' = unheard \/ unheard' = unheard \cup {<<s, r>>}
  BY Zenon DEF ReturnResponse
<1>10. /\ response_dedup' \in [ClientSessions -> Window]
       /\ \A x \in ClientSessions : WellFormed(response_dedup'[x])
       /\ \A x \in ClientSessions : response_dedup'[x] = IF x = s THEN v ELSE response_dedup[x]
  BY <1>1, <1>6, <1>8
<1>11. /\ returned' \in [ClientSessions -> SUBSET (1..Len(answered))]
       /\ \A x \in ClientSessions : \A j \in returned'[x] :
             j \in returned[x] \/ (x = s /\ j = r)
  <2>1. returned[s] \cup {r} \in SUBSET (1..Len(answered))
    BY <1>1
  <2> QED
    BY <1>1, <1>9, <2>1
<1>12. unheard' \subseteq ClientSessions \X (1..Len(answered))
  BY <1>1, <1>9
<1>13. Unborn'
  <2>1. ASSUME NEW x \in ClientSessions, x > used PROVE returned'[x] = {}
    <3>1. returned[x] = {} /\ x # s
      BY <1>1, <2>1 DEF RelayInv, Remembered, Unborn, ClientSessions
    <3> QED
      BY <1>1, <1>9, <3>1
  <2> QED
    BY <2>1 DEF RelayInv, Remembered, Unborn
<1>14. OneOwner'
  BY CfgFixed DEF RelayInv, Remembered, OneOwner
<1>15. PassedRecorded'
  BY DEF RelayInv, Remembered, PassedRecorded
<1>16. ReturnedRecorded'
  <2> SUFFICES ASSUME NEW x \in ClientSessions, NEW j \in returned'[x]
               PROVE  IsDuplicate(response_dedup'[x], answered[j].n)
    BY DEF ReturnedRecorded
  <2>1. CASE j \in returned[x]
    <3>1. j \in 1..Len(answered)
      BY <1>1, <2>1
    <3>2. answered[j].n \in Nat
      BY <1>1, <3>1, AnsweredFacts
    <3>3. IsDuplicate(response_dedup[x], answered[j].n)
      BY <2>1 DEF RelayInv, Remembered, ReturnedRecorded
    <3> QED
      BY <1>3, <1>7, <1>10, <3>2, <3>3
  <2>2. CASE x = s /\ j = r
    BY <1>2, <1>7, <1>10, <2>2
  <2> QED
    BY <1>11, <2>1, <2>2
<1> QED
  BY <1>10, <1>11, <1>12, <1>13, <1>14, <1>15, <1>16 DEF Remembered

\* A response in the network names its session and its place in history.
LEMMA ResponsePacket ==
    ASSUME TypeOK, NEW p \in ResponsePackets
    PROVE  \E x \in ClientSessions, r \in 1..Len(answered) :
              LET m == decode_packet(p)
              IN  m.id = x /\ m.seq = answered[r].n /\ m.payload[1] = r
<1>1. PICK x \in ClientSessions, r \in 1..Len(answered) : p = ResponseOf(x, answered[r].n, r)
  BY DEF ResponsePackets
<1>2. answered[r].n \in 0..SeqRange - 1 /\ r \in Responses
  BY AnsweredFacts
<1>3. LET m == decode_packet(p)
      IN  m.id = x /\ m.seq = answered[r].n /\ m.payload[1] = r
  BY <1>1, <1>2, ResponseFacts
<1> QED
  BY <1>3

\* The next frame of a connection to the client is a response.
LEMMA FrameResponse ==
    ASSUME RelayInv, NEW c \in Connections, HasFrame(conns[c].down)
    PROVE  /\ \E r \in 1..Len(answered) :
                 LET m == decode_packet(FirstFrame(conns[c].down))
                 IN  m.seq = answered[r].n /\ m.payload[1] = r
           /\ Stream(DownItems, 0, AfterFrame(conns[c].down))
<1>1. PICK b : b = conns[c].down
  OBVIOUS
<1>2. Stream(DownItems, 0, b) /\ b # <<>>
  BY <1>1 DEF RelayInv, Carried, StreamsOK, HasFrame
<1>3. /\ TypeOK /\ DownItems \subseteq Nat \X Frames
      /\ \A i \in DownItems : i[1] = 0 /\ i[2] \in ResponsePackets
  BY ItemsOK DEF RelayInv
<1>4. PICK i \in DownItems : /\ FirstFrame(b) = i[2]
                             /\ Stream(DownItems, i[1], AfterFrame(b))
  BY <1>2, <1>3, StreamHead, Zenon
<1>5. FirstFrame(b) \in ResponsePackets /\ Stream(DownItems, 0, AfterFrame(b))
  BY <1>3, <1>4
<1> QED
  BY <1>1, <1>3, <1>5, ResponsePacket, Zenon

LEMMA RecvUdpResponseKeeps ==
    ASSUME RelayInv, NEW d, RecvUdpResponse(d)
    PROVE  RelayInv'
<1>1. PICK m : m = decode_packet(d[2])
  OBVIOUS
<1>2. /\ d \in net_down /\ m.id = current /\ ReturnResponse(current, m)
      /\ UNCHANGED <<cfg, current, used, seq, tcp_sessions, born, server, network,
                     faults, requests, answered>>
  BY <1>1 DEF RecvUdpResponse
<1>3. /\ UNCHANGED <<cfg, used, seq, target, dedup, response_seq, dialed, sent, passed,
                     forwarded, refused, answered, served>>
      /\ UNCHANGED <<current, tcp_sessions, born, faults, sessions, client_paths,
                     conn_to_session, net_up, net_down, conns>>
  BY <1>2 DEF server, network, requests
<1>4. TypeOK /\ d[2] \in ResponsePackets
  BY <1>2 DEF RelayInv, Carried, InFlight
<1>5. PICK s \in ClientSessions, r \in 1..Len(answered) :
         m.id = s /\ m.seq = answered[r].n /\ m.payload[1] = r
  BY <1>1, <1>4, ResponsePacket, Zenon
<1>6. s = used /\ current = s
  <2>1. current = s /\ current \in {0, used} /\ s # 0
    BY <1>2, <1>4, <1>5, TypeFacts DEF ClientSessions
  <2> QED
    BY <2>1
<1>7. /\ response_dedup' \in [ClientSessions -> Window]
      /\ \A x \in ClientSessions : WellFormed(response_dedup'[x])
      /\ returned' \in [ClientSessions -> SUBSET (1..Len(answered))]
      /\ unheard' \subseteq ClientSessions \X (1..Len(answered))
      /\ Remembered'
  <2>1. ReturnResponse(s, m)
    BY <1>2, <1>6
  <2> QED
    BY <1>3, <1>5, <1>6, <2>1, ReturnKeeps
<1>8. UdpPaths' = UdpPaths
  BY <1>3, UdpPathsFixed
<1>9. TypeOK'
  BY <1>3, <1>4, <1>7, <1>8, QuietType, QuietFacts
<1>10. Carried'
  BY <1>3, <1>8, CarriedQuiet
<1>11. PathsServed'
  BY <1>3, PathsKept
<1> QED
  BY <1>7, <1>9, <1>10, <1>11 DEF RelayInv

LEMMA RecvTcpResponseKeeps ==
    ASSUME RelayInv, NEW c \in Connections, RecvTcpResponse(c)
    PROVE  RelayInv'
<1>1. PICK m : m = decode_packet(FirstFrame(conns[c].down))
  OBVIOUS
<1>2. /\ HasFrame(conns[c].down)
      /\ conns' = [conns EXCEPT ![c].down = AfterFrame(conns[c].down)]
      /\ IF current # 0 THEN ReturnResponse(current, m)
         ELSE UNCHANGED <<response_dedup, returned, unheard>>
      /\ UNCHANGED <<cfg, current, used, seq, tcp_sessions, born, server, net_up,
                     net_down, dialed, faults, requests, answered>>
  BY <1>1 DEF RecvTcpResponse
<1>3. /\ UNCHANGED <<cfg, used, seq, target, dedup, response_seq, dialed, sent, passed,
                     forwarded, refused, answered, served>>
      /\ UNCHANGED <<current, tcp_sessions, born, faults, sessions, client_paths,
                     conn_to_session, net_up, net_down>>
  BY <1>2 DEF server, requests
<1>4. TypeOK /\ conns \in [Connections -> Conn] /\ conns[c] \in Conn
  BY TypeFacts DEF RelayInv
<1>5. PICK r \in 1..Len(answered) : m.seq = answered[r].n /\ m.payload[1] = r
  BY <1>1, <1>2, FrameResponse, Zenon
<1>6. PICK y \in Seq(Nat) : y = AfterFrame(conns[c].down) /\ Stream(DownItems, 0, y)
  <2>1. Stream(DownItems, 0, AfterFrame(conns[c].down))
    BY <1>2, FrameResponse, Zenon
  <2> QED
    BY <2>1, StreamBytes
<1>7. PICK k : k = [conns[c] EXCEPT !.down = y]
  OBVIOUS
<1>8. /\ k \in Conn /\ k.down = y /\ k.up = conns[c].up /\ k.server = conns[c].server
  BY <1>4, <1>7, ConnDown
<1>9. conns' = [conns EXCEPT ![c] = k]
  BY <1>2, <1>6, <1>7
<1>10. /\ conns' \in [Connections -> Conn]
       /\ \A d \in Connections :
             /\ conns'[d].up = conns[d].up /\ conns'[d].server = conns[d].server
             /\ conns'[d].down = (IF d = c THEN y ELSE conns[d].down)
  BY <1>4, <1>8, <1>9
<1>11. /\ response_dedup' \in [ClientSessions -> Window]
       /\ \A x \in ClientSessions : WellFormed(response_dedup'[x])
       /\ returned' \in [ClientSessions -> SUBSET (1..Len(answered))]
       /\ unheard' \subseteq ClientSessions \X (1..Len(answered))
       /\ Remembered'
  <2>1. CASE current = 0
    <3>1. UNCHANGED <<response_dedup, returned, unheard>>
      BY <1>2, <2>1
    <3>2. Remembered'
      BY <1>3, <3>1, RememberedFixed DEF RelayInv
    <3> QED
      BY <1>4, <3>1, <3>2, QuietFacts
  <2>2. CASE current # 0
    <3>1. current = used /\ used \in ClientSessions
      BY <1>4, <2>2, TypeFacts DEF ClientSessions
    <3>2. ReturnResponse(used, m)
      BY <1>2, <2>2, <3>1
    <3> QED
      BY <1>3, <1>5, <3>1, <3>2, ReturnKeeps
  <2> QED
    BY <2>1, <2>2
<1>12. UdpPaths' = UdpPaths
  BY <1>3, UdpPathsFixed
<1>13. TypeOK'
  BY <1>3, <1>4, <1>10, <1>11, <1>12, QuietType, QuietFacts
<1>14. Carried'
  BY <1>3, <1>6, <1>10, <1>12, CarriedQuiet
<1>15. PathsServed'
  BY <1>3, <1>10, PathsKept
<1> QED
  BY <1>11, <1>13, <1>14, <1>15 DEF RelayInv

-----------------------------------------------------------------------------
(* The invariant *)

LEMMA StutterKeeps ==
    ASSUME RelayInv, UNCHANGED vars
    PROVE  RelayInv'
<1>1. /\ UNCHANGED <<cfg, used, seq, target, dedup, response_seq, dialed, sent, passed,
                     forwarded, refused, answered, served>>
      /\ UNCHANGED <<current, response_dedup, tcp_sessions, born, faults, sessions,
                     client_paths, conn_to_session, returned, unheard, net_up, net_down,
                     conns>>
  BY DEF vars, client, server, network, requests, replies
<1>2. UdpPaths' = UdpPaths /\ TypeOK
  BY <1>1, UdpPathsFixed DEF RelayInv
<1>3. TypeOK'
  BY <1>1, <1>2, QuietType, QuietFacts
<1>4. Carried'
  BY <1>1, <1>2, CarriedQuiet
<1>5. Remembered'
  BY <1>1, RememberedFixed DEF RelayInv
<1>6. PathsServed'
  BY <1>1, PathsKept
<1> QED
  BY <1>3, <1>4, <1>5, <1>6 DEF RelayInv

LEMMA NextKeeps == RelayInv /\ [Next]_vars => RelayInv'
<1> SUFFICES ASSUME RelayInv, [Next]_vars PROVE RelayInv'
  OBVIOUS
<1>1. CASE ClientNext
  <2>1. ASSUME NEW dial \in SUBSET Endpoints("tcp"), SourcePacket(dial) PROVE RelayInv'
    BY <2>1, SourcePacketKeeps
  <2>2. ASSUME NEW dial \in SUBSET Endpoints("tcp"), NEW draw \in Draws, SourceOpens(draw, dial)
        PROVE  RelayInv'
    BY <2>2, SourceOpensKeeps
  <2>3. ASSUME NEW d \in net_down, RecvUdpResponse(d) PROVE RelayInv'
    BY <2>3, RecvUdpResponseKeeps
  <2>4. ASSUME NEW c \in Connections, RecvTcpResponse(c) PROVE RelayInv'
    BY <2>4, RecvTcpResponseKeeps
  <2>5. ASSUME NEW c \in Connections, ClientCloses(c) PROVE RelayInv'
    BY <2>5, ClientClosesKeeps
  <2> QED
    BY <1>1, <2>1, <2>2, <2>3, <2>4, <2>5 DEF ClientNext
<1>2. CASE ServerNext
  <2>1. ASSUME NEW d \in net_up, NEW reached \in BOOLEAN, RecvUdp(d, reached) PROVE RelayInv'
    BY <2>1, RecvUdpKeeps
  <2>2. ASSUME NEW c \in Connections, NEW reached \in BOOLEAN, RecvTcp(c, reached) PROVE RelayInv'
    BY <2>2, RecvTcpKeeps
  <2>3. ASSUME NEW c \in Connections, DropTcp(c) PROVE RelayInv'
    BY <2>3, DropTcpKeeps
  <2>4. ASSUME NEW c \in Connections, ServerCloses(c) PROVE RelayInv'
    BY <2>4, ServerClosesKeeps
  <2>5. ASSUME NEW h \in Ips, NEW s \in ClientSessions, Respond(h, s) PROVE RelayInv'
    BY <2>5, RespondKeeps
  <2> QED
    BY <1>2, <2>1, <2>2, <2>3, <2>4, <2>5 DEF ServerNext
<1>3. CASE FaultNext
  <2>1. ASSUME SourceExpires PROVE RelayInv'
    BY <2>1, SourceExpiresKeeps
  <2>2. ASSUME ClientRestarts PROVE RelayInv'
    BY <2>2, ClientRestartsKeeps
  <2>3. ASSUME NEW e \in Endpoints("tcp"), ConnExpires(e) PROVE RelayInv'
    BY <2>3, ConnExpiresKeeps
  <2>4. ASSUME NEW h \in Ips, ServerRestarts(h) PROVE RelayInv'
    BY <2>4, ServerRestartsKeeps
  <2>5. ASSUME NEW h \in Ips, NEW s \in ClientSessions, TargetExpires(h, s) PROVE RelayInv'
    BY <2>5, TargetExpiresKeeps
  <2> QED
    BY <1>3, <2>1, <2>2, <2>3, <2>4, <2>5 DEF FaultNext
<1>4. CASE UNCHANGED vars
  BY <1>4, StutterKeeps
<1> QED
  BY <1>1, <1>2, <1>3, <1>4 DEF Next

\* RelayInv holds in every state of the relay.
THEOREM RelayInvariant == Spec => []RelayInv
<1> QED
  BY InitInv, NextKeeps, PTL DEF Spec

\* Every variable of the relay keeps to its type, and every path that a server
\* notes is one of the client's configured servers (Config::validate, ClientPath).
THEOREM RelayTypeCorrect == Spec => []TypeOK
<1>1. RelayInv => TypeOK
  BY DEF RelayInv
<1> QED
  BY <1>1, RelayInvariant, PTL

\* What is left of a stream to a server begins with a whole frame, which holds a
\* packet: streams are chains of items.
LEMMA UpFrameHolds ==
    ASSUME RelayInv, NEW c \in Connections, conns[c].up # <<>>
    PROVE  HasFrame(conns[c].up) /\ HoldsPacket(FirstFrame(conns[c].up))
<1>1. PICK b : b = conns[c].up
  OBVIOUS
<1>2. Stream(UpItems, served[c], b) /\ b # <<>> /\ TypeOK
  BY <1>1 DEF RelayInv, Carried, StreamsOK
<1>3. UpItems \subseteq Nat \X Frames
  BY <1>2, ItemsOK
<1>4. HasFrame(b) /\ \E i \in UpItems : FirstFrame(b) = i[2]
  BY <1>2, <1>3, StreamHead, Zenon
<1>5. PICK k \in 1..Len(sent) : FirstFrame(b) = PacketOf(sent[k], k)
  BY <1>2, <1>4, ItemsOK
<1>6. /\ sent[k] \in [session : 1..MaxSessions, seq : 0..SeqRange - 1, n : Nat]
      /\ k \in Packets
  BY <1>2, SentFacts
<1>7. PICK x : x = sent[k]
  OBVIOUS
<1>8. x \in [session : 1..MaxSessions, seq : 0..SeqRange - 1, n : Nat]
  BY <1>6, <1>7, Zenon
<1>9. /\ ~TooShort(PacketOf(x, k))
      /\ decode_packet(PacketOf(x, k)) = [id |-> x.session, seq |-> x.seq,
                                         payload |-> [i \in 1..PayloadLen[k] |-> k]]
  BY <1>6, <1>8, PacketFacts, Zenon
<1>10. FirstFrame(b) = PacketOf(x, k)
  BY <1>5, <1>7, Zenon
<1>11. HoldsPacket(FirstFrame(b))
  BY <1>7, <1>9, <1>10, Zenon DEF HoldsPacket
<1> QED
  BY <1>1, <1>4, <1>11, Zenon

\* And one to the client, with a response.
LEMMA DownFrameHolds ==
    ASSUME RelayInv, NEW c \in Connections, conns[c].down # <<>>
    PROVE  HasFrame(conns[c].down) /\ HoldsResponse(FirstFrame(conns[c].down))
<1>1. PICK b : b = conns[c].down
  OBVIOUS
<1>2. Stream(DownItems, 0, b) /\ b # <<>> /\ TypeOK
  BY <1>1 DEF RelayInv, Carried, StreamsOK
<1>3. DownItems \subseteq Nat \X Frames
  BY <1>2, ItemsOK
<1>4. HasFrame(b) /\ \E i \in DownItems : FirstFrame(b) = i[2]
  BY <1>2, <1>3, StreamHead, Zenon
<1>5. FirstFrame(b) \in ResponsePackets
  BY <1>2, <1>4, ItemsOK
<1>6. PICK s \in ClientSessions, r \in 1..Len(answered) :
         FirstFrame(b) = ResponseOf(s, answered[r].n, r)
  BY <1>5 DEF ResponsePackets
<1>7. answered[r].n \in 0..SeqRange - 1 /\ r \in Responses
  BY <1>2, AnsweredFacts
<1>8. PICK n : n = answered[r].n
  OBVIOUS
<1>9. s \in ClientSessions /\ r \in Responses /\ n \in 0..SeqRange - 1
  BY <1>6, <1>7, <1>8, Zenon
<1>10. /\ ~TooShort(ResponseOf(s, n, r))
       /\ decode_packet(ResponseOf(s, n, r)) = [id |-> s, seq |-> n,
                                         payload |-> [i \in 1..ResponseLen[r] |-> r]]
  BY <1>9, ResponseDecodes, Zenon
<1>11. FirstFrame(b) = ResponseOf(s, n, r)
  BY <1>6, <1>8, Zenon
<1>12. PICK p : p = FirstFrame(b)
  OBVIOUS
<1>13. ~TooShort(p)
  BY <1>10, <1>11, <1>12, Zenon
<1>14. decode_packet(p) = [id |-> s, seq |-> answered[r].n,
                           payload |-> [i \in 1..ResponseLen[r] |-> r]]
  BY <1>8, <1>10, <1>11, <1>12, Zenon
<1>15. HoldsResponse(p)
  BY <1>13, <1>14, Zenon DEF HoldsResponse
<1> QED
  BY <1>1, <1>4, <1>12, <1>15, Zenon

\* What is read from a connection is what was written to it, in both directions:
\* a server reads packets of the client, the client responses, each whole, and
\* whatever was written before (encode_packet, read_exact, send_tcp_frame).
\* Packets are checked against the length field; responses are not, and fit
\* because the target sends datagrams.
THEOREM FramesReadIntact == Spec => []FramesIntact
<1>1. RelayInv => FramesIntact
  <2>1. ASSUME RelayInv, NEW c \in Connections, conns[c].up # <<>>
        PROVE  HasFrame(conns[c].up) /\ HoldsPacket(FirstFrame(conns[c].up))
    BY <2>1, UpFrameHolds
  <2>2. ASSUME RelayInv, NEW c \in Connections, conns[c].down # <<>>
        PROVE  HasFrame(conns[c].down) /\ HoldsResponse(FirstFrame(conns[c].down))
    BY <2>2, DownFrameHolds
  <2> QED
    BY <2>1, <2>2 DEF FramesIntact
<1> QED
  BY <1>1, RelayInvariant, PTL

\* A closed connection is a path only of sessions older than the last it served
\* (cleanup_tcp_conn, conn_to_session).
THEOREM DeadPathsOld == Spec => []DeadPathsAreOld
<1>1. RelayInv => DeadPathsAreOld
  BY DEF RelayInv, PathsServed, DeadPathsAreOld
<1> QED
  BY <1>1, RelayInvariant, PTL

-----------------------------------------------------------------------------
(* The relay implements LossyRelay *)

\* A sequence that has one element more is that sequence appended to.
LEMMA AppendedTo ==
    ASSUME NEW S, NEW a \in Seq(S), NEW b \in Seq(S), NEW e \in S,
           Len(b) = Len(a) + 1, \A i \in 1..Len(a) : b[i] = a[i], b[Len(a) + 1] = e
    PROVE  b = Append(a, e)
<1>1. PICK c : c = Append(a, e)
  OBVIOUS
<1>2. /\ c \in Seq(S) /\ Len(c) = Len(a) + 1 /\ Len(a) \in Nat
      /\ \A i \in 1..Len(a) : c[i] = a[i]
      /\ c[Len(a) + 1] = e
  BY <1>1, AppendProperties, LenProperties
<1>3. \A i \in 1..Len(b) : i \in 1..Len(a) \/ i = Len(a) + 1
  BY <1>2
<1>4. \A i \in 1..Len(b) : b[i] = c[i]
  BY <1>2, <1>3
<1>5. b = c
  BY <1>2, <1>4, SeqEqual
<1> QED
  BY <1>1, <1>5

LEMMA MappedSeq ==
    ASSUME NEW S, NEW n \in Nat, NEW f \in [1..n -> S]
    PROVE  f \in Seq(S) /\ Len(f) = n
OBVIOUS

LEMMA InitPromised == Init => Promise!Init
<1> SUFFICES ASSUME Init PROVE Promise!Init
  OBVIOUS
<1>1. /\ sent = <<>> /\ answered = <<>>
      /\ passed = [o \in Targets |-> <<>>] /\ returned = [s \in ClientSessions |-> {}]
      /\ sessions = [h \in Ips |-> [s \in ClientSessions |-> 0]]
  BY DEF Init
<1>2. \A f : f = [k \in 1..0 |-> f[k]] => f = <<>>
  OBVIOUS
<1>3. OriginOf = <<>> /\ AnswererOf = <<>>
  BY <1>1, <1>2, NoPackets DEF OriginOf, AnswererOf
<1>4. OpenTargets = [s \in ClientSessions |-> {}]
  <2>1. \A s \in ClientSessions : OpenAt(s) = {}
    BY <1>1 DEF OpenAt
  <2> QED
    BY <2>1 DEF OpenTargets
<1>5. PassedAt = [o \in Targets |-> {}]
  BY <1>1, NoPackets DEF PassedAt
<1> QED
  BY <1>1, <1>3, <1>4, <1>5 DEF Promise!Init

\* What a step that does not show leaves alone.
LEMMA QuietPromised ==
    ASSUME UNCHANGED <<sent, sessions, passed, answered, returned>>
    PROVE  UNCHANGED Promise!vars
<1>1. OriginOf' = OriginOf
  BY DEF OriginOf
<1>2. OpenTargets' = OpenTargets
  BY DEF OpenTargets, OpenAt
<1>3. PassedAt' = PassedAt
  BY DEF PassedAt
<1>4. AnswererOf' = AnswererOf
  BY DEF AnswererOf
<1> QED
  BY <1>1, <1>2, <1>3, <1>4 DEF Promise!vars

LEMMA SendPromised ==
    ASSUME TypeOK, NEW s \in ClientSessions, NEW q \in 0..SeqRange - 1, NEW dial,
           SendPacket(s, q, dial), used <= s,
           UNCHANGED <<sessions, passed, answered, returned>>
    PROVE  Promise!Next
<1>1. /\ sent' \in Seq([session : 1..s, seq : 0..SeqRange - 1, n : Nat])
      /\ Len(sent') = Len(sent) + 1 /\ Len(sent) \in Nat
      /\ \A k \in 1..Len(sent) : sent'[k] = sent[k]
      /\ sent'[Len(sent) + 1].session = s
  BY SendHistory, TypeFacts
<1>2. PICK t : t = sent' /\ Len(t) = Len(sent) + 1
  BY <1>1
<1>3. PICK n \in Nat : n = Len(sent)
  BY <1>1
<1>4. /\ \A k \in 1..n : sent[k].session \in ClientSessions
      /\ \A k \in 1..n : t[k].session = sent[k].session
      /\ t[n + 1].session = s
  BY <1>1, <1>2, <1>3, SentFacts
<1>5. PICK a : a = [k \in 1..n |-> sent[k].session]
  OBVIOUS
<1>6. PICK b : b = [k \in 1..n + 1 |-> t[k].session]
  OBVIOUS
<1>7. OriginOf = a /\ OriginOf' = b
  BY <1>2, <1>3, <1>5, <1>6 DEF OriginOf
<1>8. a \in [1..n -> ClientSessions] /\ b \in [1..n + 1 -> ClientSessions]
  <2>1. \A k \in 1..n + 1 : k \in 1..n \/ k = n + 1
    OBVIOUS
  <2>2. \A k \in 1..n + 1 : t[k].session \in ClientSessions
    BY <1>4, <2>1
  <2> QED
    BY <1>4, <1>5, <1>6, <2>2
<1>9. /\ a \in Seq(ClientSessions) /\ Len(a) = n
      /\ b \in Seq(ClientSessions) /\ Len(b) = n + 1
  BY <1>8, MappedSeq
<1>10. (\A k \in 1..n : b[k] = a[k]) /\ b[n + 1] = s
  BY <1>4, <1>5, <1>6
<1>11. b = Append(a, s)
  BY <1>9, <1>10, AppendedTo
<1>12. Len(OriginOf) + 1 \in Packets
  BY <1>3, <1>7, <1>9 DEF SendPacket
<1>13. OpenTargets' = OpenTargets /\ PassedAt' = PassedAt /\ AnswererOf' = AnswererOf
  BY DEF OpenTargets, OpenAt, PassedAt, AnswererOf
<1>14. Promise!Send(s)
  BY <1>7, <1>11, <1>12, <1>13 DEF Promise!Send
<1> QED
  BY <1>14 DEF Promise!Next

\* The target session of a client session is the one at the client's servers.
LEMMA OpenFacts ==
    ASSUME RelayInv, Host \in Ips, NEW s \in ClientSessions
    PROVE  /\ OpenTargets[s] = {sessions[Host][s]} \ {0}
           /\ OpenTargets \in [ClientSessions -> SUBSET Nat]
<1>1. \A x \in ClientSessions : OpenAt(x) = {sessions[Host][x]} \ {0}
  BY DEF OpenAt, RelayInv, Remembered, OneOwner
<1>2. sessions \in [Ips -> [ClientSessions -> 0..target]] /\ target \in Nat
  BY TypeFacts, QuietFacts DEF RelayInv
<1>3. \A x \in ClientSessions : OpenAt(x) \in SUBSET Nat
  BY <1>1, <1>2
<1> QED
  BY <1>1, <1>3 DEF OpenTargets

\* A packet that is handled passes at its session's only target session, and
\* not again, or is refused and nothing shows.
LEMMA PassPromised ==
    ASSUME RelayInv, NEW k \in 1..Len(sent), NEW m, NEW p, NEW reached,
           m.id = sent[k].session, m.seq = sent[k].seq, m.payload[1] = k,
           HandlePacket(Host, m, p, reached), Host \in Ips,
           UNCHANGED <<sent, answered, returned>>
    PROVE  Promise!Next \/ UNCHANGED Promise!vars
<1> DEFINE s == sent[k].session
           o == At(k)
<1>1. /\ Known(k) \in 0..target /\ s \in ClientSessions
      /\ o \in Targets /\ o \in Nat /\ o > 0
      /\ Refuses(k) => Known(k) # 0
      /\ Known(k) # 0 => Refuses(k) = IsDuplicate(dedup[o], sent[k].seq)
  BY HandledAt, Handled, Zenon
<1>2. /\ target \in Nat
      /\ passed \in [Targets -> Seq(1..Len(sent))]
      /\ sessions \in [Ips -> [ClientSessions -> 0..target]]
      /\ \A x \in Targets : x > target => passed[x] = <<>>
  BY TypeFacts DEF RelayInv, TypeOK, HistoryOK, ServersOK, Remembered, Unborn
<1>3. o = (IF Known(k) = 0 THEN target + 1 ELSE Known(k)) /\ Known(k) = sessions[Host][s]
  BY DEF At, Known
<1>4. /\ sessions' = [sessions EXCEPT ![Host][s] = o]
      /\ passed' = IF Refuses(k) THEN passed ELSE [passed EXCEPT ![o] = Append(passed[o], k)]
  BY Handled, Zenon
<1> HIDE DEF o
<1>5. CASE Refuses(k)
  <2>1. sessions' = sessions
    <3>1. o = sessions[Host][s]
      BY <1>1, <1>3, <1>5
    <3> HIDE DEF s
    <3> QED
      BY <1>1, <1>2, <1>4, <3>1
  <2>2. UNCHANGED <<sent, sessions, passed, answered, returned>>
    BY <1>4, <1>5, <2>1
  <2> QED
    BY <2>2, QuietPromised, Zenon
<1>6. CASE ~Refuses(k)
  <2>1. \A x \in ClientSessions : OpenTargets[x] = {sessions[Host][x]} \ {0}
    BY OpenFacts
  <2>2. OpenTargets \in [ClientSessions -> SUBSET Nat]
    BY <1>1, OpenFacts, Zenon
  <2>3. /\ PassedAt \in [Targets -> SUBSET (1..Len(sent))]
        /\ \A x \in Targets : PassedAt[x] = {passed[x][i] : i \in DOMAIN passed[x]}
    <3>1. ASSUME NEW x \in Targets, NEW i \in DOMAIN passed[x]
          PROVE  passed[x][i] \in 1..Len(sent)
      <4>1. passed[x] \in Seq(1..Len(sent))
        BY <1>2
      <4> QED
        BY <4>1
    <3> QED
      BY <3>1 DEF PassedAt
  <2>4. OriginOf[k] = s /\ Len(OriginOf) = Len(sent)
    <3>1. PICK n \in Nat : n = Len(sent)
      BY TypeFacts DEF RelayInv
    <3>2. OriginOf \in [1..n -> ClientSessions]
      BY <3>1, SentFacts DEF OriginOf, RelayInv
    <3>3. OriginOf[k] = s
      BY DEF OriginOf
    <3> QED
      BY <3>1, <3>2, <3>3, MappedSeq
  <2> HIDE DEF s
  <2>5. Known(k) = 0 => passed[o] = <<>>
    BY <1>1, <1>2, <1>3
  <2>6. OpenTargets[s] \subseteq {o} /\ (OpenTargets[s] = {} => PassedAt[o] = {})
    <3>1. OpenTargets[s] = {Known(k)} \ {0}
      BY <1>1, <1>3, <2>1
    <3>2. CASE Known(k) = 0
      <4>1. OpenTargets[s] = {}
        BY <3>1, <3>2
      <4>2. PassedAt[o] = {}
        BY <1>1, <2>3, <2>5, <3>2, NoPackets
      <4> QED
        BY <4>1, <4>2
    <3>3. CASE Known(k) # 0
      BY <1>3, <3>1, <3>3
    <3> QED
      BY <3>2, <3>3
  <2>7. ASSUME NEW x \in ClientSessions \ {s} PROVE o \notin OpenTargets[x]
    <3>1. sessions[Host][x] \in 0..target
      BY <1>2
    <3>2. CASE Known(k) = 0
      BY <1>1, <1>2, <1>3, <2>1, <3>1, <3>2
    <3>3. CASE Known(k) # 0
      <4>1. sessions[Host][s] # 0 /\ sessions[Host][s] = sessions[Host][x] => s = x
        BY <1>1 DEF RelayInv, Remembered, OneOwner
      <4> QED
        BY <1>1, <1>3, <2>1, <3>3, <4>1
    <3> QED
      BY <3>2, <3>3
  <2>8. k \notin PassedAt[o]
    <3>1. CASE Known(k) = 0
      BY <1>1, <2>3, <2>5, <3>1, NoPackets
    <3>2. CASE Known(k) # 0
      <4>1. ~IsDuplicate(dedup[o], sent[k].seq)
        BY <1>1, <1>6, <3>2
      <4>2. \A i \in DOMAIN passed[o] : passed[o][i] # k
        BY <1>1, <4>1 DEF RelayInv, Remembered, PassedRecorded
      <4> QED
        BY <1>1, <2>3, <4>2
    <3> QED
      BY <3>1, <3>2
  <2>9. PassedAt' = [PassedAt EXCEPT ![o] = PassedAt[o] \cup {k}]
    <3>1. PICK l : l = passed[o] /\ l \in Seq(1..Len(sent))
      BY <1>1, <1>2
    <3>2. PICK z : z = Append(l, k)
      OBVIOUS
    <3>3. {z[i] : i \in DOMAIN z} = {l[i] : i \in DOMAIN l} \cup {k}
      <4>1. /\ DOMAIN z = 1..Len(l) + 1 /\ DOMAIN l = 1..Len(l) /\ Len(l) \in Nat
            /\ \A i \in 1..Len(l) : z[i] = l[i]
            /\ z[Len(l) + 1] = k
        BY <3>1, <3>2
      <4>2. \A i \in DOMAIN z : i \in DOMAIN l \/ i = Len(l) + 1
        BY <4>1
      <4>3. DOMAIN l \subseteq DOMAIN z /\ Len(l) + 1 \in DOMAIN z
        BY <4>1
      <4> QED
        BY <4>1, <4>2, <4>3
    <3>4. passed' = [passed EXCEPT ![o] = z]
      BY <1>4, <1>6, <3>1, <3>2
    <3>5. \A x \in Targets : passed'[x] = IF x = o THEN z ELSE passed[x]
      BY <1>2, <3>4
    <3>6. PassedAt' = [x \in Targets |-> {passed'[x][i] : i \in DOMAIN passed'[x]}]
      BY DEF PassedAt
    <3>7. \A x \in Targets : PassedAt'[x] = IF x = o THEN PassedAt[o] \cup {k} ELSE PassedAt[x]
      <4> SUFFICES ASSUME NEW x \in Targets
                   PROVE  PassedAt'[x] = IF x = o THEN PassedAt[o] \cup {k} ELSE PassedAt[x]
        OBVIOUS
      <4>1. PassedAt'[x] = {passed'[x][i] : i \in DOMAIN passed'[x]}
        BY <3>6
      <4>2. CASE x = o
        <5>1. passed'[x] = z /\ PassedAt[o] = {l[i] : i \in DOMAIN l}
          BY <1>1, <2>3, <3>1, <3>5, <4>2
        <5>2. PassedAt'[x] = {z[i] : i \in DOMAIN z}
          BY <4>1, <5>1
        <5> QED
          BY <3>3, <4>2, <5>1, <5>2, Zenon
      <4>3. CASE x # o
        <5>1. passed'[x] = passed[x] /\ PassedAt[x] = {passed[x][i] : i \in DOMAIN passed[x]}
          BY <2>3, <3>5, <4>3
        <5>2. PassedAt'[x] = PassedAt[x]
          BY <4>1, <5>1
        <5> QED
          BY <4>3, <5>2, Zenon
      <4> QED
        BY <4>2, <4>3
    <3> QED
      BY <2>3, <3>6, <3>7
  <2>10. OpenTargets' = [OpenTargets EXCEPT ![s] = {o}]
    <3>1. \A h \in Ips, x \in ClientSessions :
             sessions'[h][x] = IF h = Host /\ x = s THEN o ELSE sessions[h][x]
      BY <1>1, <1>2, <1>4
    <3>2. \A h \in Ips, x \in ClientSessions : sessions[h][x] # 0 => h = Host
      BY DEF RelayInv, Remembered, OneOwner
    <3>3. \A x \in ClientSessions : OpenAt(x)' = {sessions'[Host][x]} \ {0}
      BY <3>1, <3>2 DEF OpenAt
    <3>4. \A x \in ClientSessions : OpenAt(x)' = IF x = s THEN {o} ELSE OpenTargets[x]
      <4> SUFFICES ASSUME NEW x \in ClientSessions
                   PROVE  OpenAt(x)' = IF x = s THEN {o} ELSE OpenTargets[x]
        OBVIOUS
      <4>1. CASE x = s
        <5>1. OpenAt(x)' = {o} \ {0} /\ o # 0
          BY <1>1, <3>1, <3>3, <4>1
        <5> QED
          BY <4>1, <5>1
      <4>2. CASE x # s
        <5>1. sessions'[Host][x] = sessions[Host][x]
          BY <3>1, <4>2
        <5> QED
          BY <2>1, <3>3, <4>2, <5>1
      <4> QED
        BY <4>1, <4>2
    <3>5. OpenTargets' = [x \in ClientSessions |-> OpenAt(x)']
      BY DEF OpenTargets
    <3> QED
      BY <2>2, <3>4, <3>5
  <2>11. OriginOf' = OriginOf /\ AnswererOf' = AnswererOf
    BY DEF OriginOf, AnswererOf
  <2>12. Promise!Serves(o, OriginOf[k])
    BY <2>4, <2>6, <2>7 DEF Promise!Serves
  <2>13. Promise!Pass(k, o)
    BY <2>4, <2>8, <2>9, <2>10, <2>11, <2>12 DEF Promise!Pass
  <2>14. k \in Packets
    BY SentFacts DEF RelayInv
  <2> QED
    BY <1>1, <2>13, <2>14 DEF Promise!Next
<1> QED
  BY <1>5, <1>6

LEMMA AnswerPromised ==
    ASSUME RelayInv, NEW h \in Ips, NEW s \in ClientSessions, Respond(h, s)
    PROVE  Promise!Next
<1>1. PICK o : o = sessions[h][s]
  OBVIOUS
<1>2. /\ o # 0 /\ Len(answered) + 1 \in Responses
      /\ answered' = Append(answered, [target |-> o, n |-> response_seq[o]])
      /\ UNCHANGED <<sessions, requests, returned>>
  BY <1>1 DEF Respond
<1>3. /\ TypeOK /\ target \in Nat /\ target <= MaxTargets /\ MaxTargets \in Nat
      /\ sessions \in [Ips -> [ClientSessions -> 0..target]]
      /\ response_seq \in [Targets -> 0..SeqRange - 1]
  BY QuietFacts, TypeFacts DEF RelayInv, TypeOK, ServersOK
<1>4. o \in 1..target /\ o \in Targets
  <2>1. o \in 0..target
    BY <1>1, <1>3
  <2> QED
    BY <1>2, <1>3, <2>1 DEF Targets
<1>5. PICK i \in 0..SeqRange - 1 : i = response_seq[o]
  BY <1>3, <1>4
<1>6. PICK n \in Nat : n = Len(answered)
  BY <1>3, TypeFacts
<1>7. PICK t : t = answered' /\ Len(t) = n + 1
  BY <1>2, <1>3, <1>4, <1>5, <1>6, AnsweredGrows
<1>8. (\A j \in 1..n : t[j] = answered[j]) /\ t[n + 1].target = o
  <2>1. /\ \A j \in 1..Len(answered) : answered'[j] = answered[j]
        /\ answered'[Len(answered) + 1] = [target |-> o, n |-> i]
    BY <1>2, <1>3, <1>4, <1>5, AnsweredGrows
  <2> QED
    BY <1>6, <1>7, <2>1
<1>9. PICK a : a = [j \in 1..n |-> answered[j].target]
  OBVIOUS
<1>10. PICK b : b = [j \in 1..n + 1 |-> t[j].target]
  OBVIOUS
<1>11. AnswererOf = a /\ AnswererOf' = b
  BY <1>6, <1>7, <1>9, <1>10 DEF AnswererOf
<1>12. a \in [1..n -> Targets] /\ b \in [1..n + 1 -> Targets]
  <2>1. \A j \in 1..n : answered[j].target \in Targets
    BY <1>3, <1>6, AnsweredFacts
  <2>2. \A j \in 1..n + 1 : j \in 1..n \/ j = n + 1
    OBVIOUS
  <2>3. \A j \in 1..n + 1 : t[j].target \in Targets
    BY <1>4, <1>8, <2>1, <2>2
  <2> QED
    BY <1>9, <1>10, <2>1, <2>3
<1>13. /\ a \in Seq(Targets) /\ Len(a) = n /\ b \in Seq(Targets) /\ Len(b) = n + 1
       /\ (\A j \in 1..n : b[j] = a[j]) /\ b[n + 1] = o
  BY <1>8, <1>9, <1>10, <1>12, MappedSeq
<1>14. b = Append(a, o)
  BY <1>4, <1>13, AppendedTo
<1>15. OriginOf' = OriginOf /\ OpenTargets' = OpenTargets /\ PassedAt' = PassedAt
  BY <1>2 DEF requests, OriginOf, OpenTargets, OpenAt, PassedAt
<1>16. o \in OpenTargets[s]
  BY <1>1, <1>2 DEF OpenTargets, OpenAt
<1>17. Promise!Answer(s, o)
  BY <1>2, <1>11, <1>14, <1>15, <1>16 DEF Promise!Answer
<1> QED
  BY <1>4, <1>17 DEF Promise!Next

\* A response that is returned was given, and is not returned again.
LEMMA ReturnPromised ==
    ASSUME RelayInv, NEW s \in ClientSessions, NEW m, NEW r \in 1..Len(answered),
           m.seq = answered[r].n, m.payload[1] = r, ReturnResponse(s, m),
           UNCHANGED <<sent, sessions, passed, answered>>
    PROVE  Promise!Next \/ UNCHANGED Promise!vars
<1>1. returned' = IF IsDuplicate(response_dedup[s], answered[r].n) THEN returned
                  ELSE [returned EXCEPT ![s] = returned[s] \cup {r}]
  BY Zenon DEF ReturnResponse
<1>2. CASE IsDuplicate(response_dedup[s], answered[r].n)
  BY <1>1, <1>2, QuietPromised
<1>3. CASE ~IsDuplicate(response_dedup[s], answered[r].n)
  <2>1. r \notin returned[s]
    BY <1>3 DEF RelayInv, Remembered, ReturnedRecorded
  <2>2. /\ OriginOf' = OriginOf /\ OpenTargets' = OpenTargets /\ PassedAt' = PassedAt
        /\ AnswererOf' = AnswererOf
    BY DEF OriginOf, OpenTargets, OpenAt, PassedAt, AnswererOf
  <2>3. Promise!Return(s, r)
    BY <1>1, <1>3, <2>1, <2>2 DEF Promise!Return
  <2>4. Len(AnswererOf) = Len(answered)
    <3>1. PICK n \in Nat : n = Len(answered)
      BY TypeFacts DEF RelayInv
    <3>2. AnswererOf \in [1..n -> Targets]
      BY <3>1, AnsweredFacts DEF AnswererOf, RelayInv
    <3> QED
      BY <3>1, <3>2, MappedSeq
  <2>5. r \in 1..Len(AnswererOf)
    BY <2>4
  <2> QED
    BY <2>3, <2>5, Zenon DEF Promise!Next
<1> QED
  BY <1>2, <1>3

\* Sessions that are lost close.
LEMMA ClosePromised ==
    ASSUME RelayInv, NEW h \in Ips, NEW S \in SUBSET ClientSessions,
           \E s \in ClientSessions : sessions[h][s] # 0,
           UNCHANGED <<cfg, sent, passed, answered, returned>>,
           \A g \in Ips, x \in ClientSessions :
              sessions'[g][x] = IF g = h /\ x \in S THEN 0 ELSE sessions[g][x]
    PROVE  Promise!Next
<1>1. h = Host /\ Host \in Ips
  BY DEF RelayInv, Remembered, OneOwner
<1>2. \A g \in Ips, x \in ClientSessions : sessions[g][x] # 0 => g = Host
  BY DEF RelayInv, Remembered, OneOwner
<1>3. \A x \in ClientSessions : OpenAt(x)' = IF x \in S THEN {} ELSE OpenTargets[x]
  <2> SUFFICES ASSUME NEW x \in ClientSessions
               PROVE  OpenAt(x)' = IF x \in S THEN {} ELSE OpenTargets[x]
    OBVIOUS
  <2>1. OpenAt(x)' = {sessions'[g][x] : g \in Ips} \ {0}
    BY DEF OpenAt
  <2>2. OpenTargets[x] = {sessions[g][x] : g \in Ips} \ {0}
    BY DEF OpenTargets, OpenAt
  <2>3. CASE x \in S
    <3>1. \A g \in Ips : sessions'[g][x] = 0
      BY <1>1, <1>2, <2>3
    <3> QED
      BY <2>1, <2>3, <3>1
  <2>4. CASE x \notin S
    <3>1. \A g \in Ips : sessions'[g][x] = sessions[g][x]
      BY <2>4
    <3> QED
      BY <2>1, <2>2, <2>4, <3>1
  <2> QED
    BY <2>3, <2>4
<1>4. OpenTargets' = [x \in ClientSessions |-> IF x \in S THEN {} ELSE OpenTargets[x]]
  BY <1>3 DEF OpenTargets
<1>5. OriginOf' = OriginOf /\ PassedAt' = PassedAt /\ AnswererOf' = AnswererOf
  BY DEF OriginOf, PassedAt, AnswererOf
<1>6. Promise!Close(S)
  BY <1>4, <1>5 DEF Promise!Close
<1> QED
  BY <1>6 DEF Promise!Next

LEMMA ClientStepPromised ==
    ASSUME RelayInv, ClientNext
    PROVE  Promise!Next \/ UNCHANGED Promise!vars
<1>1. TypeOK
  BY DEF RelayInv
<1>2. ASSUME NEW dial, SourcePacket(dial) PROVE Promise!Next
  <2>1. /\ current # 0 /\ SendPacket(current, seq[current], dial)
        /\ UNCHANGED <<server, passed, replies>>
    BY <1>2 DEF SourcePacket
  <2>2. UNCHANGED <<sessions, passed, answered, returned>>
    BY <2>1 DEF server, replies
  <2>3. current \in ClientSessions /\ seq[current] \in 0..SeqRange - 1 /\ used <= current
    <3>1. current = used /\ current \in ClientSessions /\ used \in Nat
      BY <1>1, <2>1, TypeFacts DEF ClientSessions
    <3>2. seq \in [ClientSessions -> 0..SeqRange - 1]
      BY <1>1 DEF TypeOK, ClientOK
    <3> QED
      BY <3>1, <3>2
  <2> QED
    BY <1>1, <2>1, <2>2, <2>3, SendPromised
<1>3. ASSUME NEW draw \in Draws, NEW dial, SourceOpens(draw, dial) PROVE Promise!Next
  <2>1. /\ used < MaxSessions /\ SendPacket(used + 1, initial_seq(draw), dial)
        /\ UNCHANGED <<server, passed, replies>>
    BY <1>3 DEF SourceOpens
  <2>2. UNCHANGED <<sessions, passed, answered, returned>>
    BY <2>1 DEF server, replies
  <2>3. used + 1 \in ClientSessions /\ used <= used + 1
    BY <1>1, <2>1, TypeFacts DEF ClientSessions
  <2> QED
    BY <1>1, <2>1, <2>2, <2>3, InitialSeq, SendPromised
<1>4. ASSUME NEW d \in net_down, RecvUdpResponse(d)
      PROVE  Promise!Next \/ UNCHANGED Promise!vars
  <2>1. PICK m : m = decode_packet(d[2])
    OBVIOUS
  <2>2. /\ ReturnResponse(m.id, m)
        /\ UNCHANGED <<server, requests, answered>>
    BY <1>4, <2>1 DEF RecvUdpResponse
  <2>3. UNCHANGED <<sent, sessions, passed, answered>>
    BY <2>2 DEF server, requests
  <2>4. d[2] \in ResponsePackets
    BY DEF RelayInv, Carried, InFlight
  <2>5. PICK s \in ClientSessions, r \in 1..Len(answered) :
           m.id = s /\ m.seq = answered[r].n /\ m.payload[1] = r
    BY <1>1, <2>1, <2>4, ResponsePacket, Zenon
  <2>6. ReturnResponse(s, m)
    BY <2>2, <2>5
  <2> QED
    BY <2>3, <2>5, <2>6, ReturnPromised
<1>5. ASSUME NEW c \in Connections, RecvTcpResponse(c)
      PROVE  Promise!Next \/ UNCHANGED Promise!vars
  <2>1. PICK m : m = decode_packet(FirstFrame(conns[c].down))
    OBVIOUS
  <2>2. /\ HasFrame(conns[c].down)
        /\ IF current # 0 THEN ReturnResponse(current, m)
           ELSE UNCHANGED <<response_dedup, returned, unheard>>
        /\ UNCHANGED <<server, requests, answered>>
    BY <1>5, <2>1 DEF RecvTcpResponse
  <2>3. UNCHANGED <<sent, sessions, passed, answered>>
    BY <2>2 DEF server, requests
  <2>4. PICK r \in 1..Len(answered) : m.seq = answered[r].n /\ m.payload[1] = r
    BY <2>1, <2>2, FrameResponse, Zenon
  <2>5. CASE current = 0
    BY <2>2, <2>3, <2>5, QuietPromised
  <2>6. CASE current # 0
    <3>1. current \in ClientSessions
      BY <1>1, <2>6, TypeFacts DEF ClientSessions
    <3>2. ReturnResponse(current, m)
      BY <2>2, <2>6
    <3> QED
      BY <2>3, <2>4, <3>1, <3>2, ReturnPromised
  <2> QED
    BY <2>5, <2>6
<1>6. ASSUME NEW c \in Connections, ClientCloses(c) PROVE UNCHANGED Promise!vars
  BY <1>6, QuietPromised DEF ClientCloses, server, requests, replies
<1> QED
  BY <1>2, <1>3, <1>4, <1>5, <1>6 DEF ClientNext

LEMMA ServerStepPromised ==
    ASSUME RelayInv, ServerNext
    PROVE  Promise!Next \/ UNCHANGED Promise!vars
<1>1. TypeOK
  BY DEF RelayInv
<1>2. ASSUME NEW d \in net_up, NEW reached, RecvUdp(d, reached)
      PROVE  Promise!Next \/ UNCHANGED Promise!vars
  <2>1. PICK m : m = decode_packet(d[2])
    OBVIOUS
  <2>2. PICK k \in 1..Len(sent) :
           m.id = sent[k].session /\ m.seq = sent[k].seq /\ m.payload[1] = k
    BY <2>1, DatagramPacket, Zenon
  <2>3. d[1].ep.host = Host /\ Host \in Ips
    BY DatagramPacket, Zenon
  <2>4. HandlePacket(Host, m, d[1], reached)
    BY <1>2, <2>1, <2>3 DEF RecvUdp
  <2>5. UNCHANGED <<sent, answered, returned>>
    BY <1>2 DEF RecvUdp, replies
  <2> QED
    BY <2>2, <2>3, <2>4, <2>5, PassPromised
<1>3. ASSUME NEW c \in Connections, NEW reached, RecvTcp(c, reached)
      PROVE  Promise!Next \/ UNCHANGED Promise!vars
  <2>1. PICK m : m = decode_packet(FirstFrame(conns[c].up))
    OBVIOUS
  <2>2. HasFrame(conns[c].up)
    BY <1>3 DEF RecvTcp
  <2>3. PICK k \in 1..Len(sent) :
           m.id = sent[k].session /\ m.seq = sent[k].seq /\ m.payload[1] = k
    BY <2>1, <2>2, FramePacket
  <2>4. c[1].host = Host /\ Host \in Ips
    BY <1>1, TypeFacts, PathFacts
  <2>5. HandlePacket(Host, m, PathOfConn(c), reached)
    BY <1>3, <2>1, <2>4, Zenon DEF RecvTcp
  <2>6. UNCHANGED <<sent, answered, returned>>
    BY <1>3 DEF RecvTcp, replies
  <2> QED
    BY <2>3, <2>4, <2>5, <2>6, PassPromised
<1>4. ASSUME NEW c \in Connections, DropTcp(c) PROVE UNCHANGED Promise!vars
  BY <1>4, QuietPromised DEF DropTcp, server, requests, replies
<1>5. ASSUME NEW c \in Connections, ServerCloses(c) PROVE UNCHANGED Promise!vars
  BY <1>5, QuietPromised DEF ServerCloses, requests, replies
<1>6. ASSUME NEW h \in Ips, NEW s \in ClientSessions, Respond(h, s) PROVE Promise!Next
  BY <1>6, AnswerPromised
<1> QED
  BY <1>2, <1>3, <1>4, <1>5, <1>6 DEF ServerNext

LEMMA FaultStepPromised ==
    ASSUME RelayInv, FaultNext
    PROVE  Promise!Next \/ UNCHANGED Promise!vars
<1>1. ASSUME SourceExpires PROVE UNCHANGED Promise!vars
  BY <1>1, QuietPromised DEF SourceExpires, server, requests, replies
<1>2. ASSUME ClientRestarts PROVE UNCHANGED Promise!vars
  BY <1>2, QuietPromised DEF ClientRestarts, server, requests, replies
<1>3. ASSUME NEW e \in Endpoints("tcp"), ConnExpires(e) PROVE UNCHANGED Promise!vars
  BY <1>3, QuietPromised DEF ConnExpires, server, requests, replies
<1>4. sessions \in [Ips -> [ClientSessions -> 0..target]]
  BY QuietFacts DEF RelayInv
<1>5. ASSUME NEW h \in Ips, ServerRestarts(h) PROVE Promise!Next
  <2>1. PICK none : none = [s \in ClientSessions |-> 0]
    OBVIOUS
  <2>2. /\ \E s \in ClientSessions : sessions[h][s] # 0
        /\ sessions' = [sessions EXCEPT ![h] = none]
        /\ UNCHANGED <<cfg, sent, passed, answered, returned>>
    BY <1>5, <2>1 DEF ServerRestarts, requests, replies
  <2>3. \A x \in ClientSessions : none[x] = 0
    BY <2>1
  <2>4. \A g \in Ips, x \in ClientSessions :
           sessions'[g][x] = IF g = h /\ x \in ClientSessions THEN 0 ELSE sessions[g][x]
    BY <1>4, <2>2, <2>3
  <2> QED
    BY <2>2, <2>4, ClosePromised
<1>6. ASSUME NEW h \in Ips, NEW s \in ClientSessions, TargetExpires(h, s) PROVE Promise!Next
  <2>1. /\ sessions[h][s] # 0 /\ sessions' = [sessions EXCEPT ![h][s] = 0]
        /\ UNCHANGED <<cfg, sent, passed, answered, returned>>
    BY <1>6 DEF TargetExpires, requests, replies
  <2>2. PICK S \in SUBSET ClientSessions : S = {s}
    OBVIOUS
  <2>3. \A g \in Ips, x \in ClientSessions :
           sessions'[g][x] = IF g = h /\ x \in S THEN 0 ELSE sessions[g][x]
    BY <1>4, <2>1, <2>2
  <2> QED
    BY <2>1, <2>3, ClosePromised
<1> QED
  BY <1>1, <1>2, <1>3, <1>5, <1>6 DEF FaultNext

LEMMA NextPromised == RelayInv /\ [Next]_vars => [Promise!Next]_(Promise!vars)
<1> SUFFICES ASSUME RelayInv, [Next]_vars PROVE Promise!Next \/ UNCHANGED Promise!vars
  OBVIOUS
<1>1. CASE Next
  BY <1>1, ClientStepPromised, ServerStepPromised, FaultStepPromised DEF Next
<1>2. CASE UNCHANGED vars
  BY <1>2, QuietPromised DEF vars, server, requests, replies
<1> QED
  BY <1>1, <1>2

\* The relay implements LossyRelay: no packet passes twice, or at a target session
\* that is not the only one of its client session, and no response is returned
\* twice in a session or was never given, whatever is lost, repeated or overtaken
\* and however often client, servers and connections end (is_duplicate of both).
THEOREM RelayImplementsPromise == Spec => ImplementsLossyRelay
<1> QED
  BY InitPromised, NextPromised, RelayInvariant, PTL
  DEF Spec, ImplementsLossyRelay, Promise!Spec

-----------------------------------------------------------------------------
(* How numbers grow *)

\* How many packets a session has sent.
Of(s) == {j \in 1..Len(sent) : sent[j].session = s}
Count(s) == Cardinality(Of(s))
FirstHalf == (SeqRange - 1) \div 2

\* A session's numbers follow each other from its first, which leaves room for
\* all of them, and its packets have their places in the order of sending.
Consecutive ==
    /\ \A s \in ClientSessions : seq[s] < FirstHalf + Count(s)
    /\ \A k \in 1..Len(sent) :
          /\ sent[k].seq + Count(sent[k].session) = sent[k].n + seq[sent[k].session]
          /\ sent[k].n < Count(sent[k].session)
    /\ \A j, k \in 1..Len(sent) :
          j < k /\ sent[j].session = sent[k].session => sent[j].n < sent[k].n

\* What passed at a target session is of one client session.
OneOrigin ==
    /\ \A o \in Targets : \A i, j \in DOMAIN passed[o] :
          sent[passed[o][i]].session = sent[passed[o][j]].session
    /\ \A h \in Ips, s \in ClientSessions : sessions[h][s] # 0 =>
          \A i \in DOMAIN passed[sessions[h][s]] :
              sent[passed[sessions[h][s]][i]].session = s

\* A window holds numbers that passed, and starts at the first of them or a
\* window behind one of them.
WindowsExplained ==
    \A o \in Targets :
        /\ dedup[o].started => passed[o] # <<>>
        /\ \A q \in dedup[o].seen : \E i \in DOMAIN passed[o] : sent[passed[o][i]].seq = q
        /\ dedup[o].started =>
              \/ dedup[o].min_seq = sent[passed[o][1]].seq
              \/ \E i \in DOMAIN passed[o] :
                    dedup[o].min_seq + cfg.dedup_window <= sent[passed[o][i]].seq + 1

\* A window of responses holds numbers of responses that were returned.
ResponsesHeld ==
    \A s \in ClientSessions : \A q \in response_dedup[s].seen :
        \E r \in returned[s] : answered[r].n = q

\* A target session numbers its responses from 0, each with a number of its own.
AnswersNumbered ==
    /\ \A o \in Targets : response_seq[o] <= Len(answered)
    /\ \A r \in 1..Len(answered) : answered[r].n < response_seq[answered[r].target]
    /\ \A q, r \in 1..Len(answered) :
          answered[q].target = answered[r].target /\ answered[q].n = answered[r].n => q = r

Explained == Consecutive /\ OneOrigin /\ WindowsExplained /\ ResponsesHeld /\ AnswersNumbered

LEMMA InitExplained == Init => Explained
<1> SUFFICES ASSUME Init PROVE Explained
  OBVIOUS
<1>1. /\ sent = <<>> /\ answered = <<>> /\ seq = [s \in ClientSessions |-> 0]
      /\ response_dedup = [s \in ClientSessions |-> New]
      /\ sessions = [h \in Ips |-> [s \in ClientSessions |-> 0]]
      /\ dedup = [o \in Targets |-> New] /\ response_seq = [o \in Targets |-> 0]
      /\ passed = [o \in Targets |-> <<>>]
  BY DEF Init
<1>2. /\ 1..Len(sent) = {} /\ 1..Len(answered) = {}
      /\ \A o \in Targets : DOMAIN passed[o] = {}
  BY <1>1, NoPackets
<1>3. New.seen = {} /\ ~New.started
  BY DEF New
<1>4. Consecutive
  <2>1. FirstHalf \in Nat /\ FirstHalf > 0
    BY RelayAssumption DEF FirstHalf
  <2>2. \A s \in ClientSessions : Count(s) = 0
    BY <1>2, FS_EmptySet DEF Count, Of
  <2>3. \A s \in ClientSessions : seq[s] = 0
    BY <1>1
  <2>4. \A s \in ClientSessions : seq[s] < FirstHalf + Count(s)
    BY <2>1, <2>2, <2>3
  <2> QED
    BY <1>2, <2>4 DEF Consecutive
<1>5. OneOrigin
  BY <1>1, <1>2 DEF OneOrigin
<1>6. WindowsExplained
  BY <1>1, <1>3 DEF WindowsExplained
<1>7. ResponsesHeld
  BY <1>1, <1>3 DEF ResponsesHeld
<1>8. AnswersNumbered
  BY <1>1, <1>2, NoPackets DEF AnswersNumbered
<1> QED
  BY <1>4, <1>5, <1>6, <1>7, <1>8 DEF Explained

\* What no step does with a part it does not touch.
LEMMA SameNumbers ==
    ASSUME Consecutive, UNCHANGED <<seq, sent>>
    PROVE  Consecutive'
<1>1. \A s \in Nat : Of(s)' = Of(s) /\ Count(s)' = Count(s)
  BY DEF Of, Count
<1> QED
  BY DEF Consecutive, Count, Of

LEMMA SameAnswers ==
    ASSUME AnswersNumbered, UNCHANGED <<response_seq, answered>>
    PROVE  AnswersNumbered'
BY DEF AnswersNumbered

LEMMA SameReturned ==
    ASSUME TypeOK, ResponsesHeld, returned' = returned,
           \A r \in 1..Len(answered) : answered'[r] = answered[r],
           \A s \in ClientSessions : response_dedup'[s] \in {response_dedup[s], New}
    PROVE  ResponsesHeld'
<1> SUFFICES ASSUME NEW s \in ClientSessions, NEW q \in response_dedup'[s].seen
             PROVE  \E r \in returned[s] : answered'[r].n = q
  BY DEF ResponsesHeld
<1>1. q \in response_dedup[s].seen
  BY DEF New
<1>2. PICK r \in returned[s] : answered[r].n = q
  BY <1>1 DEF ResponsesHeld
<1>3. r \in 1..Len(answered)
  BY <1>2, QuietFacts
<1> QED
  BY <1>2, <1>3

\* What passed stays explained when packets are sent and sessions are lost.
LEMMA PassedFacts ==
    ASSUME TypeOK, NEW o \in Targets, NEW i \in DOMAIN passed[o]
    PROVE  /\ passed[o][i] \in 1..Len(sent) /\ i \in Nat /\ i > 0
           /\ passed[o][1] \in 1..Len(sent) /\ 1 \in DOMAIN passed[o]
           /\ sent[passed[o][i]].seq \in Nat
           /\ sent[passed[o][i]].session \in ClientSessions
<1>1. PICK l \in Seq(1..Len(sent)) : l = passed[o]
  BY DEF TypeOK, HistoryOK
<1>2. l[i] \in 1..Len(sent) /\ i \in 1..Len(l) /\ Len(l) \in Nat
  BY <1>1
<1>3. 1 \in DOMAIN l /\ l[1] \in 1..Len(sent) /\ i \in Nat /\ i > 0
  BY <1>1, <1>2
<1> QED
  BY <1>1, <1>2, <1>3, SentFacts

LEMMA SamePassed ==
    ASSUME TypeOK, OneOrigin, WindowsExplained,
           cfg' = cfg, passed' = passed, dedup' = dedup,
           \A k \in 1..Len(sent) : sent'[k] = sent[k],
           \A h \in Ips, s \in ClientSessions : sessions'[h][s] \in {0, sessions[h][s]}
    PROVE  OneOrigin' /\ WindowsExplained'
<1>1. \A o \in Targets : \A i \in DOMAIN passed[o] :
         sent'[passed[o][i]] = sent[passed[o][i]] /\ 1 \in DOMAIN passed[o]
  BY PassedFacts
<1>2. \A o \in Targets : \A i, j \in DOMAIN passed[o] :
          sent'[passed[o][i]].session = sent'[passed[o][j]].session
  BY <1>1 DEF OneOrigin
<1>3. ASSUME NEW h \in Ips, NEW s \in ClientSessions, sessions'[h][s] # 0,
             NEW i \in DOMAIN passed[sessions'[h][s]]
      PROVE  sent'[passed[sessions'[h][s]][i]].session = s
  <2>1. sessions'[h][s] = sessions[h][s] /\ sessions[h][s] # 0
    BY <1>3
  <2>2. sessions[h][s] \in Targets
    <3>1. sessions[h][s] \in 0..target /\ target \in Nat /\ target <= MaxTargets
          /\ MaxTargets \in Nat
      BY QuietFacts, TypeFacts
    <3> QED
      BY <2>1, <3>1 DEF Targets
  <2> QED
    BY <1>1, <1>3, <2>1, <2>2 DEF OneOrigin
<1>4. OneOrigin'
  BY <1>2, <1>3 DEF OneOrigin
<1>5. ASSUME NEW o \in Targets
      PROVE  /\ dedup[o].started => passed[o] # <<>>
             /\ \A q \in dedup[o].seen : \E i \in DOMAIN passed[o] : sent'[passed[o][i]].seq = q
             /\ dedup[o].started =>
                   \/ dedup[o].min_seq = sent'[passed[o][1]].seq
                   \/ \E i \in DOMAIN passed[o] :
                         dedup[o].min_seq + cfg.dedup_window <= sent'[passed[o][i]].seq + 1
  <2>1. dedup[o].started => passed[o] # <<>>
    BY DEF WindowsExplained
  <2>2. \A q \in dedup[o].seen : \E i \in DOMAIN passed[o] : sent'[passed[o][i]].seq = q
    BY <1>1 DEF WindowsExplained
  <2>3. dedup[o].started => 1 \in DOMAIN passed[o]
    <3>1. passed[o] \in Seq(1..Len(sent))
      BY DEF TypeOK, HistoryOK
    <3> QED
      BY <2>1, <3>1
  <2>4. dedup[o].started => sent'[passed[o][1]].seq = sent[passed[o][1]].seq
    BY <1>1, <2>3
  <2> QED
    BY <1>1, <2>1, <2>2, <2>4 DEF WindowsExplained
<1>6. WindowsExplained'
  BY <1>5 DEF WindowsExplained
<1> QED
  BY <1>4, <1>6

LEMMA FirstNumbers ==
    ASSUME NEW n \in Nat
    PROVE  IsFiniteSet(1..n) /\ Cardinality(1..n) = n
<1>1. 1 \in Int /\ n \in Int
  OBVIOUS
<1>2. IsFiniteSet(1..n) /\ Cardinality(1..n) = IF 1 > n THEN 0 ELSE n - 1 + 1
  BY <1>1, FS_Interval, Zenon
<1>3. PICK m : m = Cardinality(1..n)
  OBVIOUS
<1>4. m = IF 1 > n THEN 0 ELSE n - 1 + 1
  BY <1>2, <1>3, Zenon
<1>5. m = n
  BY <1>4
<1> QED
  BY <1>2, <1>3, <1>5, Zenon

\* One more packet of a session continues its numbers.
LEMMA CountFacts ==
    ASSUME TypeOK, NEW s
    PROVE  /\ IsFiniteSet(Of(s)) /\ Count(s) \in Nat /\ Count(s) <= Len(sent)
           /\ Len(sent) + 1 \notin Of(s)
<1>1. Len(sent) \in Nat
  BY TypeFacts
<1>2. IsFiniteSet(1..Len(sent)) /\ Cardinality(1..Len(sent)) = Len(sent)
  BY <1>1, FirstNumbers
<1>3. Of(s) \subseteq 1..Len(sent)
  BY DEF Of
<1>4. IsFiniteSet(Of(s)) /\ Cardinality(Of(s)) <= Len(sent)
  BY <1>2, <1>3, FS_Subset
<1> QED
  BY <1>1, <1>3, <1>4, FS_CardinalityType DEF Count

LEMMA SendNumbers ==
    ASSUME TypeOK, Consecutive,
           NEW s \in ClientSessions, NEW q \in 0..SeqRange - 1, NEW dial,
           SendPacket(s, q, dial), used <= s,
           q < FirstHalf + Count(s), Of(s) = {} \/ q = seq[s]
    PROVE  Consecutive'
<1>1. PICK z : z = Len(sent)
  OBVIOUS
<1>2. /\ Len(sent') = z + 1 /\ z \in Nat /\ Len(sent') <= Len(PayloadLen)
      /\ \A k \in 1..z : sent'[k] = sent[k]
      /\ sent'[z + 1].session = s /\ sent'[z + 1].seq = q
      /\ s \in Nat
  <2>1. /\ Len(sent') = Len(sent) + 1 /\ Len(sent') <= Len(PayloadLen)
        /\ \A k \in 1..Len(sent) : sent'[k] = sent[k]
        /\ sent'[Len(sent) + 1].session = s /\ sent'[Len(sent) + 1].seq = q
    BY SendHistory
  <2>2. Len(sent) \in Nat /\ s \in Nat
    BY TypeFacts DEF ClientSessions
  <2> QED
    BY <1>1, <2>1, <2>2
<1>3. sent'[z + 1].n = Count(s)
  <2>1. PICK e : e = [session |-> s, seq |-> q, n |-> Count(s)]
    OBVIOUS
  <2>2. sent' = Append(sent, e)
    BY <2>1, Zenon DEF SendPacket, Count, Of
  <2>3. sent \in Seq([session : 1..used, seq : 0..SeqRange - 1, n : Nat])
    BY TypeFacts
  <2>4. sent'[z + 1] = e
    BY <1>1, <2>2, <2>3
  <2> QED
    BY <2>1, <2>4
<1>4. PICK c \in Nat : c = Count(s) /\ c <= z
  BY <1>1, CountFacts
<1>5. \A x \in ClientSessions : Of(x)' = IF x = s THEN Of(s) \cup {z + 1} ELSE Of(x)
  <2>1. 1..Len(sent') = (1..z) \cup {z + 1}
    BY <1>2
  <2> QED
    BY <1>1, <1>2, <2>1 DEF Of
<1>6. \A x \in ClientSessions : Count(x)' = IF x = s THEN c + 1 ELSE Count(x)
  <2>1. Cardinality(Of(s) \cup {z + 1}) = c + 1
    BY <1>1, <1>4, CountFacts, FS_AddElement DEF Count
  <2> QED
    BY <1>5, <2>1 DEF Count
<1>7. seq' = [seq EXCEPT ![s] = q + 1] /\ seq \in [ClientSessions -> 0..SeqRange - 1]
  <2>1. FirstHalf \in Nat /\ 2 * FirstHalf <= SeqRange - 1 /\ SeqRange \in Nat
    <3>1. SeqRange \in Nat /\ SeqRange > 2
      BY RelayAssumption
    <3> QED
      BY <3>1 DEF FirstHalf
  <2>2. 2 * (z + 1) <= SeqRange
    <3>1. PICK p \in Nat : p = Len(PayloadLen) /\ 2 * p <= SeqRange
      BY PayloadFacts
    <3>2. z + 1 <= p
      BY <1>2, <3>1
    <3> QED
      BY <1>2, <2>1, <3>1, <3>2
  <2>3. q + 1 <= FirstHalf + c /\ q \in Nat
    BY <1>4, <2>1
  <2>4. q + 1 \in 0..SeqRange - 1
    BY <1>4, <1>2, <2>1, <2>2, <2>3
  <2>5. (q + 1) % SeqRange = q + 1
    BY <2>1, <2>4
  <2>6. seq' = [seq EXCEPT ![s] = (q + 1) % SeqRange]
    BY DEF SendPacket
  <2> QED
    BY <2>5, <2>6 DEF TypeOK, ClientOK
<1>8. \A x \in ClientSessions : seq'[x] = IF x = s THEN q + 1 ELSE seq[x]
  BY <1>7
<1>9. \A k \in 1..z : sent[k].session \in ClientSessions /\ sent[k].n \in Nat /\ sent[k].seq \in Nat
  BY <1>1, SentFacts
<1>10. FirstHalf \in Nat
  BY RelayAssumption DEF FirstHalf
<1>11. \A x \in ClientSessions : seq'[x] < FirstHalf + Count(x)'
  <2> SUFFICES ASSUME NEW x \in ClientSessions PROVE seq'[x] < FirstHalf + Count(x)'
    OBVIOUS
  <2>1. CASE x = s
    BY <1>4, <1>6, <1>8, <1>10, <2>1
  <2>2. CASE x # s
    BY <1>6, <1>8, <2>2 DEF Consecutive
  <2> QED
    BY <2>1, <2>2
<1>12. \A k \in 1..z : sent[k].session = s =>
          /\ sent[k].seq + c = sent[k].n + q /\ sent[k].n < c
  <2> SUFFICES ASSUME NEW k \in 1..z, sent[k].session = s
               PROVE  sent[k].seq + c = sent[k].n + q /\ sent[k].n < c
    OBVIOUS
  <2>1. q = seq[s]
    BY <1>1 DEF Of
  <2> QED
    BY <1>1, <1>4, <2>1 DEF Consecutive
<1>13. \A k \in 1..z + 1 : k \in 1..z \/ k = z + 1
  BY <1>2
<1>14. ASSUME NEW k \in 1..z + 1, NEW x, x = sent'[k].session
       PROVE  /\ x \in ClientSessions
              /\ sent'[k].seq + Count(x)' = sent'[k].n + seq'[x]
              /\ sent'[k].n < Count(x)'
  <2>1. CASE k = z + 1
    BY <1>2, <1>3, <1>4, <1>6, <1>8, <1>14, <2>1
  <2>2. CASE k \in 1..z /\ sent[k].session = s
    <3>1. sent'[k] = sent[k] /\ x = s /\ Count(s)' = c + 1 /\ seq'[s] = q + 1
      BY <1>2, <1>6, <1>8, <1>14, <2>2
    <3>2. sent[k].seq + c = sent[k].n + q /\ sent[k].n < c
          /\ sent[k].n \in Nat /\ sent[k].seq \in Nat
      BY <1>9, <1>12, <2>2
    <3> QED
      BY <3>1, <3>2
  <2>3. CASE k \in 1..z /\ sent[k].session # s
    <3>1. sent'[k] = sent[k] /\ x \in ClientSessions /\ Count(x)' = Count(x) /\ seq'[x] = seq[x]
      BY <1>2, <1>6, <1>8, <1>9, <1>14, <2>3
    <3>2. /\ sent[k].seq + Count(sent[k].session) = sent[k].n + seq[sent[k].session]
          /\ sent[k].n < Count(sent[k].session)
      BY <1>1, <2>3 DEF Consecutive
    <3> QED
      BY <1>14, <3>1, <3>2
  <2> QED
    BY <1>13, <2>1, <2>2, <2>3
<1>15. ASSUME NEW j \in 1..z + 1, NEW k \in 1..z + 1, j < k,
              sent'[j].session = sent'[k].session
       PROVE  sent'[j].n < sent'[k].n
  <2>1. j \in 1..z
    BY <1>2, <1>15
  <2>2. CASE k = z + 1
    BY <1>2, <1>3, <1>4, <1>12, <1>15, <2>1, <2>2
  <2>3. CASE k \in 1..z
    BY <1>1, <1>2, <1>15, <2>1, <2>3 DEF Consecutive
  <2> QED
    BY <1>13, <2>2, <2>3
<1> DEFINE C(x) == Cardinality({j \in 1..Len(sent') : sent'[j].session = x})
<1>16. \A x : Count(x)' = C(x)
  BY DEF Count, Of
<1> HIDE DEF C
<1>17. \A x \in ClientSessions : seq'[x] < FirstHalf + C(x)
  BY <1>11, <1>16
<1>18. \A k \in 1..Len(sent') :
          /\ sent'[k].seq + C(sent'[k].session) = sent'[k].n + seq'[sent'[k].session]
          /\ sent'[k].n < C(sent'[k].session)
  BY <1>2, <1>14, <1>16
<1>19. \A j, k \in 1..Len(sent') :
          j < k /\ sent'[j].session = sent'[k].session => sent'[j].n < sent'[k].n
  BY <1>2, <1>15
<1> QED
  BY <1>17, <1>18, <1>19, Zenon DEF Consecutive, Count, Of, FirstHalf, ClientSessions, C

\* What passed at each target session after packet k was handled.
LEMMA HandledPassed ==
    ASSUME RelayInv, NEW k \in 1..Len(sent), NEW o, o = At(k), o \in Targets,
           passed' = IF Refuses(k) THEN passed
                     ELSE [passed EXCEPT ![o] = Append(passed[o], k)]
    PROVE  /\ \A x \in Targets : x # o => passed'[x] = passed[x]
           /\ Refuses(k) => passed'[o] = passed[o]
           /\ \A i \in DOMAIN passed[o] : i \in DOMAIN passed'[o] /\ passed'[o][i] = passed[o][i]
           /\ \A i \in DOMAIN passed'[o] :
                 \/ i \in DOMAIN passed[o] /\ passed'[o][i] = passed[o][i]
                 \/ ~Refuses(k) /\ passed'[o][i] = k
           /\ ~Refuses(k) => /\ passed'[o] # <<>>
                             /\ \E i \in DOMAIN passed'[o] : passed'[o][i] = k
                             /\ DOMAIN passed[o] = {} => passed'[o][1] = k
<1>1. /\ passed \in [Targets -> Seq(1..Len(sent))] /\ passed[o] \in Seq(1..Len(sent))
  BY DEF RelayInv, TypeOK, HistoryOK
<1>2. CASE Refuses(k)
  BY <1>2
<1>3. CASE ~Refuses(k)
  <2>1. PICK l : l = Append(passed[o], k)
    OBVIOUS
  <2>2. passed' = [passed EXCEPT ![o] = l]
    BY <1>3, <2>1
  <2>3. \A x \in Targets : passed'[x] = IF x = o THEN l ELSE passed[x]
    BY <1>1, <2>2
  <2>4. /\ Len(passed[o]) \in Nat /\ DOMAIN passed[o] = 1..Len(passed[o])
        /\ DOMAIN l = 1..Len(passed[o]) + 1
        /\ \A j \in 1..Len(passed[o]) : l[j] = passed[o][j]
        /\ l[Len(passed[o]) + 1] = k
    BY <1>1, <2>1
  <2>5. l # <<>>
    BY <2>4, NoPackets
  <2>6. DOMAIN passed[o] = {} => l[1] = k
    <3>1. DOMAIN passed[o] = {} => Len(passed[o]) = 0
      BY <2>4
    <3> QED
      BY <2>4, <3>1
  <2>7. \A i \in DOMAIN l : i \in DOMAIN passed[o] \/ i = Len(passed[o]) + 1
    BY <2>4
  <2>8. /\ DOMAIN passed[o] \subseteq DOMAIN l /\ Len(passed[o]) + 1 \in DOMAIN l
    BY <2>4
  <2>9. \A i \in DOMAIN l : (i \in DOMAIN passed[o] /\ l[i] = passed[o][i]) \/ l[i] = k
    BY <2>4, <2>7
  <2> QED
    BY <1>3, <2>3, <2>4, <2>5, <2>6, <2>8, <2>9
<1> QED
  BY <1>2, <1>3

\* Everything that passed where packet k is handled is of its session.
LEMMA HandledOrigin ==
    ASSUME RelayInv, OneOrigin, NEW k \in 1..Len(sent), Host \in Ips, At(k) \in Targets
    PROVE  /\ \A i \in DOMAIN passed[At(k)] :
                 sent[passed[At(k)][i]].session = sent[k].session
           /\ DOMAIN passed[At(k)] # {} => Known(k) # 0 /\ dedup[At(k)].started
<1>1. /\ Known(k) \in 0..target /\ At(k) \in Nat /\ sent[k].session \in ClientSessions
      /\ target \in Nat
  BY HandledAt, TypeFacts DEF RelayInv
<1>2. CASE Known(k) = 0
  <2>1. At(k) > target
    BY <1>1, <1>2 DEF At
  <2>2. passed[At(k)] = <<>>
    BY <2>1 DEF RelayInv, Remembered, Unborn
  <2> QED
    BY <2>2, NoPackets
<1>3. CASE Known(k) # 0
  <2>1. PICK s : s = sent[k].session /\ s \in ClientSessions
    BY <1>1
  <2>2. sessions[Host][s] = At(k) /\ At(k) # 0
    BY <1>3, <2>1 DEF At, Known
  <2>3. \A i \in DOMAIN passed[At(k)] : sent[passed[At(k)][i]].session = sent[k].session
    <3>1. \A i \in DOMAIN passed[sessions[Host][s]] :
             sent[passed[sessions[Host][s]][i]].session = s
      BY <2>1, <2>2 DEF OneOrigin
    <3> QED
      BY <2>1, <2>2, <3>1
  <2>4. \A i \in DOMAIN passed[At(k)] : dedup[At(k)].started
    BY DEF RelayInv, Remembered, PassedRecorded, IsDuplicate
  <2> QED
    BY <1>3, <2>3, <2>4
<1> QED
  BY <1>2, <1>3

LEMMA HandledOneOrigin ==
    ASSUME RelayInv, OneOrigin, NEW k \in 1..Len(sent), Host \in Ips,
           NEW o, o = At(k), o \in Targets,
           sessions' = [sessions EXCEPT ![Host][sent[k].session] = o],
           passed' = IF Refuses(k) THEN passed
                     ELSE [passed EXCEPT ![o] = Append(passed[o], k)],
           sent' = sent
    PROVE  OneOrigin'
<1>1. PICK s : s = sent[k].session
  OBVIOUS
<1>2. /\ Known(k) \in 0..target /\ s \in ClientSessions /\ target \in Nat
      /\ o = IF Known(k) = 0 THEN target + 1 ELSE Known(k)
      /\ Known(k) = sessions[Host][s]
      /\ sessions \in [Ips -> [ClientSessions -> 0..target]]
  BY <1>1, HandledAt, TypeFacts, QuietFacts DEF RelayInv, At, Known
<1>3. \A i \in DOMAIN passed[o] : sent[passed[o][i]].session = s
  BY <1>1, HandledOrigin
<1>4. /\ \A x \in Targets : x # o => passed'[x] = passed[x]
      /\ \A i \in DOMAIN passed'[o] :
            \/ i \in DOMAIN passed[o] /\ passed'[o][i] = passed[o][i]
            \/ passed'[o][i] = k
  BY HandledPassed
<1>5. \A i \in DOMAIN passed'[o] : sent[passed'[o][i]].session = s
  BY <1>1, <1>3, <1>4
<1>6. \A x \in Targets : \A i, j \in DOMAIN passed'[x] :
         sent[passed'[x][i]].session = sent[passed'[x][j]].session
  <2> SUFFICES ASSUME NEW x \in Targets, NEW i \in DOMAIN passed'[x], NEW j \in DOMAIN passed'[x]
               PROVE  sent[passed'[x][i]].session = sent[passed'[x][j]].session
    OBVIOUS
  <2>1. CASE x = o
    BY <1>5, <2>1
  <2>2. CASE x # o
    BY <1>4, <2>2 DEF OneOrigin
  <2> QED
    BY <2>1, <2>2
<1>7. \A h \in Ips, x \in ClientSessions :
         sessions'[h][x] = IF h = Host /\ x = s THEN o ELSE sessions[h][x]
  BY <1>1, <1>2
<1>8. /\ \A h \in Ips, x \in ClientSessions : sessions[h][x] # 0 => h = Host
      /\ \A h \in Ips : \A x, y \in ClientSessions :
            sessions[h][x] # 0 /\ sessions[h][x] = sessions[h][y] => x = y
  BY DEF RelayInv, Remembered, OneOwner
<1>9. ASSUME NEW h \in Ips, NEW x \in ClientSessions, sessions'[h][x] # 0,
             NEW i \in DOMAIN passed'[sessions'[h][x]]
      PROVE  sent[passed'[sessions'[h][x]][i]].session = x
  <2>1. CASE h = Host /\ x = s
    BY <1>5, <1>7, <1>9, <2>1
  <2>2. CASE ~(h = Host /\ x = s)
    <3>1. sessions'[h][x] = sessions[h][x] /\ sessions[h][x] # 0 /\ h = Host /\ x # s
      BY <1>7, <1>8, <1>9, <2>2
    <3>2. PICK y \in 0..target : y = sessions[h][x]
      BY <1>2
    <3>3. y # o
      <4>1. CASE Known(k) = 0
        BY <1>2, <3>2, <4>1
      <4>2. CASE Known(k) # 0
        <5>1. o = sessions[Host][s] /\ y = sessions[Host][x] /\ y # 0
          BY <1>2, <3>1, <3>2, <4>2
        <5>2. sessions[Host][x] = sessions[Host][s] => x = s
          BY <1>2, <1>8, <5>1
        <5> QED
          BY <3>1, <5>1, <5>2
      <4> QED
        BY <4>1, <4>2
    <3>4. y \in Targets
      <4>1. target <= MaxTargets /\ MaxTargets \in Nat /\ y # 0
        BY <3>1, <3>2, TypeFacts DEF RelayInv
      <4> QED
        BY <1>2, <4>1 DEF Targets
    <3>5. passed'[y] = passed[y]
      BY <1>4, <3>3, <3>4
    <3>6. \A j \in DOMAIN passed[y] : sent[passed[y][j]].session = x
      <4>1. \A j \in DOMAIN passed[sessions[h][x]] : sent[passed[sessions[h][x]][j]].session = x
        BY <3>1 DEF OneOrigin
      <4> QED
        BY <3>2, <4>1
    <3> QED
      BY <1>9, <3>1, <3>2, <3>5, <3>6
  <2> QED
    BY <2>1, <2>2
<1>10. \A h \in Ips, x \in ClientSessions : sessions'[h][x] # 0 =>
          \A i \in DOMAIN passed'[sessions'[h][x]] :
              sent'[passed'[sessions'[h][x]][i]].session = x
  BY <1>9
<1>11. \A x \in Targets : \A i, j \in DOMAIN passed'[x] :
          sent'[passed'[x][i]].session = sent'[passed'[x][j]].session
  BY <1>6
<1> QED
  BY <1>10, <1>11, Zenon DEF OneOrigin

\* The window that recorded packet k holds what passed, and its lower edge is
\* where the first packet or a slide put it.
LEMMA HandledWindow ==
    ASSUME RelayInv, OneOrigin, WindowsExplained, NEW k \in 1..Len(sent), Host \in Ips,
           NEW o, o = At(k), o \in Targets,
           dedup' = [dedup EXCEPT ![o] = Mark(WindowOf(k), sent[k].seq, cfg.dedup_window)],
           passed' = IF Refuses(k) THEN passed
                     ELSE [passed EXCEPT ![o] = Append(passed[o], k)],
           sent' = sent, cfg' = cfg
    PROVE  WindowsExplained'
<1>1. PICK q \in Nat : q = sent[k].seq
  BY HandledAt
<1>2. PICK size \in Nat \ {0} : size = cfg.dedup_window
  BY ConfiguredFacts, TypeFacts DEF RelayInv
<1>3. PICK w : w = WindowOf(k) /\ WellFormed(w) /\ Refuses(k) = IsDuplicate(w, q)
  BY <1>1, HandledAt DEF Refuses
<1>4. PICK v : v = Mark(w, q, size)
  OBVIOUS
<1>5. dedup \in [Targets -> Window]
  BY DEF RelayInv, TypeOK, ServersOK
<1>6. \A x \in Targets : dedup'[x] = IF x = o THEN v ELSE dedup[x]
  BY <1>1, <1>2, <1>3, <1>4, <1>5
<1>7. /\ \A x \in Targets : x # o => passed'[x] = passed[x]
      /\ Refuses(k) => passed'[o] = passed[o]
      /\ \A i \in DOMAIN passed[o] : i \in DOMAIN passed'[o] /\ passed'[o][i] = passed[o][i]
      /\ ~Refuses(k) => /\ passed'[o] # <<>>
                        /\ \E i \in DOMAIN passed'[o] : passed'[o][i] = k
                        /\ DOMAIN passed[o] = {} => passed'[o][1] = k
  BY HandledPassed
<1>8. /\ DOMAIN passed[o] # {} => w = dedup[o] /\ w.started
      /\ w.started => w = dedup[o] /\ 1 \in DOMAIN passed[o]
  <2>1. DOMAIN passed[o] # {} => Known(k) # 0 /\ dedup[o].started
    BY HandledOrigin
  <2>2. Known(k) # 0 => w = dedup[o]
    BY <1>3 DEF WindowOf
  <2>3. w.started => Known(k) # 0
    BY <1>3 DEF WindowOf, New
  <2>4. w.started => passed[o] # <<>>
    BY <2>2, <2>3 DEF WindowsExplained
  <2>5. passed[o] # <<>> => 1 \in DOMAIN passed[o]
    <3>1. passed[o] \in Seq(1..Len(sent))
      BY DEF RelayInv, TypeOK, HistoryOK
    <3> QED
      BY <3>1
  <2> QED
    BY <2>1, <2>2, <2>3, <2>4, <2>5
<1>9. w.started =>
         /\ \A z \in w.seen : \E i \in DOMAIN passed[o] : sent[passed[o][i]].seq = z
         /\ \/ w.min_seq = sent[passed[o][1]].seq
            \/ \E i \in DOMAIN passed[o] : w.min_seq + size <= sent[passed[o][i]].seq + 1
  BY <1>2, <1>8 DEF WindowsExplained
<1>10. w.started =>
         /\ \A z \in w.seen : \E i \in DOMAIN passed'[o] : sent[passed'[o][i]].seq = z
         /\ \/ w.min_seq = sent[passed'[o][1]].seq
            \/ \E i \in DOMAIN passed'[o] : w.min_seq + size <= sent[passed'[o][i]].seq + 1
  <2> SUFFICES ASSUME w.started
               PROVE  /\ \A z \in w.seen : \E i \in DOMAIN passed'[o] : sent[passed'[o][i]].seq = z
                      /\ \/ w.min_seq = sent[passed'[o][1]].seq
                         \/ \E i \in DOMAIN passed'[o] :
                               w.min_seq + size <= sent[passed'[o][i]].seq + 1
    OBVIOUS
  <2>1. \A z \in w.seen : \E i \in DOMAIN passed'[o] : sent[passed'[o][i]].seq = z
    BY <1>7, <1>9
  <2>2. passed'[o][1] = passed[o][1]
    BY <1>7, <1>8
  <2> QED
    BY <1>7, <1>9, <2>1, <2>2
<1>11. /\ v.started => passed'[o] # <<>>
       /\ \A z \in v.seen : \E i \in DOMAIN passed'[o] : sent[passed'[o][i]].seq = z
       /\ v.started =>
             \/ v.min_seq = sent[passed'[o][1]].seq
             \/ \E i \in DOMAIN passed'[o] : v.min_seq + size <= sent[passed'[o][i]].seq + 1
  <2>1. CASE Refuses(k)
    <3>1. v = w /\ w.started
      BY <1>3, <1>4, <2>1 DEF Mark, IsDuplicate
    <3>2. passed'[o] # <<>>
      BY <1>7, <1>8, <2>1, <3>1 DEF WindowsExplained
    <3> QED
      BY <1>10, <3>1, <3>2
  <2>2. CASE ~Refuses(k) /\ ~w.started
    <3>1. v = Open(q)
      BY <1>4, <2>2 DEF Mark
    <3>2. v.seen = {q} /\ v.min_seq = q
      BY <3>1 DEF Open
    <3>3. passed'[o][1] = k /\ passed'[o] # <<>>
      BY <1>7, <1>8, <2>2
    <3> QED
      BY <1>1, <1>7, <2>2, <3>2, <3>3
  <2>3. CASE ~Refuses(k) /\ w.started
    <3>1. v = Insert(w, q, size)
      BY <1>3, <1>4, <2>3 DEF Mark
    <3>2. /\ v \in Window
          /\ v.seen = {z \in w.seen \cup {q} : z >= v.min_seq}
          /\ v.max_seq \in v.seen
          /\ v.min_seq = w.min_seq \/ v.min_seq = v.max_seq - (size - 1)
      BY <1>3, <2>3, <3>1, InsertFields
    <3>3. \A z \in v.seen : \E i \in DOMAIN passed'[o] : sent[passed'[o][i]].seq = z
      BY <1>1, <1>7, <1>10, <2>3, <3>2
    <3>4. CASE v.min_seq = w.min_seq
      BY <1>7, <1>10, <2>3, <3>3, <3>4
    <3>5. CASE v.min_seq = v.max_seq - (size - 1)
      <4>1. PICK i \in DOMAIN passed'[o] : sent[passed'[o][i]].seq = v.max_seq
        BY <3>2, <3>3
      <4>2. v.min_seq \in Nat /\ v.max_seq \in Nat
        BY <3>2 DEF Window
      <4>3. v.min_seq + size <= sent[passed'[o][i]].seq + 1
        BY <3>5, <4>1, <4>2
      <4> QED
        BY <1>7, <2>3, <3>3, <4>3
    <3> QED
      BY <3>2, <3>4, <3>5
  <2> QED
    BY <2>1, <2>2, <2>3
<1> SUFFICES ASSUME NEW x \in Targets
             PROVE  /\ dedup'[x].started => passed'[x] # <<>>
                    /\ \A z \in dedup'[x].seen :
                          \E i \in DOMAIN passed'[x] : sent[passed'[x][i]].seq = z
                    /\ dedup'[x].started =>
                          \/ dedup'[x].min_seq = sent[passed'[x][1]].seq
                          \/ \E i \in DOMAIN passed'[x] :
                                dedup'[x].min_seq + size <= sent[passed'[x][i]].seq + 1
  BY <1>2, SMTT(30) DEF WindowsExplained
<1>12. CASE x = o
  <2>1. dedup'[x] = v
    BY <1>6, <1>12
  <2> QED
    BY <1>11, <1>12, <2>1
<1>13. CASE x # o
  <2>1. PICK d, p : d = dedup[x] /\ p = passed[x] /\ dedup'[x] = d /\ passed'[x] = p
    BY <1>6, <1>7, <1>13
  <2>2. /\ d.started => p # <<>>
        /\ \A z \in d.seen : \E i \in DOMAIN p : sent[p[i]].seq = z
        /\ d.started => \/ d.min_seq = sent[p[1]].seq
                        \/ \E i \in DOMAIN p : d.min_seq + size <= sent[p[i]].seq + 1
    BY <1>2, <2>1 DEF WindowsExplained
  <2> QED
    BY <2>1, <2>2, Zenon
<1> QED
  BY <1>12, <1>13

\* One more response of a target session continues its numbers.
LEMMA RespondNumbers ==
    ASSUME TypeOK, AnswersNumbered, NEW o \in 1..target,
           Len(answered) + 1 \in Responses,
           response_seq' = [response_seq EXCEPT ![o] = (response_seq[o] + 1) % SeqRange],
           answered' = Append(answered, [target |-> o, n |-> response_seq[o]])
    PROVE  AnswersNumbered'
<1>1. /\ o \in Targets /\ response_seq \in [Targets -> 0..SeqRange - 1]
      /\ Len(answered) \in Nat
  <2>1. target <= MaxTargets /\ MaxTargets \in Nat /\ target \in Nat /\ Len(answered) \in Nat
    BY TypeFacts
  <2>2. o \in Targets
    BY <2>1 DEF Targets
  <2> QED
    BY <2>1, <2>2 DEF TypeOK, ServersOK
<1>2. PICK n \in 0..SeqRange - 1 : n = response_seq[o]
  BY <1>1
<1>3. PICK z \in Nat : z = Len(answered)
  BY <1>1
<1>4. answered' = Append(answered, [target |-> o, n |-> n])
  BY <1>2
<1>5. /\ Len(answered') = z + 1
      /\ \A j \in 1..z : answered'[j] = answered[j]
      /\ answered'[z + 1] = [target |-> o, n |-> n]
  BY <1>3, <1>4, AnsweredGrows
<1>6. (n + 1) % SeqRange = n + 1
  <2>1. n <= z
    BY <1>1, <1>2, <1>3 DEF AnswersNumbered
  <2>2. z + 1 <= MaxResponses /\ MaxResponses < SeqRange /\ MaxResponses \in Nat /\ SeqRange \in Nat
    BY <1>3, RelayAssumption DEF Responses
  <2>3. PICK range \in Nat : range = SeqRange
    BY <2>2
  <2>4. n + 1 < range
    BY <2>1, <2>2, <2>3
  <2>5. (n + 1) % range = n + 1
    BY <2>4
  <2> QED
    BY <2>3, <2>5
<1>7. \A x \in Targets : response_seq'[x] = IF x = o THEN n + 1 ELSE response_seq[x]
  BY <1>1, <1>2, <1>6, SMTT(30)
<1>8. \A x \in Targets : response_seq'[x] <= Len(answered')
  <2> SUFFICES ASSUME NEW x \in Targets PROVE response_seq'[x] <= Len(answered')
    OBVIOUS
  <2>1. response_seq[x] <= z /\ response_seq[x] \in Nat /\ n <= z
    <3>1. response_seq[x] \in 0..SeqRange - 1 /\ response_seq[x] <= z /\ response_seq[o] <= z
      BY <1>1, <1>3 DEF AnswersNumbered
    <3> QED
      BY <1>2, <3>1, WidthFacts
  <2> QED
    BY <1>2, <1>5, <1>7, <2>1
<1>9. \A j \in 1..z : /\ answered[j].target \in Targets /\ answered[j].n \in Nat
                      /\ answered[j].n < response_seq[answered[j].target]
  BY <1>3, AnsweredFacts DEF AnswersNumbered
<1>10. \A j \in 1..z + 1 : j \in 1..z \/ j = z + 1
  BY <1>3
<1>11. \A j \in 1..z : answered[j].target = o => answered[j].n < n
  BY <1>2, <1>9
<1>12. ASSUME NEW j \in 1..z + 1
       PROVE  answered'[j].n < response_seq'[answered'[j].target]
  <2>1. CASE j = z + 1
    BY <1>1, <1>2, <1>5, <1>7, <2>1
  <2>2. CASE j \in 1..z /\ answered[j].target = o
    BY <1>1, <1>2, <1>5, <1>7, <1>9, <1>11, <2>2
  <2>3. CASE j \in 1..z /\ answered[j].target # o
    BY <1>5, <1>7, <1>9, <2>3
  <2> QED
    BY <1>10, <2>1, <2>2, <2>3
<1>13. ASSUME NEW i \in 1..z + 1, NEW j \in 1..z + 1,
              answered'[i].target = answered'[j].target, answered'[i].n = answered'[j].n
       PROVE  i = j
  <2>1. CASE i \in 1..z /\ j \in 1..z
    BY <1>3, <1>5, <1>13, <2>1 DEF AnswersNumbered
  <2>2. CASE i \in 1..z /\ j = z + 1
    <3>1. answered[i].target = o /\ answered[i].n = n
      BY <1>5, <1>13, <2>2
    <3> QED
      BY <1>2, <1>11, <2>2, <3>1
  <2>3. CASE i = z + 1 /\ j \in 1..z
    <3>1. answered[j].target = o /\ answered[j].n = n
      BY <1>5, <1>13, <2>3
    <3> QED
      BY <1>2, <1>11, <2>3, <3>1
  <2> QED
    BY <1>10, <2>1, <2>2, <2>3
<1> QED
  BY <1>5, <1>8, <1>12, <1>13 DEF AnswersNumbered

\* What a window of responses holds after one more.
LEMMA ReturnHeld ==
    ASSUME RelayInv, ResponsesHeld, NEW s \in ClientSessions, NEW m, NEW r \in 1..Len(answered),
           m.seq = answered[r].n, m.payload[1] = r, ReturnResponse(s, m), answered' = answered
    PROVE  ResponsesHeld'
<1>1. /\ TypeOK /\ response_dedup \in [ClientSessions -> Window]
      /\ \A x \in ClientSessions : WellFormed(response_dedup[x])
      /\ returned \in [ClientSessions -> SUBSET (1..Len(answered))]
  BY QuietFacts DEF RelayInv
<1>2. PICK q \in Nat : q = answered[r].n
  BY <1>1, AnsweredFacts
<1>3. PICK w : w = response_dedup[s] /\ WellFormed(w)
  BY <1>1
<1>4. PICK v : v = Mark(w, q, RespDedupSize)
  OBVIOUS
<1>5. /\ response_dedup' = [response_dedup EXCEPT ![s] = v]
      /\ returned' = IF IsDuplicate(w, q) THEN returned
                     ELSE [returned EXCEPT ![s] = returned[s] \cup {r}]
  BY <1>2, <1>3, <1>4 DEF ReturnResponse
<1>6. \A z \in v.seen : z \in w.seen \/ (z = q /\ ~IsDuplicate(w, q))
  <2>1. CASE ~w.started
    BY <1>4, <2>1 DEF Mark, Open, IsDuplicate
  <2>2. CASE w.started /\ IsDuplicate(w, q)
    BY <1>4, <2>2 DEF Mark
  <2>3. CASE w.started /\ ~IsDuplicate(w, q)
    <3>1. v = Insert(w, q, RespDedupSize) /\ RespDedupSize \in Nat \ {0}
      BY <1>4, <2>3, RelayAssumption DEF Mark
    <3>2. v.seen = {z \in w.seen \cup {q} : z >= v.min_seq}
      BY <1>3, <2>3, <3>1, InsertFields
    <3> QED
      BY <2>3, <3>2
  <2> QED
    BY <2>1, <2>2, <2>3
<1>7. /\ \A x \in ClientSessions : response_dedup'[x] = IF x = s THEN v ELSE response_dedup[x]
      /\ \A x \in ClientSessions : returned[x] \subseteq returned'[x]
      /\ ~IsDuplicate(w, q) => r \in returned'[s]
  BY <1>1, <1>5
<1> SUFFICES ASSUME NEW x \in ClientSessions, NEW z \in response_dedup'[x].seen
             PROVE  \E j \in returned'[x] : answered[j].n = z
  BY DEF ResponsesHeld
<1>8. CASE z \in response_dedup[x].seen
  BY <1>7, <1>8 DEF ResponsesHeld
<1>9. CASE z \notin response_dedup[x].seen
  <2>1. x = s /\ z = q /\ ~IsDuplicate(w, q)
    BY <1>3, <1>6, <1>7, <1>9
  <2> QED
    BY <1>2, <1>7, <2>1
<1> QED
  BY <1>8, <1>9

\* A step that leaves alone what the numbers are about, but may lose sessions.
LEMMA QuietExplained ==
    ASSUME TypeOK, Explained,
           UNCHANGED <<cfg, seq, sent, passed, dedup, response_dedup, returned, answered,
                       response_seq>>,
           \A h \in Ips, s \in ClientSessions : sessions'[h][s] \in {0, sessions[h][s]}
    PROVE  Explained'
<1>1. Consecutive' /\ AnswersNumbered'
  BY SameNumbers, SameAnswers DEF Explained
<1>2. ResponsesHeld'
  BY DEF Explained, ResponsesHeld
<1>3. OneOrigin' /\ WindowsExplained'
  BY SamePassed DEF Explained
<1> QED
  BY <1>1, <1>2, <1>3 DEF Explained

\* A packet of the source.
LEMMA SendExplained ==
    ASSUME TypeOK, Explained, NEW s \in ClientSessions, NEW q \in 0..SeqRange - 1, NEW dial,
           SendPacket(s, q, dial), used <= s,
           q < FirstHalf + Count(s), Of(s) = {} \/ q = seq[s],
           UNCHANGED <<cfg, sessions, passed, dedup, response_seq, answered, returned>>,
           \A x \in ClientSessions : response_dedup'[x] \in {response_dedup[x], New}
    PROVE  Explained'
<1>1. Consecutive'
  BY SendNumbers DEF Explained
<1>2. \A k \in 1..Len(sent) : sent'[k] = sent[k]
  BY SendHistory
<1>3. OneOrigin' /\ WindowsExplained'
  BY <1>2, SamePassed DEF Explained
<1>4. ResponsesHeld'
  BY SameReturned DEF Explained
<1>5. AnswersNumbered'
  BY SameAnswers DEF Explained
<1> QED
  BY <1>1, <1>3, <1>4, <1>5 DEF Explained

\* A packet handled by a server.
LEMMA HandledExplained ==
    ASSUME RelayInv, Explained, NEW k \in 1..Len(sent), NEW m, NEW p, NEW reached,
           m.id = sent[k].session, m.seq = sent[k].seq, m.payload[1] = k,
           HandlePacket(Host, m, p, reached), Host \in Ips,
           UNCHANGED <<cfg, seq, sent, response_dedup, returned, answered, response_seq>>
    PROVE  Explained'
<1>1. PICK o : o = At(k) /\ o \in Targets
  BY Handled
<1>2. /\ sessions' = [sessions EXCEPT ![Host][sent[k].session] = o]
      /\ dedup' = [dedup EXCEPT ![o] = Mark(WindowOf(k), sent[k].seq, cfg.dedup_window)]
      /\ passed' = IF Refuses(k) THEN passed ELSE [passed EXCEPT ![o] = Append(passed[o], k)]
  BY <1>1, Handled, Zenon
<1>3. OneOrigin'
  BY <1>1, <1>2, HandledOneOrigin DEF Explained
<1>4. WindowsExplained'
  BY <1>1, <1>2, HandledWindow DEF Explained
<1>5. Consecutive' /\ AnswersNumbered'
  BY SameNumbers, SameAnswers DEF Explained
<1>6. ResponsesHeld'
  BY DEF Explained, ResponsesHeld
<1> QED
  BY <1>3, <1>4, <1>5, <1>6 DEF Explained

\* A response that reaches the client.
LEMMA ReturnExplained ==
    ASSUME RelayInv, Explained, NEW s \in ClientSessions, NEW m, NEW r \in 1..Len(answered),
           m.seq = answered[r].n, m.payload[1] = r, ReturnResponse(s, m),
           UNCHANGED <<cfg, seq, sent, sessions, passed, dedup, answered, response_seq>>
    PROVE  Explained'
<1>1. ResponsesHeld'
  BY ReturnHeld DEF Explained
<1>2. Consecutive' /\ AnswersNumbered'
  BY SameNumbers, SameAnswers DEF Explained
<1>3. OneOrigin' /\ WindowsExplained'
  BY SamePassed DEF Explained, RelayInv
<1> QED
  BY <1>1, <1>2, <1>3 DEF Explained

LEMMA ClientStepExplained ==
    ASSUME RelayInv, Explained, ClientNext
    PROVE  Explained'
<1>1. TypeOK
  BY DEF RelayInv
<1>2. ASSUME NEW dial, SourcePacket(dial) PROVE Explained'
  <2>1. /\ current # 0 /\ SendPacket(current, seq[current], dial)
        /\ UNCHANGED <<cfg, response_dedup, server, passed, replies>>
    BY <1>2 DEF SourcePacket
  <2>2. UNCHANGED <<cfg, sessions, passed, dedup, response_seq, answered, returned, response_dedup>>
    BY <2>1 DEF server, replies
  <2>3. PICK s \in ClientSessions : s = current /\ used <= s
    <3>1. current = used /\ current \in ClientSessions /\ used \in Nat
      BY <1>1, <2>1, TypeFacts DEF ClientSessions
    <3> QED
      BY <3>1
  <2>4. PICK q \in 0..SeqRange - 1 : q = seq[s]
    BY <1>1, <2>3 DEF TypeOK, ClientOK
  <2>5. q < FirstHalf + Count(s)
    BY <2>3, <2>4 DEF Explained, Consecutive
  <2>6. SendPacket(s, q, dial)
    BY <2>1, <2>3, <2>4
  <2> QED
    BY <1>1, <2>2, <2>3, <2>4, <2>5, <2>6, SendExplained
<1>3. ASSUME NEW draw \in Draws, NEW dial, SourceOpens(draw, dial) PROVE Explained'
  <2>1. /\ used < MaxSessions /\ SendPacket(used + 1, initial_seq(draw), dial)
        /\ response_dedup' = [response_dedup EXCEPT ![used + 1] = New]
        /\ UNCHANGED <<cfg, server, passed, replies>>
    BY <1>3 DEF SourceOpens, response_window
  <2>2. UNCHANGED <<cfg, sessions, passed, dedup, response_seq, answered, returned>>
    BY <2>1 DEF server, replies
  <2>3. PICK s \in ClientSessions : s = used + 1 /\ used <= s /\ s \notin 1..used
    <3>1. used \in Nat /\ used < MaxSessions /\ MaxSessions \in Nat
      BY <1>1, <2>1, TypeFacts
    <3>2. used + 1 \in ClientSessions /\ used <= used + 1 /\ used + 1 \notin 1..used
      BY <3>1 DEF ClientSessions
    <3> QED
      BY <3>2
  <2>4. PICK q \in 0..SeqRange - 1 : q = initial_seq(draw) /\ q < FirstHalf
    <3>1. initial_seq(draw) \in 0..SeqRange - 1
      BY InitialSeq
    <3>2. initial_seq(draw) < FirstHalf
      <4>1. FirstHalf \in Nat /\ FirstHalf > 0 /\ draw \in Nat
        BY RelayAssumption DEF FirstHalf
      <4>2. draw % FirstHalf < FirstHalf
        BY <4>1
      <4> QED
        BY <4>2 DEF initial_seq, FirstHalf
    <3> QED
      BY <3>1, <3>2
  <2>5. Of(s) = {}
    BY <1>1, <2>3, SentFacts DEF Of
  <2>6. q < FirstHalf + Count(s)
    <3>1. FirstHalf \in Nat /\ Count(s) \in Nat
      BY <1>1, RelayAssumption, CountFacts DEF FirstHalf
    <3> QED
      BY <2>4, <3>1
  <2>7. \A x \in ClientSessions : response_dedup'[x] \in {response_dedup[x], New}
    <3>1. response_dedup \in [ClientSessions -> Window]
      BY <1>1, QuietFacts
    <3> QED
      BY <2>1, <3>1
  <2>8. SendPacket(s, q, dial)
    BY <2>1, <2>3, <2>4
  <2> QED
    BY <1>1, <2>2, <2>3, <2>5, <2>6, <2>7, <2>8, SendExplained
<1>4. ASSUME NEW d \in net_down, RecvUdpResponse(d) PROVE Explained'
  <2>1. PICK m : m = decode_packet(d[2])
    OBVIOUS
  <2>2. /\ ReturnResponse(m.id, m)
        /\ UNCHANGED <<cfg, seq, server, requests, answered>>
    BY <1>4, <2>1 DEF RecvUdpResponse
  <2>3. UNCHANGED <<cfg, seq, sent, sessions, passed, dedup, answered, response_seq>>
    BY <2>2 DEF server, requests
  <2>4. d[2] \in ResponsePackets
    BY DEF RelayInv, Carried, InFlight
  <2>5. PICK s \in ClientSessions, r \in 1..Len(answered) :
           m.id = s /\ m.seq = answered[r].n /\ m.payload[1] = r
    BY <1>1, <2>1, <2>4, ResponsePacket, Zenon
  <2>6. ReturnResponse(s, m)
    BY <2>2, <2>5
  <2> QED
    BY <2>3, <2>5, <2>6, ReturnExplained
<1>5. ASSUME NEW c \in Connections, RecvTcpResponse(c) PROVE Explained'
  <2>1. PICK m : m = decode_packet(FirstFrame(conns[c].down))
    OBVIOUS
  <2>2. /\ HasFrame(conns[c].down)
        /\ IF current # 0 THEN ReturnResponse(current, m)
           ELSE UNCHANGED <<response_dedup, returned, unheard>>
        /\ UNCHANGED <<cfg, seq, server, requests, answered>>
    BY <1>5, <2>1 DEF RecvTcpResponse
  <2>3. UNCHANGED <<cfg, seq, sent, sessions, passed, dedup, answered, response_seq>>
    BY <2>2 DEF server, requests
  <2>4. PICK r \in 1..Len(answered) : m.seq = answered[r].n /\ m.payload[1] = r
    BY <2>1, <2>2, FrameResponse, Zenon
  <2>5. CASE current = 0
    BY <1>1, <2>2, <2>3, <2>5, QuietExplained
  <2>6. CASE current # 0
    <3>1. current \in ClientSessions
      BY <1>1, <2>6, TypeFacts DEF ClientSessions
    <3>2. ReturnResponse(current, m)
      BY <2>2, <2>6
    <3> QED
      BY <2>3, <2>4, <3>1, <3>2, ReturnExplained
  <2> QED
    BY <2>5, <2>6
<1>6. ASSUME NEW c \in Connections, ClientCloses(c) PROVE Explained'
  BY <1>1, <1>6, QuietExplained DEF ClientCloses, server, requests, replies
<1> QED
  BY <1>2, <1>3, <1>4, <1>5, <1>6 DEF ClientNext

LEMMA ServerStepExplained ==
    ASSUME RelayInv, Explained, ServerNext
    PROVE  Explained'
<1>1. TypeOK
  BY DEF RelayInv
<1>2. ASSUME NEW d \in net_up, NEW reached, RecvUdp(d, reached) PROVE Explained'
  <2>1. PICK m : m = decode_packet(d[2])
    OBVIOUS
  <2>2. PICK k \in 1..Len(sent) :
           m.id = sent[k].session /\ m.seq = sent[k].seq /\ m.payload[1] = k
    BY <2>1, DatagramPacket, Zenon
  <2>3. d[1].ep.host = Host /\ Host \in Ips
    BY DatagramPacket, Zenon
  <2>4. HandlePacket(Host, m, d[1], reached)
    BY <1>2, <2>1, <2>3 DEF RecvUdp
  <2>5. UNCHANGED <<cfg, seq, sent, response_dedup, returned, answered, response_seq>>
    BY <1>2 DEF RecvUdp, client, replies
  <2> QED
    BY <2>2, <2>3, <2>4, <2>5, HandledExplained
<1>3. ASSUME NEW c \in Connections, NEW reached, RecvTcp(c, reached) PROVE Explained'
  <2>1. PICK m : m = decode_packet(FirstFrame(conns[c].up))
    OBVIOUS
  <2>2. HasFrame(conns[c].up)
    BY <1>3 DEF RecvTcp
  <2>3. PICK k \in 1..Len(sent) :
           m.id = sent[k].session /\ m.seq = sent[k].seq /\ m.payload[1] = k
    BY <2>1, <2>2, FramePacket
  <2>4. c[1].host = Host /\ Host \in Ips
    BY <1>1, TypeFacts, PathFacts
  <2>5. HandlePacket(Host, m, PathOfConn(c), reached)
    BY <1>3, <2>1, <2>4, Zenon DEF RecvTcp
  <2>6. UNCHANGED <<cfg, seq, sent, response_dedup, returned, answered, response_seq>>
    BY <1>3 DEF RecvTcp, client, replies
  <2> QED
    BY <2>3, <2>4, <2>5, <2>6, HandledExplained
<1>4. ASSUME NEW c \in Connections, DropTcp(c) PROVE Explained'
  BY <1>1, <1>4, QuietExplained DEF DropTcp, client, server, requests, replies
<1>5. ASSUME NEW c \in Connections, ServerCloses(c) PROVE Explained'
  BY <1>1, <1>5, QuietExplained DEF ServerCloses, client, requests, replies
<1>6. ASSUME NEW h \in Ips, NEW s \in ClientSessions, Respond(h, s) PROVE Explained'
  <2>1. PICK o : o = sessions[h][s]
    OBVIOUS
  <2>2. /\ o # 0 /\ Len(answered) + 1 \in Responses
        /\ response_seq' = [response_seq EXCEPT ![o] = (response_seq[o] + 1) % SeqRange]
        /\ answered' = Append(answered, [target |-> o, n |-> response_seq[o]])
        /\ UNCHANGED <<cfg, client, sessions, target, dedup, requests, returned, unheard>>
    BY <1>6, <2>1 DEF Respond
  <2>3. UNCHANGED <<cfg, seq, sent, sessions, passed, dedup, response_dedup, returned>>
    BY <2>2 DEF client, requests
  <2>4. o \in 1..target
    <3>1. o \in 0..target /\ target \in Nat
      BY <1>1, <2>1, QuietFacts, TypeFacts
    <3> QED
      BY <2>2, <3>1
  <2>5. AnswersNumbered'
    BY <1>1, <2>2, <2>4, RespondNumbers DEF Explained
  <2>6. \A r \in 1..Len(answered) : answered'[r] = answered[r]
    <3>1. PICK e : e = [target |-> o, n |-> response_seq[o]]
      OBVIOUS
    <3>2. answered' = Append(answered, e)
      BY <2>2, <3>1
    <3>3. answered \in Seq([target : 1..target, n : 0..SeqRange - 1])
      BY <1>1, TypeFacts
    <3> QED
      BY <3>2, <3>3
  <2>7. ResponsesHeld'
    BY <1>1, <2>3, <2>6, SameReturned DEF Explained
  <2>8. Consecutive'
    BY <2>3, SameNumbers DEF Explained
  <2>9. OneOrigin' /\ WindowsExplained'
    BY <1>1, <2>3, SamePassed DEF Explained
  <2> QED
    BY <2>5, <2>7, <2>8, <2>9 DEF Explained
<1> QED
  BY <1>2, <1>3, <1>4, <1>5, <1>6 DEF ServerNext

LEMMA FaultStepExplained ==
    ASSUME RelayInv, Explained, FaultNext
    PROVE  Explained'
<1>1. TypeOK /\ sessions \in [Ips -> [ClientSessions -> 0..target]]
  BY QuietFacts DEF RelayInv
<1>2. ASSUME SourceExpires PROVE Explained'
  BY <1>1, <1>2, QuietExplained DEF SourceExpires, server, requests, replies
<1>3. ASSUME ClientRestarts PROVE Explained'
  BY <1>1, <1>3, QuietExplained DEF ClientRestarts, server, requests, replies
<1>4. ASSUME NEW e \in Endpoints("tcp"), ConnExpires(e) PROVE Explained'
  BY <1>1, <1>4, QuietExplained DEF ConnExpires, server, requests, replies
<1>5. ASSUME NEW h \in Ips, ServerRestarts(h) PROVE Explained'
  <2>1. PICK none : none = [s \in ClientSessions |-> 0]
    OBVIOUS
  <2>2. /\ sessions' = [sessions EXCEPT ![h] = none]
        /\ UNCHANGED <<cfg, seq, sent, passed, dedup, response_dedup, returned, answered,
                       response_seq>>
    BY <1>5, <2>1 DEF ServerRestarts, client, requests, replies
  <2>3. \A x \in ClientSessions : none[x] = 0
    BY <2>1
  <2>4. \A g \in Ips, x \in ClientSessions : sessions'[g][x] \in {0, sessions[g][x]}
    BY <1>1, <2>2, <2>3
  <2> QED
    BY <1>1, <2>2, <2>4, QuietExplained
<1>6. ASSUME NEW h \in Ips, NEW s \in ClientSessions, TargetExpires(h, s) PROVE Explained'
  <2>1. /\ sessions' = [sessions EXCEPT ![h][s] = 0]
        /\ UNCHANGED <<cfg, seq, sent, passed, dedup, response_dedup, returned, answered,
                       response_seq>>
    BY <1>6 DEF TargetExpires, client, requests, replies
  <2>2. \A g \in Ips, x \in ClientSessions : sessions'[g][x] \in {0, sessions[g][x]}
    BY <1>1, <2>1
  <2> QED
    BY <1>1, <2>1, <2>2, QuietExplained
<1> QED
  BY <1>2, <1>3, <1>4, <1>5, <1>6 DEF FaultNext

LEMMA NextExplained == RelayInv /\ Explained /\ [Next]_vars => Explained'
<1> SUFFICES ASSUME RelayInv, Explained, [Next]_vars PROVE Explained'
  OBVIOUS
<1>1. CASE Next
  BY <1>1, ClientStepExplained, ServerStepExplained, FaultStepExplained DEF Next
<1>2. CASE UNCHANGED vars
  BY <1>2, QuietExplained DEF RelayInv, vars, client, server, requests, replies
<1> QED
  BY <1>1, <1>2

\* What a server refuses before it ever passed was overtaken.
LEMMA HandledRefused ==
    ASSUME RelayInv, Explained, NEW k \in 1..Len(sent), NEW m, NEW p, NEW reached,
           m.id = sent[k].session, m.seq = sent[k].seq, m.payload[1] = k,
           HandlePacket(Host, m, p, reached), Host \in Ips,
           NEW x \in refused' \ refused
    PROVE  TooLate(sent[x[2]].n, [i \in DOMAIN passed[x[1]] |-> sent[passed[x[1]][i]].n],
                   cfg.dedup_window)
<1>1. PICK o : o = At(k) /\ o \in Targets
  BY Handled
<1>2. x = <<o, k>> /\ Refuses(k) /\ \A i \in DOMAIN passed[o] : passed[o][i] # k
  <2>1. /\ (IF sessions[Host][m.id] = 0 THEN target + 1 ELSE sessions[Host][m.id]) = o
        /\ IsDuplicate(IF sessions[Host][m.id] = 0 THEN New ELSE dedup[o], m.seq) = Refuses(k)
    BY <1>1 DEF Known, At, WindowOf, Refuses
  <2>2. refused' = IF Refuses(k) /\ \A i \in DOMAIN passed[o] : passed[o][i] # k
                   THEN refused \cup {<<o, k>>} ELSE refused
    BY <2>1, Zenon DEF HandlePacket
  <2> QED
    BY <2>2
<1>3. PICK w : w = dedup[o] /\ WellFormed(w)
  BY <1>1 DEF RelayInv, TypeOK, ServersOK
<1>4. PICK q \in Nat : q = sent[k].seq
  BY HandledAt
<1>5. IsDuplicate(w, q)
  BY <1>1, <1>2, <1>3, <1>4, HandledAt
<1>6. PICK size \in Nat \ {0} : size = cfg.dedup_window
  BY ConfiguredFacts, TypeFacts DEF RelayInv
<1>7. /\ w.started /\ passed[o] # <<>> /\ w.min_seq \in Nat
      /\ \A z \in w.seen : \E i \in DOMAIN passed[o] : sent[passed[o][i]].seq = z
      /\ \/ w.min_seq = sent[passed[o][1]].seq
         \/ \E i \in DOMAIN passed[o] : w.min_seq + size <= sent[passed[o][i]].seq + 1
  BY <1>1, <1>3, <1>5, <1>6 DEF IsDuplicate, Explained, WindowsExplained, WellFormed, Window
<1>8. 1 \in DOMAIN passed[o]
  <2>1. passed[o] \in Seq(1..Len(sent))
    BY <1>1 DEF RelayInv, TypeOK, HistoryOK
  <2> QED
    BY <1>7, <2>1
<1>9. \A i \in DOMAIN passed[o] : sent[passed[o][i]].session = sent[k].session
  BY <1>1, HandledOrigin DEF Explained
\* Numbers of one session differ as places in it do.
<1>10. \A i \in DOMAIN passed[o] :
          /\ sent[passed[o][i]].n \in Nat /\ sent[passed[o][i]].seq \in Nat
          /\ sent[k].n \in Nat
          /\ sent[k].seq + sent[passed[o][i]].n = sent[passed[o][i]].seq + sent[k].n
  <2> SUFFICES ASSUME NEW i \in DOMAIN passed[o]
               PROVE  /\ sent[passed[o][i]].n \in Nat /\ sent[passed[o][i]].seq \in Nat
                      /\ sent[k].n \in Nat
                      /\ sent[k].seq + sent[passed[o][i]].n = sent[passed[o][i]].seq + sent[k].n
    OBVIOUS
  <2>1. PICK j \in 1..Len(sent) : j = passed[o][i]
    BY <1>1, PassedFacts DEF RelayInv
  <2>2. PICK s \in ClientSessions : s = sent[k].session /\ sent[j].session = s
    BY <1>9, <2>1, SentFacts DEF RelayInv
  <2>3. Count(s) \in Nat /\ seq[s] \in Nat
    BY <2>2, CountFacts, WidthFacts DEF RelayInv, TypeOK, ClientOK
  <2>4. /\ sent[j].seq + Count(s) = sent[j].n + seq[s]
        /\ sent[k].seq + Count(s) = sent[k].n + seq[s]
    BY <2>2 DEF Explained, Consecutive
  <2>5. sent[j].n \in Nat /\ sent[j].seq \in Nat /\ sent[k].n \in Nat /\ sent[k].seq \in Nat
    BY SentFacts DEF RelayInv
  <2>6. sent[k].seq + sent[j].n = sent[j].seq + sent[k].n
    <3>1. PICK a \in Nat : a = sent[j].seq
      BY <2>5
    <3>2. PICK b \in Nat : b = sent[j].n
      BY <2>5
    <3>3. PICK c \in Nat : c = sent[k].seq
      BY <2>5
    <3>4. PICK d \in Nat : d = sent[k].n
      BY <2>5
    <3>5. PICK e \in Nat : e = Count(s)
      BY <2>3
    <3>6. PICK f \in Nat : f = seq[s]
      BY <2>3
    <3>7. a + e = b + f /\ c + e = d + f
      BY <2>4, <3>1, <3>2, <3>3, <3>4, <3>5, <3>6
    <3>8. c + b = a + d
      BY <3>7
    <3> QED
      BY <3>1, <3>2, <3>3, <3>4, <3>8
  <2> QED
    BY <2>1, <2>5, <2>6
<1>11. PICK ns : ns = [i \in DOMAIN passed[o] |-> sent[passed[o][i]].n]
  OBVIOUS
<1>12. PICK n \in Nat : n = sent[k].n
  BY <1>8, <1>10
<1>13. /\ DOMAIN ns = DOMAIN passed[o]
       /\ \A i \in DOMAIN ns : ns[i] \in Nat /\ q + ns[i] = sent[passed[o][i]].seq + n
                               /\ sent[passed[o][i]].seq \in Nat
  BY <1>4, <1>10, <1>11, <1>12
<1>14. TooLate(n, ns, size)
  <2>1. CASE q \in w.seen
    <3>1. PICK i \in DOMAIN passed[o] : sent[passed[o][i]].seq = q
      BY <1>7, <2>1
    <3>2. PICK j \in 1..Len(sent) : j = passed[o][i] /\ j # k /\ sent[j].session = sent[k].session
      BY <1>1, <1>2, <1>9, <3>1, PassedFacts DEF RelayInv
    <3>3. sent[j].n = n
      <4>1. sent[j].n = ns[i] /\ ns[i] \in Nat /\ q + ns[i] = q + n
        BY <1>11, <1>13, <3>1, <3>2
      <4> QED
        BY <4>1
    <3>4. j \in Nat /\ k \in Nat
      OBVIOUS
    <3>5. sent[j].n < sent[k].n \/ sent[k].n < sent[j].n
      BY <3>2, <3>4 DEF Explained, Consecutive
    <3> QED
      BY <1>12, <3>3, <3>5
  <2>2. CASE q < w.min_seq /\ w.min_seq = sent[passed[o][1]].seq
    <3>1. n < ns[1]
      BY <1>8, <1>13, <2>2
    <3> QED
      BY <3>1 DEF TooLate
  <2>3. CASE /\ q < w.min_seq
             /\ \E i \in DOMAIN passed[o] : w.min_seq + size <= sent[passed[o][i]].seq + 1
    <3>1. PICK i \in DOMAIN ns : w.min_seq + size <= sent[passed[o][i]].seq + 1
      BY <1>13, <2>3
    <3>2. PICK z \in Nat : z = sent[passed[o][i]].seq
      BY <1>13
    <3>3. q + ns[i] = z + n /\ ns[i] \in Nat /\ w.min_seq + size <= z + 1
      BY <1>13, <3>1, <3>2
    <3>4. q + 1 <= w.min_seq /\ w.min_seq \in Nat
      BY <1>7, <2>3
    <3>5. n + size <= ns[i]
      <4>1. PICK a \in Nat : a = ns[i]
        BY <3>3
      <4>2. PICK e \in Nat : e = w.min_seq
        BY <3>4
      <4>3. q + a = z + n /\ e + size <= z + 1 /\ q + 1 <= e
        BY <3>3, <3>4, <4>1, <4>2
      <4>4. n + size <= a
        BY <4>3
      <4> QED
        BY <4>1, <4>4
    <3> QED
      BY <3>5 DEF TooLate
  <2> QED
    BY <1>5, <1>7, <2>1, <2>2, <2>3 DEF IsDuplicate
<1> QED
  BY <1>2, <1>6, <1>11, <1>12, <1>14

\* What the client refuses before it ever returned it was overtaken, or met
\* numbers of another target session.
LEMMA ReturnUnheard ==
    ASSUME RelayInv, Explained, NEW s \in ClientSessions, NEW m, NEW r \in 1..Len(answered),
           m.seq = answered[r].n, m.payload[1] = r, ReturnResponse(s, m),
           NEW x \in unheard' \ unheard
    PROVE  \E q \in returned[x[1]] :
              \/ answered[q].target # answered[x[2]].target
              \/ answered[q].n > answered[x[2]].n
<1>1. x = <<s, r>> /\ IsDuplicate(response_dedup[s], answered[r].n) /\ r \notin returned[s]
  <2>1. unheard' = IF IsDuplicate(response_dedup[s], answered[r].n) /\ r \notin returned[s]
                   THEN unheard \cup {<<s, r>>} ELSE unheard
    BY Zenon DEF ReturnResponse
  <2> QED
    BY <2>1
<1>2. PICK w : w = response_dedup[s] /\ WellFormed(w)
  BY QuietFacts DEF RelayInv
<1>3. \A z \in w.seen : \E q \in returned[s] : answered[q].n = z
  BY <1>2 DEF Explained, ResponsesHeld
<1>4. \A q \in returned[s] : q \in 1..Len(answered)
  BY QuietFacts DEF RelayInv
<1>5. PICK n \in Nat : n = answered[r].n
  BY AnsweredFacts DEF RelayInv
<1>6. CASE n \in w.seen
  <2>1. PICK q \in returned[s] : answered[q].n = n
    BY <1>3, <1>6
  <2>2. q \in 1..Len(answered) /\ q # r
    BY <1>1, <1>4
  <2>3. answered[q].target # answered[r].target
    BY <1>5, <2>1, <2>2 DEF Explained, AnswersNumbered
  <2> QED
    BY <1>1, <2>3
<1>7. CASE n < w.min_seq
  <2>1. w.started
    BY <1>1, <1>2 DEF IsDuplicate
  <2>2. w.max_seq \in w.seen /\ w.min_seq <= w.max_seq /\ w.min_seq \in Nat /\ w.max_seq \in Nat
    BY <1>2, <2>1 DEF WellFormed, Window
  <2>3. PICK q \in returned[s] : answered[q].n = w.max_seq
    BY <1>3, <2>2
  <2>4. answered[q].n > answered[r].n
    BY <1>5, <1>7, <2>2, <2>3
  <2> QED
    BY <1>1, <2>4
<1> QED
  BY <1>1, <1>2, <1>5, <1>6, <1>7 DEF IsDuplicate

\* Only the handling of a packet refuses one, and only the return of a response
\* leaves one unheard.
LEMMA RefusedStep ==
    ASSUME RelayInv, Explained, [Next]_vars, NEW x \in refused' \ refused
    PROVE  TooLate(sent[x[2]].n, [i \in DOMAIN passed[x[1]] |-> sent[passed[x[1]][i]].n],
                   cfg.dedup_window)
<1>1. refused' # refused
  OBVIOUS
<1>2. ~ClientNext
  BY <1>1 DEF ClientNext, SourcePacket, SourceOpens, RecvUdpResponse, RecvTcpResponse,
              ClientCloses, requests
<1>3. ~FaultNext
  BY <1>1 DEF FaultNext, SourceExpires, ClientRestarts, ConnExpires, ServerRestarts,
              TargetExpires, requests
<1>4. ServerNext
  BY <1>1, <1>2, <1>3 DEF Next, vars, requests
<1>5. CASE \E d \in net_up, reached \in BOOLEAN : RecvUdp(d, reached)
  <2>1. PICK d \in net_up, reached \in BOOLEAN : RecvUdp(d, reached)
    BY <1>5
  <2>2. PICK m : m = decode_packet(d[2])
    OBVIOUS
  <2>3. PICK k \in 1..Len(sent) :
           m.id = sent[k].session /\ m.seq = sent[k].seq /\ m.payload[1] = k
    BY <2>2, DatagramPacket, Zenon
  <2>4. d[1].ep.host = Host /\ Host \in Ips
    BY DatagramPacket, Zenon
  <2>5. HandlePacket(Host, m, d[1], reached)
    BY <2>1, <2>2, <2>4 DEF RecvUdp
  <2> QED
    BY <2>3, <2>4, <2>5, HandledRefused
<1>6. CASE \E c \in Connections, reached \in BOOLEAN : RecvTcp(c, reached)
  <2>1. PICK c \in Connections, reached \in BOOLEAN : RecvTcp(c, reached)
    BY <1>6
  <2>2. PICK m : m = decode_packet(FirstFrame(conns[c].up))
    OBVIOUS
  <2>3. HasFrame(conns[c].up)
    BY <2>1 DEF RecvTcp
  <2>4. PICK k \in 1..Len(sent) :
           m.id = sent[k].session /\ m.seq = sent[k].seq /\ m.payload[1] = k
    BY <2>2, <2>3, FramePacket
  <2>5. c[1].host = Host /\ Host \in Ips
    BY TypeFacts, PathFacts DEF RelayInv
  <2>6. HandlePacket(Host, m, PathOfConn(c), reached)
    BY <2>1, <2>2, <2>5, Zenon DEF RecvTcp
  <2> QED
    BY <2>4, <2>5, <2>6, HandledRefused
<1>7. ASSUME NEW c \in Connections, DropTcp(c) \/ ServerCloses(c) PROVE FALSE
  BY <1>1, <1>7 DEF DropTcp, ServerCloses, requests
<1>8. ASSUME NEW h \in Ips, NEW s \in ClientSessions, Respond(h, s) PROVE FALSE
  BY <1>1, <1>8 DEF Respond, requests
<1> QED
  BY <1>4, <1>5, <1>6, <1>7, <1>8 DEF ServerNext

LEMMA UnheardStep ==
    ASSUME RelayInv, Explained, [Next]_vars, NEW x \in unheard' \ unheard
    PROVE  \E q \in returned[x[1]] :
              \/ answered[q].target # answered[x[2]].target
              \/ answered[q].n > answered[x[2]].n
<1>1. unheard' # unheard
  OBVIOUS
<1>2. ~ServerNext
  BY <1>1 DEF ServerNext, RecvUdp, RecvTcp, DropTcp, ServerCloses, Respond, replies
<1>3. ~FaultNext
  BY <1>1 DEF FaultNext, SourceExpires, ClientRestarts, ConnExpires, ServerRestarts,
              TargetExpires, replies
<1>4. ClientNext
  BY <1>1, <1>2, <1>3 DEF Next, vars, replies
<1>5. CASE \E d \in net_down : RecvUdpResponse(d)
  <2>1. PICK d \in net_down : RecvUdpResponse(d)
    BY <1>5
  <2>2. PICK m : m = decode_packet(d[2])
    OBVIOUS
  <2>3. d[2] \in ResponsePackets /\ TypeOK
    BY DEF RelayInv, Carried, InFlight
  <2>4. PICK s \in ClientSessions, r \in 1..Len(answered) :
           m.id = s /\ m.seq = answered[r].n /\ m.payload[1] = r
    BY <2>2, <2>3, ResponsePacket, Zenon
  <2>5. ReturnResponse(s, m)
    BY <2>1, <2>2, <2>4 DEF RecvUdpResponse
  <2> QED
    BY <2>4, <2>5, ReturnUnheard
<1>6. CASE \E c \in Connections : RecvTcpResponse(c)
  <2>1. PICK c \in Connections : RecvTcpResponse(c)
    BY <1>6
  <2>2. PICK m : m = decode_packet(FirstFrame(conns[c].down))
    OBVIOUS
  <2>3. /\ HasFrame(conns[c].down) /\ current # 0 /\ ReturnResponse(current, m)
    BY <1>1, <2>1, <2>2 DEF RecvTcpResponse
  <2>4. PICK r \in 1..Len(answered) : m.seq = answered[r].n /\ m.payload[1] = r
    BY <2>2, <2>3, FrameResponse, Zenon
  <2>5. current \in ClientSessions
    BY <2>3, TypeFacts DEF ClientSessions, RelayInv
  <2> QED
    BY <2>3, <2>4, <2>5, ReturnUnheard
<1>7. ASSUME NEW dial, SourcePacket(dial) \/ \E draw \in Draws : SourceOpens(draw, dial) PROVE FALSE
  BY <1>1, <1>7 DEF SourcePacket, SourceOpens, replies
<1>8. ASSUME NEW c \in Connections, ClientCloses(c) PROVE FALSE
  BY <1>1, <1>8 DEF ClientCloses, replies
<1> QED
  BY <1>4, <1>5, <1>6, <1>7, <1>8 DEF ClientNext

LEMMA ExplainedInvariant == Spec => [](RelayInv /\ Explained)
<1> QED
  BY InitInv, NextKeeps, InitExplained, NextExplained, PTL DEF Spec

\* A server that refuses a packet which never passed has passed a later one of the
\* same session, or one a window further, whatever expired or was restarted since
\* (is_duplicate, Session::new, get_or_create_udp_session).
THEOREM RefusalsOnlyLate == Spec => RefusedOnlyLate
<1>1. RelayInv /\ Explained /\ [Next]_vars =>
         [\A x \in refused' \ refused :
             TooLate(sent[x[2]].n, [i \in DOMAIN passed[x[1]] |-> sent[passed[x[1]][i]].n],
                     cfg.dedup_window)]_vars
  BY RefusedStep
<1> QED
  BY <1>1, ExplainedInvariant, PTL DEF Spec, RefusedOnlyLate

\* The client that refuses a response it never returned has returned a later one
\* of the same target session, or one of another: its window knows only numbers
\* (ResponseDedupWindow::is_duplicate, process_udp_response).
THEOREM UnheardIsExplained == Spec => UnheardExplained
<1>1. RelayInv /\ Explained /\ [Next]_vars =>
         [\A x \in unheard' \ unheard :
             LET mine == answered[x[2]]
             IN  \E q \in returned[x[1]] :
                     \/ answered[q].target # mine.target
                     \/ answered[q].n > mine.n]_vars
  BY UnheardStep
<1> QED
  BY <1>1, ExplainedInvariant, PTL DEF Spec, UnheardExplained

=============================================================================
