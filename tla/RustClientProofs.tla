-------------------------- MODULE RustClientProofs --------------------------
(***************************************************************************)
(* The client of the Rust implementation, for every set of sources, of     *)
(* servers and of response numbers, every window size and every bound.     *)
(*                                                                         *)
(* Four invariants, each inductive over those before it: the types; the    *)
(* ids and the two session maps (SessionInv); connections, and where ids   *)
(* are kept (RoutingInv); responses on their way to the source             *)
(* (ResponseInv).  With them the client implements SourceSessions.         *)
(***************************************************************************)
EXTENDS RustClient, DedupWindowProofs

-----------------------------------------------------------------------------
(* Types *)

\* A part of the state that does not change keeps its type.
LEMMA Frame ==
    ASSUME TypeOK
    PROVE  /\ UNCHANGED <<udpmaps, udpobjs>> => UdpOK'
           /\ UNCHANGED tcps => TcpOK'
           /\ UNCHANGED <<listener, created, opened>> => ListenerOK'
           /\ UNCHANGED <<receiver, created, opened>> => ReceiversOK'
           /\ UNCHANGED <<sweep, created>> => SweepOK'
<1>1. UNCHANGED <<udpmaps, udpobjs>> => UdpOK'
  BY DEF TypeOK, UdpOK, udpmaps, udpobjs
<1>2. UNCHANGED tcps => TcpOK'
  BY DEF TypeOK, TcpOK, tcps
<1>3. UNCHANGED <<listener, created, opened>> => ListenerOK'
  BY DEF TypeOK, ListenerOK
<1>4. UNCHANGED <<receiver, created, opened>> => ReceiversOK'
  BY DEF TypeOK, ReceiversOK, ReceiverOK
<1>5. UNCHANGED <<sweep, created>> => SweepOK'
  BY DEF TypeOK, SweepOK
<1> QED
  BY <1>1, <1>2, <1>3, <1>4, <1>5

\* What the type says of the numbers of sessions and connections.
LEMMA Bounds ==
    ASSUME TypeOK
    PROVE  /\ created \in Nat /\ created <= MaxSessions /\ MaxSessions \in Nat
           /\ opened \in Nat /\ opened <= MaxConns /\ MaxConns \in Nat
           /\ IdMod \in Nat /\ IdMod > 1 /\ SeqMod \in Nat /\ SeqMod > 0
BY BoundsAssumption, WidthAssumption DEF TypeOK, UdpOK, TcpOK

\* What the type says of a session and of a connection that exists.
LEMMA SessionTyped ==
    ASSUME TypeOK, NEW o \in 1..created
    PROVE  o \in Objs /\ id[o] \in 1..IdMod - 1 /\ source[o] \in Sources
<1>1. o \in Objs
  BY Bounds DEF Objs
<1>2. id[o] # 0 /\ source[o] # None
  BY DEF TypeOK, UdpOK
<1>3. id[o] \in 0..IdMod - 1 /\ source[o] \in Sources \cup {None}
  BY <1>1 DEF TypeOK, UdpOK
<1> QED
  BY <1>1, <1>2, <1>3, Bounds

LEMMA ConnTyped ==
    ASSUME TypeOK, NEW j \in 1..opened
    PROVE  j \in ConnObjs /\ key[j] \in Keys /\ key[j][1] \in Sources
<1>1. j \in ConnObjs
  BY Bounds DEF ConnObjs
<1>2. key[j] \in Keys
  BY DEF TypeOK, TcpOK
<1> QED
  BY <1>1, <1>2 DEF Keys

\* One receiver is replaced by a well typed one.
LEMMA ReceiverUpdate ==
    ASSUME ReceiversOK, UNCHANGED <<created, opened>>, NEW r \in Receivers, NEW rec,
           ReceiverOK(r, rec), Move(r, rec)
    PROVE  ReceiversOK'
<1>1. \A x \in Receivers : receiver'[x] = IF x = r THEN rec ELSE receiver[x]
  BY DEF ReceiversOK, Move
<1>2. \A x \in Receivers : ReceiverOK(x, receiver'[x])
  BY <1>1 DEF ReceiversOK
<1>3. receiver' = [x \in Receivers |-> receiver'[x]]
  BY DEF ReceiversOK, Move
<1> QED
  BY <1>2, <1>3 DEF ReceiversOK, ReceiverOK

\* Nothing but the listener, or nothing but one receiver, changes.
LEMMA ListenerAlone ==
    ASSUME TypeOK, ListenerOK',
           UNCHANGED <<udpmaps, udpobjs, tcps, stopped, receiver, sweep, now, delivered>>
    PROVE  TypeOK'
<1>1. UNCHANGED <<created, opened>>
  BY DEF udpobjs, tcps
<1> QED
  BY <1>1, Frame DEF TypeOK

LEMMA ReceiverAlone ==
    ASSUME TypeOK, NEW r \in Receivers, NEW rec, ReceiverOK(r, rec), Move(r, rec),
           UNCHANGED <<udpmaps, udpobjs, tcps, stopped, listener, sweep, now, delivered>>
    PROVE  TypeOK'
<1>1. UNCHANGED <<created, opened>>
  BY DEF udpobjs, tcps
<1> QED
  BY <1>1, Frame, ReceiverUpdate DEF TypeOK

LEMMA ListeningOK ==
    ASSUME TypeOK
    PROVE  Listening \in [pc : ListenerPCs, src : Sources \cup {None}, obj : 0..created,
                          todo : SUBSET TcpServers, ep : TcpServers \cup {None},
                          conn : 0..opened]
BY Bounds DEF Listening, ListenerPCs

\* The next server, or the next packet.
LEMMA NextServerOK ==
    ASSUME TypeOK, UNCHANGED <<created, opened>>, listener.pc \in Sending,
           NEW todo \in SUBSET TcpServers, NextServer(todo)
    PROVE  ListenerOK'
<1>1. CASE todo = {}
  BY <1>1, ListeningOK DEF NextServer, ListenerOK, Listening, Sending, Connecting
<1>2. CASE todo # {}
  <2>1. listener' = [listener EXCEPT !.pc = "tlookup", !.todo = todo, !.ep = None,
                                     !.conn = 0]
    BY <1>2 DEF NextServer
  <2>2. "tlookup" \in ListenerPCs /\ None \in TcpServers \cup {None} /\ 0 \in 0..opened
    BY Bounds DEF ListenerPCs
  <2>3. /\ listener \in [pc : ListenerPCs, src : Sources \cup {None}, obj : 0..created,
                         todo : SUBSET TcpServers, ep : TcpServers \cup {None},
                         conn : 0..opened]
        /\ listener.src # None /\ listener.obj # 0
    BY DEF TypeOK, ListenerOK, Sending
  <2>4. /\ listener'.pc = "tlookup" /\ listener'.src # None /\ listener'.obj # 0
        /\ listener' \in [pc : ListenerPCs, src : Sources \cup {None}, obj : 0..created,
                          todo : SUBSET TcpServers, ep : TcpServers \cup {None},
                          conn : 0..opened]
    BY <2>1, <2>2, <2>3
  <2> QED
    BY <2>4 DEF ListenerOK, Connecting
<1> QED
  BY <1>1, <1>2

LEMMA RecvPacketTyped ==
    ASSUME TypeOK, NEW src \in Sources, RecvPacket(src)
    PROVE  TypeOK'
<1>1. ListenerOK'
  BY ListeningOK, NamesAssumption
     DEF RecvPacket, Listening, ListenerOK, ListenerPCs, Sending, Connecting, udpobjs, tcps
<1> QED
  BY <1>1, ListenerAlone DEF RecvPacket

LEMMA LookupTyped == ASSUME TypeOK, Lookup PROVE TypeOK'
<1>1. listener.src \in Sources /\ udp_sessions[listener.src] \in 0..created
  BY DEF Lookup, TypeOK, ListenerOK, UdpOK
<1>2. ListenerOK'
  BY <1>1 DEF Lookup, TypeOK, ListenerOK, ListenerPCs, Sending, Connecting, udpobjs, tcps
<1> QED
  BY <1>2, ListenerAlone DEF Lookup

LEMMA LookupTcpTyped == ASSUME TypeOK, NEW ep \in TcpServers, LookupTcp(ep) PROVE TypeOK'
<1>1. listener.src \in Sources /\ listener.obj # 0
  BY DEF LookupTcp, TypeOK, ListenerOK, Sending
<1>2. tcp_sessions[<<listener.src, ep>>] \in 0..opened
  BY <1>1 DEF TypeOK, TcpOK, Keys
<1>3. ListenerOK'
  BY <1>1, <1>2, NamesAssumption
     DEF LookupTcp, TypeOK, ListenerOK, ListenerPCs, Sending, Connecting, udpobjs, tcps
<1> QED
  BY <1>3, ListenerAlone DEF LookupTcp

LEMMA FailuresTyped == ASSUME TypeOK, ConnectFails \/ SendTcpFails PROVE TypeOK'
<1>1. listener.todo \ {listener.ep} \in SUBSET TcpServers
  BY DEF TypeOK, ListenerOK
<1>2. ListenerOK'
  BY <1>1, NextServerOK DEF ConnectFails, SendTcpFails, Sending, udpobjs, tcps
<1> QED
  BY <1>2, ListenerAlone DEF ConnectFails, SendTcpFails

LEMMA NextIdRange ==
    ASSUME NEW c \in 0..IdMod - 1
    PROVE  /\ NextId(c).id \in 1..IdMod - 1 /\ NextId(c).counter = NextId(c).id
           /\ NextId(c).id = IF c = IdMod - 1 THEN 1 ELSE c + 1
<1>1. (c + 1) % IdMod = IF c = IdMod - 1 THEN 0 ELSE c + 1
  BY WidthAssumption
<1> QED
  BY <1>1, WidthAssumption DEF NextId

LEMMA CreateTyped == ASSUME TypeOK, Create PROVE TypeOK'
<1> DEFINE o == created + 1
           n == NextId(session_id_counter)
<1>1. /\ o \in Objs /\ o \in 1..MaxSessions /\ o # 0 /\ 0..created \subseteq 0..o
      /\ o \in 0..o /\ 1..o = 1..created \cup {o}
  BY Bounds DEF Create, Objs
<1>2. n.id \in 0..IdMod - 1 /\ n.id # 0 /\ n.counter = n.id
  BY NextIdRange DEF TypeOK, UdpOK
<1>3. listener.src \in Sources /\ listener.src # None
  BY DEF Create, TypeOK, ListenerOK
<1>4. /\ created' = o
      /\ session_id_counter' = n.counter
      /\ id' = [id EXCEPT ![o] = n.id]
      /\ source' = [source EXCEPT ![o] = listener.src]
      /\ seq' = [seq EXCEPT ![o] = 0]
      /\ last_activity' = [last_activity EXCEPT ![o] = now]
      /\ response_dedup' = [response_dedup EXCEPT ![o] = New]
      /\ udp_sessions' = [udp_sessions EXCEPT ![listener.src] = o]
      /\ listener' = [listener EXCEPT !.pc = "reverse", !.obj = o]
      /\ UNCHANGED <<udp_session_addrs, tcps, stopped, receiver, sweep, now, delivered>>
  BY DEF Create
<1> HIDE DEF o, n
<1>5. UdpOK'
  <2>1. udp_sessions' \in [Sources -> 0..o]
    BY <1>1, <1>3, <1>4 DEF TypeOK, UdpOK
  <2>2. /\ id' \in [Objs -> 0..IdMod - 1] /\ source' \in [Objs -> Sources \cup {None}]
        /\ \A x \in 1..o : id'[x] # 0 /\ source'[x] # None
    BY <1>1, <1>2, <1>3, <1>4 DEF TypeOK, UdpOK
  <2>3. /\ seq' \in [Objs -> 0..SeqMod - 1] /\ last_activity' \in [Objs -> Nat]
    BY <1>1, <1>4, Bounds, SMTT(30) DEF TypeOK, UdpOK
  <2>4. response_dedup' \in [Objs -> Window]
    BY <1>1, <1>4 DEF TypeOK, UdpOK, New, Window
  <2> QED
    BY <1>1, <1>2, <1>4, <2>1, <2>2, <2>3, <2>4 DEF TypeOK, UdpOK
<1>6. TcpOK'
  BY <1>4, Frame
<1>7. ListenerOK'
  BY <1>1, <1>3, <1>4 DEF TypeOK, ListenerOK, ListenerPCs, Sending, Connecting, tcps
<1>8. ReceiversOK'
  BY <1>1, <1>4 DEF TypeOK, ReceiversOK, ReceiverOK, tcps
<1>9. SweepOK'
  BY <1>1, <1>4 DEF TypeOK, SweepOK
<1> QED
  BY <1>4, <1>5, <1>6, <1>7, <1>8, <1>9 DEF TypeOK

LEMMA StoreReverseTyped == ASSUME TypeOK, StoreReverse PROVE TypeOK'
<1>1. listener.src \in Sources \cup {None}
  BY DEF TypeOK, ListenerOK
<1>2. UdpOK'
  BY <1>1 DEF StoreReverse, TypeOK, UdpOK, udpobjs
<1>3. ListenerOK'
  BY DEF StoreReverse, Go, TypeOK, ListenerOK, ListenerPCs, Sending, Connecting, udpobjs, tcps
<1> QED
  BY <1>2, <1>3, Frame DEF StoreReverse, TypeOK, udpobjs, tcps

LEMMA TakeSeqTyped == ASSUME TypeOK, TakeSeq PROVE TypeOK'
<1>1. ListenerOK'
  BY NextServerOK DEF TakeSeq, Sending, tcps
<1>2. \A x \in 0..SeqMod - 1 : (x + 1) % SeqMod \in 0..SeqMod - 1
  BY WidthAssumption
<1>3. seq' \in [Objs -> 0..SeqMod - 1]
  BY <1>2 DEF TakeSeq, TypeOK, UdpOK
<1>4. UdpOK'
  BY <1>3 DEF TakeSeq, TypeOK, UdpOK, udpmaps
<1> QED
  BY <1>1, <1>4, Frame DEF TakeSeq, TypeOK, tcps

LEMMA ConnectTyped == ASSUME TypeOK, Connect PROVE TypeOK'
<1> DEFINE j == opened + 1
           k == <<listener.src, listener.ep>>
<1>1. /\ j \in ConnObjs /\ j \in 0..MaxConns /\ j # 0 /\ 0..opened \subseteq 0..j
      /\ j \in 0..j /\ 1..j = 1..opened \cup {j} /\ j \in Receivers
      /\ \A x \in ConnObjs : x <= j <=> x = j \/ x <= opened
  BY Bounds DEF Connect, ConnObjs, Receivers
<1>2. listener.pc = "connect" /\ listener.obj # 0 /\ listener.src # None /\ k \in Keys
  BY DEF Connect, TypeOK, ListenerOK, Sending, Connecting, Keys
<1>3. /\ opened' = j
      /\ key' = [key EXCEPT ![j] = k]
      /\ tcp_last_activity' = [tcp_last_activity EXCEPT ![j] = now]
      /\ cancelled' = [cancelled EXCEPT ![j] = FALSE]
      /\ carried' = [carried EXCEPT ![j] = {}]
      /\ tcp_sessions' = [tcp_sessions EXCEPT ![k] = j]
      /\ receiver' = [receiver EXCEPT ![j] = Receiving]
      /\ listener' = [listener EXCEPT !.pc = "ttouch", !.conn = j]
      /\ UNCHANGED <<udpmaps, udpobjs, created, stopped, sweep, now, delivered>>
  BY DEF Connect, udpobjs
<1> HIDE DEF j, k
<1>4. TcpOK'
  <2>1. tcp_sessions' \in [Keys -> 0..j]
    BY <1>1, <1>3 DEF TypeOK, TcpOK
  <2>2. /\ key' \in [ConnObjs -> Keys \cup {<<None, None>>}]
        /\ \A x \in 1..j : key'[x] \in Keys
    BY <1>1, <1>2, <1>3 DEF TypeOK, TcpOK
  <2>3. /\ tcp_last_activity' \in [ConnObjs -> Nat] /\ cancelled' \in [ConnObjs -> BOOLEAN]
        /\ carried' \in [ConnObjs -> SUBSET (1..IdMod - 1)]
    BY <1>3 DEF TypeOK, TcpOK
  <2> QED
    BY <1>1, <1>3, <2>1, <2>2, <2>3 DEF TcpOK
<1>5. ListenerOK'
  BY <1>1, <1>2, <1>3 DEF TypeOK, ListenerOK, ListenerPCs, Sending, Connecting
<1>6. ReceiversOK'
  <2>1. \A x \in Receivers : receiver'[x] = IF x = j THEN Receiving ELSE receiver[x]
    BY <1>3 DEF TypeOK, ReceiversOK
  <2>2. \A x \in Receivers : ReceiverOK(x, receiver[x])'
    <3> SUFFICES ASSUME NEW x \in Receivers PROVE ReceiverOK(x, receiver[x])'
      OBVIOUS
    <3>1. CASE x = j
      BY <1>1, <1>3, <2>1, <3>1, Bounds, WidthAssumption
         DEF ReceiverOK, Receiving, ReceiverPCs, Judged
    <3>2. CASE x # j
      BY <1>1, <1>3, <2>1, <3>2 DEF TypeOK, ReceiversOK, ReceiverOK
    <3> QED
      BY <3>1, <3>2
  <2> QED
    BY <1>3, <2>2 DEF TypeOK, ReceiversOK
<1> QED
  BY <1>3, <1>4, <1>5, <1>6, Frame DEF TypeOK

LEMMA TouchTcpTyped == ASSUME TypeOK, TouchTcp PROVE TypeOK'
<1>1. ListenerOK'
  BY DEF TouchTcp, Go, TypeOK, ListenerOK, ListenerPCs, Sending, Connecting, udpobjs
<1>2. TcpOK'
  BY DEF TouchTcp, TypeOK, TcpOK
<1> QED
  BY <1>1, <1>2, Frame DEF TouchTcp, TypeOK, udpobjs

LEMMA SendTcpTyped == ASSUME TypeOK, SendTcp PROVE TypeOK'
<1>1. listener.obj \in 1..created /\ listener.todo \ {listener.ep} \in SUBSET TcpServers
  BY Bounds DEF SendTcp, TypeOK, ListenerOK, Sending
<1>2. id[listener.obj] \in 1..IdMod - 1
  BY <1>1, SessionTyped
<1>3. TcpOK'
  <2> DEFINE sent == carried[listener.conn] \cup {id[listener.obj]}
  <2>1. carried' = [carried EXCEPT ![listener.conn] = sent]
    BY DEF SendTcp
  <2>2. listener.conn \in ConnObjs
    BY Bounds DEF SendTcp, TypeOK, ListenerOK, ConnObjs
  <2>3. sent \in SUBSET (1..IdMod - 1)
    BY <1>2, <2>2 DEF TypeOK, TcpOK
  <2> HIDE DEF sent
  <2> QED
    BY <2>1, <2>3 DEF SendTcp, TypeOK, TcpOK
<1>4. ListenerOK'
  BY <1>1, NextServerOK DEF SendTcp, Sending, udpobjs
<1> QED
  BY <1>3, <1>4, Frame DEF SendTcp, TypeOK, udpobjs

\* A receiver that works on nothing.
LEMMA ReceivingOK ==
    ASSUME TypeOK, NEW r \in Receivers, receiver[r].pc # "unborn",
           NEW pc \in {"recv", "body", "cleanup", "done"}
    PROVE  ReceiverOK(r, [Receiving EXCEPT !.pc = pc]) /\ ReceiverOK(r, Receiving)
<1>1. r \in ConnObjs => r <= opened
  BY DEF TypeOK, ReceiversOK, ReceiverOK
<1> QED
  BY <1>1, Bounds DEF ReceiverOK, Receiving, ReceiverPCs, Judged

\* A response whose source is known.
LEMMA ReceivedOK ==
    ASSUME TypeOK, NEW r \in Receivers, receiver[r].pc # "unborn",
           NEW sid \in 0..IdMod - 1, NEW q \in RespSeqs, NEW src \in Sources
    PROVE  ReceiverOK(r, [Receiving EXCEPT !.pc = "session", !.sid = sid, !.seq = q,
                                           !.src = src])
<1> DEFINE rec == [Receiving EXCEPT !.pc = "session", !.sid = sid, !.seq = q, !.src = src]
<1>1. r \in ConnObjs => r <= opened
  BY DEF TypeOK, ReceiversOK, ReceiverOK
<1>2. src # None /\ 0 \in 0..IdMod - 1 /\ 0 \in 0..created
  BY Bounds, NamesAssumption
<1>3. Receiving \in [pc : ReceiverPCs, sid : 0..IdMod - 1, seq : {0} \cup RespSeqs,
                    src : Sources \cup {None}, obj : 0..created]
  BY <1>2 DEF Receiving, ReceiverPCs
<1>4. /\ rec \in [pc : ReceiverPCs, sid : 0..IdMod - 1, seq : {0} \cup RespSeqs,
                 src : Sources \cup {None}, obj : 0..created]
      /\ rec.pc = "session" /\ rec.seq = q /\ rec.src = src
  BY <1>3 DEF ReceiverPCs
<1> HIDE DEF rec
<1>5. ReceiverOK(r, rec)
  BY <1>1, <1>2, <1>4 DEF ReceiverOK, Judged
<1> QED
  BY <1>5 DEF rec

\* A response on its way moves on.
LEMMA MovedOK ==
    ASSUME TypeOK, NEW r \in Receivers, receiver[r].pc \in Judged,
           NEW pc \in {"touch", "forward"}
    PROVE  ReceiverOK(r, [receiver[r] EXCEPT !.pc = pc])
<1> DEFINE rec == [receiver[r] EXCEPT !.pc = pc]
<1>1. ReceiverOK(r, receiver[r])
  BY DEF TypeOK, ReceiversOK
<1>2. /\ rec \in [pc : ReceiverPCs, sid : 0..IdMod - 1, seq : {0} \cup RespSeqs,
                  src : Sources \cup {None}, obj : 0..created]
      /\ rec.pc = pc /\ rec.src = receiver[r].src /\ rec.seq = receiver[r].seq
      /\ rec.obj = receiver[r].obj
  BY <1>1 DEF ReceiverOK, ReceiverPCs
<1> HIDE DEF rec
<1>3. ReceiverOK(r, rec)
  BY <1>1, <1>2 DEF ReceiverOK, Judged
<1> QED
  BY <1>3 DEF rec

LEMMA RecvResponseTyped ==
    ASSUME TypeOK, NEW u \in Senders, NEW sid \in 0..IdMod - 1, NEW q \in RespSeqs,
           RecvResponse(u, sid, q)
    PROVE  TypeOK'
<1> DEFINE src == udp_session_addrs[sid]
           rec == IF src = None THEN Receiving
                  ELSE [Receiving EXCEPT !.pc = "session", !.sid = sid, !.seq = q,
                                         !.src = src]
<1>1. u \in Receivers /\ receiver[u].pc = "recv" /\ Move(u, rec)
  BY DEF RecvResponse, Receivers
<1>2. src \in Sources \cup {None}
  BY DEF TypeOK, UdpOK
<1>3. ReceiverOK(u, rec)
  BY <1>1, <1>2, ReceivingOK, ReceivedOK
<1> HIDE DEF rec
<1> QED
  BY <1>1, <1>3, ReceiverAlone DEF RecvResponse

LEMMA ReadLengthTyped ==
    ASSUME TypeOK, NEW j \in ConnObjs, ReadLength(j) \/ DecodeFails(j) \/ ReaderEof(j)
    PROVE  TypeOK'
<1>1. j \in Receivers /\ receiver[j].pc # "unborn"
  BY DEF ReadLength, DecodeFails, ReaderEof, Receivers
<1>2. /\ ReceiverOK(j, [Receiving EXCEPT !.pc = "body"])
      /\ ReceiverOK(j, [Receiving EXCEPT !.pc = "cleanup"])
      /\ ReceiverOK(j, Receiving)
  BY <1>1, ReceivingOK
<1> QED
  BY <1>1, <1>2, ReceiverAlone DEF ReadLength, DecodeFails, ReaderEof

\* A connection that has a reader was opened for a key.
LEMMA ReaderKey ==
    ASSUME TypeOK, NEW j \in ConnObjs, receiver[j].pc # "unborn"
    PROVE  j \in 1..opened /\ key[j] \in Keys /\ key[j][1] \in Sources
<1>1. j <= opened
  BY DEF TypeOK, ReceiversOK, ReceiverOK, Receivers
<1>2. j \in 1..opened
  BY <1>1, Bounds DEF ConnObjs
<1> QED
  BY <1>2, ConnTyped

LEMMA ReadDataTyped ==
    ASSUME TypeOK, NEW j \in ConnObjs, NEW sid, NEW q \in RespSeqs, ReadData(j, sid, q)
    PROVE  TypeOK'
<1>1. j \in Receivers /\ receiver[j].pc # "unborn"
  BY DEF ReadData, Receivers
<1>2. sid \in 0..IdMod - 1
  BY Bounds DEF ReadData, TypeOK, TcpOK
<1>3. ReceiverOK(j, [Receiving EXCEPT !.pc = "session", !.sid = sid, !.seq = q,
                                      !.src = key[j][1]])
  BY <1>1, <1>2, ReaderKey, ReceivedOK
<1> QED
  BY <1>1, <1>3, ReceiverAlone DEF ReadData

LEMMA LookupSessionTyped ==
    ASSUME TypeOK, NEW r \in Receivers, LookupSession(r)
    PROVE  TypeOK'
<1> DEFINE o == udp_sessions[receiver[r].src]
           rec == IF o = 0 THEN Receiving ELSE [receiver[r] EXCEPT !.pc = "dedup", !.obj = o]
<1>1. ReceiverOK(r, receiver[r]) /\ receiver[r].pc = "session"
  BY DEF LookupSession, TypeOK, ReceiversOK
<1>2. o \in 0..created
  BY <1>1 DEF ReceiverOK, TypeOK, UdpOK
<1>3. CASE o = 0
  BY <1>1, <1>3, ReceivingOK, ReceiverAlone DEF LookupSession
<1>4. CASE o # 0
  <2>1. PICK new : new = [receiver[r] EXCEPT !.pc = "dedup", !.obj = o]
    OBVIOUS
  <2>2. /\ new \in [pc : ReceiverPCs, sid : 0..IdMod - 1, seq : {0} \cup RespSeqs,
                    src : Sources \cup {None}, obj : 0..created]
        /\ new.pc = "dedup" /\ new.src = receiver[r].src /\ new.seq = receiver[r].seq
        /\ new.obj = o
    BY <1>1, <1>2, <2>1 DEF ReceiverOK, ReceiverPCs
  <2>3. ReceiverOK(r, new)
    BY <1>1, <1>4, <2>2 DEF ReceiverOK, Judged
  <2> QED
    BY <1>4, <2>1, <2>3, ReceiverAlone DEF LookupSession
<1> QED
  BY <1>3, <1>4

\* A window stays a window.
LEMMA MarkTyped ==
    ASSUME NEW w \in Window, NEW q \in Nat, NEW size \in Nat \ {0}
    PROVE  Mark(w, q, size) \in Window
<1>1. Open(q) \in Window
  BY DEF Open, Window
<1>2. PICK held : held = [w EXCEPT !.seen = w.seen \cup {q}]
  OBVIOUS
<1>3. held \in Window
  BY <1>2 DEF Window
<1>4. PICK top : top = [held EXCEPT !.max_seq = q]
  OBVIOUS
<1>5. top \in Window
  BY <1>3, <1>4 DEF Window
<1>6. Slide(top, size) \in Window
  <2>1. SaturatingSub(top.max_seq, size - 1) \in Nat
    BY <1>5 DEF SaturatingSub, Window
  <2> QED
    BY <1>5, <2>1 DEF Slide, Window
<1>7. Insert(w, q, size) \in Window
  BY <1>2, <1>3, <1>4, <1>5, <1>6 DEF Insert
<1> QED
  BY <1>1, <1>7 DEF Mark

LEMMA DedupTyped ==
    ASSUME TypeOK, NEW r \in Receivers, Dedup(r)
    PROVE  TypeOK'
<1> DEFINE o == receiver[r].obj
           q == receiver[r].seq
           w == Mark(response_dedup[o], q, RespDedupSize)
           rec == IF IsDuplicate(response_dedup[o], q) THEN Receiving
                  ELSE [receiver[r] EXCEPT !.pc = "touch"]
<1>1. ReceiverOK(r, receiver[r]) /\ receiver[r].pc = "dedup"
  BY DEF Dedup, TypeOK, ReceiversOK
<1>2. o \in Objs /\ q \in Nat
  <2>1. "dedup" \in Judged
    BY DEF Judged
  <2>2. o # 0 /\ q \in RespSeqs
    BY <1>1, <2>1 DEF ReceiverOK
  <2>3. o \in 0..created
    BY <1>1 DEF ReceiverOK
  <2>4. created \in Nat /\ created <= MaxSessions /\ MaxSessions \in Nat
    BY Bounds
  <2> HIDE DEF o, q
  <2>5. o \in Objs
    BY <2>2, <2>3, <2>4 DEF Objs
  <2> QED
    BY <2>2, <2>5, RespSeqsAssumption
<1>3. w \in Window
  BY <1>2, MarkTyped, SizeAssumption DEF TypeOK, UdpOK
<1>4. ReceiverOK(r, rec)
  BY <1>1, ReceivingOK, MovedOK DEF Judged
<1>5. /\ response_dedup' = [response_dedup EXCEPT ![o] = w] /\ Move(r, rec)
      /\ UNCHANGED <<udpmaps, created, id, source, seq, last_activity, tcps, stopped,
                     listener, sweep, now, delivered>>
  BY DEF Dedup
<1> HIDE DEF o, q, w, rec
<1>6. UdpOK'
  BY <1>3, <1>5 DEF TypeOK, UdpOK, udpmaps
<1>7. UNCHANGED <<created, opened>>
  BY <1>5 DEF tcps
<1>8. ReceiversOK'
  BY <1>4, <1>5, <1>7, ReceiverUpdate DEF TypeOK
<1> QED
  BY <1>5, <1>6, <1>7, <1>8, Frame DEF TypeOK

LEMMA TouchResponseTyped ==
    ASSUME TypeOK, NEW r \in Receivers, TouchResponse(r)
    PROVE  TypeOK'
<1> DEFINE rec == [receiver[r] EXCEPT !.pc = "forward"]
<1>1. ReceiverOK(r, rec)
  BY MovedOK DEF TouchResponse, Judged
<1>2. /\ last_activity' = [last_activity EXCEPT ![receiver[r].obj] = now] /\ Move(r, rec)
      /\ UNCHANGED <<udpmaps, created, id, source, seq, response_dedup, tcps, stopped,
                     listener, sweep, now, delivered>>
  BY DEF TouchResponse
<1> HIDE DEF rec
<1>3. UdpOK'
  BY <1>2 DEF TypeOK, UdpOK, udpmaps
<1>4. UNCHANGED <<created, opened>>
  BY <1>2 DEF tcps
<1>5. ReceiversOK'
  BY <1>1, <1>2, <1>4, ReceiverUpdate DEF TypeOK
<1> QED
  BY <1>2, <1>3, <1>4, <1>5, Frame DEF TypeOK

LEMMA ForwardTyped ==
    ASSUME TypeOK, NEW r \in Receivers, Forward(r) \/ ForwardFails(r)
    PROVE  TypeOK'
<1>1. receiver[r].pc = "forward" /\ ReceiverOK(r, receiver[r]) /\ Move(r, Receiving)
  BY DEF Forward, ForwardFails, TypeOK, ReceiversOK
<1>2. ReceiverOK(r, Receiving)
  BY <1>1, ReceivingOK
<1>3. UNCHANGED <<udpmaps, udpobjs, tcps, stopped, listener, sweep, now, created, opened>>
  BY DEF Forward, ForwardFails, udpobjs, tcps
<1>4. delivered' \in [Objs -> [RespSeqs -> Nat]]
  <2>1. CASE ForwardFails(r)
    BY <2>1 DEF ForwardFails, TypeOK
  <2>2. CASE Forward(r)
    <3> DEFINE o == receiver[r].obj
               q == receiver[r].seq
    <3>1. o \in Objs /\ q \in RespSeqs
      BY <1>1, Bounds DEF ReceiverOK, Judged, Objs
    <3>2. delivered' = [delivered EXCEPT ![o] = [delivered[o] EXCEPT ![q] = delivered[o][q] + 1]]
      BY <2>2 DEF Forward
    <3>3. delivered[o] \in [RespSeqs -> Nat] /\ delivered[o][q] + 1 \in Nat
      BY <3>1 DEF TypeOK
    <3> HIDE DEF o, q
    <3>4. [delivered[o] EXCEPT ![q] = delivered[o][q] + 1] \in [RespSeqs -> Nat]
      BY <3>3
    <3> QED
      BY <3>2, <3>4 DEF TypeOK
  <2> QED
    BY <2>1, <2>2
<1>5. ReceiversOK'
  BY <1>1, <1>2, <1>3, ReceiverUpdate DEF TypeOK
<1> QED
  BY <1>3, <1>4, <1>5, Frame DEF TypeOK

LEMMA CleanupTcpTyped ==
    ASSUME TypeOK, NEW j \in ConnObjs, CleanupTcp(j)
    PROVE  TypeOK'
<1>1. j \in Receivers /\ receiver[j].pc # "unborn" /\ Returned = [Receiving EXCEPT !.pc = "done"]
  BY DEF CleanupTcp, Receivers, Returned
<1>2. ReceiverOK(j, Returned)
  BY <1>1, ReceivingOK
<1>3. UNCHANGED <<udpmaps, udpobjs, opened, created, stopped, listener, sweep, now, delivered>>
  BY DEF CleanupTcp, udpobjs
<1>4. TcpOK'
  <2>1. tcp_sessions' \in [Keys -> 0..opened]
    <3>1. 0 \in 0..opened /\ tcp_sessions \in [Keys -> 0..opened]
      BY Bounds DEF TypeOK, TcpOK
    <3>2. tcp_sessions' = [tcp_sessions EXCEPT ![key[j]] = 0]
      BY DEF CleanupTcp
    <3> QED
      BY <3>1, <3>2
  <2>2. cancelled' \in [ConnObjs -> BOOLEAN]
    BY DEF CleanupTcp, TypeOK, TcpOK
  <2> QED
    BY <2>1, <2>2 DEF CleanupTcp, TypeOK, TcpOK
<1>5. ReceiversOK'
  BY <1>1, <1>2, <1>3, ReceiverUpdate DEF TypeOK, CleanupTcp
<1> QED
  BY <1>3, <1>4, <1>5, Frame DEF TypeOK

LEMMA ReceiverExitTyped ==
    ASSUME TypeOK, NEW r \in Receivers, ReceiverExit(r)
    PROVE  TypeOK'
<1>1. receiver[r].pc # "unborn" /\ Returned = [Receiving EXCEPT !.pc = "done"]
  BY DEF ReceiverExit, Returned
<1>2. ReceiverOK(r, Returned)
  BY <1>1, ReceivingOK
<1> QED
  BY <1>2, ReceiverAlone DEF ReceiverExit

LEMMA SweepTyped ==
    ASSUME TypeOK, SweepStep \/ SweepExit
    PROVE  TypeOK'
<1>1. CASE SweepTick \/ SweepExit
  <2>1. SweepOK'
    BY <1>1 DEF SweepTick, SweepExit, TypeOK, SweepOK, SweepPCs, udpobjs
  <2> QED
    BY <1>1, <2>1, Frame DEF SweepTick, SweepExit, TypeOK, udpobjs, tcps
<1>2. CASE SweepScan
  <2>1. \A s \in Sources : Expired(udp_sessions[s]) => udp_sessions[s] \in 1..created
    BY Bounds DEF Expired, TypeOK, UdpOK
  <2>2. {udp_sessions[s] : s \in {x \in Sources : Expired(udp_sessions[x])}}
          \in SUBSET (1..created)
    BY <2>1
  <2>3. PICK pc \in SweepPCs, expired \in SUBSET (1..created) :
          sweep' = [sweep EXCEPT !.pc = pc, !.expired = expired]
    BY <1>2, <2>2 DEF SweepScan, SweepPCs
  <2>4. SweepOK'
    BY <1>2, <2>3 DEF SweepScan, TypeOK, SweepOK, udpobjs
  <2> QED
    BY <1>2, <2>4, Frame DEF SweepScan, TypeOK, udpobjs, tcps
<1>3. ASSUME NEW o \in Objs, SweepRemove(o) PROVE TypeOK'
  <2>1. o \in 0..created /\ 0 \in 0..created
    BY <1>3, Bounds DEF SweepRemove, TypeOK, SweepOK
  <2>2. SweepOK'
    BY <1>3, <2>1 DEF SweepRemove, TypeOK, SweepOK, SweepPCs, udpobjs
  <2>3. UdpOK'
    BY <1>3, <2>1 DEF SweepRemove, TypeOK, UdpOK, udpobjs
  <2> QED
    BY <1>3, <2>2, <2>3, Frame DEF SweepRemove, TypeOK, udpobjs, tcps
<1>4. CASE SweepAddr
  <2>1. sweep.expired \ {sweep.cur} \in SUBSET (1..created)
    BY DEF TypeOK, SweepOK
  <2> DEFINE rest == sweep.expired \ {sweep.cur}
  <2>2. PICK pc \in SweepPCs :
          sweep' = [sweep EXCEPT !.pc = pc, !.expired = rest, !.cur = 0]
    <3>1. CASE rest = {}
      BY <1>4, <3>1 DEF SweepAddr, SweepPCs
    <3>2. CASE rest # {}
      BY <1>4, <3>2 DEF SweepAddr, SweepPCs
    <3> QED
      BY <3>1, <3>2
  <2>3. SweepOK'
    <3>1. created' = created /\ rest \in SUBSET (1..created) /\ 0 \in 0..created
      BY <1>4, <2>1, Bounds DEF SweepAddr, udpobjs
    <3> HIDE DEF rest
    <3> QED
      BY <2>2, <3>1 DEF TypeOK, SweepOK
  <2>4. UdpOK'
    BY <1>4 DEF SweepAddr, TypeOK, UdpOK, udpobjs
  <2> QED
    BY <1>4, <2>3, <2>4, Frame DEF SweepAddr, TypeOK, udpobjs, tcps
<1>5. CASE SweepTcpScan
  <2>1. SweepOK'
    BY <1>5 DEF SweepTcpScan, TypeOK, SweepOK, SweepPCs, udpobjs
  <2> QED
    BY <1>5, <2>1, Frame DEF SweepTcpScan, TypeOK, udpobjs, tcps
<1>6. CASE SweepTcpRemove
  <2>1. SweepOK'
    BY <1>6, Bounds DEF SweepTcpRemove, Waiting, SweepOK, SweepPCs, udpobjs
  <2>2. TcpOK'
    BY <1>6, Bounds DEF SweepTcpRemove, TypeOK, TcpOK
  <2> QED
    BY <1>6, <2>1, <2>2, Frame DEF SweepTcpRemove, TypeOK, udpobjs
<1> QED
  BY <1>1, <1>2, <1>3, <1>4, <1>5, <1>6 DEF SweepStep

\* Time, stop and the exit of the listener.
LEMMA EnvironmentTyped ==
    ASSUME TypeOK, Tick \/ Stop \/ ListenerExit \/ UNCHANGED vars
    PROVE  TypeOK'
<1>1. CASE Tick
  BY <1>1, Frame DEF Tick, TypeOK, udpobjs, tcps
<1>2. CASE Stop
  BY <1>2, Frame DEF Stop, TypeOK, udpobjs, tcps
<1>3. CASE ListenerExit
  <2>1. ListenerOK'
    BY <1>3 DEF ListenerExit, Go, TypeOK, ListenerOK, ListenerPCs, Sending, Connecting,
               udpobjs, tcps
  <2> QED
    BY <1>3, <2>1, ListenerAlone DEF ListenerExit
<1>4. CASE UNCHANGED vars
  BY <1>4, Frame DEF vars, TypeOK, udpobjs, tcps
<1> QED
  BY <1>1, <1>2, <1>3, <1>4

LEMMA KnownIdsTyped == ASSUME TypeOK PROVE KnownIds \subseteq 0..IdMod - 1
BY SessionTyped DEF KnownIds

LEMMA NextTyped == ASSUME TypeOK, [Next]_vars PROVE TypeOK'
<1>1. CASE \E src \in Sources : RecvPacket(src)
  BY <1>1, RecvPacketTyped
<1>2. CASE ListenerStep
  BY <1>2, LookupTyped, CreateTyped, StoreReverseTyped, TakeSeqTyped, TouchTcpTyped,
     LookupTcpTyped DEF ListenerStep
<1>3. CASE Connect \/ ConnectFails \/ SendTcp \/ SendTcpFails
  BY <1>3, ConnectTyped, FailuresTyped, SendTcpTyped
<1>4. CASE \E u \in Senders, q \in RespSeqs : \E sid \in KnownIds : RecvResponse(u, sid, q)
  BY <1>4, RecvResponseTyped, KnownIdsTyped
<1>5. CASE \E j \in ConnObjs : ReadLength(j) \/ DecodeFails(j) \/ ReaderEof(j) \/ CleanupTcp(j)
  BY <1>5, ReadLengthTyped, CleanupTcpTyped
<1>6. CASE \E j \in ConnObjs, q \in RespSeqs : \E sid \in KnownIds : ReadData(j, sid, q)
  BY <1>6, ReadDataTyped
<1>7. CASE \E r \in Receivers : ReceiverStep(r) \/ ReceiverExit(r)
  BY <1>7, LookupSessionTyped, DedupTyped, TouchResponseTyped, ForwardTyped,
     ReceiverExitTyped DEF ReceiverStep
<1>8. CASE SweepStep \/ SweepExit
  BY <1>8, SweepTyped
<1>9. CASE Tick \/ Stop \/ ListenerExit \/ Terminated \/ UNCHANGED vars
  BY <1>9, EnvironmentTyped DEF Terminated
<1> QED
  BY <1>1, <1>2, <1>3, <1>4, <1>5, <1>6, <1>7, <1>8, <1>9 DEF Next

LEMMA InitTyped == ASSUME Init PROVE TypeOK
<1>1. /\ MaxSessions \in Nat /\ MaxConns \in Nat /\ IdMod \in Nat /\ IdMod > 1
      /\ SeqMod \in Nat /\ SeqMod > 0 /\ 1..0 = {}
  BY BoundsAssumption, WidthAssumption
<1>2. UdpOK
  BY <1>1, FirstAssumption DEF Init, UdpOK, Objs, New, Window
<1>3. TcpOK
  BY <1>1 DEF Init, TcpOK, ConnObjs
<1>4. ListenerOK
  BY <1>1 DEF Init, ListenerOK, Listening, ListenerPCs, Sending, Connecting
<1>5. ReceiversOK
  <2>1. \A r \in Receivers : receiver[r] = IF r \in Senders THEN Receiving ELSE Unborn
    BY DEF Init
  <2>2. \A r \in Receivers : ReceiverOK(r, receiver[r])
    BY <1>1, <2>1, NamesAssumption
       DEF Init, ReceiverOK, Receiving, Unborn, ReceiverPCs, Judged, Receivers, ConnObjs
  <2> QED
    BY <2>2 DEF Init, ReceiversOK
<1>6. SweepOK
  BY <1>1 DEF Init, SweepOK, Waiting, SweepPCs
<1> QED
  BY <1>2, <1>3, <1>4, <1>5, <1>6 DEF Init, TypeOK

\* TypeOK, of every instance: what the tasks hold across await points always
\* denotes sessions and connections that exist.
THEOREM ClientTypeCorrect == Spec => []TypeOK
<1>1. Init => TypeOK
  BY InitTyped
<1>2. TypeOK /\ [Next]_vars => TypeOK'
  BY NextTyped
<1> QED
  BY <1>1, <1>2, PTL DEF Spec

-----------------------------------------------------------------------------
(* The ids and the two session maps *)

\* The ids of a session and of its predecessors, as the counter advances.
LEMMA BackDistinct ==
    ASSUME NEW c \in 1..IdMod - 1, NEW d1 \in 0..IdMod - 2, NEW d2 \in 0..IdMod - 2,
           Back(c, d1) = Back(c, d2)
    PROVE  d1 = d2
BY WidthAssumption DEF Back

LEMMA BackNext ==
    ASSUME NEW c \in 1..IdMod - 1, NEW d \in 0..IdMod - 2
    PROVE  Back(NextId(c).id, d + 1) = Back(c, d)
<1>1. NextId(c).id = IF c = IdMod - 1 THEN 1 ELSE c + 1
  BY NextIdRange
<1> QED
  BY <1>1, WidthAssumption DEF Back

LEMMA IdsApart ==
    ASSUME TypeOK, IdsCounted, NEW o1 \in 1..created, NEW o2 \in 1..created,
           id[o1] = id[o2]
    PROVE  o1 = o2
<1>1. session_id_counter \in 1..IdMod - 1
  BY Bounds DEF TypeOK, UdpOK, IdsCounted
<1>2. created - o1 \in 0..IdMod - 2 /\ created - o2 \in 0..IdMod - 2
  BY Bounds, IdsAssumption
<1>3. Back(session_id_counter, created - o1) = Back(session_id_counter, created - o2)
  BY DEF IdsCounted
<1>4. created - o1 = created - o2
  BY <1>1, <1>2, <1>3, BackDistinct
<1> QED
  BY <1>4, Bounds

\* A session in the map exists.
LEMMA MapTyped ==
    ASSUME TypeOK, NEW s \in Sources
    PROVE  /\ udp_sessions[s] \in 0..created
           /\ udp_sessions[s] # 0 => udp_sessions[s] \in 1..created
<1>1. udp_sessions[s] \in 0..created
  BY DEF TypeOK, UdpOK
<1> QED
  BY <1>1, Bounds

\* Steps that touch neither the maps nor the tasks that write them.
LEMMA SessionFrame ==
    ASSUME SessionInv, UNCHANGED <<udpmaps, created, id, source, listener, sweep>>
    PROVE  SessionInv'
<1>1. IdsCounted'
  BY DEF SessionInv, IdsCounted, Back, udpmaps
<1>2. SessionOwner'
  BY DEF SessionInv, SessionOwner, udpmaps
<1>3. OneWriter'
  BY DEF SessionInv, OneWriter, udpmaps
<1>4. MapsInLine'
  BY DEF SessionInv, MapsInLine, LeadsTo, udpmaps
<1> QED
  BY <1>1, <1>2, <1>3, <1>4 DEF SessionInv

\* Steps of the listener that leave the maps alone.
LEMMA SessionListener ==
    ASSUME SessionInv, UNCHANGED <<udpmaps, created, id, source, sweep>>,
           listener.pc # "reverse", listener'.pc # "reverse",
           listener'.pc \in Sending => source[listener'.obj] = listener'.src,
           listener'.pc = "create" => udp_sessions[listener'.src] = 0
    PROVE  SessionInv'
<1>1. IdsCounted'
  BY DEF SessionInv, IdsCounted, Back, udpmaps
<1>2. SessionOwner'
  BY DEF SessionInv, SessionOwner, udpmaps
<1>3. OneWriter'
  BY DEF SessionInv, OneWriter, udpmaps
<1>4. MapsInLine'
  BY DEF SessionInv, MapsInLine, LeadsTo, udpmaps
<1> QED
  BY <1>1, <1>2, <1>3, <1>4 DEF SessionInv

\* Steps of the sweeper that leave the maps alone.
LEMMA SessionSweeper ==
    ASSUME SessionInv, UNCHANGED <<udpmaps, created, id, source, listener>>,
           sweep.pc \notin {"remove", "addr"}, sweep'.pc # "addr",
           sweep'.pc = "remove" =>
               /\ listener.pc # "reverse"
               /\ \A o \in sweep'.expired : udp_sessions[source[o]] = o
    PROVE  SessionInv'
<1>1. IdsCounted'
  BY DEF SessionInv, IdsCounted, Back, udpmaps
<1>2. SessionOwner'
  BY DEF SessionInv, SessionOwner, udpmaps
<1>3. OneWriter'
  BY DEF SessionInv, OneWriter, udpmaps
<1>4. MapsInLine'
  BY DEF SessionInv, MapsInLine, LeadsTo, udpmaps
<1> QED
  BY <1>1, <1>2, <1>3, <1>4 DEF SessionInv

LEMMA ListenerSessions ==
    ASSUME TypeOK, SessionInv,
           \/ \E src \in Sources : RecvPacket(src)
           \/ Lookup \/ TakeSeq \/ (\E ep \in TcpServers : LookupTcp(ep))
           \/ Connect \/ ConnectFails \/ TouchTcp \/ SendTcp \/ SendTcpFails \/ ListenerExit
    PROVE  SessionInv'
<1> USE DEF Sending, udpobjs
<1>0. ASSUME NEW todo, NextServer(todo), listener.pc \in Sending
      PROVE  /\ listener'.pc \in {"recv", "tlookup"}
             /\ listener'.pc = "tlookup" =>
                   listener'.obj = listener.obj /\ listener'.src = listener.src
  <2>1. CASE todo = {}
    BY <1>0, <2>1 DEF NextServer, Listening
  <2>2. CASE todo # {}
    BY <1>0, <2>2 DEF NextServer, TypeOK, ListenerOK
  <2> QED
    BY <2>1, <2>2
<1>1. CASE \E src \in Sources : RecvPacket(src)
  BY <1>1, SessionListener DEF RecvPacket, Listening
<1>2. CASE Lookup
  <2>1. listener.src \in Sources
    BY <1>2 DEF Lookup, TypeOK, ListenerOK
  <2>2. /\ listener'.pc = IF udp_sessions[listener.src] = 0 THEN "create" ELSE "seq"
        /\ listener'.src = listener.src /\ listener'.obj = udp_sessions[listener.src]
    BY <1>2 DEF Lookup, TypeOK, ListenerOK
  <2> QED
    BY <1>2, <2>1, <2>2, SessionListener DEF Lookup, SessionInv, SessionOwner
<1>3. CASE TakeSeq \/ ConnectFails \/ SendTcp \/ SendTcpFails
  <2>1. \E todo : NextServer(todo) /\ listener.pc \in Sending
    BY <1>3 DEF TakeSeq, ConnectFails, SendTcp, SendTcpFails
  <2>2. /\ listener'.pc \in {"recv", "tlookup"}
        /\ listener'.pc = "tlookup" =>
              listener'.obj = listener.obj /\ listener'.src = listener.src
        /\ listener.pc \in Sending
    BY <1>0, <2>1
  <2>3. listener.pc # "reverse" /\ UNCHANGED <<udpmaps, created, id, source, sweep>>
    BY <1>3 DEF TakeSeq, ConnectFails, SendTcp, SendTcpFails
  <2> QED
    BY <2>2, <2>3, SessionListener DEF SessionInv, SessionOwner
<1>4. CASE (\E ep \in TcpServers : LookupTcp(ep)) \/ Connect \/ TouchTcp
  <2>1. /\ listener.pc \in Sending /\ listener.pc # "reverse"
        /\ listener'.pc \in {"connect", "ttouch", "tsend"}
        /\ listener'.obj = listener.obj /\ listener'.src = listener.src
        /\ UNCHANGED <<udpmaps, created, id, source, sweep>>
    <3>1. CASE \E ep \in TcpServers : LookupTcp(ep)
      BY <3>1 DEF LookupTcp, TypeOK, ListenerOK, Sending
    <3>2. CASE Connect
      BY <3>2 DEF Connect, TypeOK, ListenerOK, Sending
    <3>3. CASE TouchTcp
      BY <3>3 DEF TouchTcp, Go, TypeOK, ListenerOK, Sending
    <3> QED
      BY <1>4, <3>1, <3>2, <3>3
  <2> QED
    BY <2>1, SessionListener DEF SessionInv, SessionOwner
<1>5. CASE ListenerExit
  BY <1>5, SessionListener DEF ListenerExit, Go, TypeOK, ListenerOK
<1> QED
  BY <1>1, <1>2, <1>3, <1>4, <1>5

LEMMA CreateSessions == ASSUME TypeOK, TypeOK', SessionInv, Create PROVE SessionInv'
<1> DEFINE o == created + 1
           n == NextId(session_id_counter)
           src == listener.src
<1>1. /\ listener.pc = "create" /\ src \in Sources /\ udp_sessions[src] = 0
      /\ sweep.pc \notin {"remove", "addr"}
  BY DEF Create, UdpWriteLocked, TypeOK, ListenerOK, SessionInv, OneWriter
<1>2. o \in Objs /\ o \in 1..o /\ 1..o = 1..created \cup {o} /\ o \notin 1..created /\ o # 0
  BY Bounds DEF Create, Objs
<1>3. n.id \in 1..IdMod - 1 /\ n.counter = n.id
  BY NextIdRange DEF TypeOK, UdpOK
<1>4. /\ created' = o /\ session_id_counter' = n.id
      /\ id' = [id EXCEPT ![o] = n.id] /\ source' = [source EXCEPT ![o] = src]
      /\ udp_sessions' = [udp_sessions EXCEPT ![src] = o]
      /\ listener' = [listener EXCEPT !.pc = "reverse", !.obj = o]
      /\ UNCHANGED <<udp_session_addrs, sweep>>
  BY <1>3 DEF Create
<1> HIDE DEF o, n
<1>5. 1..created \subseteq Objs
  BY SessionTyped
<1>6. /\ id'[o] = n.id /\ source'[o] = src
      /\ \A x \in 1..created : id'[x] = id[x] /\ source'[x] = source[x]
      /\ udp_sessions'[src] = o
      /\ \A s \in Sources : s # src => udp_sessions'[s] = udp_sessions[s]
      /\ listener'.pc = "reverse" /\ listener'.obj = o /\ listener'.src = src
  <2>1. /\ id'[o] = n.id /\ source'[o] = src
        /\ \A x \in 1..created : id'[x] = id[x] /\ source'[x] = source[x]
    BY <1>2, <1>4, <1>5, SMTT(30) DEF TypeOK, UdpOK
  <2>2. /\ udp_sessions'[src] = o
        /\ \A s \in Sources : s # src => udp_sessions'[s] = udp_sessions[s]
    BY <1>1, <1>4 DEF TypeOK, UdpOK
  <2>3. listener'.pc = "reverse" /\ listener'.obj = o /\ listener'.src = src
    BY <1>4 DEF TypeOK, ListenerOK
  <2> QED
    BY <2>1, <2>2, <2>3
<1> HIDE DEF src
<1>7. \A x \in 1..created : id'[x] = Back(n.id, o - x)
  <2> SUFFICES ASSUME NEW x \in 1..created PROVE id'[x] = Back(n.id, o - x)
    OBVIOUS
  <2>1. id'[x] = Back(session_id_counter, created - x)
    BY <1>6 DEF SessionInv, IdsCounted
  <2>2. created # 0 /\ created - x \in 0..IdMod - 2
    BY Bounds, IdsAssumption
  <2>3. session_id_counter \in 1..IdMod - 1
    BY <2>2, Bounds DEF TypeOK, UdpOK, SessionInv, IdsCounted
  <2>4. o - x = (created - x) + 1
    BY Bounds DEF o
  <2> QED
    BY <2>1, <2>2, <2>3, <2>4, BackNext DEF n
<1>8. id'[o] = Back(n.id, 0) /\ o - o = 0
  BY <1>3, <1>6, Bounds DEF Back, o
<1>9. IdsCounted'
  <2>1. \A x \in 1..o : id'[x] = Back(n.id, o - x)
    BY <1>2, <1>7, <1>8
  <2>2. \A x \in 1..o : (id[x])' = (Back(session_id_counter, created - x))'
    BY <1>4, <2>1 DEF Back
  <2> QED
    BY <1>2, <1>3, <1>4, <2>2 DEF IdsCounted
<1>10. SessionOwner'
  <2>1. \A s \in Sources : udp_sessions'[s] # 0 => source'[udp_sessions'[s]] = s
    BY <1>6, MapTyped DEF SessionInv, SessionOwner
  <2> QED
    BY <1>6, <2>1 DEF SessionOwner
<1>11. OneWriter'
  BY <1>1, <1>4, <1>6 DEF OneWriter
<1>12. MapsInLine'
  <2>1. \A x \in 1..created : id[x] # n.id
    <3> SUFFICES ASSUME NEW x \in 1..created, id[x] = n.id PROVE FALSE
      OBVIOUS
    <3>1. Back(n.id, o - x) = Back(n.id, 0)
      BY <1>6, <1>7, <1>8
    <3>2. o - x \in 0..IdMod - 2 /\ 0 \in 0..IdMod - 2 /\ o - x # 0
      BY Bounds, IdsAssumption DEF Create, o
    <3> QED
      BY <1>3, <3>1, <3>2, BackDistinct
  <2>2. \A i \in 0..IdMod - 1, s \in Sources :
           udp_session_addrs[i] = s <=> udp_sessions[s] # 0 /\ id[udp_sessions[s]] = i
    BY <1>1 DEF SessionInv, MapsInLine, LeadsTo
  <2>3. \A s \in Sources : udp_session_addrs[n.id] # s
    BY <1>3, <2>1, <2>2, MapTyped, Bounds
  <2>4. ASSUME NEW i \in 0..IdMod - 1, NEW s \in Sources
        PROVE  udp_session_addrs[i] = s <=> LeadsTo(i, s)'
    <3>1. CASE i = n.id
      BY <1>4, <1>6, <2>3, <3>1 DEF LeadsTo
    <3>2. CASE i # n.id
      <4>1. LeadsTo(i, s)' <=> udp_sessions'[s] # 0 /\ id'[udp_sessions'[s]] = i
        BY <1>1, <1>4, <1>6, <3>2 DEF LeadsTo
      <4>2. CASE s = src
        BY <1>1, <1>4, <1>6, <2>2, <3>2, <4>1, <4>2
      <4>3. CASE s # src
        BY <1>4, <1>6, <2>2, <4>1, <4>3, MapTyped
      <4> QED
        BY <4>2, <4>3
    <3> QED
      BY <3>1, <3>2
  <2> QED
    BY <1>4, <1>6, <2>4 DEF MapsInLine
<1> QED
  BY <1>9, <1>10, <1>11, <1>12 DEF SessionInv

LEMMA StoreReverseSessions == ASSUME TypeOK, SessionInv, StoreReverse PROVE SessionInv'
<1> DEFINE o == listener.obj
           src == listener.src
<1>1. /\ listener.pc = "reverse" /\ src \in Sources /\ o \in 1..created
      /\ udp_sessions[src] = o /\ source[o] = src /\ sweep.pc \notin {"remove", "addr"}
  BY Bounds DEF StoreReverse, TypeOK, ListenerOK, Sending, SessionInv, SessionOwner, OneWriter
<1>2. /\ listener'.pc = "seq" /\ listener'.obj = o /\ listener'.src = src
      /\ udp_session_addrs'[id[o]] = src
      /\ \A i \in 0..IdMod - 1 : i # id[o] => udp_session_addrs'[i] = udp_session_addrs[i]
      /\ UNCHANGED <<session_id_counter, udp_sessions, created, id, source, sweep>>
  BY <1>1, SessionTyped DEF StoreReverse, Go, TypeOK, UdpOK, ListenerOK, Objs, udpobjs
<1> HIDE DEF o, src
<1>3. IdsCounted'
  BY <1>2 DEF SessionInv, IdsCounted, Back
<1>4. SessionOwner'
  BY <1>1, <1>2 DEF SessionInv, SessionOwner
<1>5. OneWriter'
  BY <1>1, <1>2 DEF SessionInv, OneWriter
<1>6. MapsInLine'
  <2>1. \A s \in Sources : udp_sessions[s] # 0 /\ id[udp_sessions[s]] = id[o] => s = src
    BY <1>1, MapTyped, IdsApart DEF SessionInv, SessionOwner
  <2>2. ASSUME NEW i \in 0..IdMod - 1, NEW s \in Sources
        PROVE  udp_session_addrs'[i] = s <=> LeadsTo(i, s)'
    <3>1. LeadsTo(i, s)' <=> udp_sessions[s] # 0 /\ id[udp_sessions[s]] = i
      BY <1>1, <1>2 DEF LeadsTo
    <3>2. CASE i = id[o]
      BY <1>1, <1>2, <2>1, <3>1, <3>2, Bounds
    <3>3. CASE i # id[o]
      <4>1. LeadsTo(i, s) <=> udp_sessions[s] # 0 /\ id[udp_sessions[s]] = i
        BY <1>1, <3>3 DEF LeadsTo, o
      <4> QED
        BY <1>2, <3>1, <3>3, <4>1 DEF SessionInv, MapsInLine
    <3> QED
      BY <3>2, <3>3
  <2> QED
    BY <2>2 DEF MapsInLine
<1> QED
  BY <1>3, <1>4, <1>5, <1>6 DEF SessionInv

LEMMA SweepRemoveSessions ==
    ASSUME TypeOK, SessionInv, NEW o \in Objs, SweepRemove(o)
    PROVE  SessionInv'
<1> DEFINE src == source[o]
<1>1. /\ sweep.pc = "remove" /\ o \in sweep.expired /\ sweep.expired \subseteq 1..created
      /\ listener.pc # "reverse" /\ o \in 1..created /\ src \in Sources
  BY SessionTyped DEF SweepRemove, TypeOK, SweepOK, SessionInv, OneWriter
<1>2. udp_sessions[src] = o /\ \A x \in sweep.expired : udp_sessions[source[x]] = x
  BY <1>1 DEF SessionInv, OneWriter
<1>3. /\ sweep'.pc = "addr" /\ sweep'.cur = o /\ sweep'.expired = sweep.expired
      /\ udp_sessions'[src] = 0
      /\ \A s \in Sources : s # src => udp_sessions'[s] = udp_sessions[s]
      /\ UNCHANGED <<session_id_counter, udp_session_addrs, created, id, source, listener>>
  BY <1>1 DEF SweepRemove, TypeOK, UdpOK, SweepOK, udpobjs
<1> HIDE DEF src
<1>4. IdsCounted'
  BY <1>3 DEF SessionInv, IdsCounted, Back
<1>5. SessionOwner'
  BY <1>3 DEF SessionInv, SessionOwner
<1>6. OneWriter'
  <2>1. listener'.pc = "create" => udp_sessions'[listener'.src] = 0
    <3>1. listener.pc = "create" => listener.src \in Sources
      BY DEF TypeOK, ListenerOK
    <3> QED
      BY <1>3, <3>1 DEF SessionInv, OneWriter
  <2>2. \A x \in sweep.expired : source[x] \in Sources
    BY <1>1, SessionTyped
  <2>3. \A x \in sweep.expired : udp_sessions'[source[x]] = IF x = o THEN 0 ELSE x
    BY <1>2, <1>3, <2>2 DEF src
  <2> QED
    BY <1>1, <1>3, <2>1, <2>3 DEF OneWriter
<1>7. MapsInLine'
  <2>1. \A i \in 0..IdMod - 1, s \in Sources :
           udp_session_addrs[i] = s <=> udp_sessions[s] # 0 /\ id[udp_sessions[s]] = i
    BY <1>1 DEF SessionInv, MapsInLine, LeadsTo
  <2>2. \A s \in Sources : udp_sessions[s] # 0 /\ id[udp_sessions[s]] = id[o] => s = src
    BY <1>1, MapTyped, IdsApart DEF SessionInv, SessionOwner, src
  <2>3. ASSUME NEW i \in 0..IdMod - 1, NEW s \in Sources
        PROVE  udp_session_addrs[i] = s <=> LeadsTo(i, s)'
    <3>1. CASE i = id[o]
      <4>1. LeadsTo(i, s)' <=> s = src
        BY <1>1, <1>3, <3>1 DEF LeadsTo, src
      <4>2. udp_session_addrs[i] = s <=> s = src
        BY <1>1, <1>2, <2>1, <2>2, <3>1, Bounds
      <4> QED
        BY <4>1, <4>2
    <3>2. CASE i # id[o]
      <4>1. LeadsTo(i, s)' <=> udp_sessions'[s] # 0 /\ id[udp_sessions'[s]] = i
        BY <1>1, <1>3, <3>2 DEF LeadsTo
      <4> QED
        BY <1>2, <1>3, <2>1, <3>2, <4>1
    <3> QED
      BY <3>1, <3>2
  <2> QED
    BY <1>3, <2>3 DEF MapsInLine
<1> QED
  BY <1>4, <1>5, <1>6, <1>7 DEF SessionInv

LEMMA SweepAddrSessions == ASSUME TypeOK, SessionInv, SweepAddr PROVE SessionInv'
<1> DEFINE o == sweep.cur
<1>1. /\ sweep.pc = "addr" /\ o \in sweep.expired /\ sweep.expired \subseteq 1..created
      /\ listener.pc # "reverse" /\ o \in 1..created /\ source[o] \in Sources
  BY SessionTyped DEF SweepAddr, TypeOK, SweepOK, SessionInv, OneWriter
<1>2. /\ udp_sessions[source[o]] = 0
      /\ \A x \in sweep.expired : x # o => udp_sessions[source[x]] = x
  BY <1>1 DEF SessionInv, OneWriter
<1>3. /\ sweep'.pc \in {"tcp", "remove"} /\ sweep'.expired = sweep.expired \ {o}
      /\ udp_session_addrs'[id[o]] = None
      /\ \A i \in 0..IdMod - 1 : i # id[o] => udp_session_addrs'[i] = udp_session_addrs[i]
      /\ UNCHANGED <<session_id_counter, udp_sessions, created, id, source, listener>>
  <2>1. id[o] \in 0..IdMod - 1
    BY <1>1, SessionTyped, Bounds
  <2>2. sweep'.pc \in {"tcp", "remove"} /\ sweep'.expired = sweep.expired \ {o}
    BY DEF SweepAddr, TypeOK, SweepOK
  <2> QED
    BY <2>1, <2>2 DEF SweepAddr, TypeOK, UdpOK, udpobjs
<1> HIDE DEF o
<1>4. IdsCounted'
  BY <1>3 DEF SessionInv, IdsCounted, Back
<1>5. SessionOwner'
  BY <1>3 DEF SessionInv, SessionOwner
<1>6. OneWriter'
  BY <1>1, <1>2, <1>3 DEF SessionInv, OneWriter
<1>7. MapsInLine'
  <2>1. \A s \in Sources : udp_sessions[s] # 0 => id[udp_sessions[s]] # id[o]
    BY <1>1, <1>2, MapTyped, IdsApart DEF SessionInv, SessionOwner
  <2>2. ASSUME NEW i \in 0..IdMod - 1, NEW s \in Sources
        PROVE  udp_session_addrs'[i] = s <=> LeadsTo(i, s)'
    <3>1. LeadsTo(i, s)' <=> udp_sessions[s] # 0 /\ id[udp_sessions[s]] = i
      BY <1>1, <1>3 DEF LeadsTo
    <3>2. CASE i = id[o]
      BY <1>3, <2>1, <3>1, <3>2, NamesAssumption
    <3>3. CASE i # id[o]
      <4>1. LeadsTo(i, s) <=> udp_sessions[s] # 0 /\ id[udp_sessions[s]] = i
        BY <1>1, <3>3 DEF LeadsTo, o
      <4> QED
        BY <1>3, <3>1, <3>3, <4>1 DEF SessionInv, MapsInLine
    <3> QED
      BY <3>2, <3>3
  <2> QED
    BY <2>2 DEF MapsInLine
<1> QED
  BY <1>4, <1>5, <1>6, <1>7 DEF SessionInv

LEMMA SweepSessions ==
    ASSUME TypeOK, SessionInv,
           SweepTick \/ SweepScan \/ SweepTcpScan \/ SweepTcpRemove \/ SweepExit
    PROVE  SessionInv'
<1>1. CASE SweepScan
  <2>1. sweep.pc = "scan" /\ listener.pc # "reverse"
        /\ UNCHANGED <<udpmaps, created, id, source, listener>>
    BY <1>1 DEF SweepScan, UdpWriteLocked, udpobjs
  <2>2. sweep'.pc # "addr" /\ \A o \in sweep'.expired :
           \E s \in Sources : udp_sessions[s] # 0 /\ udp_sessions[s] = o
    BY <1>1 DEF SweepScan, Expired, TypeOK, SweepOK
  <2>3. \A o \in sweep'.expired : udp_sessions[source[o]] = o
    BY <2>2 DEF SessionInv, SessionOwner
  <2> QED
    BY <2>1, <2>2, <2>3, SessionSweeper
<1>2. CASE SweepTick \/ SweepTcpScan \/ SweepTcpRemove \/ SweepExit
  <2>1. sweep'.pc \in {"scan", "tremove", "wait", "done"} /\ sweep.pc \notin {"remove", "addr"}
    <3>1. CASE SweepTick \/ SweepExit
      BY <3>1 DEF SweepTick, SweepExit, TypeOK, SweepOK
    <3>2. CASE SweepTcpScan
      BY <3>2 DEF SweepTcpScan, TypeOK, SweepOK
    <3>3. CASE SweepTcpRemove
      BY <3>3 DEF SweepTcpRemove, Waiting
    <3> QED
      BY <1>2, <3>1, <3>2, <3>3
  <2>2. UNCHANGED <<udpmaps, created, id, source, listener>>
    BY <1>2 DEF SweepTick, SweepTcpScan, SweepTcpRemove, SweepExit, udpobjs
  <2> QED
    BY <2>1, <2>2, SessionSweeper
<1> QED
  BY <1>1, <1>2

LEMMA NextSessions ==
    ASSUME TypeOK, TypeOK', SessionInv, [Next]_vars
    PROVE  SessionInv'
<1>1. CASE (\E src \in Sources : RecvPacket(src)) \/ ListenerStep \/ Connect
           \/ ConnectFails \/ SendTcp \/ SendTcpFails \/ ListenerExit
  BY <1>1, ListenerSessions, CreateSessions, StoreReverseSessions DEF ListenerStep
<1>2. CASE SweepStep \/ SweepExit
  BY <1>2, SweepSessions, SweepRemoveSessions, SweepAddrSessions DEF SweepStep
<1>3. CASE \/ \E u \in Senders, q \in RespSeqs : \E sid \in KnownIds : RecvResponse(u, sid, q)
           \/ \E j \in ConnObjs : ReadLength(j) \/ DecodeFails(j) \/ ReaderEof(j) \/ CleanupTcp(j)
           \/ \E j \in ConnObjs, q \in RespSeqs : \E sid \in KnownIds : ReadData(j, sid, q)
  <2>1. UNCHANGED <<udpmaps, created, id, source, listener, sweep>>
    BY <1>3 DEF RecvResponse, ReadLength, DecodeFails, ReaderEof, CleanupTcp, ReadData, udpobjs
  <2> QED
    BY <2>1, SessionFrame
<1>4. CASE \E r \in Receivers : ReceiverStep(r) \/ ReceiverExit(r)
  <2>1. UNCHANGED <<udpmaps, created, id, source, listener, sweep>>
    BY <1>4 DEF ReceiverStep, ReceiverExit, LookupSession, Dedup, TouchResponse, Forward,
               ForwardFails, udpobjs
  <2> QED
    BY <2>1, SessionFrame
<1>5. CASE Tick \/ Stop \/ Terminated \/ UNCHANGED vars
  <2>1. UNCHANGED <<udpmaps, created, id, source, listener, sweep>>
    BY <1>5 DEF Tick, Stop, Terminated, vars, udpobjs
  <2> QED
    BY <2>1, SessionFrame
<1> QED
  BY <1>1, <1>2, <1>3, <1>4, <1>5 DEF Next

LEMMA InitSessions == ASSUME Init PROVE SessionInv
<1>1. IdsCounted /\ SessionOwner /\ OneWriter
  BY DEF Init, IdsCounted, SessionOwner, OneWriter, Listening, Waiting, Sending
<1>2. MapsInLine
  BY NamesAssumption DEF Init, MapsInLine, LeadsTo, Listening, Waiting
<1> QED
  BY <1>1, <1>2 DEF SessionInv

\* The two maps and the ids, in every reachable state.
LEMMA SessionsInvariant == Spec => [](TypeOK /\ SessionInv)
<1>1. Init => TypeOK /\ SessionInv
  BY InitTyped, InitSessions
<1>2. (TypeOK /\ SessionInv) /\ [Next]_vars => (TypeOK /\ SessionInv)'
  BY NextTyped, NextSessions
<1> QED
  BY <1>1, <1>2, PTL DEF Spec

\* IdsDistinct: generate_session_id never hands out 0 or an id a second time,
\* from whatever value the counter starts and across its wrap.
THEOREM ClientIdsDistinct == Spec => []IdsDistinct
<1>1. TypeOK /\ SessionInv => IdsDistinct
  <2> SUFFICES ASSUME TypeOK, SessionInv PROVE IdsDistinct
    OBVIOUS
  <2>1. \A o \in 1..created : id[o] # 0
    BY DEF TypeOK, UdpOK
  <2>2. \A o1, o2 \in 1..created : id[o1] = id[o2] => o1 = o2
    BY IdsApart DEF SessionInv
  <2> QED
    BY <2>1, <2>2 DEF IdsDistinct
<1> QED
  BY <1>1, SessionsInvariant, PTL

\* ReverseMapAgrees: get_or_create_udp_session and the sweeper keep the two
\* session maps in line, however their steps interleave.
THEOREM ClientMapsAgree == Spec => []ReverseMapAgrees
<1>1. TypeOK /\ SessionInv => ReverseMapAgrees
  BY DEF SessionInv, MapsInLine, LeadsTo, ReverseMapAgrees, UdpWriteLocked
<1> QED
  BY <1>1, SessionsInvariant, PTL

-----------------------------------------------------------------------------
(* Connections, and where session ids are kept *)

\* The listener's server is new, and leads to no connection it writes to.
LEMMA ConnListener ==
    ASSUME ConnOwner, UNCHANGED <<tcp_sessions, key>>, listener'.pc \notin Connecting
    PROVE  ConnOwner'
BY DEF ConnOwner, Connecting

LEMMA NextServerConn ==
    ASSUME TypeOK, NEW todo, NextServer(todo)
    PROVE  listener'.pc \notin Connecting
<1>1. CASE todo = {}
  BY <1>1 DEF NextServer, Listening, Connecting
<1>2. CASE todo # {}
  BY <1>2 DEF NextServer, TypeOK, ListenerOK, Connecting
<1> QED
  BY <1>1, <1>2

LEMMA ListenerConns ==
    ASSUME TypeOK, ConnOwner, OneConnPerKey,
           \/ \E src \in Sources : RecvPacket(src)
           \/ Lookup \/ Create \/ StoreReverse \/ TakeSeq \/ ConnectFails \/ TouchTcp
           \/ SendTcp \/ SendTcpFails \/ ListenerExit \/ (\E ep \in TcpServers : LookupTcp(ep))
    PROVE  ConnOwner' /\ OneConnPerKey'
<1>1. UNCHANGED <<tcp_sessions, key, opened, cancelled>>
  BY DEF RecvPacket, Lookup, Create, StoreReverse, TakeSeq, ConnectFails, TouchTcp, SendTcp,
         SendTcpFails, ListenerExit, LookupTcp, tcps
<1>2. OneConnPerKey'
  BY <1>1 DEF OneConnPerKey
<1>3. CASE (\E src \in Sources : RecvPacket(src)) \/ Lookup \/ Create \/ StoreReverse
           \/ ListenerExit
  <2>1. listener'.pc \notin Connecting
    BY <1>3 DEF RecvPacket, Lookup, Create, StoreReverse, ListenerExit, Go, Listening,
               TypeOK, ListenerOK, Connecting
  <2> QED
    BY <1>1, <1>2, <2>1, ConnListener
<1>4. CASE TakeSeq \/ ConnectFails \/ SendTcp \/ SendTcpFails
  <2>1. listener'.pc \notin Connecting
    BY <1>4, NextServerConn DEF TakeSeq, ConnectFails, SendTcp, SendTcpFails
  <2> QED
    BY <1>1, <1>2, <2>1, ConnListener
<1>5. CASE TouchTcp
  <2>1. /\ listener.pc = "ttouch" /\ listener'.pc = "tsend" /\ listener'.conn = listener.conn
        /\ listener'.src = listener.src /\ listener'.ep = listener.ep
    BY <1>5 DEF TouchTcp, Go, TypeOK, ListenerOK
  <2> QED
    BY <1>1, <1>2, <2>1 DEF ConnOwner
<1>6. ASSUME NEW ep \in TcpServers, LookupTcp(ep) PROVE ConnOwner'
  <2> DEFINE j == tcp_sessions[<<listener.src, ep>>]
  <2>1. /\ listener'.pc = IF j = 0 THEN "connect" ELSE "ttouch"
        /\ listener'.ep = ep /\ listener'.conn = j /\ listener'.src = listener.src
    BY <1>6 DEF LookupTcp, TypeOK, ListenerOK
  <2>2. <<listener.src, ep>> \in Keys
    BY <1>6 DEF LookupTcp, TypeOK, ListenerOK, Keys
  <2> QED
    BY <1>1, <2>1, <2>2 DEF ConnOwner
<1> QED
  BY <1>2, <1>3, <1>4, <1>5, <1>6

LEMMA ConnectConns ==
    ASSUME TypeOK, ConnOwner, OneConnPerKey, Connect
    PROVE  ConnOwner' /\ OneConnPerKey'
<1> DEFINE j == opened + 1
           k == <<listener.src, listener.ep>>
<1>1. /\ j \in ConnObjs /\ j \notin 1..opened /\ 1..j = 1..opened \cup {j} /\ j # 0
      /\ 1..opened \subseteq ConnObjs
  BY Bounds DEF Connect, ConnObjs
<1>2. k \in Keys /\ listener.pc = "connect" /\ tcp_sessions[k] = 0
  BY DEF Connect, TypeOK, ListenerOK, Connecting, Keys, ConnOwner
<1>3. /\ opened' = j
      /\ key' = [key EXCEPT ![j] = k]
      /\ cancelled' = [cancelled EXCEPT ![j] = FALSE]
      /\ tcp_sessions' = [tcp_sessions EXCEPT ![k] = j]
      /\ listener' = [listener EXCEPT !.pc = "ttouch", !.conn = j]
  BY DEF Connect
<1>4. /\ listener'.conn = j /\ listener'.pc = "ttouch"
      /\ <<listener'.src, listener'.ep>> = k
  BY <1>3 DEF TypeOK, ListenerOK
<1> HIDE DEF j, k
<1>5. /\ key'[j] = k /\ \A x \in 1..opened : key'[x] = key[x]
      /\ ~cancelled'[j] /\ \A x \in 1..opened : cancelled'[x] = cancelled[x]
  BY <1>1, <1>3 DEF TypeOK, TcpOK
<1>6. tcp_sessions'[k] = j /\ \A x \in Keys : x # k => tcp_sessions'[x] = tcp_sessions[x]
  BY <1>2, <1>3 DEF TypeOK, TcpOK
<1>7. \A x \in Keys : tcp_sessions[x] # 0 => tcp_sessions[x] \in 1..opened
  BY Bounds DEF TypeOK, TcpOK
<1>8. ConnOwner'
  <2>1. \A x \in Keys : tcp_sessions'[x] # 0 => key'[tcp_sessions'[x]] = x
    BY <1>5, <1>6, <1>7 DEF ConnOwner
  <2> QED
    BY <1>4, <1>5, <2>1 DEF ConnOwner
<1>9. OneConnPerKey'
  <2>1. ASSUME NEW x \in 1..opened PROVE ~cancelled'[x] <=> tcp_sessions'[key'[x]] = x
    <3>1. key[x] \in Keys /\ x # j /\ x # 0
      BY <1>1, ConnTyped
    <3> QED
      BY <1>2, <1>5, <1>6, <3>1 DEF OneConnPerKey
  <2> QED
    BY <1>1, <1>3, <1>5, <1>6, <2>1 DEF OneConnPerKey
<1> QED
  BY <1>8, <1>9

\* Connections leave the map, and are cancelled, together.
LEMMA ConnsDropped ==
    ASSUME TypeOK, ConnOwner, OneConnPerKey, UNCHANGED <<opened, key, listener>>,
           NEW gone \in SUBSET Keys,
           \A k \in Keys : tcp_sessions'[k] = IF k \in gone THEN 0 ELSE tcp_sessions[k],
           \A j \in ConnObjs :
               cancelled'[j] <=> cancelled[j] \/ \E k \in gone : tcp_sessions[k] = j
    PROVE  ConnOwner' /\ OneConnPerKey'
<1>1. ConnOwner'
  <2>1. listener.pc = "connect" => <<listener.src, listener.ep>> \in Keys
    BY DEF TypeOK, ListenerOK, Connecting, Keys
  <2> QED
    BY <2>1 DEF ConnOwner
<1>2. OneConnPerKey'
  <2> SUFFICES ASSUME NEW j \in 1..opened
               PROVE  ~cancelled'[j] <=> tcp_sessions'[key[j]] = j
    BY DEF OneConnPerKey
  <2>1. j \in ConnObjs /\ key[j] \in Keys /\ j # 0
    BY ConnTyped
  <2>2. \A k \in gone : tcp_sessions[k] = j => k = key[j]
    BY <2>1 DEF ConnOwner
  <2> QED
    BY <2>1, <2>2 DEF OneConnPerKey
<1> QED
  BY <1>1, <1>2

LEMMA CleanupConns ==
    ASSUME TypeOK, ConnOwner, OneConnPerKey, NEW j \in ConnObjs, CleanupTcp(j)
    PROVE  ConnOwner' /\ OneConnPerKey'
<1>1. key[j] \in Keys
  BY ReaderKey DEF CleanupTcp
<1>2. \A k \in Keys : tcp_sessions'[k] = IF k \in {key[j]} THEN 0 ELSE tcp_sessions[k]
  BY DEF CleanupTcp, TypeOK, TcpOK
<1>3. \A x \in ConnObjs :
         cancelled'[x] <=> cancelled[x] \/ \E k \in {key[j]} : tcp_sessions[k] = x
  BY DEF CleanupTcp
<1>4. UNCHANGED <<opened, key, listener>> /\ {key[j]} \in SUBSET Keys
  BY <1>1 DEF CleanupTcp
<1> QED
  BY <1>2, <1>3, <1>4, ConnsDropped

LEMMA SweepConns ==
    ASSUME TypeOK, ConnOwner, OneConnPerKey, SweepTcpRemove
    PROVE  ConnOwner' /\ OneConnPerKey'
<1>1. sweep.keys \in SUBSET Keys /\ UNCHANGED <<opened, key, listener>>
  BY DEF SweepTcpRemove, TypeOK, SweepOK
<1>2. \A k \in Keys : tcp_sessions'[k] = IF k \in sweep.keys THEN 0 ELSE tcp_sessions[k]
  BY DEF SweepTcpRemove
<1>3. \A j \in ConnObjs :
         cancelled'[j] <=> cancelled[j] \/ \E k \in sweep.keys : tcp_sessions[k] = j
  BY DEF SweepTcpRemove
<1> QED
  BY <1>1, <1>2, <1>3, ConnsDropped

\* Which actions write what the routing of responses rests on.
LEMMA WhoWrites ==
    ASSUME [Next]_vars
    PROVE  /\ UNCHANGED <<created, id, source>> \/ Create
           /\ UNCHANGED udp_session_addrs \/ StoreReverse \/ SweepAddr
           /\ UNCHANGED <<opened, key, carried>> \/ Connect \/ SendTcp
           /\ \/ UNCHANGED receiver
              \/ Connect
              \/ \E u \in Senders, q \in RespSeqs : \E sid \in KnownIds : RecvResponse(u, sid, q)
              \/ \E j \in ConnObjs : ReadLength(j) \/ DecodeFails(j) \/ ReaderEof(j) \/ CleanupTcp(j)
              \/ \E j \in ConnObjs, q \in RespSeqs : \E sid \in KnownIds : ReadData(j, sid, q)
              \/ \E r \in Receivers : ReceiverStep(r) \/ ReceiverExit(r)
<1> USE DEF udpobjs, udpmaps, tcps
<1>1. CASE ListenerStep
  BY <1>1 DEF ListenerStep, Lookup, StoreReverse, TakeSeq, TouchTcp, LookupTcp, Create
<1>2. CASE SweepStep \/ SweepExit \/ ListenerExit
  BY <1>2 DEF SweepStep, SweepTick, SweepScan, SweepAddr, SweepTcpScan, SweepTcpRemove,
             SweepRemove, SweepExit, ListenerExit
<1>3. CASE \/ \E src \in Sources : RecvPacket(src)
           \/ Connect \/ ConnectFails \/ SendTcp \/ SendTcpFails
  BY <1>3 DEF RecvPacket, Connect, ConnectFails, SendTcp, SendTcpFails
<1>4. CASE \/ \E u \in Senders, q \in RespSeqs : \E sid \in KnownIds : RecvResponse(u, sid, q)
           \/ \E j \in ConnObjs : ReadLength(j) \/ DecodeFails(j) \/ ReaderEof(j) \/ CleanupTcp(j)
           \/ \E j \in ConnObjs, q \in RespSeqs : \E sid \in KnownIds : ReadData(j, sid, q)
  BY <1>4 DEF RecvResponse, ReadLength, DecodeFails, ReaderEof, CleanupTcp, ReadData
<1>5. CASE \E r \in Receivers : ReceiverStep(r) \/ ReceiverExit(r)
  BY <1>5 DEF ReceiverStep, ReceiverExit, LookupSession, Dedup, TouchResponse, Forward,
             ForwardFails
<1>6. CASE Tick \/ Stop \/ Terminated \/ UNCHANGED vars
  BY <1>6 DEF Tick, Stop, Terminated, vars
<1> QED
  BY <1>1, <1>2, <1>3, <1>4, <1>5, <1>6 DEF Next

\* What an id was made for does not change.
LEMMA MadeForStays ==
    ASSUME TypeOK, [Next]_vars, NEW i, NEW s, MadeFor(i, s)
    PROVE  MadeFor(i, s)'
<1>1. PICK o \in 1..created : id[o] = i /\ source[o] = s
  BY DEF MadeFor
<1>2. UNCHANGED <<created, id, source>> \/ Create
  BY WhoWrites
<1>3. CASE UNCHANGED <<created, id, source>>
  BY <1>1, <1>3 DEF MadeFor
<1>4. CASE Create
  <2>1. o \in 1..(created + 1) /\ o # created + 1 /\ o \in Objs
    BY <1>1, Bounds, SessionTyped
  <2>2. created' = created + 1 /\ id'[o] = id[o] /\ source'[o] = source[o]
    BY <1>4, <2>1 DEF Create, TypeOK, UdpOK
  <2> QED
    BY <1>1, <2>1, <2>2 DEF MadeFor
<1> QED
  BY <1>2, <1>3, <1>4

LEMMA AddrsNext ==
    ASSUME TypeOK, SessionInv, AddrsMadeFor, [Next]_vars
    PROVE  AddrsMadeFor'
<1> SUFFICES ASSUME NEW i \in 0..IdMod - 1, NEW s, s = udp_session_addrs'[i], s # None
             PROVE  MadeFor(i, s)'
  BY DEF AddrsMadeFor
<1>1. CASE UNCHANGED udp_session_addrs
  BY <1>1, MadeForStays DEF AddrsMadeFor
<1>2. CASE StoreReverse
  <2>1. /\ listener.obj \in 1..created /\ source[listener.obj] = listener.src
        /\ UNCHANGED <<created, id, source>>
    BY <1>2, Bounds DEF StoreReverse, TypeOK, ListenerOK, Sending, SessionInv, SessionOwner,
                       udpobjs
  <2>2. udp_session_addrs'[i] =
          IF i = id[listener.obj] THEN listener.src ELSE udp_session_addrs[i]
    BY <1>2 DEF StoreReverse, TypeOK, UdpOK
  <2>3. CASE i = id[listener.obj]
    BY <2>1, <2>2, <2>3 DEF MadeFor
  <2>4. CASE i # id[listener.obj]
    BY <2>2, <2>4, MadeForStays DEF AddrsMadeFor
  <2> QED
    BY <2>3, <2>4
<1>3. CASE SweepAddr
  <2>1. udp_session_addrs'[i] = udp_session_addrs[i]
    BY <1>3 DEF SweepAddr, TypeOK, UdpOK
  <2> QED
    BY <2>1, MadeForStays DEF AddrsMadeFor
<1> QED
  BY <1>1, <1>2, <1>3, WhoWrites

LEMMA CarriedNext ==
    ASSUME TypeOK, SessionInv, ConnOwner, CarriedMadeFor, [Next]_vars
    PROVE  CarriedMadeFor'
<1> SUFFICES ASSUME NEW j \in 1..opened', NEW i \in carried'[j], NEW s, s = key'[j][1]
             PROVE  MadeFor(i, s)'
  BY DEF CarriedMadeFor
<1>1. CASE UNCHANGED <<opened, key, carried>>
  BY <1>1, MadeForStays DEF CarriedMadeFor
<1>2. CASE Connect
  <2>1. j # opened + 1
    <3>1. opened + 1 \in ConnObjs
      BY <1>2, Bounds DEF Connect, ConnObjs
    <3>2. carried'[opened + 1] = {}
      BY <1>2, <3>1 DEF Connect, TypeOK, TcpOK
    <3> QED
      BY <3>2
  <2>2. j \in 1..opened
    BY <1>2, <2>1, Bounds DEF Connect
  <2>3. carried'[j] = carried[j] /\ key'[j] = key[j]
    BY <1>2, <2>1, <2>2, ConnTyped DEF Connect, TypeOK, TcpOK
  <2> QED
    BY <2>2, <2>3, MadeForStays DEF CarriedMadeFor
<1>3. CASE SendTcp
  <2>1. /\ listener.obj \in 1..created /\ source[listener.obj] = listener.src
        /\ key[listener.conn] = <<listener.src, listener.ep>>
        /\ UNCHANGED <<opened, key, created, id, source>>
    BY <1>3, Bounds DEF SendTcp, TypeOK, ListenerOK, Sending, SessionInv, SessionOwner,
                       ConnOwner, udpobjs
  <2>2. i \in carried[j] \/ (j = listener.conn /\ i = id[listener.obj])
    BY <1>3, <2>1, ConnTyped DEF SendTcp, TypeOK, TcpOK
  <2>3. CASE i \in carried[j]
    BY <2>1, <2>3, MadeForStays DEF CarriedMadeFor
  <2>4. CASE j = listener.conn /\ i = id[listener.obj]
    BY <2>1, <2>4 DEF MadeFor
  <2> QED
    BY <2>2, <2>3, <2>4
<1> QED
  BY <1>1, <1>2, <1>3, WhoWrites

\* A receiver's response is the one it had, or one it has just read.
LEMMA ReceivedNext ==
    ASSUME TypeOK, TypeOK', AddrsMadeFor, CarriedMadeFor, ReceivedMadeFor, [Next]_vars
    PROVE  ReceivedMadeFor'
<1> DEFINE Holds(rec) == rec.pc \in {"session"} \cup Judged
<1> SUFFICES ASSUME NEW r \in Receivers, NEW i, NEW s,
                    Holds(receiver'[r]), receiver'[r].sid = i, receiver'[r].src = s
             PROVE  MadeFor(i, s)'
  BY DEF ReceivedMadeFor
<1>0. ASSUME NEW x \in Receivers, NEW rec, Move(x, rec)
      PROVE  receiver'[r] = IF r = x THEN rec ELSE receiver[r]
  BY <1>0 DEF Move, TypeOK, ReceiversOK
<1>1. CASE /\ Holds(receiver[r])
           /\ receiver'[r].sid = receiver[r].sid /\ receiver'[r].src = receiver[r].src
  BY <1>1, MadeForStays DEF ReceivedMadeFor
<1>2. ASSUME NEW u \in Senders, NEW q \in RespSeqs, NEW sid \in KnownIds,
             RecvResponse(u, sid, q)
      PROVE  MadeFor(i, s)'
  <2> DEFINE src == udp_session_addrs[sid]
  <2>1. u \in Receivers /\ sid \in 0..IdMod - 1
    BY KnownIdsTyped DEF Receivers
  <2>2. CASE src = None
    <3>1. Move(u, Receiving) /\ ~Holds(Receiving)
      BY <1>2, <2>2 DEF RecvResponse, Receiving, Judged
    <3> QED
      BY <1>0, <1>1, <2>1, <3>1
  <2>3. CASE src # None
    <3> DEFINE rec == [Receiving EXCEPT !.pc = "session", !.sid = sid, !.seq = q, !.src = src]
    <3>1. Move(u, rec) /\ rec.sid = sid /\ rec.src = src
      BY <1>2, <2>3 DEF RecvResponse, Receiving
    <3>2. MadeFor(sid, src)
      BY <2>1, <2>3 DEF AddrsMadeFor
    <3> HIDE DEF rec
    <3>3. CASE r = u
      <4>1. i = sid /\ s = src
        BY <1>0, <2>1, <3>1, <3>3
      <4> QED
        BY <3>2, <4>1, MadeForStays
    <3>4. CASE r # u
      BY <1>0, <1>1, <2>1, <3>1, <3>4
    <3> QED
      BY <3>3, <3>4
  <2> QED
    BY <2>2, <2>3
<1>3. ASSUME NEW j \in ConnObjs, NEW q \in RespSeqs, NEW sid, ReadData(j, sid, q)
      PROVE  MadeFor(i, s)'
  <2> DEFINE rec == [Receiving EXCEPT !.pc = "session", !.sid = sid, !.seq = q,
                                      !.src = key[j][1]]
  <2>1. j \in Receivers /\ j \in 1..opened /\ sid \in carried[j]
    BY <1>3, ReaderKey DEF ReadData, Receivers
  <2>2. Move(j, rec) /\ rec.sid = sid /\ rec.src = key[j][1]
    BY <1>3 DEF ReadData, Receiving
  <2>3. MadeFor(sid, key[j][1])
    BY <2>1 DEF CarriedMadeFor
  <2> HIDE DEF rec
  <2>4. CASE r = j
    <3>1. i = sid /\ s = key[j][1]
      BY <1>0, <2>1, <2>2, <2>4
    <3> QED
      BY <2>3, <3>1, MadeForStays
  <2>5. CASE r # j
    BY <1>0, <1>1, <2>1, <2>2, <2>5
  <2> QED
    BY <2>4, <2>5
<1>4. ASSUME NEW x \in Receivers, NEW rec, Move(x, rec), ~Holds(rec)
      PROVE  MadeFor(i, s)'
  BY <1>0, <1>1, <1>4
<1>5. ASSUME NEW x \in Receivers, NEW rec, Move(x, rec), Holds(receiver[x]),
             rec.sid = receiver[x].sid, rec.src = receiver[x].src
      PROVE  MadeFor(i, s)'
  BY <1>0, <1>1, <1>5
<1>6. ~Holds(Receiving) /\ ~Holds(Returned)
  BY DEF Receiving, Returned, Judged
<1>7. ASSUME NEW j \in ConnObjs, ReadLength(j) \/ DecodeFails(j) \/ ReaderEof(j) \/ CleanupTcp(j)
      PROVE  MadeFor(i, s)'
  <2>1. /\ ~Holds([Receiving EXCEPT !.pc = "body"])
        /\ ~Holds([Receiving EXCEPT !.pc = "cleanup"])
        /\ j \in Receivers
    BY DEF Receiving, Judged, Receivers
  <2> HIDE DEF Holds
  <2> QED
    BY <1>4, <1>6, <1>7, <2>1 DEF ReadLength, DecodeFails, ReaderEof, CleanupTcp
<1>8. ASSUME NEW x \in Receivers, ReceiverStep(x) \/ ReceiverExit(x)
      PROVE  MadeFor(i, s)'
  <2>0. ReceiverOK(x, receiver[x])
    BY DEF TypeOK, ReceiversOK
  <2>1. CASE Forward(x) \/ ForwardFails(x) \/ ReceiverExit(x)
    BY <1>4, <1>6, <2>1 DEF Forward, ForwardFails, ReceiverExit
  <2>2. CASE LookupSession(x)
    <3> DEFINE o == udp_sessions[receiver[x].src]
               rec == [receiver[x] EXCEPT !.pc = "dedup", !.obj = o]
    <3>1. Holds(receiver[x]) /\ rec.sid = receiver[x].sid /\ rec.src = receiver[x].src
      BY <2>0, <2>2 DEF LookupSession, ReceiverOK
    <3>2. Move(x, Receiving) \/ Move(x, rec)
      BY <2>2 DEF LookupSession
    <3> HIDE DEF rec, Holds
    <3> QED
      BY <1>4, <1>5, <1>6, <3>1, <3>2
  <2>3. CASE Dedup(x)
    <3> DEFINE rec == [receiver[x] EXCEPT !.pc = "touch"]
    <3>1. Holds(receiver[x]) /\ rec.sid = receiver[x].sid /\ rec.src = receiver[x].src
      BY <2>0, <2>3 DEF Dedup, ReceiverOK, Judged
    <3>2. Move(x, Receiving) \/ Move(x, rec)
      BY <2>3 DEF Dedup
    <3> HIDE DEF rec, Holds
    <3> QED
      BY <1>4, <1>5, <1>6, <3>1, <3>2
  <2>4. CASE TouchResponse(x)
    <3> DEFINE rec == [receiver[x] EXCEPT !.pc = "forward"]
    <3>1. Holds(receiver[x]) /\ rec.sid = receiver[x].sid /\ rec.src = receiver[x].src
      BY <2>0, <2>4 DEF TouchResponse, ReceiverOK, Judged
    <3>2. Move(x, rec)
      BY <2>4 DEF TouchResponse
    <3> HIDE DEF rec, Holds
    <3> QED
      BY <1>5, <3>1, <3>2
  <2> QED
    BY <1>8, <2>1, <2>2, <2>3, <2>4 DEF ReceiverStep
<1>9. CASE Connect
  <2>1. Move(opened + 1, Receiving) /\ opened + 1 \in Receivers
    BY <1>9, Bounds DEF Connect, Move, Receivers, ConnObjs
  <2> QED
    BY <1>4, <1>6, <2>1
<1> QED
  BY <1>1, <1>2, <1>3, <1>7, <1>8, <1>9, WhoWrites

\* What a receiver past the lookup holds.
LEMMA JudgedTyped ==
    ASSUME TypeOK, NEW r \in Receivers, receiver[r].pc \in Judged
    PROVE  /\ receiver[r].obj \in 1..created /\ receiver[r].obj \in Objs
           /\ receiver[r].seq \in RespSeqs /\ receiver[r].seq \in Nat
<1>1. ReceiverOK(r, receiver[r])
  BY DEF TypeOK, ReceiversOK
<1>2. receiver[r].obj # 0 /\ receiver[r].obj \in 0..created /\ receiver[r].seq \in RespSeqs
  BY <1>1 DEF ReceiverOK
<1>3. receiver[r].obj \in 1..created
  BY <1>2, Bounds
<1>4. receiver[r].obj \in Objs
  BY <1>3, SessionTyped
<1> QED
  BY <1>2, <1>3, <1>4, RespSeqsAssumption

\* The window a response is judged by stays the one of its source.
LEMMA JudgedNext ==
    ASSUME TypeOK, SessionInv, JudgedBySource, [Next]_vars
    PROVE  JudgedBySource'
<1> DEFINE Holds(rec) == rec.pc \in Judged
<1> SUFFICES ASSUME NEW r \in Receivers, NEW o, NEW s,
                    Holds(receiver'[r]), receiver'[r].obj = o, receiver'[r].src = s
             PROVE  source'[o] = s
  BY DEF JudgedBySource
<1>0. ASSUME NEW x \in Receivers, NEW rec, Move(x, rec)
      PROVE  receiver'[r] = IF r = x THEN rec ELSE receiver[r]
  BY <1>0 DEF Move, TypeOK, ReceiversOK
<1>1. ASSUME NEW p \in 1..created PROVE source'[p] = source[p]
  <2>1. p \in Objs /\ p # created + 1
    BY Bounds, SessionTyped
  <2> QED
    BY <2>1, WhoWrites DEF Create, TypeOK, UdpOK
<1>2. CASE /\ Holds(receiver[r])
           /\ receiver'[r].obj = receiver[r].obj /\ receiver'[r].src = receiver[r].src
  BY <1>1, <1>2, JudgedTyped DEF JudgedBySource
<1>3. ASSUME NEW x \in Receivers, NEW rec, Move(x, rec), ~Holds(rec)
      PROVE  source'[o] = s
  BY <1>0, <1>2, <1>3
<1>4. ASSUME NEW x \in Receivers, NEW rec, Move(x, rec), Holds(receiver[x]),
             rec.obj = receiver[x].obj, rec.src = receiver[x].src
      PROVE  source'[o] = s
  BY <1>0, <1>2, <1>4
<1>5. ~Holds(Receiving) /\ ~Holds(Returned)
  BY DEF Receiving, Returned, Judged
<1>6. ASSUME NEW u \in Receivers, NEW q, NEW sid, RecvResponse(u, sid, q) \/ ReadData(u, sid, q)
      PROVE  source'[o] = s
  <2>1. PICK src : Move(u, Receiving) \/ Move(u, [Receiving EXCEPT !.pc = "session", !.sid = sid,
                                                      !.seq = q, !.src = src])
    BY <1>6 DEF RecvResponse, ReadData
  <2>2. PICK rec : rec = [Receiving EXCEPT !.pc = "session", !.sid = sid, !.seq = q, !.src = src]
    OBVIOUS
  <2>3. ~Holds(rec)
    BY <2>2 DEF Receiving, Judged
  <2> HIDE DEF Holds
  <2> QED
    BY <1>3, <1>5, <2>1, <2>2, <2>3
<1>7. ASSUME NEW j \in ConnObjs, ReadLength(j) \/ DecodeFails(j) \/ ReaderEof(j) \/ CleanupTcp(j)
      PROVE  source'[o] = s
  <2>1. /\ ~Holds([Receiving EXCEPT !.pc = "body"])
        /\ ~Holds([Receiving EXCEPT !.pc = "cleanup"])
        /\ j \in Receivers
    BY DEF Receiving, Judged, Receivers
  <2> HIDE DEF Holds
  <2> QED
    BY <1>3, <1>5, <1>7, <2>1 DEF ReadLength, DecodeFails, ReaderEof, CleanupTcp
<1>8. ASSUME NEW x \in Receivers, ReceiverStep(x) \/ ReceiverExit(x)
      PROVE  source'[o] = s
  <2>0. ReceiverOK(x, receiver[x])
    BY DEF TypeOK, ReceiversOK
  <2>1. CASE Forward(x) \/ ForwardFails(x) \/ ReceiverExit(x)
    BY <1>3, <1>5, <2>1 DEF Forward, ForwardFails, ReceiverExit
  <2>2. CASE LookupSession(x)
    <3>1. PICK p : p = udp_sessions[receiver[x].src]
      OBVIOUS
    <3>2. PICK rec : rec = [receiver[x] EXCEPT !.pc = "dedup", !.obj = p]
      OBVIOUS
    <3>3. receiver[x].src \in Sources /\ rec.obj = p /\ rec.src = receiver[x].src
      BY <2>0, <2>2, <3>2 DEF LookupSession, ReceiverOK
    <3>4. CASE p = 0
      <4>1. Move(x, Receiving)
        BY <2>2, <3>1, <3>4 DEF LookupSession
      <4> QED
        BY <1>3, <1>5, <4>1
    <3>5. CASE p # 0
      <4>1. Move(x, rec)
        BY <2>2, <3>1, <3>2, <3>5 DEF LookupSession
      <4>2. p \in 1..created /\ source[p] = rec.src
        BY <3>1, <3>3, <3>5, MapTyped DEF SessionInv, SessionOwner
      <4>3. CASE r = x
        BY <1>0, <1>1, <3>3, <4>1, <4>2, <4>3
      <4>4. CASE r # x
        BY <1>0, <1>2, <4>1, <4>4
      <4> QED
        BY <4>3, <4>4
    <3> QED
      BY <3>4, <3>5
  <2>3. CASE Dedup(x)
    <3>1. PICK rec : rec = [receiver[x] EXCEPT !.pc = "touch"]
      OBVIOUS
    <3>2. Holds(receiver[x]) /\ rec.obj = receiver[x].obj /\ rec.src = receiver[x].src
      BY <2>0, <2>3, <3>1 DEF Dedup, ReceiverOK, Judged
    <3>3. Move(x, Receiving) \/ Move(x, rec)
      BY <2>3, <3>1 DEF Dedup
    <3> HIDE DEF Holds
    <3> QED
      BY <1>3, <1>4, <1>5, <3>2, <3>3
  <2>4. CASE TouchResponse(x)
    <3>1. PICK rec : rec = [receiver[x] EXCEPT !.pc = "forward"]
      OBVIOUS
    <3>2. Holds(receiver[x]) /\ rec.obj = receiver[x].obj /\ rec.src = receiver[x].src
      BY <2>0, <2>4, <3>1 DEF TouchResponse, ReceiverOK, Judged
    <3>3. Move(x, rec)
      BY <2>4, <3>1 DEF TouchResponse
    <3> HIDE DEF Holds
    <3> QED
      BY <1>4, <3>2, <3>3
  <2> QED
    BY <1>8, <2>1, <2>2, <2>3, <2>4 DEF ReceiverStep
<1>9. CASE Connect
  <2>1. Move(opened + 1, Receiving) /\ opened + 1 \in Receivers
    BY <1>9, Bounds DEF Connect, Move, Receivers, ConnObjs
  <2> QED
    BY <1>3, <1>5, <2>1
<1>10. Senders \subseteq Receivers /\ ConnObjs \subseteq Receivers
  BY DEF Receivers
<1> QED
  BY <1>2, <1>6, <1>7, <1>8, <1>9, <1>10, WhoWrites

LEMMA NextRouting ==
    ASSUME TypeOK, TypeOK', SessionInv, RoutingInv, [Next]_vars
    PROVE  RoutingInv'
<1>1. ConnOwner' /\ OneConnPerKey'
  <2> USE DEF RoutingInv
  <2>1. CASE (\E src \in Sources : RecvPacket(src)) \/ ListenerStep \/ ConnectFails
             \/ SendTcp \/ SendTcpFails \/ ListenerExit
    BY <2>1, ListenerConns DEF ListenerStep
  <2>2. CASE Connect
    BY <2>2, ConnectConns
  <2>3. CASE (\E j \in ConnObjs : CleanupTcp(j)) \/ SweepTcpRemove
    BY <2>3, CleanupConns, SweepConns
  <2>4. CASE UNCHANGED <<tcp_sessions, opened, key, cancelled, listener>>
    BY <2>4 DEF ConnOwner, OneConnPerKey
  <2>5. CASE \/ \E u \in Senders, q \in RespSeqs : \E sid \in KnownIds : RecvResponse(u, sid, q)
             \/ \E j \in ConnObjs : ReadLength(j) \/ DecodeFails(j) \/ ReaderEof(j)
             \/ \E j \in ConnObjs, q \in RespSeqs : \E sid \in KnownIds : ReadData(j, sid, q)
    BY <2>4, <2>5 DEF RecvResponse, ReadLength, DecodeFails, ReaderEof, ReadData, tcps
  <2>6. CASE \E r \in Receivers : ReceiverStep(r) \/ ReceiverExit(r)
    BY <2>4, <2>6 DEF ReceiverStep, ReceiverExit, LookupSession, Dedup, TouchResponse, Forward,
                     ForwardFails, tcps
  <2>7. CASE SweepTick \/ SweepScan \/ SweepAddr \/ SweepTcpScan \/ SweepExit
             \/ (\E o \in Objs : SweepRemove(o)) \/ Tick \/ Stop \/ Terminated \/ UNCHANGED vars
    BY <2>4, <2>7 DEF SweepTick, SweepScan, SweepAddr, SweepTcpScan, SweepExit, SweepRemove,
                     Tick, Stop, Terminated, vars, tcps
  <2> QED
    BY <2>1, <2>2, <2>3, <2>5, <2>6, <2>7 DEF Next, SweepStep
<1>2. AddrsMadeFor' /\ CarriedMadeFor' /\ ReceivedMadeFor' /\ JudgedBySource'
  BY AddrsNext, CarriedNext, ReceivedNext, JudgedNext DEF RoutingInv
<1> QED
  BY <1>1, <1>2 DEF RoutingInv

LEMMA InitRouting == ASSUME Init PROVE RoutingInv
<1>1. ConnOwner /\ OneConnPerKey
  BY BoundsAssumption DEF Init, ConnOwner, OneConnPerKey, Listening
<1>2. AddrsMadeFor /\ CarriedMadeFor /\ ReceivedMadeFor /\ JudgedBySource
  BY BoundsAssumption
     DEF Init, AddrsMadeFor, CarriedMadeFor, ReceivedMadeFor, JudgedBySource, Receiving, Unborn,
         Judged
<1> QED
  BY <1>1, <1>2 DEF RoutingInv

LEMMA RoutingInvariant == Spec => [](TypeOK /\ SessionInv /\ RoutingInv)
<1>1. Init => RoutingInv
  BY InitRouting
<1>2. TypeOK /\ TypeOK' /\ SessionInv /\ RoutingInv /\ [Next]_vars => RoutingInv'
  BY NextRouting
<1> QED
  BY <1>1, <1>2, SessionsInvariant, PTL DEF Spec

\* OneConnPerKey: whichever of the sweeper and a reader that has ended drops a
\* connection from the map, and whosever it is, it is also told to close.
THEOREM ClientOneConnPerKey == Spec => []OneConnPerKey
BY RoutingInvariant, PTL DEF RoutingInv

\* ResponseToOwner: neither the reverse map nor a connection that outlives the
\* session it was opened for leads a response to another source.
THEOREM ClientResponseToOwner == Spec => []ResponseToOwner
<1>1. TypeOK /\ SessionInv /\ RoutingInv => ResponseToOwner
  <2> SUFFICES ASSUME TypeOK, SessionInv, RoutingInv,
                      NEW r \in Receivers, receiver[r].pc \in Judged,
                      NEW o \in 1..created, id[o] = receiver[r].sid
               PROVE  source[o] = receiver[r].src
    BY DEF ResponseToOwner, Judged, RoutingInv, JudgedBySource
  <2>1. PICK x \in 1..created : id[x] = receiver[r].sid /\ source[x] = receiver[r].src
    BY DEF RoutingInv, ReceivedMadeFor, MadeFor
  <2>2. x = o
    BY <2>1, IdsApart DEF SessionInv
  <2> QED
    BY <2>1, <2>2
<1> QED
  BY <1>1, RoutingInvariant, PTL

-----------------------------------------------------------------------------
(* Responses on their way to the source *)

\* No response passes a window, and none is forwarded.
LEMMA ResponseFrame ==
    ASSUME ResponseInv, UNCHANGED <<response_dedup, delivered, created>>,
           \A r \in Receivers : receiver'[r].pc \in {"touch", "forward"} =>
               /\ Passed(r)
               /\ receiver'[r].obj = receiver[r].obj /\ receiver'[r].seq = receiver[r].seq
    PROVE  ResponseInv'
<1>1. WindowsOK'
  BY DEF ResponseInv, WindowsOK
<1>2. PassedOnce'
  BY DEF ResponseInv, PassedOnce, Passed
<1>3. DeliveredOnce'
  BY DEF ResponseInv, DeliveredOnce
<1> QED
  BY <1>1, <1>2, <1>3 DEF ResponseInv

LEMMA PassedTyped ==
    ASSUME TypeOK, NEW r \in Receivers, Passed(r)
    PROVE  /\ receiver[r].obj \in 1..created /\ receiver[r].obj \in Objs
           /\ receiver[r].seq \in RespSeqs /\ receiver[r].seq \in Nat
BY JudgedTyped DEF Passed, Judged

LEMMA CreateResponses == ASSUME TypeOK, ResponseInv, Create PROVE ResponseInv'
<1> DEFINE o == created + 1
<1>1. /\ created' = o /\ response_dedup' = [response_dedup EXCEPT ![o] = New]
      /\ UNCHANGED <<receiver, delivered>>
  BY DEF Create
<1>2. \A x \in Objs : response_dedup'[x] = IF x = o THEN New ELSE response_dedup[x]
  BY <1>1 DEF TypeOK, UdpOK
<1>3. \A x \in Objs, q \in RespSeqs : delivered[x][q] # 0 => x # o /\ x <= o
  BY Bounds DEF ResponseInv, DeliveredOnce, Objs
<1>4. \A r \in Receivers : Passed(r) => receiver[r].obj \in Objs /\ receiver[r].obj # o
  BY PassedTyped, Bounds
<1> HIDE DEF o
<1>5. WindowsOK'
  <2>1. WellFormed(New)
    BY DEF WellFormed, New, Window
  <2> QED
    BY <1>2, <2>1 DEF ResponseInv, WindowsOK
<1>6. PassedOnce'
  BY <1>1, <1>2, <1>4 DEF ResponseInv, PassedOnce, Passed
<1>7. DeliveredOnce'
  BY <1>1, <1>2, <1>3 DEF ResponseInv, DeliveredOnce
<1> QED
  BY <1>5, <1>6, <1>7 DEF ResponseInv

LEMMA DedupResponses ==
    ASSUME TypeOK, ResponseInv, NEW r \in Receivers, Dedup(r)
    PROVE  ResponseInv'
<1> DEFINE o == receiver[r].obj
           q == receiver[r].seq
           w == response_dedup[o]
           new == Mark(w, q, RespDedupSize)
<1>1. o \in Objs /\ q \in RespSeqs /\ q \in Nat
  BY JudgedTyped DEF Dedup, Judged
<1>2. \A x \in Objs : response_dedup'[x] = IF x = o THEN new ELSE response_dedup[x]
  BY DEF Dedup, TypeOK, UdpOK
<1>3. UNCHANGED <<delivered, created>>
  BY DEF Dedup
<1>4. \A x \in Receivers : x # r => receiver'[x] = receiver[x]
  BY DEF Dedup, Move, TypeOK, ReceiversOK
<1>5. IF IsDuplicate(w, q) THEN receiver'[r].pc = "recv"
      ELSE receiver'[r].pc = "touch" /\ receiver'[r].obj = o /\ receiver'[r].seq = q
  <2>1. ReceiverOK(r, receiver[r])
    BY DEF TypeOK, ReceiversOK
  <2> QED
    BY <2>1 DEF Dedup, Move, Receiving, TypeOK, ReceiversOK, ReceiverOK
<1>6. WellFormed(w)
  BY <1>1 DEF ResponseInv, WindowsOK
<1>7. WellFormed(new) /\ IsDuplicate(new, q)
  BY <1>1, <1>6, MarkWellFormed, MarkRecords, SizeAssumption
<1>8. \A x \in Objs, y \in Nat :
         IsDuplicate(response_dedup[x], y) => IsDuplicate(response_dedup'[x], y)
  <2>1. \A y \in Nat : IsDuplicate(w, y) => IsDuplicate(new, y)
    BY <1>1, <1>6, DuplicateStable, SizeAssumption
  <2> HIDE DEF new
  <2> QED
    BY <1>2, <2>1
<1>9. \A x \in Receivers : Passed(x) =>
         receiver[x].obj \in Objs /\ receiver[x].seq \in Nat /\ receiver[x].seq \in RespSeqs
  BY PassedTyped
<1> HIDE DEF o, q, w, new
<1>10. WindowsOK'
  BY <1>2, <1>7 DEF ResponseInv, WindowsOK
<1>11. DeliveredOnce'
  BY <1>3, <1>8, RespSeqsAssumption DEF ResponseInv, DeliveredOnce
<1>12. PassedOnce'
  <2>1. CASE IsDuplicate(w, q)
    <3>1. \A x \in Receivers : receiver'[x].pc \in {"touch", "forward"} =>
             x # r /\ receiver'[x] = receiver[x] /\ Passed(x)
      BY <1>4, <1>5, <2>1 DEF Passed
    <3> QED
      BY <1>3, <1>8, <1>9, <3>1 DEF ResponseInv, PassedOnce, Passed
  <2>2. CASE ~IsDuplicate(w, q)
    <3>1. delivered[o][q] = 0
      BY <1>1, <2>2 DEF ResponseInv, DeliveredOnce, w
    <3>2. \A x \in Receivers : Passed(x) => ~(receiver[x].obj = o /\ receiver[x].seq = q)
      BY <2>2 DEF ResponseInv, PassedOnce, w
    <3>3. \A x \in Receivers : x # r /\ receiver'[x].pc \in {"touch", "forward"} =>
             receiver'[x] = receiver[x] /\ Passed(x)
      BY <1>4 DEF Passed
    <3>4. response_dedup'[o] = new
      BY <1>1, <1>2
    <3>5. \A x \in Receivers : receiver'[x].pc \in {"touch", "forward"} =>
             /\ IsDuplicate(response_dedup'[receiver'[x].obj], receiver'[x].seq)
             /\ delivered'[receiver'[x].obj][receiver'[x].seq] = 0
      <4> SUFFICES ASSUME NEW x \in Receivers, receiver'[x].pc \in {"touch", "forward"}
                   PROVE  /\ IsDuplicate(response_dedup'[receiver'[x].obj], receiver'[x].seq)
                          /\ delivered'[receiver'[x].obj][receiver'[x].seq] = 0
        OBVIOUS
      <4>1. CASE x = r
        BY <1>3, <1>5, <1>7, <2>2, <3>1, <3>4, <4>1
      <4>2. CASE x # r
        BY <1>3, <1>8, <1>9, <3>3, <4>2 DEF ResponseInv, PassedOnce
      <4> QED
        BY <4>1, <4>2
    <3>6. \A x, y \in Receivers :
             /\ receiver'[x].pc \in {"touch", "forward"} /\ receiver'[y].pc \in {"touch", "forward"}
             /\ receiver'[x].obj = receiver'[y].obj /\ receiver'[x].seq = receiver'[y].seq
             => x = y
      BY <1>5, <2>2, <3>2, <3>3 DEF ResponseInv, PassedOnce
    <3> QED
      BY <3>5, <3>6 DEF PassedOnce, Passed
  <2> QED
    BY <2>1, <2>2
<1> QED
  BY <1>10, <1>11, <1>12 DEF ResponseInv

LEMMA ForwardResponses ==
    ASSUME TypeOK, ResponseInv, NEW r \in Receivers, Forward(r)
    PROVE  ResponseInv'
<1> DEFINE o == receiver[r].obj
           q == receiver[r].seq
<1>1. Passed(r) /\ o \in Objs /\ o <= created /\ q \in RespSeqs
  BY PassedTyped, Bounds DEF Forward, Passed
<1>2. \A x \in Objs, y \in RespSeqs :
         delivered'[x][y] = IF x = o /\ y = q THEN delivered[x][y] + 1 ELSE delivered[x][y]
  <2>1. delivered' = [delivered EXCEPT ![o] = [delivered[o] EXCEPT ![q] = delivered[o][q] + 1]]
    BY DEF Forward
  <2>2. \A x \in Objs : delivered[x] \in [RespSeqs -> Nat]
    BY DEF TypeOK
  <2> HIDE DEF o, q
  <2> QED
    BY <1>1, <2>1, <2>2 DEF TypeOK
<1>3. UNCHANGED <<response_dedup, created>>
  BY DEF Forward, udpobjs
<1>4. \A x \in Receivers : receiver'[x].pc \in {"touch", "forward"} =>
         x # r /\ receiver'[x] = receiver[x] /\ Passed(x)
  BY DEF Forward, Move, Receiving, TypeOK, ReceiversOK, Passed
<1>5. delivered[o][q] = 0 /\ IsDuplicate(response_dedup[o], q)
  BY <1>1 DEF ResponseInv, PassedOnce
<1>6. \A x \in Receivers : Passed(x) => receiver[x].obj \in Objs /\ receiver[x].seq \in RespSeqs
  BY PassedTyped
<1>7. \A x \in Receivers : x # r /\ Passed(x) => ~(receiver[x].obj = o /\ receiver[x].seq = q)
  BY <1>1 DEF ResponseInv, PassedOnce
<1> HIDE DEF o, q
<1>8. WindowsOK'
  BY <1>3 DEF ResponseInv, WindowsOK
<1>9. DeliveredOnce'
  BY <1>1, <1>2, <1>3, <1>5 DEF ResponseInv, DeliveredOnce
<1>10. PassedOnce'
  BY <1>2, <1>3, <1>4, <1>6, <1>7 DEF ResponseInv, PassedOnce, Passed
<1> QED
  BY <1>8, <1>9, <1>10 DEF ResponseInv

\* The steps of receivers that start or end the work on a response.
LEMMA MoveResponses ==
    ASSUME TypeOK, ResponseInv, UNCHANGED <<response_dedup, delivered, created>>,
           NEW x \in Receivers, NEW rec, Move(x, rec),
           \/ rec.pc \notin {"touch", "forward"}
           \/ Passed(x) /\ rec.obj = receiver[x].obj /\ rec.seq = receiver[x].seq
    PROVE  ResponseInv'
<1>1. \A r \in Receivers : receiver'[r] = IF r = x THEN rec ELSE receiver[r]
  BY DEF Move, TypeOK, ReceiversOK
<1>2. \A r \in Receivers : receiver'[r].pc \in {"touch", "forward"} =>
         /\ Passed(r)
         /\ receiver'[r].obj = receiver[r].obj /\ receiver'[r].seq = receiver[r].seq
  BY <1>1 DEF Passed
<1> QED
  BY <1>2, ResponseFrame

LEMMA ReceiverResponses ==
    ASSUME TypeOK, ResponseInv, NEW r \in Receivers, ReceiverStep(r) \/ ReceiverExit(r)
    PROVE  ResponseInv'
<1>0. ReceiverOK(r, receiver[r])
  BY DEF TypeOK, ReceiversOK
<1>1. CASE LookupSession(r)
  <2> DEFINE rec == [receiver[r] EXCEPT !.pc = "dedup", !.obj = udp_sessions[receiver[r].src]]
  <2>1. Move(r, Receiving) \/ Move(r, rec)
    BY <1>1 DEF LookupSession
  <2>2. rec.pc \notin {"touch", "forward"} /\ Receiving.pc \notin {"touch", "forward"}
    BY <1>0 DEF ReceiverOK, Receiving
  <2>3. UNCHANGED <<response_dedup, delivered, created>>
    BY <1>1 DEF LookupSession, udpobjs
  <2> HIDE DEF rec
  <2> QED
    BY <2>1, <2>2, <2>3, MoveResponses
<1>2. CASE TouchResponse(r)
  <2> DEFINE rec == [receiver[r] EXCEPT !.pc = "forward"]
  <2>1. /\ Move(r, rec) /\ Passed(r)
        /\ UNCHANGED <<response_dedup, delivered, created>>
    BY <1>2 DEF TouchResponse, Passed
  <2>2. rec.obj = receiver[r].obj /\ rec.seq = receiver[r].seq
    BY <1>0 DEF ReceiverOK
  <2> HIDE DEF rec
  <2> QED
    BY <2>1, <2>2, MoveResponses
<1>3. CASE ForwardFails(r) \/ ReceiverExit(r)
  <2>1. Receiving.pc \notin {"touch", "forward"} /\ Returned.pc \notin {"touch", "forward"}
    BY DEF Receiving, Returned
  <2>2. UNCHANGED <<response_dedup, delivered, created>>
    BY <1>3 DEF ForwardFails, ReceiverExit, udpobjs
  <2> QED
    BY <1>3, <2>1, <2>2, MoveResponses DEF ForwardFails, ReceiverExit
<1> QED
  BY <1>1, <1>2, <1>3, DedupResponses, ForwardResponses DEF ReceiverStep

LEMMA NextResponses ==
    ASSUME TypeOK, TypeOK', ResponseInv, [Next]_vars
    PROVE  ResponseInv'
<1>1. CASE \E u \in Senders, q \in RespSeqs : \E sid \in KnownIds : RecvResponse(u, sid, q)
  <2> SUFFICES ASSUME NEW u \in Senders, NEW q \in RespSeqs, NEW sid \in KnownIds,
                      RecvResponse(u, sid, q)
               PROVE  ResponseInv'
    BY <1>1
  <2> DEFINE rec == [Receiving EXCEPT !.pc = "session", !.sid = sid, !.seq = q,
                                      !.src = udp_session_addrs[sid]]
  <2>1. u \in Receivers /\ (Move(u, Receiving) \/ Move(u, rec))
    BY DEF RecvResponse, Receivers
  <2>2. rec.pc \notin {"touch", "forward"} /\ Receiving.pc \notin {"touch", "forward"}
    BY DEF Receiving
  <2>3. UNCHANGED <<response_dedup, delivered, created>>
    BY DEF RecvResponse, udpobjs
  <2> HIDE DEF rec
  <2> QED
    BY <2>1, <2>2, <2>3, MoveResponses
<1>2. CASE \E j \in ConnObjs, q \in RespSeqs : \E sid \in KnownIds : ReadData(j, sid, q)
  <2> SUFFICES ASSUME NEW j \in ConnObjs, NEW q \in RespSeqs, NEW sid, ReadData(j, sid, q)
               PROVE  ResponseInv'
    BY <1>2
  <2> DEFINE rec == [Receiving EXCEPT !.pc = "session", !.sid = sid, !.seq = q,
                                      !.src = key[j][1]]
  <2>1. j \in Receivers /\ Move(j, rec)
    BY DEF ReadData, Receivers
  <2>2. rec.pc \notin {"touch", "forward"}
    BY DEF Receiving
  <2>3. UNCHANGED <<response_dedup, delivered, created>>
    BY DEF ReadData, udpobjs
  <2> HIDE DEF rec
  <2> QED
    BY <2>1, <2>2, <2>3, MoveResponses
<1>3. CASE \E j \in ConnObjs : ReadLength(j) \/ DecodeFails(j) \/ ReaderEof(j) \/ CleanupTcp(j)
  <2> SUFFICES ASSUME NEW j \in ConnObjs,
                      ReadLength(j) \/ DecodeFails(j) \/ ReaderEof(j) \/ CleanupTcp(j)
               PROVE  ResponseInv'
    BY <1>3
  <2>0. Receiving = [Receiving EXCEPT !.pc = "recv"]
    BY DEF Receiving
  <2>1. \E pc \in {"recv", "body", "cleanup", "done"} :
           Move(j, [Receiving EXCEPT !.pc = pc])
    BY <2>0 DEF ReadLength, DecodeFails, ReaderEof, CleanupTcp, Returned
  <2>2. PICK pc \in {"recv", "body", "cleanup", "done"} : Move(j, [Receiving EXCEPT !.pc = pc])
    BY <2>1
  <2>3. [Receiving EXCEPT !.pc = pc].pc = pc
    BY DEF Receiving
  <2>4. UNCHANGED <<response_dedup, delivered, created>> /\ j \in Receivers
    BY DEF ReadLength, DecodeFails, ReaderEof, CleanupTcp, udpobjs, Receivers
  <2> QED
    BY <2>2, <2>3, <2>4, MoveResponses
<1>4. CASE \E r \in Receivers : ReceiverStep(r) \/ ReceiverExit(r)
  BY <1>4, ReceiverResponses
<1>5. CASE Connect
  <2>1. Move(opened + 1, Receiving) /\ opened + 1 \in Receivers
    BY <1>5, Bounds DEF Connect, Move, Receivers, ConnObjs
  <2>2. Receiving.pc \notin {"touch", "forward"}
    BY DEF Receiving
  <2>3. UNCHANGED <<response_dedup, delivered, created>>
    BY <1>5 DEF Connect, udpobjs
  <2> QED
    BY <2>1, <2>2, <2>3, MoveResponses
<1>6. CASE UNCHANGED <<receiver, response_dedup, delivered, created>>
  BY <1>6, ResponseFrame DEF Passed
<1>7. CASE (\E src \in Sources : RecvPacket(src)) \/ ConnectFails \/ SendTcp \/ SendTcpFails
           \/ ListenerExit \/ Tick \/ Stop \/ Terminated \/ UNCHANGED vars
  BY <1>6, <1>7 DEF RecvPacket, ConnectFails, SendTcp, SendTcpFails, ListenerExit, Tick, Stop,
                   Terminated, vars, udpobjs
<1>8. CASE ListenerStep
  BY <1>6, <1>8, CreateResponses
     DEF ListenerStep, Lookup, StoreReverse, TakeSeq, TouchTcp, LookupTcp, udpobjs
<1>9. CASE SweepStep \/ SweepExit
  BY <1>6, <1>9 DEF SweepStep, SweepTick, SweepScan, SweepAddr, SweepTcpScan, SweepTcpRemove,
                   SweepRemove, SweepExit, udpobjs
<1> QED
  BY <1>1, <1>2, <1>3, <1>4, <1>5, <1>7, <1>8, <1>9 DEF Next

LEMMA InitResponses == ASSUME Init PROVE ResponseInv
<1>1. WindowsOK
  BY DEF Init, WindowsOK, WellFormed, New, Window
<1>2. PassedOnce
  BY DEF Init, PassedOnce, Passed, Receiving, Unborn
<1>3. DeliveredOnce
  BY DEF Init, DeliveredOnce
<1> QED
  BY <1>1, <1>2, <1>3 DEF ResponseInv

\* ResponseOnce: is_duplicate and the forward to the source are separate steps
\* of any number of receivers and readers, and yet a number reaches the source
\* of a session once, for every window size.
THEOREM ClientResponseOnce == Spec => []ResponseOnce
<1>1. Init => TypeOK /\ ResponseInv
  BY InitTyped, InitResponses
<1>2. (TypeOK /\ ResponseInv) /\ [Next]_vars => (TypeOK /\ ResponseInv)'
  BY NextTyped, NextResponses
<1>3. ResponseInv => ResponseOnce
  BY DEF ResponseInv, DeliveredOnce, ResponseOnce
<1> QED
  BY <1>1, <1>2, <1>3, PTL DEF Spec

-----------------------------------------------------------------------------
(* The client implements SourceSessions *)

\* What sources and servers see is not touched.
Unseen == UNCHANGED <<created, id, source, udp_sessions, opened, key, cancelled, carried,
                      delivered>>

Alive == {j \in 1..opened : ~cancelled[j]}

LEMMA UnseenStutters == Unseen => UNCHANGED Promise!vars
BY DEF Unseen, Promise!vars, Promise!sessions, Promise!conns

LEMMA CreateOpens ==
    ASSUME TypeOK, TypeOK', SessionInv, IdsDistinct', Create
    PROVE  Promise!Next
<1>0. PICK o, s, i : o = created + 1 /\ s = listener.src /\ i = id'[o]
  OBVIOUS
<1>1. /\ listener.pc = "create" /\ created < MaxSessions /\ created' = o
      /\ udp_sessions' = [udp_sessions EXCEPT ![s] = o]
      /\ source' = [source EXCEPT ![o] = s]
      /\ \E n : id' = [id EXCEPT ![o] = n]
      /\ UNCHANGED <<opened, key, cancelled, carried, delivered>>
  BY <1>0 DEF Create, tcps
<1>2. o \in Objs /\ o \in 1..o /\ o \notin 1..created /\ 1..o = (1..created) \cup {o}
  BY <1>0, <1>1, Bounds DEF Objs
<1>3. s \in Sources /\ udp_sessions[s] = 0
  BY <1>0, <1>1 DEF TypeOK, ListenerOK, SessionInv, OneWriter
<1>4. i \in 1..IdMod - 1
  <2>1. id'[o] \in 0..IdMod - 1 /\ id'[o] # 0
    BY <1>1, <1>2 DEF TypeOK, UdpOK
  <2> QED
    BY <1>0, <2>1, Bounds
<1>5. id' = [id EXCEPT ![o] = i]
  BY <1>0, <1>1, <1>2 DEF TypeOK, UdpOK
<1>6. \A x \in 1..created : id[x] # i
  <2> SUFFICES ASSUME NEW x \in 1..created PROVE id[x] # i
    OBVIOUS
  <2>1. x \in Objs /\ x # o
    BY <1>2, SessionTyped
  <2>2. id'[x] = id[x]
    BY <1>5, <2>1 DEF TypeOK, UdpOK
  <2>3. id'[x] # id'[o]
    BY <1>1, <1>2, <2>1 DEF IdsDistinct
  <2> QED
    BY <1>0, <2>2, <2>3
<1>7. Promise!Open(s, o, i)
  BY <1>1, <1>2, <1>3, <1>5, <1>6 DEF Promise!Open, Promise!conns
<1> QED
  BY <1>2, <1>3, <1>4, <1>7 DEF Promise!Next

LEMMA SweepRemoveCloses ==
    ASSUME TypeOK, SessionInv, NEW o \in Objs, SweepRemove(o)
    PROVE  Promise!Next
<1>1. /\ sweep.pc = "remove" /\ o \in sweep.expired
      /\ udp_sessions' = [udp_sessions EXCEPT ![source[o]] = 0]
      /\ UNCHANGED <<created, id, source, opened, key, cancelled, carried, delivered>>
  BY DEF SweepRemove, udpobjs, tcps
<1>2. o \in 1..created
  BY <1>1 DEF TypeOK, SweepOK
<1>3. source[o] \in Sources
  BY <1>2, SessionTyped
<1>4. udp_sessions[source[o]] # 0
  BY <1>1, <1>2, Bounds DEF SessionInv, OneWriter
<1>5. Promise!Close(source[o])
  BY <1>1, <1>4 DEF Promise!Close, Promise!conns
<1> QED
  BY <1>3, <1>5 DEF Promise!Next

LEMMA ConnectDials ==
    ASSUME TypeOK, RoutingInv, Connect
    PROVE  Promise!Next
<1>0. PICK c, k : c = opened + 1 /\ k = <<listener.src, listener.ep>>
  OBVIOUS
<1>1. /\ listener.pc = "connect" /\ opened < MaxConns /\ opened' = c
      /\ key' = [key EXCEPT ![c] = k]
      /\ cancelled' = [cancelled EXCEPT ![c] = FALSE]
      /\ carried' = [carried EXCEPT ![c] = {}]
      /\ UNCHANGED <<created, id, source, udp_sessions, delivered>>
  BY <1>0 DEF Connect, udpmaps, udpobjs
<1>2. c \in ConnObjs /\ c \notin 1..opened /\ 1..c = (1..opened) \cup {c}
  BY <1>0, <1>1, Bounds DEF ConnObjs
<1>3. k \in Sources \X TcpServers
  BY <1>0, <1>1 DEF TypeOK, ListenerOK, Connecting
<1>4. ~cancelled'[c]
  BY <1>1, <1>2 DEF TypeOK, TcpOK
<1>5. \A j \in 1..opened : cancelled'[j] = cancelled[j]
  BY <1>1, <1>2, ConnTyped DEF TypeOK, TcpOK
<1>6. Alive' = Alive \cup {c}
  BY <1>1, <1>2, <1>4, <1>5 DEF Alive
<1>7. \A j \in Alive : key[j] # k
  <2> SUFFICES ASSUME NEW j \in 1..opened, key[j] = k PROVE cancelled[j]
    BY DEF Alive
  <2>1. tcp_sessions[key[j]] = 0
    BY <1>0, <1>1 DEF RoutingInv, ConnOwner
  <2>2. j # 0
    BY Bounds
  <2> QED
    BY <2>1, <2>2 DEF RoutingInv, OneConnPerKey
<1>8. Promise!Dial(k, c)
  BY <1>1, <1>2, <1>6, <1>7 DEF Promise!Dial, Promise!sessions, Alive
<1> QED
  BY <1>2, <1>3, <1>8 DEF Promise!Next

LEMMA CancelDrops ==
    ASSUME TypeOK, NEW C,
           cancelled' = [j \in ConnObjs |-> cancelled[j] \/ j \in C],
           UNCHANGED <<created, id, source, udp_sessions, opened, key, carried, delivered>>
    PROVE  Promise!Next
<1>1. \A j \in 1..opened : j \in ConnObjs /\ (cancelled'[j] <=> cancelled[j] \/ j \in C)
  BY ConnTyped
<1>2. Alive' = Alive \ (C \cap ConnObjs)
  BY <1>1 DEF Alive
<1>3. Promise!Drop(C \cap ConnObjs)
  BY <1>2 DEF Promise!Drop, Promise!sessions, Alive
<1> QED
  BY <1>3 DEF Promise!Next

LEMMA SendTcpHears ==
    ASSUME TypeOK, SessionInv, RoutingInv, SendTcp
    PROVE  Promise!Next
<1> DEFINE c == listener.conn
           o == listener.obj
<1>1. /\ listener.pc = "tsend"
      /\ carried' = [carried EXCEPT ![c] = @ \cup {id[o]}]
      /\ UNCHANGED <<created, id, source, udp_sessions, opened, key, cancelled, delivered>>
  BY DEF SendTcp, udpmaps, udpobjs
<1>2. o \in 1..created /\ c \in 1..opened
  BY <1>1, Bounds DEF TypeOK, ListenerOK, Sending
<1>3. key[c][1] = source[o]
  BY <1>1 DEF RoutingInv, ConnOwner, SessionInv, SessionOwner, Sending
<1>4. o \in Objs /\ c \in ConnObjs
  BY <1>2, SessionTyped, ConnTyped
<1> HIDE DEF c, o
<1>5. Promise!Hear(c, o)
  BY <1>1, <1>2, <1>3 DEF Promise!Hear, Promise!sessions, Promise!conns
<1> QED
  BY <1>4, <1>5 DEF Promise!Next

LEMMA ForwardReturns ==
    ASSUME TypeOK, ResponseInv, NEW r \in Receivers, Forward(r)
    PROVE  Promise!Next
<1> DEFINE o == receiver[r].obj
           q == receiver[r].seq
<1>1. /\ Passed(r)
      /\ delivered' = [delivered EXCEPT ![o][q] = @ + 1]
      /\ UNCHANGED <<created, id, source, udp_sessions, opened, key, cancelled, carried>>
  BY DEF Forward, Passed, udpmaps, udpobjs, tcps
<1>2. o \in 1..created /\ o \in Objs /\ q \in RespSeqs
  BY <1>1, PassedTyped
<1>3. delivered[o][q] = 0
  BY <1>1 DEF ResponseInv, PassedOnce
<1>4. delivered' = [delivered EXCEPT ![o][q] = 1]
  BY <1>1, <1>2, <1>3 DEF TypeOK
<1> HIDE DEF o, q
<1>5. Promise!Return(o, q)
  BY <1>1, <1>2, <1>3, <1>4 DEF Promise!Return, Promise!sessions, Promise!conns
<1> QED
  BY <1>2, <1>5 DEF Promise!Next

LEMMA ListenerUnseen ==
    ASSUME \/ \E src \in Sources : RecvPacket(src)
           \/ Lookup \/ StoreReverse \/ TakeSeq \/ TouchTcp \/ ConnectFails \/ SendTcpFails
           \/ ListenerExit
           \/ \E ep \in TcpServers : LookupTcp(ep)
    PROVE  Unseen
BY DEF RecvPacket, Lookup, StoreReverse, TakeSeq, TouchTcp, ConnectFails, SendTcpFails,
       ListenerExit, LookupTcp, udpmaps, udpobjs, tcps, Unseen

LEMMA ReceiverUnseen ==
    ASSUME NEW r,
           \/ \E sid, q : RecvResponse(r, sid, q) \/ ReadData(r, sid, q)
           \/ ReadLength(r) \/ DecodeFails(r) \/ ReaderEof(r) \/ LookupSession(r) \/ Dedup(r)
           \/ TouchResponse(r) \/ ForwardFails(r) \/ ReceiverExit(r)
    PROVE  Unseen
BY DEF RecvResponse, ReadData, ReadLength, DecodeFails, ReaderEof, LookupSession, Dedup, TouchResponse,
       ForwardFails, ReceiverExit, udpmaps, udpobjs, tcps, Unseen

LEMMA OthersUnseen ==
    ASSUME SweepTick \/ SweepScan \/ SweepAddr \/ SweepTcpScan \/ SweepExit \/ Tick \/ Stop
           \/ Terminated \/ UNCHANGED vars
    PROVE  Unseen
BY DEF SweepTick, SweepScan, SweepAddr, SweepTcpScan, SweepExit, Tick, Stop, Terminated, vars,
       udpmaps, udpobjs, tcps, Unseen

LEMMA NextKeepsPromise ==
    ASSUME TypeOK, TypeOK', SessionInv, IdsDistinct', RoutingInv, ResponseInv, [Next]_vars
    PROVE  [Promise!Next]_(Promise!vars)
<1> SUFFICES Promise!Next \/ Unseen
  BY UnseenStutters
<1>1. ASSUME NEW j \in ConnObjs, CleanupTcp(j) PROVE Promise!Next
  <2>1. /\ cancelled' = [x \in ConnObjs |-> cancelled[x] \/ x \in {tcp_sessions[key[j]]}]
        /\ UNCHANGED <<created, id, source, udp_sessions, opened, key, carried, delivered>>
    BY <1>1 DEF CleanupTcp, udpmaps, udpobjs
  <2> QED
    BY <2>1, CancelDrops
<1>2. CASE SweepTcpRemove
  <2>1. /\ cancelled' = [j \in ConnObjs |->
                            cancelled[j] \/ j \in {tcp_sessions[k] : k \in sweep.keys}]
        /\ UNCHANGED <<created, id, source, udp_sessions, opened, key, carried, delivered>>
    BY <1>2 DEF SweepTcpRemove, udpmaps, udpobjs
  <2> QED
    BY <2>1, CancelDrops
<1>3. CASE ListenerStep
  BY <1>3, CreateOpens, ListenerUnseen DEF ListenerStep
<1>4. ASSUME NEW r \in Receivers, ReceiverStep(r) \/ ReceiverExit(r)
      PROVE  Promise!Next \/ Unseen
  BY <1>4, ForwardReturns, ReceiverUnseen DEF ReceiverStep
<1>5. CASE SweepStep
  BY <1>2, <1>5, SweepRemoveCloses, OthersUnseen DEF SweepStep
<1> QED
  BY <1>1, <1>3, <1>4, <1>5, ConnectDials, SendTcpHears, ListenerUnseen, ReceiverUnseen,
     OthersUnseen DEF Next

LEMMA InitPromises == ASSUME Init PROVE Promise!Init
<1>1. 1..created = {} /\ 1..opened = {}
  BY DEF Init
<1> QED
  BY <1>1 DEF Init, Promise!Init

\* However the tasks interleave, the client keeps its promise: one session per
\* source at a time, under an id of its own; one connection that goes on per
\* source and server, on which only that source's ids are heard; each number
\* returned once per session.
THEOREM ClientImplementsSourceSessions == Spec => ImplementsSourceSessions
<1>1. Init => ResponseInv
  BY InitResponses
<1>2. TypeOK /\ TypeOK' /\ ResponseInv /\ [Next]_vars => ResponseInv'
  BY NextResponses
<1>3. Init => Promise!Init
  BY InitPromises
<1>4. /\ TypeOK /\ TypeOK' /\ SessionInv /\ IdsDistinct' /\ RoutingInv /\ ResponseInv
      /\ [Next]_vars
      => [Promise!Next]_(Promise!vars)
  BY NextKeepsPromise
<1> QED
  BY <1>1, <1>2, <1>3, <1>4, RoutingInvariant, ClientIdsDistinct, PTL
     DEF Spec, ImplementsSourceSessions, Promise!Spec

====
