-------------------------------- MODULE Relay --------------------------------
(***************************************************************************)
(* Client, network, servers and target together, for one source.           *)
(*                                                                         *)
(* RustServer and RustClient show how the tasks of each program share its  *)
(* state; here each program handles a packet or a response in one step, and *)
(* what is looked at is what goes wrong between programs: datagrams lost,   *)
(* repeated and overtaken, connections that break, sessions that expire on *)
(* one side only, programs that restart and forget.                        *)
(*                                                                         *)
(* A datagram stays in the network once it is sent: it may arrive never,   *)
(* late, or again.  A stream delivers in order what was written, until it  *)
(* breaks.  Target and source are trusted to say which packet is which:    *)
(* packets and responses are numbered, and the number is the payload.      *)
(***************************************************************************)
EXTENDS DedupWindow, Codec, Config

CONSTANTS ClientArgs, ClientYaml,   \* how the client may be configured
          ServerArgs, ServerYaml,   \* how the servers may be configured
          RespDedupSize,   \* DEFAULT_RESPONSE_DEDUP_SIZE
          Draws,           \* what rand::random::<u32>() may return
          PayloadLen,      \* length of the payload of each packet
          MaxResponses,    \* bound: responses of the target
          ResponseLen,     \* length of the payload of each response
          MaxSessions,     \* bound: sessions the client creates
          MaxTargets,      \* bound: target sessions the servers create
          MaxConns,        \* bound: connections dialed per server address
          MaxFaults        \* bound: restarts, expiries and broken connections

Packets == 1..Len(PayloadLen)
Responses == 1..MaxResponses
ClientSessions == 1..MaxSessions   \* session_id; 0 is no session
Targets == 1..MaxTargets           \* TargetSession; 0 is no session

\* A draw is a u32, ids do not run out, and a session sends fewer packets than
\* the initial number leaves room for.  The numbers of responses do not wrap
\* either.  A response of the target is a datagram, and any datagram with a header
\* before it fits a frame: 65507 + 12 bytes, where a frame takes 65535.
ASSUME RelayAssumption ==
    /\ RespDedupSize \in Nat \ {0}
    /\ {MaxResponses, MaxSessions, MaxTargets, MaxConns, MaxFaults} \subseteq Nat
    /\ PayloadLen \in Seq(Nat \ {0})
    /\ SeqRange \in Nat /\ SeqRange > 2 /\ Draws \subseteq 0..SeqRange - 1
    /\ IdRange \in Nat /\ MaxSessions < IdRange /\ 2 * Len(PayloadLen) <= SeqRange
    /\ MaxDatagram + HEADER_SIZE <= MaxFrame /\ HEADER_SIZE < MaxFrame
    /\ ResponseLen \in [Responses -> 1..MaxDatagram] /\ MaxResponses < SeqRange

\* The client is started as one and the servers as servers, and a number that an
\* option gives is a natural.
ASSUME OptionsAssumption ==
    /\ \A args \in ClientArgs, yaml \in ClientYaml : Or(args.mode, yaml.mode) = "client"
    /\ \A args \in ServerArgs, yaml \in ServerYaml :
          /\ Or(args.mode, yaml.mode) = "server"
          /\ {args.dedup_window, yaml.dedup_window} \subseteq Nat \cup {Absent}
          /\ {args.session_timeout, yaml.session_timeout}
                 \subseteq Nat \cup {Absent, Unparsable}

VARIABLES
    cfg,          \* the servers the client uses, and the servers' dedup_window
    \* client
    current,      \* the source's session in udp_sessions
    used,         \* session ids handed out
    seq, response_dedup,   \* of each session
    tcp_sessions, \* the connection the source uses for an address, 0 if none
    born,         \* which run of the client this is: its sockets' ports
    \* servers, one at each host
    sessions,     \* the target session of an id at a host
    target,       \* target sessions created
    dedup, response_seq,   \* of each target session
    client_paths, \* the paths of an id at a host
    conn_to_session, \* the session a connection last registered a path for, 0 if none
    \* network
    net_up, net_down,   \* datagrams sent: <<path, packet>>
    conns,        \* connections: open at which end, and what is in flight
    dialed,       \* connections dialed per address
    faults,
    \* history
    sent,         \* each packet: its session, its number, its place in the session
    passed,       \* packets that passed a target session's window, in order
    forwarded,    \* packets the target received from a target session
    refused,      \* <<target session, packet>>: refused before it ever passed
    answered,     \* each response: its target session and its place in it
    returned,     \* responses the source received in a session
    unheard,      \* <<session, response>>: refused before it was ever returned
    served        \* the last session each connection was a path of

client == <<current, used, seq, response_dedup, tcp_sessions, born>>
server == <<sessions, target, dedup, response_seq, client_paths, conn_to_session>>
network == <<net_up, net_down, conns, dialed>>
requests == <<sent, passed, forwarded, refused, served>>
replies == <<answered, returned, unheard>>
vars == <<cfg, client, server, network, faults, requests, replies>>

Endpoints(proto) == {cfg.servers[i] : i \in {j \in DOMAIN cfg.servers :
                                                cfg.servers[j].proto = proto}}

\* The configurations the programs start with.
Configured ==
    {[servers |-> c.servers, dedup_window |-> s.dedup_window] :
        c \in {load(a, y) : a \in ClientArgs, y \in ClientYaml} \ {Refused},
        s \in {load(a, y) : a \in ServerArgs, y \in ServerYaml} \ {Refused}}

\* ClientPath: a listener and the run of the client that sends to it, or a
\* connection.
PathOf(e, n) == [ep |-> e, peer |-> n]
IsStream(p) == p.ep.proto = "tcp"
Connections == Endpoints("tcp") \X (1..MaxConns)
PathOfConn(c) == PathOf(c[1], c[2])

NoConn == [client |-> FALSE, server |-> FALSE, up |-> <<>>, down |-> <<>>]

Init ==
    /\ cfg \in Configured
    /\ current = 0 /\ used = 0 /\ born = 1
    /\ seq = [s \in ClientSessions |-> 0]
    /\ response_dedup = [s \in ClientSessions |-> New]
    /\ tcp_sessions = [e \in Endpoints("tcp") |-> 0]
    /\ sessions = [h \in Ips |-> [s \in ClientSessions |-> 0]]
    /\ target = 0
    /\ dedup = [o \in Targets |-> New]
    /\ response_seq = [o \in Targets |-> 0]
    /\ client_paths = [h \in Ips |-> [s \in ClientSessions |-> {}]]
    /\ conn_to_session = [c \in Connections |-> 0]
    /\ net_up = {} /\ net_down = {}
    /\ conns = [c \in Connections |-> NoConn]
    /\ dialed = [e \in Endpoints("tcp") |-> 0]
    /\ faults = 0
    /\ sent = <<>>
    /\ passed = [o \in Targets |-> <<>>]
    /\ forwarded = [o \in Targets |-> {}]
    /\ refused = {}
    /\ answered = <<>>
    /\ returned = [s \in ClientSessions |-> {}]
    /\ unheard = {}
    /\ served = [c \in Connections |-> 0]

-----------------------------------------------------------------------------
(* The client sends *)

\* Mutant: the first number is drawn from all of u32.
initial_seq_anywhere(draw) == draw

\* rand::random::<u32>() % (u32::MAX / 2)
initial_seq(draw) == draw % ((SeqRange - 1) \div 2)

\* handle_udp_transport: one datagram per UDP server; sending one that is too
\* long fails.
SendUdp(packet) ==
    /\ net_up' = net_up \cup {<<PathOf(e, born), packet>> :
                    e \in {x \in Endpoints("udp") : Len(packet) <= MaxDatagram}}
    /\ net_down' = net_down

\* handle_tcp_transport: one frame per TCP server, over the connection the
\* source has, or one that is dialed now.  Dialing may fail.  What is written
\* to a connection that broke is lost.
SendTcp(dial, packet) ==
    LET use == [e \in Endpoints("tcp") |->
                   IF e \in dial THEN dialed[e] + 1 ELSE tcp_sessions[e]]
        fresh(c) == c[1] \in dial /\ c[2] = use[c[1]]
        conn(c) == IF fresh(c) THEN [NoConn EXCEPT !.client = TRUE, !.server = TRUE]
                   ELSE conns[c]
        carries(c) == use[c[1]] = c[2] /\ conn(c).server /\ FitsFrame(packet)
    IN  /\ dial \subseteq {e \in Endpoints("tcp") :
                              tcp_sessions[e] = 0 /\ dialed[e] < MaxConns}
        /\ tcp_sessions' = use
        /\ dialed' = [e \in Endpoints("tcp") |->
                         IF e \in dial THEN dialed[e] + 1 ELSE dialed[e]]
        /\ conns' = [c \in DOMAIN conns |->
                        IF carries(c) THEN [conn(c) EXCEPT !.up = @ \o Frame(packet)]
                        ELSE conn(c)]

\* handle_packet, once the session is known: one number for all paths.
SendPacket(s, q, dial) ==
    LET k == Len(sent) + 1
        packet == encode_packet(s, q, [i \in 1..PayloadLen[k] |-> k])
    IN  /\ k \in Packets
        /\ sent' = Append(sent, [session |-> s, seq |-> q,
                                 n |-> Cardinality({j \in 1..Len(sent) : sent[j].session = s})])
        /\ seq' = [seq EXCEPT ![s] = (q + 1) % SeqRange]
        /\ SendUdp(packet)
        /\ SendTcp(dial, packet)

\* A packet of a source that has a session.
SourcePacket(dial) ==
    /\ current # 0
    /\ SendPacket(current, seq[current], dial)
    /\ UNCHANGED <<cfg, current, used, response_dedup, born, server, faults, passed,
                   forwarded, refused, served, replies>>

\* Mutant: the window of responses is the source's, and outlives its session.
response_window_kept(s) == IF s = 1 THEN New ELSE response_dedup[s - 1]

response_window(s) == New

\* Mutant: an id is read from the counter, and the counter not moved.
SourceOpensAgain(draw, dial) ==
    /\ current = 0
    /\ current' = used + 1 /\ used' = used
    /\ response_dedup' = [response_dedup EXCEPT ![used + 1] = New]
    /\ SendPacket(used + 1, initial_seq(draw), dial)
    /\ UNCHANGED <<cfg, born, server, faults, passed, forwarded, refused, served,
                   replies>>

\* A packet of a source that has none: get_or_create_udp_session.  The counter
\* of ids starts at a random u64, so no id was used by an earlier run.
SourceOpens(draw, dial) ==
    /\ current = 0
    /\ used < MaxSessions
    /\ used' = used + 1 /\ current' = used + 1
    /\ response_dedup' = [response_dedup EXCEPT ![used + 1] = response_window(used + 1)]
    /\ SendPacket(used + 1, initial_seq(draw), dial)
    /\ UNCHANGED <<cfg, born, server, faults, passed, forwarded, refused, served,
                   replies>>

-----------------------------------------------------------------------------
(* A server receives a packet *)

\* A path set with p: a datagram path of the same listener has its address
\* replaced.
WithPath(ps, p) == {x \in ps : IsStream(x) \/ x.ep # p.ep} \cup {p}

\* handle_udp_packet and handle_tcp_packet: session, window, path, target.  The
\* number stays recorded when the target cannot be reached.
HandlePacket(h, m, p, reached) ==
    LET known == sessions[h][m.id]
        o == IF known = 0 THEN target + 1 ELSE known
        w == IF known = 0 THEN New ELSE dedup[o]
        k == m.payload[1]
        dup == IsDuplicate(w, m.seq)
    IN  /\ o \in Targets
        /\ target' = IF known = 0 THEN o ELSE target
        /\ sessions' = [sessions EXCEPT ![h][m.id] = o]
        /\ dedup' = [dedup EXCEPT ![o] = Mark(w, m.seq, cfg.dedup_window)]
        /\ client_paths' = IF dup THEN client_paths
                           ELSE [client_paths EXCEPT ![h][m.id] = WithPath(@, p)]
        /\ passed' = IF dup THEN passed ELSE [passed EXCEPT ![o] = Append(@, k)]
        /\ forwarded' = IF dup \/ ~reached THEN forwarded
                        ELSE [forwarded EXCEPT ![o] = @ \cup {k}]
        /\ refused' = IF dup /\ \A i \in DOMAIN passed[o] : passed[o][i] # k
                      THEN refused \cup {<<o, k>>} ELSE refused

RecvUdp(d, reached) ==
    /\ d \in net_up
    /\ HandlePacket(d[1].ep.host, decode_packet(d[2]), d[1], reached)
    /\ UNCHANGED <<cfg, client, response_seq, conn_to_session, network, faults, sent,
                   served, replies>>

\* One frame of a connection.  Only a packet that passes the window makes the
\* connection a path of its session.
RecvTcp(c, reached) ==
    LET frame == FirstFrame(conns[c].up)
        m == decode_packet(frame)
        h == c[1].host
        dup == sessions[h][m.id] # 0 /\ IsDuplicate(dedup[sessions[h][m.id]], m.seq)
    IN  /\ conns[c].server
        /\ HasFrame(conns[c].up) /\ ~TooShort(frame)
        /\ HandlePacket(h, m, PathOfConn(c), reached)
        /\ conn_to_session' = IF dup THEN conn_to_session
                              ELSE [conn_to_session EXCEPT ![c] = m.id]
        /\ served' = IF dup THEN served ELSE [served EXCEPT ![c] = m.id]
        /\ conns' = [conns EXCEPT ![c].up = AfterFrame(@)]
        /\ UNCHANGED <<cfg, client, response_seq, net_up, net_down, dialed, faults, sent,
                       replies>>

\* A frame that does not decode, or whose target socket cannot be opened.
DropTcp(c) ==
    LET frame == FirstFrame(conns[c].up)
    IN  /\ conns[c].server
        /\ HasFrame(conns[c].up)
        /\ TooShort(frame) \/ sessions[c[1].host][decode_packet(frame).id] = 0
        /\ conns' = [conns EXCEPT ![c].up = AfterFrame(@)]
        /\ UNCHANGED <<cfg, client, server, net_up, net_down, dialed, faults, requests,
                       replies>>

\* Mutant: the connection's path is left in place.
UnpathKeeps(ps, c) == ps

\* The path of a connection is removed from those of a session.
Unpath(ps, c) == ps \ {PathOfConn(c)}

\* The server's end of a connection closes: cleanup_tcp_conn looks up the last
\* session the connection was registered for.
ServerCloses(c) ==
    LET h == c[1].host
        s == conn_to_session[c]
    IN  /\ conns[c].server
        /\ ~HasFrame(conns[c].up)
        /\ conns[c].client => BadLength(conns[c].up)
        /\ client_paths' = IF s = 0 THEN client_paths
                           ELSE [client_paths EXCEPT ![h][s] = Unpath(@, c)]
        /\ conn_to_session' = [conn_to_session EXCEPT ![c] = 0]
        /\ conns' = [conns EXCEPT ![c].server = FALSE, ![c].up = <<>>]
        /\ UNCHANGED <<cfg, client, sessions, target, dedup, response_seq, net_up,
                       net_down, dialed, faults, requests, replies>>

-----------------------------------------------------------------------------
(* Responses *)

\* send_response_to_all_paths: one number, a copy for each path.  A datagram
\* that is too long for the socket is not sent, and goes out over streams; there
\* the length is cast without a check.
Respond(h, s) ==
    LET o == sessions[h][s]
        r == Len(answered) + 1
        packet == encode_packet(s, response_seq[o], [i \in 1..ResponseLen[r] |-> r])
        ps == client_paths[h][s]
        fitting == {p \in ps : ~IsStream(p) /\ Len(packet) <= MaxDatagram}
    IN  /\ o # 0 /\ r \in Responses
        /\ forwarded[o] # {}
        /\ response_seq' = [response_seq EXCEPT ![o] = (@ + 1) % SeqRange]
        /\ answered' = Append(answered, [target |-> o, n |-> response_seq[o]])
        /\ net_up' = net_up
        /\ net_down' = net_down \cup {<<p, packet>> : p \in fitting}
        /\ conns' = [c \in Connections |->
                        IF PathOfConn(c) \in ps /\ conns[c].client /\ conns[c].server
                        THEN [conns[c] EXCEPT !.down = @ \o Frame(packet)] ELSE conns[c]]
        /\ UNCHANGED <<cfg, client, sessions, target, dedup, client_paths,
                       conn_to_session, dialed, faults, requests, returned, unheard>>

\* The end of process_udp_response and process_tcp_response, for session s.
ReturnResponse(s, m) ==
    LET r == m.payload[1]
        dup == IsDuplicate(response_dedup[s], m.seq)
    IN  /\ response_dedup' = [response_dedup EXCEPT ![s] = Mark(@, m.seq, RespDedupSize)]
        /\ returned' = IF dup THEN returned ELSE [returned EXCEPT ![s] = @ \cup {r}]
        /\ unheard' = IF dup /\ r \notin returned[s] THEN unheard \cup {<<s, r>>}
                      ELSE unheard

\* Over UDP: the session is the one the response names.
RecvUdpResponse(d) ==
    LET m == decode_packet(d[2])
    IN  /\ d \in net_down
        /\ d[1].peer = born
        /\ m.id = current
        /\ ReturnResponse(m.id, m)
        /\ UNCHANGED <<cfg, current, used, seq, tcp_sessions, born, server, network,
                       faults, requests, answered>>

\* Over TCP: the session is the one the connection's source has.
RecvTcpResponse(c) ==
    LET m == decode_packet(FirstFrame(conns[c].down))
    IN  /\ conns[c].client
        /\ HasFrame(conns[c].down)
        /\ conns' = [conns EXCEPT ![c].down = AfterFrame(@)]
        /\ IF current # 0 THEN ReturnResponse(current, m)
           ELSE UNCHANGED <<response_dedup, returned, unheard>>
        /\ UNCHANGED <<cfg, current, used, seq, tcp_sessions, born, server, net_up,
                       net_down, dialed, faults, requests, answered>>

\* The client reads the end of a stream: cleanup_tcp_session, by address.
ClientCloses(c) ==
    /\ conns[c].client /\ ~conns[c].server
    /\ conns[c].down = <<>>
    /\ conns' = [conns EXCEPT ![c].client = FALSE]
    /\ tcp_sessions' = [tcp_sessions EXCEPT ![c[1]] = 0]
    /\ UNCHANGED <<cfg, current, used, seq, response_dedup, born, server, net_up,
                   net_down, dialed, faults, requests, replies>>

-----------------------------------------------------------------------------
(* Expiry and restarts *)

\* The bound on faults.
Fault == faults < MaxFaults /\ faults' = faults + 1

\* The client expires the source's session; its connections have sweeps of
\* their own.
SourceExpires ==
    /\ Fault
    /\ current # 0
    /\ current' = 0
    /\ UNCHANGED <<cfg, used, seq, response_dedup, tcp_sessions, born, server, network,
                   requests, replies>>

\* The client expires a connection and closes its end.
ConnExpires(e) ==
    LET c == <<e, tcp_sessions[e]>>
    IN  /\ Fault
        /\ tcp_sessions[e] # 0
        /\ tcp_sessions' = [tcp_sessions EXCEPT ![e] = 0]
        /\ conns' = [conns EXCEPT ![c].client = FALSE, ![c].down = <<>>]
        /\ UNCHANGED <<cfg, current, used, seq, response_dedup, born, server, net_up,
                       net_down, dialed, requests, replies>>

\* A server expires a session: its target socket, its window and its paths.
TargetExpires(h, s) ==
    /\ Fault
    /\ sessions[h][s] # 0
    /\ sessions' = [sessions EXCEPT ![h][s] = 0]
    /\ client_paths' = [client_paths EXCEPT ![h][s] = {}]
    /\ UNCHANGED <<cfg, client, target, dedup, response_seq, conn_to_session, network,
                   requests, replies>>

\* A server that has sessions stops, or crashes, and is started again.
ServerRestarts(h) ==
    LET lost(c) == c[1].host = h
    IN  /\ Fault
        /\ \E s \in ClientSessions : sessions[h][s] # 0
        /\ sessions' = [sessions EXCEPT ![h] = [s \in ClientSessions |-> 0]]
        /\ client_paths' = [client_paths EXCEPT ![h] = [s \in ClientSessions |-> {}]]
        /\ conn_to_session' = [c \in Connections |->
                                  IF lost(c) THEN 0 ELSE conn_to_session[c]]
        /\ conns' = [c \in Connections |->
                        IF lost(c) THEN [conns[c] EXCEPT !.server = FALSE, !.up = <<>>]
                        ELSE conns[c]]
        /\ UNCHANGED <<cfg, client, target, dedup, response_seq, net_up, net_down, dialed,
                       requests, replies>>

\* A client that has sent something stops, or crashes, and is started again
\* with other sockets.
ClientRestarts ==
    /\ Fault
    /\ used # 0
    /\ current' = 0 /\ born' = born + 1
    /\ tcp_sessions' = [e \in Endpoints("tcp") |-> 0]
    /\ conns' = [c \in Connections |->
                    [conns[c] EXCEPT !.client = FALSE, !.down = <<>>]]
    /\ UNCHANGED <<cfg, used, seq, response_dedup, server, net_up, net_down, dialed,
                   requests, replies>>

-----------------------------------------------------------------------------
(* The specification *)

ClientNext ==
    \/ \E dial \in SUBSET Endpoints("tcp") :
          SourcePacket(dial) \/ \E draw \in Draws : SourceOpens(draw, dial)
    \/ \E d \in net_down : RecvUdpResponse(d)
    \/ \E c \in Connections : RecvTcpResponse(c) \/ ClientCloses(c)

ServerNext ==
    \/ \E reached \in BOOLEAN :
          \/ \E d \in net_up : RecvUdp(d, reached)
          \/ \E c \in Connections : RecvTcp(c, reached)
    \/ \E c \in Connections : DropTcp(c) \/ ServerCloses(c)
    \/ \E h \in Ips, s \in ClientSessions : Respond(h, s)

FaultNext ==
    \/ SourceExpires \/ ClientRestarts
    \/ \E e \in Endpoints("tcp") : ConnExpires(e)
    \/ \E h \in Ips : ServerRestarts(h) \/ \E s \in ClientSessions : TargetExpires(h, s)

Next == ClientNext \/ ServerNext \/ FaultNext

Spec == Init /\ [][Next]_vars

-----------------------------------------------------------------------------
(* Properties *)

UdpPaths == {PathOf(e, n) : e \in Endpoints("udp"), n \in 1..born}
TcpPaths == {PathOfConn(c) : c \in Connections}

ClientOK ==
    /\ used \in 0..MaxSessions /\ current \in {0, used}
    /\ seq \in [ClientSessions -> 0..SeqRange - 1]
    /\ response_dedup \in [ClientSessions -> Window]
    /\ \A s \in ClientSessions : WellFormed(response_dedup[s])
    /\ tcp_sessions \in [Endpoints("tcp") -> 0..MaxConns]
    /\ \A e \in Endpoints("tcp") : tcp_sessions[e] <= dialed[e]
    /\ born \in 1..faults + 1

ServersOK ==
    /\ target \in 0..MaxTargets
    /\ sessions \in [Ips -> [ClientSessions -> 0..target]]
    /\ dedup \in [Targets -> Window]
    /\ \A o \in Targets : WellFormed(dedup[o])
    /\ response_seq \in [Targets -> 0..SeqRange - 1]
    /\ client_paths \in [Ips -> [ClientSessions -> SUBSET (UdpPaths \cup TcpPaths)]]
    /\ conn_to_session \in [Connections -> 0..used]

NetworkOK ==
    /\ conns \in [Connections -> [client : BOOLEAN, server : BOOLEAN,
                                  up : Seq(Nat), down : Seq(Nat)]]
    /\ dialed \in [Endpoints("tcp") -> 0..MaxConns]
    /\ faults \in 0..MaxFaults

HistoryOK ==
    /\ sent \in Seq([session : 1..used, seq : 0..SeqRange - 1, n : Nat])
    /\ Len(sent) <= Len(PayloadLen)
    /\ passed \in [Targets -> Seq(1..Len(sent))]
    /\ forwarded \in [Targets -> SUBSET (1..Len(sent))]
    /\ refused \subseteq Targets \X (1..Len(sent))
    /\ answered \in Seq([target : 1..target, n : 0..SeqRange - 1])
    /\ Len(answered) <= MaxResponses
    /\ returned \in [ClientSessions -> SUBSET (1..Len(answered))]
    /\ unheard \subseteq ClientSessions \X (1..Len(answered))
    /\ served \in [Connections -> 0..used]

\* Types; the source's session is the last that was handed out, its connection
\* one that was dialed, and paths name only what the servers listen on.
TypeOK == cfg \in Configured /\ ClientOK /\ ServersOK /\ NetworkOK /\ HistoryOK

\* A frame that holds a packet the client sent, under its session and number and
\* with all of its payload; and one that holds a response, under its number.
HoldsPacket(frame) ==
    \E k \in 1..Len(sent) :
        /\ ~TooShort(frame)
        /\ decode_packet(frame) = [id |-> sent[k].session, seq |-> sent[k].seq,
                                   payload |-> [i \in 1..PayloadLen[k] |-> k]]

HoldsResponse(frame) ==
    \E r \in 1..Len(answered), s \in ClientSessions :
        /\ ~TooShort(frame)
        /\ decode_packet(frame) = [id |-> s, seq |-> answered[r].n,
                                   payload |-> [i \in 1..ResponseLen[r] |-> r]]

\* What is read from a connection is what was written to it, in both directions:
\* whatever lengths were written before, what is left of a stream is no part of
\* a frame and has no length of 0, and its next frame holds what was sent.
FramesIntact ==
    \A c \in Connections :
        /\ conns[c].up # <<>> =>
              HasFrame(conns[c].up) /\ HoldsPacket(FirstFrame(conns[c].up))
        /\ conns[c].down # <<>> =>
              HasFrame(conns[c].down) /\ HoldsResponse(FirstFrame(conns[c].down))

\* An ordinal comes before the first of a list, or the window's size behind one.
TooLate(n, ns, size) == n < ns[1] \/ \E i \in DOMAIN ns : n + size <= ns[i]

\* A server refuses a packet that never passed only because packets of the same
\* session overtook it: restarts, expiries and the numbers drawn at random
\* never make a new packet look like an old one.
RefusedOnlyLate ==
    [][\A x \in refused' \ refused :
          TooLate(sent[x[2]].n, [i \in DOMAIN passed[x[1]] |-> sent[passed[x[1]][i]].n],
                  cfg.dedup_window)]_vars

\* The client refuses a response it has not returned only because responses of
\* the same target session overtook it, or because its window has numbers of
\* another target session: the server restarted or expired the session, or a
\* stream still held responses of the source's previous session.
UnheardExplained ==
    [][\A x \in unheard' \ unheard :
          LET mine == answered[x[2]]
          IN  \E q \in returned[x[1]] :
                  \/ answered[q].target # mine.target
                  \/ answered[q].n > mine.n]_vars

\* A closed connection is still a path only of sessions older than the last it
\* served: those it was registered for before.
DeadPathsAreOld ==
    \A c \in Connections : ~conns[c].server =>
        \A s \in ClientSessions :
            PathOfConn(c) \in client_paths[c[1].host][s] => s < served[c]

\* The target sessions of a client session, wherever they are.
OpenAt(s) == {sessions[h][s] : h \in Ips} \ {0}

\* The relay as the source and the target see it.
OriginOf == [k \in 1..Len(sent) |-> sent[k].session]
OpenTargets == [s \in ClientSessions |-> OpenAt(s)]
PassedAt == [o \in Targets |-> {passed[o][i] : i \in DOMAIN passed[o]}]
AnswererOf == [r \in 1..Len(answered) |-> answered[r].target]

Promise == INSTANCE LossyRelay WITH
    Sessions <- ClientSessions,
    Packets  <- Packets,
    Targets  <- Targets,
    origin   <- OriginOf,
    open     <- OpenTargets,
    passed   <- PassedAt,
    answered <- AnswererOf,
    returned <- returned

\* No packet passes twice, or at a target session that is not the only one of
\* its session; no response is returned twice in a session, or was never given.
ImplementsLossyRelay == Promise!Spec

=============================================================================
