----------------------------- MODULE RustClient -----------------------------
(***************************************************************************)
(* The client of the Rust implementation (fproxy-rs/src/client.rs).        *)
(*                                                                         *)
(* Tasks: the listener, which handles the packets of all sources one after *)
(* the other; a receiver per UDP server; a reader per TCP connection; the  *)
(* sweeper.  A source has a UDP session (id, next sequence number, window  *)
(* of responses) that all its paths share, and a TCP session per TCP       *)
(* server.  A step is what a task does between two await points.  Two      *)
(* locks are kept over await points: udp_sessions while its reverse map    *)
(* udp_session_addrs is brought in line, by the listener and the sweeper,  *)
(* and tcp_sessions while the listener connects.                           *)
(*                                                                         *)
(* The clock is read with the write to last_activity, which the code does  *)
(* after a wait for the lock: a session may be found expired a little      *)
(* earlier there.  No safety proof looks at what makes a session expire.   *)
(*                                                                         *)
(* The servers answer any session they heard of, at any time, with any     *)
(* sequence number, repeatedly and in any order.                           *)
(***************************************************************************)
EXTENDS DedupWindow

CONSTANTS Sources,       \* addresses of local applications
          Senders,       \* UDP server endpoints
          TcpServers,    \* TCP server endpoints
          RespSeqs,      \* sequence numbers of responses (u32)
          None,          \* no address
          RespDedupSize, \* DEFAULT_RESPONSE_DEDUP_SIZE
          IdMod,         \* session ids are u64: the counter wraps at 2^64
          SeqMod,        \* sequence numbers are u32: they wrap at 2^32
          Timeout,       \* session_timeout
          FirstCounters, \* bound: the random values the id counter may start at
          MaxSessions,   \* bound: UDP sessions created in a behaviour
          MaxConns,      \* bound: TCP connections opened in a behaviour
          MaxTime,       \* bound: clock ticks
          Stoppable      \* bound: whether stop is called at all

ASSUME RespSeqsAssumption == RespSeqs \subseteq Nat
ASSUME SizeAssumption == RespDedupSize \in Nat \ {0}
ASSUME WidthAssumption == IdMod \in Nat \ {0, 1} /\ SeqMod \in Nat \ {0}
ASSUME FirstAssumption == FirstCounters \subseteq 0..IdMod - 1
ASSUME BoundsAssumption ==
    /\ Timeout \in Nat /\ MaxSessions \in Nat /\ MaxConns \in Nat
    /\ MaxTime \in Nat /\ Stoppable \in BOOLEAN
\* The 2^64 - 1 ids are not used up.
ASSUME IdsAssumption == MaxSessions < IdMod
ASSUME NamesAssumption ==
    None \notin Sources \cup TcpServers /\ Senders \cap 1..MaxConns = {}

Objs == 1..MaxSessions         \* UDP sessions, in the order of creation
ConnObjs == 1..MaxConns        \* TCP sessions, in the order of creation
Keys == Sources \X TcpServers  \* session_key
Receivers == Senders \cup ConnObjs

VARIABLES
    \* Client
    session_id_counter,
    udp_sessions,        \* the session of a source, 0 if absent
    udp_session_addrs,   \* the source of a session id, None if absent
    tcp_sessions,        \* the TCP session of a key, 0 if absent
    stopped,             \* cancel_token
    \* UdpSession
    created, id, source, seq, last_activity, response_dedup,
    \* TcpSession
    opened, key, tcp_last_activity, cancelled,
    carried,             \* the session ids sent over the connection
    \* tasks
    listener, receiver, sweep,
    \* the clock, and history
    now,
    delivered            \* responses forwarded, per session and number

udpmaps == <<session_id_counter, udp_sessions, udp_session_addrs>>
udpobjs == <<created, id, source, seq, last_activity, response_dedup>>
tcps == <<tcp_sessions, opened, key, tcp_last_activity, cancelled, carried>>
vars == <<udpmaps, udpobjs, tcps, stopped, listener, receiver, sweep, now, delivered>>

-----------------------------------------------------------------------------
(* Initial state *)

Listening == [pc |-> "recv", src |-> None, obj |-> 0, todo |-> {}, ep |-> None,
              conn |-> 0]
Receiving == [pc |-> "recv", sid |-> 0, seq |-> 0, src |-> None, obj |-> 0]
Returned == [Receiving EXCEPT !.pc = "done"]
Unborn == [Receiving EXCEPT !.pc = "unborn"]
Waiting == [pc |-> "wait", now |-> 0, expired |-> {}, cur |-> 0, keys |-> {}]

Init ==
    /\ session_id_counter \in FirstCounters
    /\ udp_sessions = [s \in Sources |-> 0]
    /\ udp_session_addrs = [i \in 0..IdMod - 1 |-> None]
    /\ tcp_sessions = [k \in Keys |-> 0]
    /\ stopped = FALSE
    /\ created = 0
    /\ id = [o \in Objs |-> 0]
    /\ source = [o \in Objs |-> None]
    /\ seq = [o \in Objs |-> 0]
    /\ last_activity = [o \in Objs |-> 0]
    /\ response_dedup = [o \in Objs |-> New]
    /\ opened = 0
    /\ key = [j \in ConnObjs |-> <<None, None>>]
    /\ tcp_last_activity = [j \in ConnObjs |-> 0]
    /\ cancelled = [j \in ConnObjs |-> FALSE]
    /\ carried = [j \in ConnObjs |-> {}]
    /\ listener = Listening
    /\ receiver = [r \in Receivers |-> IF r \in Senders THEN Receiving ELSE Unborn]
    /\ sweep = Waiting
    /\ now = 0
    /\ delivered = [o \in Objs |-> [q \in RespSeqs |-> 0]]

UdpWriteLocked == listener.pc = "reverse" \/ sweep.pc \in {"remove", "addr"}
TcpWriteLocked == listener.pc = "connect" \/ sweep.pc = "tremove"

-----------------------------------------------------------------------------
(* Packets from sources: handle_packet *)

Go(pc) == listener' = [listener EXCEPT !.pc = pc]

\* The next TCP server, or the next packet.
NextServer(todo) ==
    listener' = IF todo = {} THEN Listening
                ELSE [listener EXCEPT !.pc = "tlookup", !.todo = todo, !.ep = None,
                                      !.conn = 0]

RecvPacket(src) ==
    /\ listener.pc = "recv"
    /\ listener' = [Listening EXCEPT !.pc = "lookup", !.src = src]
    /\ UNCHANGED <<udpmaps, udpobjs, tcps, stopped, receiver, sweep, now, delivered>>

\* get_or_create_udp_session under the read lock.
Lookup ==
    LET o == udp_sessions[listener.src]
    IN  /\ listener.pc = "lookup"
        /\ ~UdpWriteLocked
        /\ listener' = [listener EXCEPT !.pc = IF o = 0 THEN "create" ELSE "seq", !.obj = o]
        /\ UNCHANGED <<udpmaps, udpobjs, tcps, stopped, receiver, sweep, now, delivered>>

\* Mutant: an id that wraps to 0 is replaced and the counter is not advanced.
NextIdOnce(c) ==
    LET n == (c + 1) % IdMod
    IN  [id |-> IF n = 0 THEN 1 ELSE n, counter |-> n]

\* fetch_add(1) + 1, and a second time when that is 0.
NextId(c) ==
    LET n == (c + 1) % IdMod
    IN  IF n = 0 THEN [id |-> 1, counter |-> 1] ELSE [id |-> n, counter |-> n]

\* get_or_create_udp_session under the write lock.  Only the listener creates
\* sessions, so the second look at the map finds what the first one found.
\* The first sequence number is random; 0 stands for it.
Create ==
    LET o == created + 1
        next == NextId(session_id_counter)
    IN  /\ listener.pc = "create"
        /\ ~UdpWriteLocked
        /\ created < MaxSessions
        /\ created' = o
        /\ session_id_counter' = next.counter
        /\ id' = [id EXCEPT ![o] = next.id]
        /\ source' = [source EXCEPT ![o] = listener.src]
        /\ seq' = [seq EXCEPT ![o] = 0]
        /\ last_activity' = [last_activity EXCEPT ![o] = now]
        /\ response_dedup' = [response_dedup EXCEPT ![o] = New]
        /\ udp_sessions' = [udp_sessions EXCEPT ![listener.src] = o]
        /\ listener' = [listener EXCEPT !.pc = "reverse", !.obj = o]
        /\ UNCHANGED <<udp_session_addrs, tcps, stopped, receiver, sweep, now, delivered>>

StoreReverse ==
    /\ listener.pc = "reverse"
    /\ udp_session_addrs' = [udp_session_addrs EXCEPT ![id[listener.obj]] = listener.src]
    /\ Go("seq")
    /\ UNCHANGED <<session_id_counter, udp_sessions, udpobjs, tcps, stopped, receiver,
                   sweep, now, delivered>>

\* Mutant: the number does not wrap.
TakeSeqUnbounded ==
    LET o == listener.obj
    IN  /\ listener.pc = "seq"
        /\ NextServer(TcpServers)
        /\ seq' = [seq EXCEPT ![o] = @ + 1]
        /\ last_activity' = [last_activity EXCEPT ![o] = now]
        /\ UNCHANGED <<udpmaps, created, id, source, response_dedup, tcps, stopped,
                       receiver, sweep, now, delivered>>

\* One sequence number for all paths, which no other task looks at; then the
\* activity; then handle_udp_transport, whose failed sends are logged.
TakeSeq ==
    LET o == listener.obj
    IN  /\ listener.pc = "seq"
        /\ NextServer(TcpServers)
        /\ seq' = [seq EXCEPT ![o] = (@ + 1) % SeqMod]
        /\ last_activity' = [last_activity EXCEPT ![o] = now]
        /\ UNCHANGED <<udpmaps, created, id, source, response_dedup, tcps, stopped,
                       receiver, sweep, now, delivered>>

\* get_or_create_tcp_session.  Only the listener opens connections: what the
\* read lock does not find, the write lock does not find.
LookupTcp(ep) ==
    LET j == tcp_sessions[<<listener.src, ep>>]
    IN  /\ listener.pc = "tlookup"
        /\ ~TcpWriteLocked
        /\ ep \in listener.todo
        /\ listener' = [listener EXCEPT !.pc = IF j = 0 THEN "connect" ELSE "ttouch",
                                        !.ep = ep, !.conn = j]
        /\ UNCHANGED <<udpmaps, udpobjs, tcps, stopped, receiver, sweep, now, delivered>>

Connect ==
    LET j == opened + 1
        k == <<listener.src, listener.ep>>
    IN  /\ listener.pc = "connect"
        /\ opened < MaxConns
        /\ opened' = j
        /\ key' = [key EXCEPT ![j] = k]
        /\ tcp_last_activity' = [tcp_last_activity EXCEPT ![j] = now]
        /\ cancelled' = [cancelled EXCEPT ![j] = FALSE]
        /\ carried' = [carried EXCEPT ![j] = {}]
        /\ tcp_sessions' = [tcp_sessions EXCEPT ![k] = j]
        /\ receiver' = [receiver EXCEPT ![j] = Receiving]
        /\ listener' = [listener EXCEPT !.pc = "ttouch", !.conn = j]
        /\ UNCHANGED <<udpmaps, udpobjs, stopped, sweep, now, delivered>>

ConnectFails ==
    /\ listener.pc = "connect"
    /\ NextServer(listener.todo \ {listener.ep})
    /\ UNCHANGED <<udpmaps, udpobjs, tcps, stopped, receiver, sweep, now, delivered>>

TouchTcp ==
    /\ listener.pc = "ttouch"
    /\ tcp_last_activity' = [tcp_last_activity EXCEPT ![listener.conn] = now]
    /\ Go("tsend")
    /\ UNCHANGED <<udpmaps, udpobjs, tcp_sessions, opened, key, cancelled, carried, stopped,
                   receiver, sweep, now, delivered>>

SendTcp ==
    /\ listener.pc = "tsend"
    /\ carried' = [carried EXCEPT ![listener.conn] = @ \cup {id[listener.obj]}]
    /\ NextServer(listener.todo \ {listener.ep})
    /\ UNCHANGED <<udpmaps, udpobjs, tcp_sessions, opened, key, tcp_last_activity, cancelled,
                   stopped, receiver, sweep, now, delivered>>

\* A failed write leaves the TCP session where it is; its reader will notice.
SendTcpFails ==
    /\ listener.pc = "tsend"
    /\ NextServer(listener.todo \ {listener.ep})
    /\ UNCHANGED <<udpmaps, udpobjs, tcps, stopped, receiver, sweep, now, delivered>>

-----------------------------------------------------------------------------
(* Responses: process_udp_response and process_tcp_response *)

Move(r, rec) == receiver' = [receiver EXCEPT ![r] = rec]

\* The source is found by the session id; an unknown id ends here.  Nothing is
\* kept from one response to the next, so a response counts as received when
\* its source is looked up.
RecvResponse(u, sid, q) ==
    LET src == udp_session_addrs[sid]
    IN  /\ receiver[u].pc = "recv"
        /\ Move(u, IF src = None THEN Receiving
                   ELSE [Receiving EXCEPT !.pc = "session", !.sid = sid, !.seq = q,
                                          !.src = src])
        /\ UNCHANGED <<udpmaps, udpobjs, tcps, stopped, listener, sweep, now, delivered>>

\* The two bytes of the length arrive; from here on the reader does not notice
\* that it was cancelled until the data has arrived.
ReadLength(j) ==
    /\ receiver[j].pc = "recv"
    /\ Move(j, [Receiving EXCEPT !.pc = "body"])
    /\ UNCHANGED <<udpmaps, udpobjs, tcps, stopped, listener, sweep, now, delivered>>

\* The source is the one the connection was opened for, whatever the id says.
ReadData(j, sid, q) ==
    /\ receiver[j].pc = "body"
    /\ sid \in carried[j]
    /\ Move(j, [Receiving EXCEPT !.pc = "session", !.sid = sid, !.seq = q,
                                 !.src = key[j][1]])
    /\ UNCHANGED <<udpmaps, udpobjs, tcps, stopped, listener, sweep, now, delivered>>

\* A frame that cannot be decoded is dropped.
DecodeFails(j) ==
    /\ receiver[j].pc = "body"
    /\ Move(j, Receiving)
    /\ UNCHANGED <<udpmaps, udpobjs, tcps, stopped, listener, sweep, now, delivered>>

\* The session is found by the source.
LookupSession(r) ==
    LET o == udp_sessions[receiver[r].src]
    IN  /\ receiver[r].pc = "session"
        /\ ~UdpWriteLocked
        /\ Move(r, IF o = 0 THEN Receiving
                   ELSE [receiver[r] EXCEPT !.pc = "dedup", !.obj = o])
        /\ UNCHANGED <<udpmaps, udpobjs, tcps, stopped, listener, sweep, now, delivered>>

\* Mutant: the number is looked up and not recorded.
DedupForgets(r) ==
    LET o == receiver[r].obj
        q == receiver[r].seq
    IN  /\ receiver[r].pc = "dedup"
        /\ Move(r, IF IsDuplicate(response_dedup[o], q) THEN Receiving
                   ELSE [receiver[r] EXCEPT !.pc = "touch"])
        /\ UNCHANGED <<udpmaps, udpobjs, tcps, stopped, listener, sweep, now, delivered>>

Dedup(r) ==
    LET o == receiver[r].obj
        q == receiver[r].seq
    IN  /\ receiver[r].pc = "dedup"
        /\ response_dedup' = [response_dedup EXCEPT ![o] = Mark(@, q, RespDedupSize)]
        /\ Move(r, IF IsDuplicate(response_dedup[o], q) THEN Receiving
                   ELSE [receiver[r] EXCEPT !.pc = "touch"])
        /\ UNCHANGED <<udpmaps, created, id, source, seq, last_activity, tcps, stopped,
                       listener, sweep, now, delivered>>

\* Only the UDP session's activity is updated, also for a response over TCP.
TouchResponse(r) ==
    /\ receiver[r].pc = "touch"
    /\ last_activity' = [last_activity EXCEPT ![receiver[r].obj] = now]
    /\ Move(r, [receiver[r] EXCEPT !.pc = "forward"])
    /\ UNCHANGED <<udpmaps, created, id, source, seq, response_dedup, tcps, stopped,
                   listener, sweep, now, delivered>>

Forward(r) ==
    /\ receiver[r].pc = "forward"
    /\ delivered' = [delivered EXCEPT ![receiver[r].obj][receiver[r].seq] = @ + 1]
    /\ Move(r, Receiving)
    /\ UNCHANGED <<udpmaps, udpobjs, tcps, stopped, listener, sweep, now>>

ForwardFails(r) ==
    /\ receiver[r].pc = "forward"
    /\ Move(r, Receiving)
    /\ UNCHANGED <<udpmaps, udpobjs, tcps, stopped, listener, sweep, now, delivered>>

-----------------------------------------------------------------------------
(* The end of a connection *)

\* End of stream, a read error or an invalid length.
ReaderEof(j) ==
    /\ receiver[j].pc \in {"recv", "body"}
    /\ Move(j, [Receiving EXCEPT !.pc = "cleanup"])
    /\ UNCHANGED <<udpmaps, udpobjs, tcps, stopped, listener, sweep, now, delivered>>

\* Mutant: the connection is dropped from the map and not cancelled.
CleanupSilently(j) ==
    /\ receiver[j].pc = "cleanup"
    /\ ~TcpWriteLocked
    /\ tcp_sessions' = [tcp_sessions EXCEPT ![key[j]] = 0]
    /\ Move(j, Returned)
    /\ UNCHANGED <<udpmaps, udpobjs, opened, key, tcp_last_activity, cancelled, carried,
                   stopped, listener, sweep, now, delivered>>

\* cleanup_tcp_session removes whatever the key leads to: a later connection,
\* if this one was swept and the source has sent again.
CleanupTcp(j) ==
    LET cur == tcp_sessions[key[j]]
    IN  /\ receiver[j].pc = "cleanup"
        /\ ~TcpWriteLocked
        /\ tcp_sessions' = [tcp_sessions EXCEPT ![key[j]] = 0]
        /\ cancelled' = [x \in ConnObjs |-> cancelled[x] \/ x = cur]
        /\ Move(j, Returned)
        /\ UNCHANGED <<udpmaps, udpobjs, opened, key, tcp_last_activity, carried, stopped,
                       listener, sweep, now, delivered>>

\* Mutant: the reader waits for its session's token only.
ReceiverExitOwnToken(r) ==
    /\ receiver[r].pc = "recv"
    /\ r \in ConnObjs /\ cancelled[r]
    /\ Move(r, Returned)
    /\ UNCHANGED <<udpmaps, udpobjs, tcps, stopped, listener, sweep, now, delivered>>

\* Receivers and readers wait for the client's token, readers for their
\* session's as well, which is not a child of it.
ReceiverExit(r) ==
    /\ receiver[r].pc = "recv"
    /\ stopped \/ (r \in ConnObjs /\ cancelled[r])
    /\ Move(r, Returned)
    /\ UNCHANGED <<udpmaps, udpobjs, tcps, stopped, listener, sweep, now, delivered>>

-----------------------------------------------------------------------------
(* Expiry: session_cleanup_loop *)

SweepTick ==
    /\ sweep.pc = "wait"
    /\ sweep' = [sweep EXCEPT !.pc = "scan", !.now = now]
    /\ UNCHANGED <<udpmaps, udpobjs, tcps, stopped, listener, receiver, now, delivered>>

Expired(o) == o # 0 /\ sweep.now - last_activity[o] > Timeout
TcpExpired(j) == j # 0 /\ sweep.now - tcp_last_activity[j] > Timeout

SweepScan ==
    LET expired == {udp_sessions[s] : s \in {x \in Sources : Expired(udp_sessions[x])}}
    IN  /\ sweep.pc = "scan"
        /\ ~UdpWriteLocked
        /\ sweep' = [sweep EXCEPT !.pc = IF expired = {} THEN "tcp" ELSE "remove",
                                  !.expired = expired]
        /\ UNCHANGED <<udpmaps, udpobjs, tcps, stopped, listener, receiver, now, delivered>>

SweepRemove(o) ==
    /\ sweep.pc = "remove"
    /\ o \in sweep.expired
    /\ udp_sessions' = [udp_sessions EXCEPT ![source[o]] = 0]
    /\ sweep' = [sweep EXCEPT !.pc = "addr", !.cur = o]
    /\ UNCHANGED <<session_id_counter, udp_session_addrs, udpobjs, tcps, stopped, listener,
                   receiver, now, delivered>>

\* Mutant: the reverse mapping is left in place.
SweepAddrKept ==
    LET rest == sweep.expired \ {sweep.cur}
    IN  /\ sweep.pc = "addr"
        /\ sweep' = [sweep EXCEPT !.pc = IF rest = {} THEN "tcp" ELSE "remove",
                                  !.expired = rest, !.cur = 0]
        /\ UNCHANGED <<udpmaps, udpobjs, tcps, stopped, listener, receiver, now, delivered>>

SweepAddr ==
    LET rest == sweep.expired \ {sweep.cur}
    IN  /\ sweep.pc = "addr"
        /\ udp_session_addrs' = [udp_session_addrs EXCEPT ![id[sweep.cur]] = None]
        /\ sweep' = [sweep EXCEPT !.pc = IF rest = {} THEN "tcp" ELSE "remove",
                                  !.expired = rest, !.cur = 0]
        /\ UNCHANGED <<session_id_counter, udp_sessions, udpobjs, tcps, stopped, listener,
                       receiver, now, delivered>>

\* The TCP sessions are judged by their own activity.  The lock is kept until
\* they are removed, but a session found before is still used meanwhile.
SweepTcpScan ==
    /\ sweep.pc = "tcp"
    /\ ~TcpWriteLocked
    /\ sweep' = [sweep EXCEPT !.pc = "tremove",
                             !.keys = {k \in Keys : TcpExpired(tcp_sessions[k])}]
    /\ UNCHANGED <<udpmaps, udpobjs, tcps, stopped, listener, receiver, now, delivered>>

SweepTcpRemove ==
    LET old == {tcp_sessions[k] : k \in sweep.keys}
    IN  /\ sweep.pc = "tremove"
        /\ tcp_sessions' = [k \in Keys |-> IF k \in sweep.keys THEN 0 ELSE tcp_sessions[k]]
        /\ cancelled' = [j \in ConnObjs |-> cancelled[j] \/ j \in old]
        /\ sweep' = Waiting
        /\ UNCHANGED <<udpmaps, udpobjs, opened, key, tcp_last_activity, carried, stopped,
                       listener, receiver, now, delivered>>

-----------------------------------------------------------------------------
(* Time and shutdown *)

Tick ==
    /\ now < MaxTime
    /\ now' = now + 1
    /\ UNCHANGED <<udpmaps, udpobjs, tcps, stopped, listener, receiver, sweep, delivered>>

Stop ==
    /\ Stoppable /\ ~stopped
    /\ stopped' = TRUE
    /\ UNCHANGED <<udpmaps, udpobjs, tcps, listener, receiver, sweep, now, delivered>>

ListenerExit ==
    /\ stopped
    /\ listener.pc = "recv"
    /\ Go("done")
    /\ UNCHANGED <<udpmaps, udpobjs, tcps, stopped, receiver, sweep, now, delivered>>

SweepExit ==
    /\ stopped
    /\ sweep.pc = "wait"
    /\ sweep' = [sweep EXCEPT !.pc = "done"]
    /\ UNCHANGED <<udpmaps, udpobjs, tcps, stopped, listener, receiver, now, delivered>>

Drained ==
    /\ listener.pc = "done" /\ sweep.pc = "done"
    /\ \A r \in Receivers : receiver[r].pc \in {"unborn", "done"}

\* The listener waits to create a session beyond the bound.
AtBound == listener.pc = "create" /\ created = MaxSessions

Terminated == (Drained \/ AtBound) /\ UNCHANGED vars

-----------------------------------------------------------------------------
(* The specification *)

\* Steps of the listener that wait for no peer.
ListenerStep ==
    \/ Lookup \/ Create \/ StoreReverse \/ TakeSeq \/ TouchTcp
    \/ \E ep \in TcpServers : LookupTcp(ep)

ReceiverStep(r) ==
    LookupSession(r) \/ Dedup(r) \/ TouchResponse(r) \/ Forward(r) \/ ForwardFails(r)

SweepStep ==
    \/ SweepTick \/ SweepScan \/ SweepAddr \/ SweepTcpScan \/ SweepTcpRemove
    \/ \E o \in Objs : SweepRemove(o)

\* The ids the servers have heard of.
KnownIds == {id[o] : o \in 1..created}

Next ==
    \/ \E src \in Sources : RecvPacket(src)
    \/ ListenerStep \/ Connect \/ ConnectFails \/ SendTcp \/ SendTcpFails
    \/ \E u \in Senders, q \in RespSeqs : \E sid \in KnownIds : RecvResponse(u, sid, q)
    \/ \E j \in ConnObjs : ReadLength(j) \/ DecodeFails(j) \/ ReaderEof(j) \/ CleanupTcp(j)
    \/ \E j \in ConnObjs, q \in RespSeqs : \E sid \in KnownIds : ReadData(j, sid, q)
    \/ \E r \in Receivers : ReceiverStep(r) \/ ReceiverExit(r)
    \/ SweepStep \/ SweepExit
    \/ Tick \/ Stop \/ ListenerExit \/ Terminated

Spec == Init /\ [][Next]_vars

\* A task's internal steps are strongly fair, since tokio's locks are granted
\* in the order of the requests, and so are the exits, one branch of a select!.
\* A connection attempt ends: the operating system gives up.
\* Nothing is assumed of sources, servers, the clock or a write to a connection.
Fairness ==
    /\ SF_vars(ListenerStep) /\ SF_vars(ListenerExit) /\ WF_vars(Connect \/ ConnectFails)
    /\ \A u \in Senders : SF_vars(ReceiverStep(u))
    /\ \A j \in ConnObjs : SF_vars(CleanupTcp(j) \/ ReceiverStep(j))
    /\ \A r \in Receivers : SF_vars(ReceiverExit(r))
    /\ SF_vars(SweepStep) /\ SF_vars(SweepExit)

FairSpec == Spec /\ Fairness

-----------------------------------------------------------------------------
(* Properties *)

ListenerPCs == {"recv", "lookup", "create", "reverse", "seq", "tlookup", "connect",
                "ttouch", "tsend", "done"}
ReceiverPCs == {"unborn", "recv", "body", "session", "dedup", "touch", "forward",
                "cleanup", "done"}
SweepPCs == {"wait", "scan", "remove", "addr", "tcp", "tremove", "done"}

Sending == {"reverse", "seq", "tlookup", "connect", "ttouch", "tsend"}
Connecting == {"connect", "ttouch", "tsend"}
Judged == {"dedup", "touch", "forward"}

UdpOK ==
    /\ created \in 0..MaxSessions
    /\ session_id_counter \in 0..IdMod - 1
    /\ udp_sessions \in [Sources -> 0..created]
    /\ udp_session_addrs \in [0..IdMod - 1 -> Sources \cup {None}]
    /\ id \in [Objs -> 0..IdMod - 1] /\ source \in [Objs -> Sources \cup {None}]
    /\ \A o \in 1..created : id[o] # 0 /\ source[o] # None
    /\ seq \in [Objs -> 0..SeqMod - 1] /\ last_activity \in [Objs -> Nat]
    /\ response_dedup \in [Objs -> Window]

TcpOK ==
    /\ opened \in 0..MaxConns
    /\ tcp_sessions \in [Keys -> 0..opened]
    /\ key \in [ConnObjs -> Keys \cup {<<None, None>>}]
    /\ \A j \in 1..opened : key[j] \in Keys
    /\ tcp_last_activity \in [ConnObjs -> Nat] /\ cancelled \in [ConnObjs -> BOOLEAN]
    /\ carried \in [ConnObjs -> SUBSET (1..IdMod - 1)]

ListenerOK ==
    /\ listener \in [pc : ListenerPCs, src : Sources \cup {None}, obj : 0..created,
                     todo : SUBSET TcpServers, ep : TcpServers \cup {None},
                     conn : 0..opened]
    /\ listener.pc \notin {"recv", "done"} => listener.src # None
    /\ listener.pc \in Sending => listener.obj # 0
    /\ listener.pc \in Connecting => listener.ep # None
    /\ listener.pc \in {"ttouch", "tsend"} => listener.conn # 0

ReceiverOK(r, rec) ==
    /\ rec \in [pc : ReceiverPCs, sid : 0..IdMod - 1, seq : {0} \cup RespSeqs,
               src : Sources \cup {None}, obj : 0..created]
    /\ rec.pc \in {"session"} \cup Judged => rec.src # None /\ rec.seq \in RespSeqs
    /\ rec.pc \in Judged => rec.obj # 0
    /\ r \in ConnObjs => (rec.pc # "unborn" <=> r <= opened)

ReceiversOK ==
    /\ receiver = [r \in Receivers |-> receiver[r]]
    /\ \A r \in Receivers : ReceiverOK(r, receiver[r])

SweepOK ==
    sweep \in [pc : SweepPCs, now : Nat, expired : SUBSET (1..created), cur : 0..created,
              keys : SUBSET Keys]

\* The listener knows the session and the connection it sends on, a receiver
\* past the lookup the session it works on, and only connections that were
\* opened have a reader.
TypeOK ==
    /\ UdpOK /\ TcpOK /\ ListenerOK /\ ReceiversOK /\ SweepOK
    /\ stopped \in BOOLEAN /\ now \in Nat
    /\ delivered \in [Objs -> [RespSeqs -> Nat]]

\* A source that has a session has one whose id leads back to it, and no other
\* id leads to it, whenever no task is changing the two maps.
ReverseMapAgrees ==
    ~UdpWriteLocked =>
        \A i \in 0..IdMod - 1, s \in Sources :
            udp_session_addrs[i] = s <=> udp_sessions[s] # 0 /\ id[udp_sessions[s]] = i

\* Session ids are never 0 and never shared, also after the counter wrapped.
IdsDistinct ==
    \A o1, o2 \in 1..created : id[o1] # 0 /\ (o1 # o2 => id[o1] # id[o2])

\* Whatever paths a response arrives on, and how often, the source receives
\* each number of a session at most once.
ResponseOnce == \A o \in Objs, q \in RespSeqs : delivered[o][q] <= 1

\* A response is forwarded only to the source its session id was made for, and
\* the window that judges it is one of that source's.
ResponseToOwner ==
    \A r \in Receivers : receiver[r].pc \in Judged =>
        \A o \in 1..created :
            id[o] = receiver[r].sid \/ o = receiver[r].obj => source[o] = receiver[r].src

\* A source has one connection to a TCP server that is not cancelled: the one
\* in the map.  Connections that were swept, failed or were mistaken for
\* another one of the same key are all told to close.
OneConnPerKey ==
    \A j \in 1..opened : ~cancelled[j] <=> tcp_sessions[key[j]] = j

\* Again and again, every task that was told to end has ended or waits for a
\* server: a reader for the rest of a frame, the listener for a write.  stop
\* tells all tasks, and cancelling a connection tells its reader.
TheToldHaveEnded ==
    /\ \A j \in ConnObjs :
          cancelled[j] \/ stopped => receiver[j].pc \in {"unborn", "body", "done"}
    /\ stopped => /\ listener.pc \in {"done", "tsend"} \/ AtBound
                  /\ sweep.pc = "done"
                  /\ \A u \in Senders : receiver[u].pc = "done"

ToldTasksEnd == []<>TheToldHaveEnded

\* The client as sources and servers see it.
Promise == INSTANCE SourceSessions WITH
    Servers  <- TcpServers,
    Ids      <- 1..IdMod - 1,
    Seqs     <- RespSeqs,
    Sessions <- Objs,
    Conns    <- ConnObjs,
    session  <- udp_sessions,
    opened   <- 1..created,
    dialed   <- 1..opened,
    alive    <- {j \in 1..opened : ~cancelled[j]},
    heard    <- carried,
    received <- delivered

\* Whatever tasks do at the same time, every step opens a session under a new
\* id for a source that has none, or closes one, dials a server to which the
\* source has no connection that goes on, tells connections to close, sends
\* over one a session of the source it is for, returns a number of a session
\* for the first time, or changes nothing that sources and servers see.
ImplementsSourceSessions == Promise!Spec

-----------------------------------------------------------------------------
(* The inductive invariants *)

\* The value the counter had d sessions ago.
Back(c, d) == IF c > d THEN c - d ELSE c - d + IdMod - 1

\* The ids are the last values of the counter, in order.
IdsCounted ==
    /\ created # 0 => session_id_counter # 0
    /\ \A o \in 1..created : id[o] = Back(session_id_counter, created - o)

\* The map, and the listener, lead from a source to a session made for it.
SessionOwner ==
    /\ \A s \in Sources : udp_sessions[s] # 0 => source[udp_sessions[s]] = s
    /\ listener.pc \in Sending => source[listener.obj] = listener.src

\* Nobody creates a session behind the listener's back, or touches the maps
\* while another task brings them in line.
OneWriter ==
    /\ listener.pc = "create" => udp_sessions[listener.src] = 0
    /\ listener.pc = "reverse" =>
          /\ udp_sessions[listener.src] = listener.obj
          /\ sweep.pc \notin {"remove", "addr"}
    /\ sweep.pc \in {"remove", "addr"} =>
          \A o \in sweep.expired :
             udp_sessions[source[o]] = IF sweep.pc = "addr" /\ o = sweep.cur THEN 0 ELSE o
    /\ sweep.pc = "addr" => sweep.cur \in sweep.expired

\* What the reverse map says of an id, also between the changes of the two maps:
\* a new session's id leads nowhere yet, that of a removed one still to its source.
LeadsTo(i, s) ==
    IF listener.pc = "reverse" /\ i = id[listener.obj] THEN FALSE
    ELSE IF sweep.pc = "addr" /\ i = id[sweep.cur] THEN s = source[sweep.cur]
    ELSE udp_sessions[s] # 0 /\ id[udp_sessions[s]] = i

MapsInLine ==
    \A i \in 0..IdMod - 1, s \in Sources : udp_session_addrs[i] = s <=> LeadsTo(i, s)

SessionInv == IdsCounted /\ SessionOwner /\ OneWriter /\ MapsInLine

\* A session of the source had the id.
MadeFor(i, s) == \E o \in 1..created : id[o] = i /\ source[o] = s

\* The map leads from a key to a connection opened for it, the listener writes
\* to one, and finds none when it is about to open one.
ConnOwner ==
    /\ \A k \in Keys : tcp_sessions[k] # 0 => key[tcp_sessions[k]] = k
    /\ listener.pc \in {"ttouch", "tsend"} =>
          key[listener.conn] = <<listener.src, listener.ep>>
    /\ listener.pc = "connect" => tcp_sessions[<<listener.src, listener.ep>>] = 0

\* Wherever a session id is kept, it is kept for the source it was made for.
AddrsMadeFor ==
    \A i \in 0..IdMod - 1 :
        udp_session_addrs[i] # None => MadeFor(i, udp_session_addrs[i])

CarriedMadeFor == \A j \in 1..opened : \A i \in carried[j] : MadeFor(i, key[j][1])

ReceivedMadeFor ==
    \A r \in Receivers : receiver[r].pc \in {"session"} \cup Judged =>
        MadeFor(receiver[r].sid, receiver[r].src)

\* A window is used for a response to the source it was made for.
JudgedBySource ==
    \A r \in Receivers : receiver[r].pc \in Judged =>
        source[receiver[r].obj] = receiver[r].src

RoutingInv ==
    /\ ConnOwner /\ OneConnPerKey
    /\ AddrsMadeFor /\ CarriedMadeFor /\ ReceivedMadeFor /\ JudgedBySource

\* The response of receiver r passed the window and is not forwarded yet.
Passed(r) == receiver[r].pc \in {"touch", "forward"}

WindowsOK == \A o \in Objs : WellFormed(response_dedup[o])

\* A response on its way to the source is recorded in the window and was not
\* delivered; no other receiver has the same one.
PassedOnce ==
    /\ \A r \in Receivers : Passed(r) =>
          /\ IsDuplicate(response_dedup[receiver[r].obj], receiver[r].seq)
          /\ delivered[receiver[r].obj][receiver[r].seq] = 0
    /\ \A r1, r2 \in Receivers :
          Passed(r1) /\ Passed(r2) /\ receiver[r1].obj = receiver[r2].obj
              /\ receiver[r1].seq = receiver[r2].seq => r1 = r2

\* What was delivered is recorded, and nothing was for a session to come.
DeliveredOnce ==
    \A o \in Objs, q \in RespSeqs :
        /\ delivered[o][q] <= 1
        /\ delivered[o][q] # 0 => o <= created /\ IsDuplicate(response_dedup[o], q)

ResponseInv == WindowsOK /\ PassedOnce /\ DeliveredOnce

-----------------------------------------------------------------------------
(* Statements of the documentation that the code does not keep *)

\* spec.md: a response with an unknown session id is discarded.  A response is
\* judged by the window of the session it belongs to.
ResponseOfItsSession ==
    \A r \in Receivers : receiver[r].pc \in {"touch", "forward"} =>
        id[receiver[r].obj] = receiver[r].sid

=============================================================================
