----------------------------- MODULE RustServer -----------------------------
(***************************************************************************)
(* The server of the Rust implementation (fproxy-rs/src/server.rs).        *)
(*                                                                         *)
(* Tasks: one per UDP listener, one per TCP connection, the TCP accept     *)
(* loop, one response handler per session, and the sweeper that expires    *)
(* sessions.  They share three maps, each behind its own RwLock, and the   *)
(* fields of the sessions.  A step is what a task does between two await   *)
(* points: one critical section, one socket operation.  In                 *)
(* `*last_activity.write().await = Instant::now()` the clock is read first *)
(* and the lock awaited then, so reading and writing are two steps.  Only  *)
(* the lock of sessions is kept by a task that waits for another one: by   *)
(* the sweeper for writing, by a handler that writes last_activity for     *)
(* reading; so that lock is the only one modelled as held.                 *)
(*                                                                         *)
(* The environment offers any packet at any time: the datagrams and frames *)
(* that reach the server are those of a network that may lose, duplicate,  *)
(* delay and reorder.  Payloads are not represented.                       *)
(***************************************************************************)
EXTENDS DedupWindow

CONSTANTS SessionIds,    \* session ids chosen by clients (u64)
          Seqs,          \* sequence numbers of request packets (u32)
          Listeners,     \* UDP listeners
          Conns,         \* conn_id: the address of a TCP connection's writer
          Addrs,         \* addresses a client may send datagrams from
          None,          \* no session id, no address
          DedupSize,     \* dedup_window
          Timeout,       \* session_timeout
          MaxSessions,   \* bound: target sessions created in a behaviour
          MaxTime,       \* bound: clock ticks
          MaxResponses,  \* bound: responses numbered per session
          Stoppable      \* bound: whether stop is called at all

ASSUME SeqsAssumption == Seqs \subseteq Nat
ASSUME SizeAssumption == DedupSize \in Nat \ {0}
ASSUME BoundsAssumption ==
    /\ Timeout \in Nat /\ MaxSessions \in Nat
    /\ MaxTime \in Nat /\ MaxResponses \in Nat
    /\ Stoppable \in BOOLEAN
ASSUME NamesAssumption ==
    /\ Listeners \cap Conns = {}
    /\ None \notin SessionIds \cup Addrs

Tasks == Listeners \cup Conns

\* Target sessions, numbered in the order of creation.  0 is no session.
Objs == 1..MaxSessions

\* ClientPath: a datagram path is a listener and the client's address, a
\* stream path is the connection.
Paths == [ep : Listeners, addr : Addrs] \cup [ep : Conns, addr : {None}]

VARIABLES
    \* Server
    sessions,              \* the session of an id, 0 if absent
    client_paths,          \* the paths of an id ({} if absent: no code tells them apart)
    tcp_conn_to_session,   \* the id a connection last registered a path for
    stopped,               \* the server's cancel_token
    \* TargetSession
    created,               \* how many were created
    owner,                 \* the id it was created for
    window, response_seq, last_activity,
    cancelled,             \* its cancel_token
    \* tasks
    task,                  \* listeners and connections
    accepting,             \* the TCP accept loop runs
    handler,               \* response handlers, one per session
    sweep,                 \* the sweeper
    \* the clock, and history
    now,
    forwarded,             \* datagrams sent to the target, per session and number
    heard,                 \* <<id, path>> pairs on which a packet arrived
    numbered,              \* numbers drawn from the counter of each session
    idle                   \* sessions the sweep found idle and nobody found since

maps == <<sessions, client_paths, tcp_conn_to_session>>
objects == <<created, owner, window, response_seq, last_activity, cancelled>>
history == <<forwarded, heard, numbered, idle>>
vars == <<maps, objects, history, stopped, task, accepting, handler, sweep, now>>

-----------------------------------------------------------------------------
(* Initial state *)

Resting == [pc |-> "recv", sid |-> None, seq |-> 0, addr |-> None, obj |-> 0, at |-> 0]
Closed  == [Resting EXCEPT !.pc = "closed"]
Waiting == [pc |-> "wait", now |-> 0, expired |-> {}, cur |-> None]
Selecting == [pc |-> "select", obj |-> 0, seq |-> 0, paths |-> {}, at |-> 0]
Unborn == [Selecting EXCEPT !.pc = "unborn"]
Returned == [Selecting EXCEPT !.pc = "done"]

Init ==
    /\ sessions = [s \in SessionIds |-> 0]
    /\ client_paths = [s \in SessionIds |-> {}]
    /\ tcp_conn_to_session = [c \in Conns |-> None]
    /\ stopped = FALSE
    /\ created = 0
    /\ owner = [o \in Objs |-> None]
    /\ window = [o \in Objs |-> New]
    /\ response_seq = [o \in Objs |-> 0]
    /\ last_activity = [o \in Objs |-> 0]
    /\ cancelled = [o \in Objs |-> FALSE]
    /\ task = [t \in Tasks |-> IF t \in Listeners THEN Resting ELSE Closed]
    /\ accepting = TRUE
    /\ handler = [o \in Objs |-> Unborn]
    /\ sweep = Waiting
    /\ now = 0
    /\ forwarded = [o \in Objs |-> [q \in Seqs |-> 0]]
    /\ heard = {}
    /\ numbered = [o \in Objs |-> {}]
    /\ idle = {}

Goto(t, pc) == task' = [task EXCEPT ![t] = [@ EXCEPT !.pc = pc]]
Rest(t) == task' = [task EXCEPT ![t] = Resting]

\* Mutant: the sweep lists under a read lock and removes under a write lock.
SessionsWriteLockedLate == sweep.pc = "paths"

\* The sweeper holds the sessions lock from the scan to the last removal.
SessionsWriteLocked == sweep.pc \in {"remove", "paths"}

\* A handler holds it while it waits for the lock of last_activity.
SessionsReadLocked == \E o \in Objs : handler[o].pc = "stamp"

SessionsFree == ~SessionsWriteLocked /\ ~SessionsReadLocked

-----------------------------------------------------------------------------
(* Packets from clients *)

Packet(t, sid, seq, addr) ==
    /\ task' = [task EXCEPT ![t] = [pc |-> "lookup", sid |-> sid, seq |-> seq,
                                    addr |-> addr, obj |-> 0, at |-> 0]]
    /\ heard' = heard \cup {<<sid, [ep |-> t, addr |-> addr]>>}

\* A datagram.  select! takes a ready branch at random, so a datagram can
\* still be taken after the server was stopped.
RecvUdp(u, sid, seq, addr) ==
    /\ task[u].pc = "recv"
    /\ Packet(u, sid, seq, addr)
    /\ UNCHANGED <<maps, objects, forwarded, numbered, idle, stopped, accepting, handler,
                   sweep, now>>

\* A connection's id is the address of its writer, which cannot be given to a
\* new connection while a path, or a handler's copy of one, keeps it alive.
ConnIdFree(c) ==
    /\ \A s \in SessionIds : \A p \in client_paths[s] : p.ep # c
    /\ \A o \in Objs : \A p \in handler[o].paths : p.ep # c

AcceptTcp(c) ==
    /\ accepting
    /\ task[c].pc = "closed"
    /\ ConnIdFree(c)
    /\ Rest(c)
    /\ UNCHANGED <<maps, objects, history, stopped, accepting, handler, sweep, now>>

\* The two bytes of the length arrive.  The data is read outside select!: from
\* here the task does not notice that the server was stopped.
ReadLength(c) ==
    /\ task[c].pc = "recv"
    /\ Goto(c, "body")
    /\ UNCHANGED <<maps, objects, history, stopped, accepting, handler, sweep, now>>

ReadData(c, sid, seq) ==
    /\ task[c].pc = "body"
    /\ Packet(c, sid, seq, None)
    /\ UNCHANGED <<maps, objects, forwarded, numbered, idle, stopped, accepting, handler,
                   sweep, now>>

\* A frame that cannot be decoded is dropped.
DecodeFails(c) ==
    /\ task[c].pc = "body"
    /\ Rest(c)
    /\ UNCHANGED <<maps, objects, history, stopped, accepting, handler, sweep, now>>

\* Mutant: a miss under the read lock is taken for a hit.
LookupAssumesHit(t) ==
    /\ task[t].pc = "lookup"
    /\ ~SessionsWriteLocked
    /\ task' = [task EXCEPT ![t] = [@ EXCEPT !.pc = "touch", !.obj = sessions[task[t].sid]]]
    /\ UNCHANGED <<maps, objects, history, stopped, accepting, handler, sweep, now>>

\* get_or_create_session under the read lock.
Lookup(t) ==
    /\ task[t].pc = "lookup"
    /\ ~SessionsWriteLocked
    /\ LET o == sessions[task[t].sid]
       IN  task' = [task EXCEPT ![t] =
                    [@ EXCEPT !.pc = IF o = 0 THEN "create" ELSE "touch", !.obj = o]]
           /\ idle' = idle \ {o}
    /\ UNCHANGED <<maps, objects, forwarded, heard, numbered, stopped, accepting, handler,
                   sweep, now>>

\* Another task created the session between the two locks.
CreateFindsOne(t) ==
    /\ task[t].pc = "create"
    /\ SessionsFree
    /\ sessions[task[t].sid] # 0
    /\ task' = [task EXCEPT ![t] = [@ EXCEPT !.pc = "touch", !.obj = sessions[task[t].sid]]]
    /\ idle' = idle \ {sessions[task[t].sid]}
    /\ UNCHANGED <<maps, objects, forwarded, heard, numbered, stopped, accepting, handler,
                   sweep, now>>

\* Creates the session numbered created + 1 and starts its handler.
NewSession(t) ==
    LET o == created + 1
        sid == task[t].sid
    IN  /\ created < MaxSessions
        /\ created' = o
        /\ sessions' = [sessions EXCEPT ![sid] = o]
        /\ owner' = [owner EXCEPT ![o] = sid]
        /\ window' = [window EXCEPT ![o] = New]
        /\ response_seq' = [response_seq EXCEPT ![o] = 0]
        /\ last_activity' = [last_activity EXCEPT ![o] = now]
        /\ cancelled' = [cancelled EXCEPT ![o] = FALSE]
        /\ handler' = [handler EXCEPT ![o] = Selecting]
        /\ task' = [task EXCEPT ![t] = [@ EXCEPT !.pc = "touch", !.obj = o]]

\* Mutant: the second look at the map, under the write lock, is left out.
CreateUnchecked(t) ==
    /\ task[t].pc = "create"
    /\ SessionsFree
    /\ NewSession(t)
    /\ UNCHANGED <<client_paths, tcp_conn_to_session, history, stopped, accepting,
                   sweep, now>>

\* get_or_create_session under the write lock.
Create(t) ==
    /\ task[t].pc = "create"
    /\ SessionsFree
    /\ sessions[task[t].sid] = 0
    /\ NewSession(t)
    /\ UNCHANGED <<client_paths, tcp_conn_to_session, history, stopped, accepting,
                   sweep, now>>

\* The target socket cannot be bound or connected: the packet is dropped.
CreateFails(t) ==
    /\ task[t].pc = "create"
    /\ SessionsFree
    /\ sessions[task[t].sid] = 0
    /\ Rest(t)
    /\ UNCHANGED <<maps, objects, history, stopped, accepting, handler, sweep, now>>

\* The clock is read.
Touch(t) ==
    /\ task[t].pc = "touch"
    /\ task' = [task EXCEPT ![t] = [@ EXCEPT !.pc = "stamp", !.at = now]]
    /\ UNCHANGED <<maps, objects, history, stopped, accepting, handler, sweep, now>>

\* What was read is written, late or not: another task may have written a later
\* time, and the sweep may have listed the session.
Stamp(t) ==
    /\ task[t].pc = "stamp"
    /\ last_activity' = [last_activity EXCEPT ![task[t].obj] = task[t].at]
    /\ task' = [task EXCEPT ![t] = [@ EXCEPT !.pc = "dedup", !.at = 0]]
    /\ UNCHANGED <<maps, created, owner, window, response_seq, cancelled, history,
                   stopped, accepting, handler, sweep, now>>

\* Mutant: the number is looked up and not recorded.
DedupForgets(t) ==
    LET o == task[t].obj
        q == task[t].seq
    IN  /\ task[t].pc = "dedup"
        /\ IF IsDuplicate(window[o], q) THEN Rest(t)
           ELSE Goto(t, IF t \in Conns THEN "track" ELSE "path")
        /\ UNCHANGED <<maps, objects, history, stopped, accepting, handler, sweep, now>>

\* A duplicate is dropped before its path is registered.
Dedup(t) ==
    LET o == task[t].obj
        q == task[t].seq
    IN  /\ task[t].pc = "dedup"
        /\ window' = [window EXCEPT ![o] = Mark(@, q, DedupSize)]
        /\ IF IsDuplicate(window[o], q) THEN Rest(t)
           ELSE Goto(t, IF t \in Conns THEN "track" ELSE "path")
        /\ UNCHANGED <<maps, created, owner, response_seq, last_activity, cancelled,
                       history, stopped, accepting, handler, sweep, now>>

\* The first half of add_tcp_path.
Track(c) ==
    /\ task[c].pc = "track"
    /\ tcp_conn_to_session' = [tcp_conn_to_session EXCEPT ![c] = task[c].sid]
    /\ Goto(c, "path")
    /\ UNCHANGED <<sessions, client_paths, objects, history, stopped, accepting,
                   handler, sweep, now>>

\* A path set with p: the same listener has its address updated, the same
\* connection is already there, any other path is appended.
WithPath(ps, p) == {q \in ps : q.ep # p.ep} \cup {p}

\* add_udp_path, and the second half of add_tcp_path.
AddPath(t) ==
    LET p == [ep |-> t, addr |-> task[t].addr]
    IN  /\ task[t].pc = "path"
        /\ client_paths' = [client_paths EXCEPT ![task[t].sid] = WithPath(@, p)]
        /\ Goto(t, "forward")
        /\ UNCHANGED <<sessions, tcp_conn_to_session, objects, history, stopped,
                       accepting, handler, sweep, now>>

Forward(t) ==
    /\ task[t].pc = "forward"
    /\ forwarded' = [forwarded EXCEPT ![task[t].obj][task[t].seq] = @ + 1]
    /\ Rest(t)
    /\ UNCHANGED <<maps, objects, heard, numbered, idle, stopped, accepting, handler, sweep,
                   now>>

ForwardFails(t) ==
    /\ task[t].pc = "forward"
    /\ Rest(t)
    /\ UNCHANGED <<maps, objects, history, stopped, accepting, handler, sweep, now>>

-----------------------------------------------------------------------------
(* The end of a connection *)

\* End of stream, a read error or an invalid length.
TcpClose(c) ==
    /\ task[c].pc \in {"recv", "body"}
    /\ task' = [task EXCEPT ![c] = [Resting EXCEPT !.pc = "untrack"]]
    /\ UNCHANGED <<maps, objects, history, stopped, accepting, handler, sweep, now>>

\* Mutant: the connection is looked up and not removed.
UntrackKeeps(c) ==
    LET sid == tcp_conn_to_session[c]
    IN  /\ task[c].pc = "untrack"
        /\ task' = [task EXCEPT ![c] = IF sid = None THEN Closed
                                       ELSE [@ EXCEPT !.pc = "unpath", !.sid = sid]]
        /\ UNCHANGED <<maps, objects, history, stopped, accepting, handler, sweep, now>>

\* cleanup_tcp_conn, first section.
Untrack(c) ==
    LET sid == tcp_conn_to_session[c]
    IN  /\ task[c].pc = "untrack"
        /\ tcp_conn_to_session' = [tcp_conn_to_session EXCEPT ![c] = None]
        /\ task' = [task EXCEPT ![c] = IF sid = None THEN Closed
                                       ELSE [@ EXCEPT !.pc = "unpath", !.sid = sid]]
        /\ UNCHANGED <<sessions, client_paths, objects, history, stopped, accepting,
                       handler, sweep, now>>

\* cleanup_tcp_conn, second section.
Unpath(c) ==
    /\ task[c].pc = "unpath"
    /\ client_paths' = [client_paths EXCEPT ![task[c].sid] = {p \in @ : p.ep # c}]
    /\ task' = [task EXCEPT ![c] = Closed]
    /\ UNCHANGED <<sessions, tcp_conn_to_session, objects, history, stopped, accepting,
                   handler, sweep, now>>

-----------------------------------------------------------------------------
(* Responses from the target: handle_target_response *)

RespGoto(o, pc) == handler' = [handler EXCEPT ![o] = [@ EXCEPT !.pc = pc]]

\* The bound on responses: neither the session nor its successor is full.
MayRespond(o) ==
    \A x \in {o, sessions[owner[o]]} \ {0} : response_seq[x] < MaxResponses

RecvTarget(o) ==
    /\ handler[o].pc = "select"
    /\ MayRespond(o)
    /\ RespGoto(o, "touch")
    /\ UNCHANGED <<maps, objects, history, stopped, task, accepting, sweep, now>>

\* A read error ends the handler and leaves the session in the map.
HandlerError(o) ==
    /\ handler[o].pc = "select"
    /\ handler' = [handler EXCEPT ![o] = Returned]
    /\ UNCHANGED <<maps, objects, history, stopped, task, accepting, sweep, now>>

\* Mutant: the handler waits for the server's token only.
HandlerExitServerToken(o) ==
    /\ handler[o].pc = "select"
    /\ stopped
    /\ handler' = [handler EXCEPT ![o] = Returned]
    /\ UNCHANGED <<maps, objects, history, stopped, task, accepting, sweep, now>>

\* Mutant: the session's token is not a child of the server's.
HandlerExitOwnToken(o) ==
    /\ handler[o].pc = "select"
    /\ cancelled[o]
    /\ handler' = [handler EXCEPT ![o] = Returned]
    /\ UNCHANGED <<maps, objects, history, stopped, task, accepting, sweep, now>>

\* The session's token is a child of the server's.
HandlerExit(o) ==
    /\ handler[o].pc = "select"
    /\ cancelled[o] \/ stopped
    /\ handler' = [handler EXCEPT ![o] = Returned]
    /\ UNCHANGED <<maps, objects, history, stopped, task, accepting, sweep, now>>

\* send_response_to_all_paths looks the session up by id, three times; it can
\* be gone, or be another one, each time.  If there is one the clock is read,
\* and the lock kept for the write.
RespTouch(o) ==
    LET cur == sessions[owner[o]]
    IN  /\ handler[o].pc = "touch"
        /\ ~SessionsWriteLocked
        /\ IF cur = 0 THEN RespGoto(o, "seq")
           ELSE handler' = [handler EXCEPT ![o] =
                               [@ EXCEPT !.pc = "stamp", !.obj = cur, !.at = now]]
        /\ idle' = idle \ {cur}
        /\ UNCHANGED <<maps, objects, forwarded, heard, numbered, stopped, task, accepting,
                       sweep, now>>

RespStamp(o) ==
    /\ handler[o].pc = "stamp"
    /\ last_activity' = [last_activity EXCEPT ![handler[o].obj] = handler[o].at]
    /\ handler' = [handler EXCEPT ![o] = [Selecting EXCEPT !.pc = "seq"]]
    /\ UNCHANGED <<maps, created, owner, window, response_seq, cancelled, history,
                   stopped, task, accepting, sweep, now>>

\* Mutant: the counter is read, and written back later from the value read.
RespSeqLoads(o) ==
    LET cur == sessions[owner[o]]
    IN  /\ handler[o].pc = "seq"
        /\ ~SessionsWriteLocked
        /\ cur # 0
        /\ handler' = [handler EXCEPT ![o] =
                          [@ EXCEPT !.pc = "paths", !.obj = cur, !.seq = response_seq[cur]]]
        /\ numbered' = [numbered EXCEPT ![cur] = @ \cup {response_seq[cur]}]
        /\ UNCHANGED <<maps, objects, forwarded, heard, idle, stopped, task, accepting, sweep,
                       now>>

RespSeq(o) ==
    LET cur == sessions[owner[o]]
    IN  /\ handler[o].pc = "seq"
        /\ ~SessionsWriteLocked
        /\ cur # 0
        /\ response_seq' = [response_seq EXCEPT ![cur] = @ + 1]
        /\ handler' = [handler EXCEPT ![o] =
                          [@ EXCEPT !.pc = "paths", !.obj = cur, !.seq = response_seq[cur]]]
        /\ numbered' = [numbered EXCEPT ![cur] = @ \cup {response_seq[cur]}]
        /\ UNCHANGED <<maps, created, owner, window, last_activity, cancelled, forwarded,
                       heard, idle, stopped, task, accepting, sweep, now>>

\* The session is gone, and the response with it.
RespDropped(o) ==
    /\ handler[o].pc = "seq"
    /\ ~SessionsWriteLocked
    /\ sessions[owner[o]] = 0
    /\ RespGoto(o, "select")
    /\ UNCHANGED <<maps, objects, history, stopped, task, accepting, sweep, now>>

\* Mutant: the response goes to the paths of every session.
RespPathsOfAll(o) ==
    LET ps == UNION {client_paths[s] : s \in SessionIds}
    IN  /\ handler[o].pc = "paths"
        /\ handler' = [handler EXCEPT ![o] =
                          IF ps = {} THEN Selecting
                          ELSE [@ EXCEPT !.pc = "send", !.paths = ps]]
        /\ UNCHANGED <<maps, objects, history, stopped, task, accepting, sweep, now>>

\* The paths are copied; the sends use the copy.
RespPaths(o) ==
    LET ps == client_paths[owner[o]]
    IN  /\ handler[o].pc = "paths"
        /\ handler' = [handler EXCEPT ![o] =
                          IF ps = {} THEN Selecting
                          ELSE [@ EXCEPT !.pc = "send", !.paths = ps]]
        /\ UNCHANGED <<maps, objects, history, stopped, task, accepting, sweep, now>>

\* One send.  It succeeds or fails, and the loop goes on either way.
RespSend(o, p) ==
    /\ handler[o].pc = "send"
    /\ p \in handler[o].paths
    /\ LET rest == handler[o].paths \ {p}
       IN  handler' = [handler EXCEPT ![o] =
                          IF rest = {} THEN Selecting ELSE [@ EXCEPT !.paths = rest]]
    /\ UNCHANGED <<maps, objects, history, stopped, task, accepting, sweep, now>>

-----------------------------------------------------------------------------
(* Expiry: session_cleanup_loop *)

\* Mutant: the clock is read once, when the sweeper starts.
SweepTickStale ==
    /\ sweep.pc = "wait"
    /\ sweep' = [sweep EXCEPT !.pc = "scan", !.now = 0]
    /\ UNCHANGED <<maps, objects, history, stopped, task, accepting, handler, now>>

\* The clock is read before the sessions lock is asked for.
SweepTick ==
    /\ sweep.pc = "wait"
    /\ sweep' = [sweep EXCEPT !.pc = "scan", !.now = now]
    /\ UNCHANGED <<maps, objects, history, stopped, task, accepting, handler, now>>

Expired(sid) ==
    /\ sessions[sid] # 0
    /\ sweep.now - last_activity[sessions[sid]] > Timeout

SweepScan ==
    LET expired == {sid \in SessionIds : Expired(sid)}
    IN  /\ sweep.pc = "scan"
        /\ SessionsFree
        /\ sweep' = IF expired = {} THEN Waiting
                    ELSE [sweep EXCEPT !.pc = "remove", !.expired = expired]
        /\ idle' = {sessions[sid] : sid \in expired}
        /\ UNCHANGED <<maps, objects, forwarded, heard, numbered, stopped, task, accepting,
                       handler, now>>

\* Mutant: the session leaves the map and its handler is not told.
SweepRemoveSilently(sid) ==
    /\ sweep.pc = "remove"
    /\ sid \in sweep.expired
    /\ sessions' = [sessions EXCEPT ![sid] = 0]
    /\ idle' = idle \ {sessions[sid]}
    /\ sweep' = [sweep EXCEPT !.pc = "paths", !.cur = sid]
    /\ UNCHANGED <<client_paths, tcp_conn_to_session, objects, forwarded, heard, numbered,
                   stopped, task, accepting, handler, now>>

SweepRemove(sid) ==
    /\ sweep.pc = "remove"
    /\ sid \in sweep.expired
    /\ sessions' = [sessions EXCEPT ![sid] = 0]
    /\ cancelled' = [cancelled EXCEPT ![sessions[sid]] = TRUE]
    /\ idle' = idle \ {sessions[sid]}
    /\ sweep' = [sweep EXCEPT !.pc = "paths", !.cur = sid]
    /\ UNCHANGED <<client_paths, tcp_conn_to_session, created, owner, window,
                   response_seq, last_activity, forwarded, heard, numbered, stopped, task,
                   accepting, handler, now>>

SweepPaths ==
    LET rest == sweep.expired \ {sweep.cur}
    IN  /\ sweep.pc = "paths"
        /\ client_paths' = [client_paths EXCEPT ![sweep.cur] = {}]
        /\ sweep' = IF rest = {} THEN Waiting
                    ELSE [sweep EXCEPT !.pc = "remove", !.expired = rest, !.cur = None]
        /\ UNCHANGED <<sessions, tcp_conn_to_session, objects, history, stopped, task,
                       accepting, handler, now>>

-----------------------------------------------------------------------------
(* Time and shutdown *)

Tick ==
    /\ now < MaxTime
    /\ now' = now + 1
    /\ UNCHANGED <<maps, objects, history, stopped, task, accepting, handler, sweep>>

Stop ==
    /\ Stoppable /\ ~stopped
    /\ stopped' = TRUE
    /\ UNCHANGED <<maps, objects, history, task, accepting, handler, sweep, now>>

ListenerExit(u) ==
    /\ stopped
    /\ task[u].pc = "recv"
    /\ task' = [task EXCEPT ![u] = Closed]
    /\ UNCHANGED <<maps, objects, history, stopped, accepting, handler, sweep, now>>

ConnExit(c) ==
    /\ stopped
    /\ task[c].pc = "recv"
    /\ task' = [task EXCEPT ![c] = [Resting EXCEPT !.pc = "untrack"]]
    /\ UNCHANGED <<maps, objects, history, stopped, accepting, handler, sweep, now>>

AcceptExit ==
    /\ stopped /\ accepting
    /\ accepting' = FALSE
    /\ UNCHANGED <<maps, objects, history, stopped, task, handler, sweep, now>>

SweepExit ==
    /\ stopped
    /\ sweep.pc = "wait"
    /\ sweep' = [sweep EXCEPT !.pc = "done"]
    /\ UNCHANGED <<maps, objects, history, stopped, task, accepting, handler, now>>

\* Every task has returned.
Drained ==
    /\ \A t \in Tasks : task[t].pc = "closed"
    /\ \A o \in Objs : handler[o].pc \in {"unborn", "done"}
    /\ ~accepting
    /\ sweep.pc = "done"

Terminated == Drained /\ UNCHANGED vars

-----------------------------------------------------------------------------
(* The specification *)

PacketStep(t) ==
    \/ Lookup(t) \/ CreateFindsOne(t) \/ Create(t) \/ CreateFails(t)
    \/ Touch(t) \/ Stamp(t) \/ Dedup(t) \/ AddPath(t) \/ Forward(t) \/ ForwardFails(t)

ConnStep(c) == Track(c) \/ Untrack(c) \/ Unpath(c)

RespStep(o) ==
    \/ RespTouch(o) \/ RespStamp(o) \/ RespSeq(o) \/ RespDropped(o) \/ RespPaths(o)
    \/ \E p \in Paths : RespSend(o, p)

SweepStep ==
    \/ SweepTick \/ SweepScan \/ SweepPaths
    \/ \E sid \in SessionIds : SweepRemove(sid)

Next ==
    \/ \E u \in Listeners, sid \in SessionIds, seq \in Seqs, addr \in Addrs :
          RecvUdp(u, sid, seq, addr)
    \/ \E u \in Listeners : ListenerExit(u)
    \/ \E c \in Conns :
          AcceptTcp(c) \/ ReadLength(c) \/ DecodeFails(c) \/ TcpClose(c) \/ ConnExit(c)
    \/ \E c \in Conns, sid \in SessionIds, seq \in Seqs : ReadData(c, sid, seq)
    \/ \E t \in Tasks : PacketStep(t)
    \/ \E c \in Conns : ConnStep(c)
    \/ \E o \in Objs : RecvTarget(o) \/ HandlerError(o) \/ HandlerExit(o) \/ RespStep(o)
    \/ SweepStep \/ SweepExit
    \/ Tick \/ Stop \/ AcceptExit \/ Terminated

Spec == Init /\ [][Next]_vars

\* Tokio runs a task that can run, and its RwLock serves waiters in order, so
\* every internal step is weakly fair.  select! draws among its ready branches,
\* so the exits are strongly fair.  Nothing is assumed of clients, of the
\* target, of the clock, or of a write to a stream (its peer may not read).
Fairness ==
    /\ \A t \in Tasks : WF_vars(PacketStep(t))
    /\ \A c \in Conns : WF_vars(ConnStep(c)) /\ SF_vars(ConnExit(c))
    /\ \A u \in Listeners : SF_vars(ListenerExit(u))
    /\ \A o \in Objs :
          /\ WF_vars(RespTouch(o) \/ RespStamp(o) \/ RespSeq(o) \/ RespDropped(o)
                        \/ RespPaths(o))
          /\ WF_vars(\E p \in Paths : p.ep \in Listeners /\ RespSend(o, p))
          /\ SF_vars(HandlerExit(o))
    /\ WF_vars(SweepStep) /\ SF_vars(SweepExit) /\ SF_vars(AcceptExit)

FairSpec == Spec /\ Fairness

-----------------------------------------------------------------------------
(* Properties *)

TaskPCs == {"recv", "body", "lookup", "create", "touch", "stamp", "dedup", "track", "path",
            "forward", "untrack", "unpath", "closed"}
PacketPCs == {"touch", "stamp", "dedup", "track", "path", "forward"}
HandlerPCs == {"unborn", "select", "touch", "stamp", "seq", "paths", "send", "done"}
SweepPCs == {"wait", "scan", "remove", "paths", "done"}

MapsOK ==
    /\ sessions \in [SessionIds -> 0..created]
    /\ client_paths \in [SessionIds -> SUBSET Paths]
    /\ tcp_conn_to_session \in [Conns -> SessionIds \cup {None}]

ObjectsOK ==
    /\ created \in 0..MaxSessions
    /\ owner \in [Objs -> SessionIds \cup {None}]
    /\ \A o \in 1..created : owner[o] # None
    /\ window \in [Objs -> Window]
    /\ response_seq \in [Objs -> Nat]
    /\ last_activity \in [Objs -> Nat]
    /\ cancelled \in [Objs -> BOOLEAN]

TaskOK(t, r) ==
    /\ r \in [pc : TaskPCs, sid : SessionIds \cup {None}, seq : Nat,
             addr : Addrs \cup {None}, obj : 0..created, at : Nat]
    /\ r.pc \in PacketPCs \cup {"lookup", "create"} =>
          r.sid # None /\ r.seq \in Seqs /\ [ep |-> t, addr |-> r.addr] \in Paths
    /\ r.pc \in PacketPCs => r.obj # 0
    /\ r.pc = "unpath" => r.sid # None

TasksOK ==
    /\ task = [t \in Tasks |-> task[t]]
    /\ \A t \in Tasks : TaskOK(t, task[t])

HandlerOK(o, r) ==
    /\ r \in [pc : HandlerPCs, obj : 0..created, seq : Nat, paths : SUBSET Paths, at : Nat]
    /\ r.pc # "unborn" <=> o <= created
    /\ r.pc = "stamp" => r.obj # 0

HandlersOK ==
    /\ handler = [o \in Objs |-> handler[o]]
    /\ \A o \in Objs : HandlerOK(o, handler[o])

SweepOK ==
    /\ sweep \in [pc : SweepPCs, now : Nat, expired : SUBSET SessionIds,
                  cur : SessionIds \cup {None}]
    /\ sweep.pc = "paths" => sweep.cur # None

HistoryOK ==
    /\ forwarded \in [Objs -> [Seqs -> Nat]]
    /\ heard \subseteq SessionIds \X Paths
    /\ numbered \in [Objs -> SUBSET Nat]
    /\ idle \subseteq 0..created

\* A task past the lookup knows the session it works on, and only sessions
\* that were created have a handler.
TypeOK ==
    /\ MapsOK /\ ObjectsOK /\ TasksOK /\ HandlersOK /\ SweepOK /\ HistoryOK
    /\ stopped \in BOOLEAN /\ accepting \in BOOLEAN /\ now \in Nat

\* Whatever copies of a packet the listeners and connections handle at the same
\* time, the target receives a sequence number of a session at most once.
AtMostOnce == \A o \in Objs, q \in Seqs : forwarded[o][q] <= 1

\* An id has one target socket that is not being closed: the session in the
\* map.  Two first packets on two paths do not create two sessions, and a
\* session that left the map is cancelled.
OneTargetSocket ==
    \A o \in 1..created : ~cancelled[o] <=> sessions[owner[o]] = o

\* The server as the target sees it.
Target == INSTANCE TargetSessions WITH
    Ids      <- SessionIds,
    Sessions <- Objs,
    session  <- sessions,
    opened   <- 1..created,
    received <- forwarded

\* Whatever copies are handled at the same time, and whatever the sweeper does
\* meanwhile, every step opens a session for an id that has none, closes one,
\* sends a number to the target for the first time, or changes nothing there.
ImplementsTargetSessions == Target!Spec

\* The copy of the paths a response is sent to holds only paths on which
\* packets of the same id arrived, also when the session expired and was
\* created again while the response was on its way.
ResponseRouting ==
    \A o \in 1..created : \A p \in handler[o].paths : <<owner[o], p>> \in heard

\* A number is drawn once from the counter of a session, by whichever handler:
\* that of an expired session draws from its successor's counter, while the
\* successor's own handler draws too.
ResponseSeqUnique ==
    [][\A o \in Objs :
          handler[o].pc = "seq" /\ handler'[o].pc = "paths"
              => handler'[o].seq \notin numbered[handler'[o].obj]]_vars

\* Once a connection's task has returned, no map leads from its id to a
\* session; the allocator may give the id to another connection.
ClosedConnForgotten ==
    \A c \in Conns : task[c].pc = "closed" => tcp_conn_to_session[c] = None

\* A session is removed only by a sweep that found it idle for longer than the
\* timeout, and only if no packet and no response has found it since: who still
\* works on it had found it before.
OnlyIdleRemoved ==
    [][/\ \A o \in idle' \ idle : last_activity[o] + Timeout < sweep.now
       /\ \A s \in SessionIds :
             sessions[s] # 0 /\ sessions'[s] # sessions[s] => sessions[s] \in idle]_vars

\* The handler of a session that was cancelled returns, unless a client that
\* does not read its connection keeps it in a write.
InStreamWrite(o) ==
    handler[o].pc = "send" /\ \E p \in handler[o].paths : p.ep \in Conns

CancelledHandlerReturns ==
    \A o \in Objs : cancelled[o] ~> (handler[o].pc = "done" \/ InStreamWrite(o))

\* A session that has been idle for longer than the timeout is removed, or
\* used again, or the server stops.
IdleIsSwept ==
    \A s \in SessionIds : \A o \in Objs :
        (sessions[s] = o /\ now - last_activity[o] > Timeout)
            ~> (sessions[s] # o \/ now - last_activity[o] <= Timeout \/ stopped)

\* After stop every task returns, except a connection in the middle of a frame
\* and a handler in a write to a connection.
StopDrains ==
    stopped ~> /\ \A t \in Tasks : task[t].pc \in {"closed", "body"}
               /\ \A o \in Objs : handler[o].pc \in {"unborn", "done"} \/ InStreamWrite(o)
               /\ ~accepting /\ sweep.pc = "done"

-----------------------------------------------------------------------------
(* The inductive invariant *)

\* The packet of task t passed the window and is not forwarded yet.
Passed(t) == task[t].pc \in {"track", "path", "forward"}

WindowsOK == \A o \in Objs : WellFormed(window[o])

\* A packet on its way to the target is recorded in the window of its session
\* and was not sent; no other task has the same one.
PassedOnce ==
    /\ \A t \in Tasks : Passed(t) =>
          /\ IsDuplicate(window[task[t].obj], task[t].seq)
          /\ forwarded[task[t].obj][task[t].seq] = 0
    /\ \A t1, t2 \in Tasks :
          Passed(t1) /\ Passed(t2) /\ task[t1].obj = task[t2].obj
              /\ task[t1].seq = task[t2].seq => t1 = t2

\* What was sent is recorded, and nothing was sent for a session to come.
ForwardedOnce ==
    \A o \in Objs, q \in Seqs :
        /\ forwarded[o][q] <= 1
        /\ forwarded[o][q] # 0 => o <= created /\ IsDuplicate(window[o], q)

\* The map leads from an id to a session that was created for it.
SessionOwner == \A s \in SessionIds : sessions[s] # 0 => owner[sessions[s]] = s

IInv ==
    /\ TypeOK /\ WindowsOK /\ PassedOnce /\ ForwardedOnce
    /\ SessionOwner /\ OneTargetSocket

\* What ResponseRouting rests on: a path is registered by a packet that arrived
\* on it, and the packet keeps its id and its path while it is handled.
PathsHeard == \A s \in SessionIds : \A p \in client_paths[s] : <<s, p>> \in heard

PacketHeard ==
    \A t \in Tasks : task[t].pc \in PacketPCs \cup {"lookup", "create"} =>
        <<task[t].sid, [ep |-> t, addr |-> task[t].addr]>> \in heard

RoutingInv == PathsHeard /\ PacketHeard /\ ResponseRouting

\* What ResponseSeqUnique rests on: the counter has moved on from every number
\* that was drawn from it.
NumberedBelow == \A o \in Objs : \A n \in numbered[o] : n < response_seq[o]

\* Only a session that was created is numbered from.
NumberedCreated == \A o \in Objs : o > created => numbered[o] = {}

NumberingInv == NumberedBelow /\ NumberedCreated

\* A connection that ends is forgotten before its paths are removed.
ForgottenFirst ==
    \A c \in Conns : task[c].pc \in {"unpath", "closed"} => tcp_conn_to_session[c] = None

\* What is on the sweeper's list cannot be found by others while the list is
\* worked off, since the lock is kept.
ListedIdle ==
    sweep.pc \in {"remove", "paths"} =>
        \A s \in sweep.expired : sessions[s] # 0 => sessions[s] \in idle

-----------------------------------------------------------------------------
(* Statements of the documentation that the code does not keep *)

\* spec.md, session timeout: the sweep removes the session "from all maps".
\* When no task is working on an id that has no session, it has no paths.
NoOrphanPaths ==
    \A s \in SessionIds :
        /\ sessions[s] = 0
        /\ sweep.pc = "wait"
        /\ \A t \in Tasks : task[t].sid # s
        => client_paths[s] = {}

\* spec.md, response routing: what a target socket receives is sent to the
\* client.  A session that is in use has a handler to do so.
LiveSessionServed ==
    \A s \in SessionIds : sessions[s] # 0 /\ ~stopped => handler[sessions[s]].pc # "done"
=============================================================================
