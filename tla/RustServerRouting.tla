------------------------- MODULE RustServerRouting --------------------------
(***************************************************************************)
(* Where the server's responses go and what they are numbered, which       *)
(* connections it remembers, and which sessions it removes.                *)
(*                                                                         *)
(* Four invariants, each inductive over TypeOK, which comes from IInv:     *)
(*   RoutingInv follows an id and a path from the packet that brings them  *)
(*     (heard), over the task that handles it, to client_paths, and from   *)
(*     there to a handler's copy;                                          *)
(*   NumberingInv keeps every number that was drawn from a session's       *)
(*     counter below the counter, whichever session's handler drew it;     *)
(*   ForgottenFirst holds a connection to the order of its cleanup;        *)
(*   ListedIdle keeps what the sweeper listed unfound by anyone else until *)
(*     it lets go of the lock.                                             *)
(***************************************************************************)
EXTENDS RustServerProofs

InFlight == PacketPCs \cup {"lookup", "create"}

-----------------------------------------------------------------------------
(* When a step keeps each part *)

\* No path is registered.
LEMMA PathsKept ==
    ASSUME PathsHeard, heard \subseteq heard',
           \A s \in SessionIds : client_paths'[s] \subseteq client_paths[s]
    PROVE  PathsHeard'
BY DEF PathsHeard

\* One task moves; if it handles a packet afterwards it is the same packet.
LEMMA PacketsKept ==
    ASSUME TypeOK, PacketHeard, heard \subseteq heard', NEW t \in Tasks, NEW r,
           task' = [task EXCEPT ![t] = r],
           r.pc \in InFlight =>
               /\ task[t].pc \in InFlight
               /\ r.sid = task[t].sid /\ r.addr = task[t].addr
    PROVE  PacketHeard'
<1>1. \A x \in Tasks : task'[x] = IF x = t THEN r ELSE task[x]
  BY DEF TypeOK, TasksOK
<1> QED
  BY <1>1 DEF PacketHeard, InFlight

\* No task moves.
LEMMA PacketsStay ==
    ASSUME PacketHeard, heard \subseteq heard', UNCHANGED task
    PROVE  PacketHeard'
BY DEF PacketHeard

\* One handler moves, and its copy does not grow beyond what was heard.
LEMMA CopiesKept ==
    ASSUME TypeOK, ResponseRouting, heard \subseteq heard', UNCHANGED <<created, owner>>,
           NEW o \in Objs, NEW r, handler' = [handler EXCEPT ![o] = r],
           o \in 1..created => \A p \in r.paths : <<owner[o], p>> \in heard
    PROVE  ResponseRouting'
<1>1. \A x \in Objs : handler'[x] = IF x = o THEN r ELSE handler[x]
  BY DEF TypeOK, HandlersOK
<1>2. 1..created \subseteq Objs
  BY BoundsAssumption DEF TypeOK, ObjectsOK, Objs
<1> QED
  BY <1>1, <1>2 DEF ResponseRouting

\* No handler moves.
LEMMA CopiesStay ==
    ASSUME ResponseRouting, heard \subseteq heard', UNCHANGED <<created, owner, handler>>
    PROVE  ResponseRouting'
BY DEF ResponseRouting

-----------------------------------------------------------------------------
(* Packets and connections *)

\* A packet arrives.
LEMMA PacketRouted ==
    ASSUME TypeOK, RoutingInv, NEW t \in Tasks, NEW sid, NEW seq, NEW addr,
           Packet(t, sid, seq, addr),
           UNCHANGED <<client_paths, created, owner, handler>>
    PROVE  RoutingInv'
<1>1. /\ heard \subseteq heard' /\ <<sid, [ep |-> t, addr |-> addr]>> \in heard'
      /\ \A x \in Tasks : task'[x] =
            IF x = t THEN [pc |-> "lookup", sid |-> sid, seq |-> seq, addr |-> addr,
                           obj |-> 0, at |-> 0]
            ELSE task[x]
  BY DEF Packet, TypeOK, TasksOK
<1>2. PathsHeard'
  BY <1>1, PathsKept DEF RoutingInv
<1>3. PacketHeard'
  BY <1>1 DEF RoutingInv, PacketHeard
<1>4. ResponseRouting'
  BY <1>1, CopiesStay DEF RoutingInv
<1> QED
  BY <1>2, <1>3, <1>4 DEF RoutingInv

\* A task moves and registers no path.
LEMMA TaskRouted ==
    ASSUME TypeOK, RoutingInv, NEW t \in Tasks, NEW r, task' = [task EXCEPT ![t] = r],
           r.pc \in InFlight =>
               /\ task[t].pc \in InFlight
               /\ r.sid = task[t].sid /\ r.addr = task[t].addr,
           UNCHANGED <<client_paths, created, owner, handler, heard>>
    PROVE  RoutingInv'
<1>1. heard \subseteq heard'
  OBVIOUS
<1> QED
  BY <1>1, PathsKept, PacketsKept, CopiesStay DEF RoutingInv

\* Tasks that end the handling of a packet, or only go on with it.
LEMMA TaskStepRouted ==
    ASSUME TypeOK, RoutingInv, NEW t \in Tasks,
           \/ CreateFails(t) \/ ForwardFails(t) \/ Forward(t) \/ ListenerExit(t)
           \/ AcceptTcp(t) \/ TcpClose(t) \/ ConnExit(t) \/ ReadLength(t) \/ DecodeFails(t)
           \/ Lookup(t) \/ CreateFindsOne(t) \/ Touch(t) \/ Stamp(t) \/ Dedup(t)
           \/ Track(t) \/ Untrack(t)
    PROVE  RoutingInv'
<1>1. UNCHANGED <<client_paths, created, owner, handler, heard>>
  BY DEF CreateFails, ForwardFails, Forward, ListenerExit, AcceptTcp, TcpClose, ConnExit,
         ReadLength, DecodeFails, Lookup, CreateFindsOne, Touch, Stamp, Dedup, Track,
         Untrack, maps, objects, history
<1>2. ASSUME NEW r, task' = [task EXCEPT ![t] = r],
             r.pc \in InFlight =>
                 /\ task[t].pc \in InFlight
                 /\ r.sid = task[t].sid /\ r.addr = task[t].addr
      PROVE  RoutingInv'
  BY <1>1, <1>2, TaskRouted
<1>3. task[t] \in [pc : TaskPCs, sid : SessionIds \cup {None}, seq : Nat,
                   addr : Addrs \cup {None}, obj : 0..created, at : Nat]
  BY TaskFacts DEF TaskOK
<1>4. \A q : [task[t] EXCEPT !.pc = q].sid = task[t].sid
             /\ [task[t] EXCEPT !.pc = q].addr = task[t].addr
             /\ [task[t] EXCEPT !.pc = q].pc = q
  BY <1>3
<1>5. \A q, x : [task[t] EXCEPT !.pc = q, !.obj = x].sid = task[t].sid
                /\ [task[t] EXCEPT !.pc = q, !.obj = x].addr = task[t].addr
  BY <1>3
<1>6. CASE \/ CreateFails(t) \/ ForwardFails(t) \/ Forward(t) \/ DecodeFails(t)
           \/ ListenerExit(t) \/ AcceptTcp(t) \/ TcpClose(t) \/ ConnExit(t)
  <2>1. PICK r \in {Resting, Closed, [Resting EXCEPT !.pc = "untrack"]} :
            task' = [task EXCEPT ![t] = r]
    BY <1>6 DEF CreateFails, ForwardFails, Forward, DecodeFails, ListenerExit, AcceptTcp,
                TcpClose, ConnExit, Rest
  <2>2. r.pc \notin InFlight
    BY DEF Resting, Closed, InFlight, PacketPCs
  <2> QED
    BY <1>2, <2>1, <2>2
<1>7. CASE ReadLength(t)
  <2>1. task' = [task EXCEPT ![t] = [task[t] EXCEPT !.pc = "body"]]
    BY <1>7 DEF ReadLength, Goto
  <2>2. [task[t] EXCEPT !.pc = "body"].pc \notin InFlight
    BY <1>4 DEF InFlight, PacketPCs
  <2> QED
    BY <1>2, <2>1, <2>2
<1>8. CASE Lookup(t) \/ CreateFindsOne(t)
  <2>1. PICK q, x : task' = [task EXCEPT ![t] = [task[t] EXCEPT !.pc = q, !.obj = x]]
    BY <1>8 DEF Lookup, CreateFindsOne
  <2>2. task[t].pc \in InFlight
    BY <1>8 DEF Lookup, CreateFindsOne, InFlight
  <2> QED
    BY <1>2, <1>5, <2>1, <2>2
<1>9. CASE Track(t)
  <2>1. PICK q : task' = [task EXCEPT ![t] = [task[t] EXCEPT !.pc = q]]
    BY <1>9 DEF Track, Goto
  <2>2. task[t].pc \in InFlight
    BY <1>9 DEF Track, InFlight, PacketPCs
  <2> QED
    BY <1>2, <1>4, <2>1, <2>2
<1>12. CASE Touch(t) \/ Stamp(t)
  <2>1. PICK q, x : task' = [task EXCEPT ![t] = [task[t] EXCEPT !.pc = q, !.at = x]]
    BY <1>12 DEF Touch, Stamp
  <2>2. task[t].pc \in InFlight
    BY <1>12 DEF Touch, Stamp, InFlight, PacketPCs
  <2>3. /\ [task[t] EXCEPT !.pc = q, !.at = x].sid = task[t].sid
        /\ [task[t] EXCEPT !.pc = q, !.at = x].addr = task[t].addr
    BY <1>3
  <2> QED
    BY <1>2, <2>1, <2>2, <2>3
<1>10. CASE Dedup(t)
  <2>1. task[t].pc \in InFlight
    BY <1>10 DEF Dedup, InFlight, PacketPCs
  <2>2. CASE task' = [task EXCEPT ![t] = Resting]
    BY <1>2, <2>2 DEF Resting, InFlight, PacketPCs
  <2>3. CASE \E q : task' = [task EXCEPT ![t] = [task[t] EXCEPT !.pc = q]]
    BY <1>2, <1>4, <2>1, <2>3
  <2> QED
    BY <1>10, <2>2, <2>3 DEF Dedup, Rest, Goto
<1>11. CASE Untrack(t)
  <2>1. CASE task' = [task EXCEPT ![t] = Closed]
    BY <1>2, <2>1 DEF Closed, Resting, InFlight, PacketPCs
  <2>2. CASE \E x : task' = [task EXCEPT ![t] = [task[t] EXCEPT !.pc = "unpath", !.sid = x]]
    <3>1. \A x : [task[t] EXCEPT !.pc = "unpath", !.sid = x].pc = "unpath"
      BY <1>3
    <3>2. "unpath" \notin InFlight
      BY DEF InFlight, PacketPCs
    <3> QED
      BY <1>2, <2>2, <3>1, <3>2
  <2> QED
    BY <1>11, <2>1, <2>2 DEF Untrack
<1> QED
  BY <1>6, <1>7, <1>8, <1>9, <1>10, <1>11, <1>12

\* A path is registered by a packet that arrived on it.
LEMMA AddPathRouted ==
    ASSUME TypeOK, RoutingInv, NEW t \in Tasks, AddPath(t)
    PROVE  RoutingInv'
<1> DEFINE p == [ep |-> t, addr |-> task[t].addr]
           sid == task[t].sid
           r == [task[t] EXCEPT !.pc = "forward"]
<1>1. /\ task[t].pc = "path" /\ UNCHANGED <<created, owner, handler, heard>>
      /\ task' = [task EXCEPT ![t] = r]
      /\ client_paths' = [client_paths EXCEPT ![sid] = WithPath(client_paths[sid], p)]
  BY DEF AddPath, Goto, objects, history
<1>2. /\ <<sid, p>> \in heard
      /\ client_paths \in [SessionIds -> SUBSET Paths]
  BY <1>1 DEF RoutingInv, PacketHeard, PacketPCs, TypeOK, MapsOK
<1>3. r.sid = task[t].sid /\ r.addr = task[t].addr /\ task[t].pc \in InFlight
  BY <1>1, TaskFacts DEF TaskOK, InFlight, PacketPCs
<1>4. heard \subseteq heard'
  BY <1>1
<1>5. PacketHeard'
  <2> HIDE DEF r
  <2> QED
    BY <1>1, <1>3, <1>4, PacketsKept DEF RoutingInv
<1>6. PathsHeard'
  <2>1. \A s \in SessionIds : client_paths'[s] \subseteq
            client_paths[s] \cup (IF s = sid THEN {p} ELSE {})
    BY <1>1, <1>2 DEF WithPath
  <2> QED
    BY <1>2, <1>4, <2>1 DEF RoutingInv, PathsHeard
<1>7. ResponseRouting'
  BY <1>1, <1>4, CopiesStay DEF RoutingInv
<1> QED
  BY <1>5, <1>6, <1>7 DEF RoutingInv

\* Paths are removed by a connection that ends.
LEMMA UnpathRouted ==
    ASSUME TypeOK, RoutingInv, NEW c \in Conns, Unpath(c)
    PROVE  RoutingInv'
<1>1. /\ c \in Tasks /\ task' = [task EXCEPT ![c] = Closed] /\ Closed.pc \notin InFlight
      /\ UNCHANGED <<created, owner, handler, heard>> /\ heard \subseteq heard'
  BY DEF Unpath, Tasks, Closed, Resting, InFlight, PacketPCs, objects, history
<1>2. \A s \in SessionIds : client_paths'[s] \subseteq client_paths[s]
  BY DEF Unpath, TypeOK, MapsOK
<1> QED
  BY <1>1, <1>2, PathsKept, PacketsKept, CopiesStay DEF RoutingInv

\* A new session has no copy of paths yet, and no session before it changes.
LEMMA CreateRouted ==
    ASSUME TypeOK, RoutingInv, NEW t \in Tasks, Create(t)
    PROVE  RoutingInv'
<1> DEFINE o == created + 1
           r == [task[t] EXCEPT !.pc = "touch", !.obj = o]
<1>1. /\ task[t].pc = "create" /\ UNCHANGED <<client_paths, heard>> /\ created' = o
      /\ owner' = [owner EXCEPT ![o] = task[t].sid]
      /\ handler' = [handler EXCEPT ![o] = Selecting]
      /\ task' = [task EXCEPT ![t] = r]
  BY DEF Create, NewSession, history
<1>2. /\ heard \subseteq heard' /\ task[t].pc \in InFlight
      /\ r.sid = task[t].sid /\ r.addr = task[t].addr
  BY <1>1, TaskFacts DEF TaskOK, InFlight
<1>3. PathsHeard'
  BY <1>1, <1>2, PathsKept DEF RoutingInv
<1>4. PacketHeard'
  <2> HIDE DEF r
  <2> QED
    BY <1>1, <1>2, PacketsKept DEF RoutingInv
<1>5. ResponseRouting'
  <2>1. created \in Nat /\ 1..created' = 1..created \cup {o} /\ 1..created \subseteq Objs
    BY <1>1, BoundsAssumption DEF TypeOK, ObjectsOK, Objs
  <2>2. \A x \in 1..created : x # o /\ owner'[x] = owner[x] /\ handler'[x] = handler[x]
    BY <1>1, <2>1 DEF TypeOK, ObjectsOK, HandlersOK
  <2>3. created < MaxSessions /\ o \in Objs
    BY <2>1, BoundsAssumption DEF Create, NewSession, Objs
  <2>4. handler'[o].paths = {}
    BY <1>1, <2>3 DEF TypeOK, HandlersOK, Selecting
  <2> QED
    BY <1>2, <2>1, <2>2, <2>4 DEF RoutingInv, ResponseRouting
<1> QED
  BY <1>3, <1>4, <1>5 DEF RoutingInv

-----------------------------------------------------------------------------
(* Responses, expiry, shutdown *)

\* A handler's copy is taken from the paths of its id, and only shrinks.
LEMMA HandlerRouted ==
    ASSUME TypeOK, RoutingInv, NEW o \in Objs,
           RecvTarget(o) \/ HandlerError(o) \/ HandlerExit(o) \/ RespStep(o)
    PROVE  RoutingInv'
<1>1. UNCHANGED <<client_paths, created, owner, task, heard>> /\ heard \subseteq heard'
  BY DEF RecvTarget, HandlerError, HandlerExit, RespStep, RespTouch, RespStamp, RespSeq,
         RespDropped, RespPaths, RespSend, maps, objects, history
<1>2. PathsHeard' /\ PacketHeard'
  BY <1>1, PathsKept, PacketsStay DEF RoutingInv
<1>3. HandlerOK(o, handler[o])
  BY HandlerFacts
<1>4. ASSUME NEW r, handler' = [handler EXCEPT ![o] = r],
             o \in 1..created => \A p \in r.paths : <<owner[o], p>> \in heard
      PROVE  RoutingInv'
  BY <1>1, <1>2, <1>4, CopiesKept DEF RoutingInv
<1>5. o \in 1..created => \A p \in handler[o].paths : <<owner[o], p>> \in heard
  BY DEF RoutingInv, ResponseRouting
<1>6. Returned.paths = {} /\ Selecting.paths = {}
  BY DEF Returned, Selecting
<1>7. CASE HandlerError(o) \/ HandlerExit(o)
  BY <1>4, <1>6, <1>7 DEF HandlerError, HandlerExit
<1>8. CASE RecvTarget(o) \/ RespDropped(o)
  <2>1. PICK q : handler' = [handler EXCEPT ![o] = [handler[o] EXCEPT !.pc = q]]
    BY <1>8 DEF RecvTarget, RespDropped, RespGoto
  <2>2. [handler[o] EXCEPT !.pc = q].paths = handler[o].paths
    BY <1>3 DEF HandlerOK
  <2> QED
    BY <1>4, <1>5, <2>1, <2>2
<1>12. CASE RespTouch(o)
  <2>1. CASE handler' = [handler EXCEPT ![o] = [handler[o] EXCEPT !.pc = "seq"]]
    <3>1. [handler[o] EXCEPT !.pc = "seq"].paths = handler[o].paths
      BY <1>3 DEF HandlerOK
    <3> QED
      BY <1>4, <1>5, <2>1, <3>1
  <2>2. CASE \E x : handler' = [handler EXCEPT ![o] =
                        [handler[o] EXCEPT !.pc = "stamp", !.obj = x, !.at = now]]
    <3>1. \A x : [handler[o] EXCEPT !.pc = "stamp", !.obj = x, !.at = now].paths
                     = handler[o].paths
      BY <1>3 DEF HandlerOK
    <3> QED
      BY <1>4, <1>5, <2>2, <3>1
  <2> QED
    BY <1>12, <2>1, <2>2 DEF RespTouch, RespGoto
<1>13. CASE RespStamp(o)
  <2>1. [Selecting EXCEPT !.pc = "seq"].paths = {}
    BY DEF Selecting
  <2> QED
    BY <1>4, <1>13, <2>1 DEF RespStamp
<1>9. CASE RespSeq(o)
  <2>1. PICK x, y : handler' = [handler EXCEPT ![o] =
                        [handler[o] EXCEPT !.pc = "paths", !.obj = x, !.seq = y]]
    BY <1>9 DEF RespSeq
  <2>2. [handler[o] EXCEPT !.pc = "paths", !.obj = x, !.seq = y].paths = handler[o].paths
    BY <1>3 DEF HandlerOK
  <2> QED
    BY <1>4, <1>5, <2>1, <2>2
<1>10. CASE RespPaths(o)
  <2> DEFINE ps == client_paths[owner[o]]
             r == IF ps = {} THEN Selecting
                  ELSE [handler[o] EXCEPT !.pc = "send", !.paths = ps]
  <2>1. handler' = [handler EXCEPT ![o] = r]
    BY <1>10 DEF RespPaths
  <2>2. r.paths \subseteq ps
    BY <1>3, <1>6 DEF HandlerOK
  <2>3. o \in 1..created => owner[o] \in SessionIds
    BY DEF TypeOK, ObjectsOK
  <2>4. o \in 1..created => \A p \in ps : <<owner[o], p>> \in heard
    BY <2>3 DEF RoutingInv, PathsHeard
  <2> HIDE DEF r
  <2> QED
    BY <1>4, <2>1, <2>2, <2>4
<1>11. ASSUME NEW p \in Paths, RespSend(o, p) PROVE RoutingInv'
  <2> DEFINE rest == handler[o].paths \ {p}
             r == IF rest = {} THEN Selecting ELSE [handler[o] EXCEPT !.paths = rest]
  <2>1. handler' = [handler EXCEPT ![o] = r]
    BY <1>11 DEF RespSend
  <2>2. r.paths \subseteq handler[o].paths
    BY <1>3, <1>6 DEF HandlerOK
  <2> HIDE DEF r
  <2> QED
    BY <1>4, <1>5, <2>1, <2>2
<1> QED
  BY <1>7, <1>8, <1>9, <1>10, <1>11, <1>12, <1>13 DEF RespStep

\* Expiry removes paths and moves no task and no handler.
LEMMA OthersRouted ==
    ASSUME TypeOK, RoutingInv,
           SweepStep \/ SweepExit \/ Tick \/ Stop \/ AcceptExit \/ UNCHANGED vars
    PROVE  RoutingInv'
<1>1. UNCHANGED <<created, owner, task, handler, heard>> /\ heard \subseteq heard'
  BY DEF SweepStep, SweepTick, SweepScan, SweepPaths, SweepRemove, SweepExit, Tick, Stop,
         AcceptExit, vars, objects, history
<1>2. \A s \in SessionIds : client_paths'[s] \subseteq client_paths[s]
  <2>1. CASE SweepPaths
    BY <2>1 DEF SweepPaths, TypeOK, MapsOK
  <2>2. CASE ~SweepPaths
    <3>1. UNCHANGED client_paths
      BY <2>2 DEF SweepStep, SweepTick, SweepScan, SweepRemove, SweepExit, Tick, Stop,
                  AcceptExit, vars, maps
    <3> QED
      BY <3>1
  <2> QED
    BY <2>1, <2>2
<1> QED
  BY <1>1, <1>2, PathsKept, PacketsStay, CopiesStay DEF RoutingInv

-----------------------------------------------------------------------------
(* Responses stay in their session *)

LEMMA InitEstablishesRouting == Init => RoutingInv
BY DEF Init, RoutingInv, PathsHeard, PacketHeard, ResponseRouting, Resting, Closed, PacketPCs

LEMMA NextPreservesRouting == TypeOK /\ RoutingInv /\ [Next]_vars => RoutingInv'
<1> SUFFICES ASSUME TypeOK, RoutingInv, [Next]_vars PROVE RoutingInv'
  OBVIOUS
<1>1. ASSUME NEW u \in Listeners, NEW sid \in SessionIds, NEW seq \in Seqs,
             NEW addr \in Addrs, RecvUdp(u, sid, seq, addr)
      PROVE  RoutingInv'
  BY <1>1, PacketRouted DEF RecvUdp, Tasks, maps, objects
<1>2. ASSUME NEW c \in Conns, NEW sid \in SessionIds, NEW seq \in Seqs,
             ReadData(c, sid, seq)
      PROVE  RoutingInv'
  BY <1>2, PacketRouted DEF ReadData, Tasks, maps, objects
<1>3. ASSUME NEW t \in Tasks,
             \/ PacketStep(t) \/ ListenerExit(t) \/ AcceptTcp(t) \/ ReadLength(t)
             \/ DecodeFails(t) \/ TcpClose(t) \/ ConnExit(t) \/ Track(t) \/ Untrack(t)
      PROVE  RoutingInv'
  BY <1>3, TaskStepRouted, AddPathRouted, CreateRouted DEF PacketStep
<1>4. Listeners \subseteq Tasks /\ Conns \subseteq Tasks
  BY DEF Tasks
<1>5. ASSUME NEW c \in Conns, ConnStep(c) PROVE RoutingInv'
  BY <1>3, <1>4, <1>5, UnpathRouted DEF ConnStep
<1> QED
  BY <1>1, <1>2, <1>3, <1>4, <1>5, HandlerRouted, OthersRouted DEF Next, Terminated

\* A response is sent only to paths on which packets of its session id
\* arrived, for every interleaving of packets, responses, expiry and
\* connections that end.
THEOREM ResponsesStayInSession == Spec => []ResponseRouting
<1>1. IInv => TypeOK
  BY DEF IInv
<1>2. RoutingInv => ResponseRouting
  BY DEF RoutingInv
<1> QED
  BY <1>1, <1>2, InitEstablishesRouting, NextPreservesRouting, IInvHolds, PTL DEF Spec

-----------------------------------------------------------------------------
(* A number is drawn from a counter once *)

\* No number is drawn.
LEMMA NumbersStay ==
    ASSUME NumberingInv, UNCHANGED <<created, response_seq, numbered>>
    PROVE  NumberingInv'
BY DEF NumberingInv, NumberedBelow, NumberedCreated

\* The number drawn is the counter's, and the counter moves beyond it.
LEMMA RespSeqNumbers ==
    ASSUME TypeOK, NumberingInv, NEW o \in Objs, RespSeq(o)
    PROVE  /\ NumberingInv'
           /\ handler'[o].seq \notin numbered[handler'[o].obj]
<1> DEFINE cur == sessions[owner[o]]
           r == [handler[o] EXCEPT !.pc = "paths", !.obj = cur, !.seq = response_seq[cur]]
<1>1. HandlerOK(o, handler[o]) /\ handler[o].pc = "seq" /\ created \in 0..MaxSessions
  BY HandlerFacts DEF RespSeq, TypeOK, ObjectsOK
<1>2. owner[o] \in SessionIds
  BY <1>1, BoundsAssumption DEF TypeOK, ObjectsOK, HandlerOK, Objs
<1>3. cur \in 0..created /\ cur # 0
  BY <1>2 DEF RespSeq, TypeOK, MapsOK
<1>4. cur \in Objs /\ cur <= created
  BY <1>1, <1>3, BoundsAssumption DEF Objs
<1>5. handler' = [handler EXCEPT ![o] = r] /\ UNCHANGED created
  BY DEF RespSeq
<1>6. r.obj = cur /\ r.seq = response_seq[cur]
  BY <1>1 DEF HandlerOK
<1>7. /\ response_seq' = [response_seq EXCEPT ![cur] = @ + 1]
      /\ numbered' = [numbered EXCEPT ![cur] = @ \cup {response_seq[cur]}]
  BY DEF RespSeq
<1> HIDE DEF r, cur
<1>8. handler'[o] = r
  BY <1>5 DEF TypeOK, HandlersOK
<1>9. response_seq \in [Objs -> Nat] /\ numbered \in [Objs -> SUBSET Nat]
  BY DEF TypeOK, ObjectsOK, HistoryOK
<1>10. \A x \in Objs :
          /\ response_seq'[x] = IF x = cur THEN response_seq[cur] + 1 ELSE response_seq[x]
          /\ numbered'[x] = IF x = cur THEN numbered[cur] \cup {response_seq[cur]}
                            ELSE numbered[x]
  BY <1>4, <1>7, <1>9
<1>11. NumberedBelow'
  <2> SUFFICES ASSUME NEW x \in Objs, NEW n \in numbered'[x] PROVE n < response_seq'[x]
    BY DEF NumberedBelow
  <2>1. CASE x = cur
    <3>1. response_seq[cur] \in Nat /\ numbered[cur] \subseteq Nat
      BY <1>4, <1>9
    <3>2. n = response_seq[cur] \/ (n \in numbered[cur] /\ n < response_seq[cur])
      <4>1. numbered'[x] = numbered[cur] \cup {response_seq[cur]}
        BY <1>10, <2>1
      <4>2. n \in numbered[cur] \cup {response_seq[cur]}
        BY <4>1
      <4>3. n \in numbered[cur] => n < response_seq[cur]
        BY <1>4 DEF NumberingInv, NumberedBelow
      <4>4. CASE n \in numbered[cur]
        BY <4>3, <4>4, Zenon
      <4> QED
        BY <4>2, <4>4
    <3>3. response_seq'[x] = response_seq[cur] + 1
      BY <1>10, <2>1
    <3> QED
      BY <3>1, <3>2, <3>3
  <2>2. CASE x # cur
    BY <1>10, <2>2 DEF NumberingInv, NumberedBelow
  <2> QED
    BY <2>1, <2>2
<1>12. NumberedCreated'
  <2> SUFFICES ASSUME NEW x \in Objs, x > created PROVE numbered'[x] = {}
    BY <1>5 DEF NumberedCreated
  <2>1. x # cur
    BY <1>1, <1>4 DEF Objs
  <2> QED
    BY <1>10, <2>1 DEF NumberingInv, NumberedCreated
<1>13. response_seq[cur] \notin numbered[cur]
  <2> SUFFICES ASSUME response_seq[cur] \in numbered[cur] PROVE FALSE
    OBVIOUS
  <2>1. response_seq[cur] < response_seq[cur]
    BY <1>4 DEF NumberingInv, NumberedBelow
  <2>2. response_seq[cur] \in Nat
    BY <1>4, <1>9
  <2> QED
    BY <2>1, <2>2
<1> QED
  BY <1>6, <1>8, <1>11, <1>12, <1>13 DEF NumberingInv

\* No number was drawn from the counter of a new session.
LEMMA CreateNumbers ==
    ASSUME TypeOK, NumberingInv, NEW t \in Tasks, Create(t)
    PROVE  NumberingInv'
<1> DEFINE n == created + 1
<1>1. n \in Objs /\ created \in Nat /\ created' = n /\ n > created
  BY BoundsAssumption DEF Create, NewSession, TypeOK, ObjectsOK, Objs
<1>2. response_seq' = [response_seq EXCEPT ![n] = 0] /\ UNCHANGED numbered
  BY DEF Create, NewSession, history
<1>3. numbered[n] = {}
  BY <1>1 DEF NumberingInv, NumberedCreated
<1>4. \A x \in Objs : x # n => response_seq'[x] = response_seq[x]
  BY <1>2 DEF TypeOK, ObjectsOK
<1>5. \A x \in Objs : x > n => x > created
  BY <1>1 DEF Objs
<1> HIDE DEF n
<1> QED
  BY <1>1, <1>2, <1>3, <1>4, <1>5 DEF NumberingInv, NumberedBelow, NumberedCreated

\* Every other step draws nothing.
LEMMA NextPreservesNumbering == TypeOK /\ NumberingInv /\ [Next]_vars => NumberingInv'
<1> SUFFICES ASSUME TypeOK, NumberingInv, [Next]_vars PROVE NumberingInv'
  OBVIOUS
<1>1. ASSUME NEW t \in Tasks, PacketStep(t) PROVE NumberingInv'
  <2>1. CASE Create(t)
    BY <2>1, CreateNumbers
  <2>2. CASE ~Create(t)
    <3>1. UNCHANGED <<created, response_seq, numbered>>
      BY <1>1, <2>2 DEF PacketStep, Lookup, CreateFindsOne, CreateFails, Touch, Stamp, Dedup,
                        AddPath, Forward, ForwardFails, objects, history
    <3> QED
      BY <3>1, NumbersStay
  <2> QED
    BY <2>1, <2>2
<1>2. ASSUME NEW o \in Objs,
             RecvTarget(o) \/ HandlerError(o) \/ HandlerExit(o) \/ RespStep(o)
      PROVE  NumberingInv'
  <2>1. CASE RespSeq(o)
    BY <2>1, RespSeqNumbers
  <2>2. CASE ~RespSeq(o)
    <3>1. UNCHANGED <<created, response_seq, numbered>>
      BY <1>2, <2>2 DEF RecvTarget, HandlerError, HandlerExit, RespStep, RespTouch,
                        RespStamp, RespDropped, RespPaths, RespSend, objects, history
    <3> QED
      BY <3>1, NumbersStay
  <2> QED
    BY <2>1, <2>2
<1>3. ASSUME SweepStep \/ SweepExit \/ Tick \/ Stop \/ AcceptExit \/ UNCHANGED vars
      PROVE  NumberingInv'
  <2>1. UNCHANGED <<created, response_seq, numbered>>
    BY <1>3 DEF SweepStep, SweepTick, SweepScan, SweepRemove, SweepPaths, SweepExit,
                Tick, Stop, AcceptExit, vars, objects, history
  <2> QED
    BY <2>1, NumbersStay
<1>4. ASSUME NEW t,
             \/ ListenerExit(t) \/ AcceptTcp(t) \/ ReadLength(t) \/ DecodeFails(t)
             \/ TcpClose(t) \/ ConnExit(t) \/ ConnStep(t)
      PROVE  NumberingInv'
  <2>1. UNCHANGED <<created, response_seq, numbered>>
    BY <1>4 DEF ListenerExit, AcceptTcp, ReadLength, DecodeFails, TcpClose, ConnExit,
                ConnStep, Track, Untrack, Unpath, objects, history
  <2> QED
    BY <2>1, NumbersStay
<1>5. ASSUME NEW t, NEW sid, NEW seq, NEW addr,
             RecvUdp(t, sid, seq, addr) \/ ReadData(t, sid, seq)
      PROVE  NumberingInv'
  <2>1. UNCHANGED <<created, response_seq, numbered>>
    BY <1>5 DEF RecvUdp, ReadData, objects
  <2> QED
    BY <2>1, NumbersStay
<1> QED
  BY <1>1, <1>2, <1>3, <1>4, <1>5 DEF Next, Terminated

\* A handler goes from "seq" to "paths" in RespSeq only.
LEMMA DrawnByRespSeq ==
    ASSUME TypeOK, [Next]_vars, NEW o \in Objs,
           handler[o].pc = "seq", handler'[o].pc = "paths"
    PROVE  RespSeq(o)
<1>1. ~UNCHANGED handler
  OBVIOUS
<1>2. \A x \in Objs : HandlerOK(x, handler[x])
  BY HandlerFacts
<1>3. \A x \in Objs : \A r : handler' = [handler EXCEPT ![x] = r] => x = o /\ r.pc = "paths"
  BY DEF TypeOK, HandlersOK
<1>4. ASSUME NEW t \in Tasks, PacketStep(t) PROVE FALSE
  <2>1. CASE Create(t)
    <3>1. created + 1 \in Objs
      BY <2>1, BoundsAssumption DEF Create, NewSession, TypeOK, ObjectsOK, Objs
    <3>2. handler' = [handler EXCEPT ![created + 1] = Selecting] /\ Selecting.pc = "select"
      BY <2>1 DEF Create, NewSession, Selecting
    <3> QED
      BY <1>3, <3>1, <3>2
  <2>2. CASE ~Create(t)
    BY <1>1, <1>4, <2>2 DEF PacketStep, Lookup, CreateFindsOne, CreateFails, Touch, Stamp,
                            Dedup, AddPath, Forward, ForwardFails
  <2> QED
    BY <2>1, <2>2
<1>5. ASSUME NEW x \in Objs,
             RecvTarget(x) \/ HandlerError(x) \/ HandlerExit(x) \/ RespStep(x)
      PROVE  RespSeq(o)
  <2>1. PICK r : handler' = [handler EXCEPT ![x] = r]
    BY <1>5 DEF RecvTarget, HandlerError, HandlerExit, RespStep, RespTouch, RespStamp,
                RespSeq, RespDropped, RespPaths, RespSend, RespGoto
  <2>2. x = o
    BY <1>3, <2>1
  <2>3. ~RespDropped(o)
    <3>1. [handler[o] EXCEPT !.pc = "select"].pc = "select"
      BY <1>2 DEF HandlerOK
    <3> QED
      BY <1>3, <3>1 DEF RespDropped, RespGoto
  <2> QED
    BY <1>5, <2>2, <2>3 DEF RecvTarget, HandlerError, HandlerExit, RespStep, RespTouch,
                            RespStamp, RespPaths, RespSend
<1>6. ~(SweepStep \/ SweepExit \/ Tick \/ Stop \/ AcceptExit \/ UNCHANGED vars)
  BY <1>1 DEF SweepStep, SweepTick, SweepScan, SweepRemove, SweepPaths, SweepExit, Tick,
              Stop, AcceptExit, vars
<1>7. \A t : ~(\/ ListenerExit(t) \/ AcceptTcp(t) \/ ReadLength(t) \/ DecodeFails(t)
               \/ TcpClose(t) \/ ConnExit(t) \/ ConnStep(t))
  BY <1>1 DEF ListenerExit, AcceptTcp, ReadLength, DecodeFails, TcpClose, ConnExit,
              ConnStep, Track, Untrack, Unpath
<1>8. \A t, sid, seq, addr : ~(RecvUdp(t, sid, seq, addr) \/ ReadData(t, sid, seq))
  BY <1>1 DEF RecvUdp, ReadData
<1> QED
  BY <1>4, <1>5, <1>6, <1>7, <1>8 DEF Next, Terminated

\* Every number a handler draws is new to the session whose counter it draws
\* from: the responses of a session, those on their way and those sent long
\* ago, carry different numbers, also when the handler of an expired session
\* draws from its successor.
THEOREM ResponsesNumberedApart == Spec => ResponseSeqUnique
<1> DEFINE Drawn == \A o \in Objs :
               handler[o].pc = "seq" /\ handler'[o].pc = "paths"
                   => handler'[o].seq \notin numbered[handler'[o].obj]
<1>1. Init => NumberingInv
  BY DEF Init, NumberingInv, NumberedBelow, NumberedCreated
<1>2. IInv => TypeOK
  BY DEF IInv
<1>3. TypeOK /\ NumberingInv /\ [Next]_vars => [Drawn]_vars
  BY DrawnByRespSeq, RespSeqNumbers
<1>4. Spec => [][Drawn]_vars
  BY <1>1, <1>2, <1>3, NextPreservesNumbering, IInvHolds, PTL DEF Spec
<1> QED
  BY <1>4 DEF ResponseSeqUnique

-----------------------------------------------------------------------------
(* A connection that ended is forgotten *)

\* One task moves, and it is not a connection that reaches its end.
LEMMA ForgottenKept ==
    ASSUME TypeOK, ForgottenFirst, UNCHANGED tcp_conn_to_session,
           NEW t \in Tasks, NEW r, task' = [task EXCEPT ![t] = r],
           t \in Conns /\ r.pc \in {"unpath", "closed"} =>
               task[t].pc \in {"unpath", "closed"}
    PROVE  ForgottenFirst'
<1>1. \A x \in Tasks : task'[x] = IF x = t THEN r ELSE task[x]
  BY DEF TypeOK, TasksOK
<1> QED
  BY <1>1 DEF ForgottenFirst, Tasks

\* A packet being handled does not end the connection.
LEMMA PacketForgotten ==
    ASSUME TypeOK, ForgottenFirst, NEW t \in Tasks, PacketStep(t)
    PROVE  ForgottenFirst'
<1>1. UNCHANGED tcp_conn_to_session
  BY DEF PacketStep, Lookup, CreateFindsOne, Create, CreateFails, Touch, Stamp, Dedup,
         AddPath, Forward, ForwardFails, maps
<1>2. TaskOK(t, task[t])
  BY TaskFacts
<1> DEFINE Moving == {"recv", "create", "touch", "stamp", "dedup", "track", "path", "forward"}
<1>3. ASSUME NEW r, task' = [task EXCEPT ![t] = r], r.pc \in Moving
      PROVE  ForgottenFirst'
  BY <1>1, <1>3, ForgottenKept
<1>4. ASSUME NEW q \in Moving, task' = [task EXCEPT ![t] = [task[t] EXCEPT !.pc = q]]
      PROVE  ForgottenFirst'
  <2>1. [task[t] EXCEPT !.pc = q].pc = q
    BY <1>2 DEF TaskOK
  <2> QED
    BY <1>3, <1>4, <2>1
<1>5. ASSUME NEW q \in Moving, NEW x,
             task' = [task EXCEPT ![t] = [task[t] EXCEPT !.pc = q, !.obj = x]]
      PROVE  ForgottenFirst'
  <2>1. [task[t] EXCEPT !.pc = q, !.obj = x].pc = q
    BY <1>2 DEF TaskOK
  <2> QED
    BY <1>3, <1>5, <2>1
<1>6. ASSUME Rest(t) PROVE ForgottenFirst'
  BY <1>3, <1>6 DEF Rest, Resting
<1>7. CASE Lookup(t) \/ CreateFindsOne(t) \/ Create(t)
  <2>1. PICK x : \E q \in {"create", "touch"} :
           task' = [task EXCEPT ![t] = [task[t] EXCEPT !.pc = q, !.obj = x]]
    <3> DEFINE o == sessions[task[t].sid]
               p == IF o = 0 THEN "create" ELSE "touch"
    <3>1. p \in {"create", "touch"} /\ "touch" \in {"create", "touch"}
      OBVIOUS
    <3>2. CASE Lookup(t)
      <4>1. task' = [task EXCEPT ![t] = [task[t] EXCEPT !.pc = p, !.obj = o]]
        BY <3>2, Zenon DEF Lookup
      <4> HIDE DEF p, o
      <4> QED
        BY <3>1, <4>1, Zenon
    <3>3. CASE CreateFindsOne(t)
      BY <3>1, <3>3, Zenon DEF CreateFindsOne
    <3>4. CASE Create(t)
      <4>1. task' = [task EXCEPT ![t] = [task[t] EXCEPT !.pc = "touch", !.obj = created + 1]]
        BY <3>4, Zenon DEF Create, NewSession
      <4> QED
        BY <3>1, <4>1, Zenon
    <3> QED
      BY <1>7, <3>2, <3>3, <3>4
  <2>2. {"create", "touch"} \subseteq Moving
    OBVIOUS
  <2> QED
    BY <1>5, <2>1, <2>2
<1>8. CASE Touch(t) \/ Stamp(t)
  <2>1. PICK q \in {"stamp", "dedup"} : \E x :
           task' = [task EXCEPT ![t] = [task[t] EXCEPT !.pc = q, !.at = x]]
    BY <1>8 DEF Touch, Stamp
  <2>2. \A x : [task[t] EXCEPT !.pc = q, !.at = x].pc = q
    BY <1>2 DEF TaskOK
  <2> QED
    BY <1>3, <2>1, <2>2
<1>9. CASE Dedup(t)
  BY <1>4, <1>6, <1>9 DEF Dedup, Goto
<1>10. CASE AddPath(t)
  BY <1>4, <1>10 DEF AddPath, Goto
<1>11. CASE CreateFails(t) \/ Forward(t) \/ ForwardFails(t)
  BY <1>6, <1>11 DEF CreateFails, Forward, ForwardFails
<1> QED
  BY <1>7, <1>8, <1>9, <1>10, <1>11 DEF PacketStep

\* The id is noted while a packet is handled, and removed before the paths.
LEMMA ConnForgotten ==
    ASSUME TypeOK, ForgottenFirst, NEW c \in Conns, ConnStep(c)
    PROVE  ForgottenFirst'
<1>1. c \in Tasks
  BY DEF Tasks
<1>2. TaskOK(c, task[c])
  BY <1>1, TaskFacts
<1>3. \A r : task' = [task EXCEPT ![c] = r] =>
         \A x \in Conns : task'[x] = IF x = c THEN r ELSE task[x]
  BY DEF TypeOK, TasksOK, Tasks
<1>4. CASE Track(c)
  <2>1. [task[c] EXCEPT !.pc = "path"].pc = "path"
    BY <1>2 DEF TaskOK
  <2>2. task' = [task EXCEPT ![c] = [task[c] EXCEPT !.pc = "path"]]
    BY <1>4 DEF Track, Goto
  <2>3. task'[c].pc = "path" /\ \A x \in Conns \ {c} : task'[x] = task[x]
    BY <1>3, <2>1, <2>2
  <2>4. \A x \in Conns \ {c} : tcp_conn_to_session'[x] = tcp_conn_to_session[x]
    BY <1>4 DEF Track, TypeOK, MapsOK
  <2> QED
    BY <2>3, <2>4 DEF ForgottenFirst
<1>5. CASE Untrack(c)
  <2>1. PICK r : task' = [task EXCEPT ![c] = r]
    BY <1>5 DEF Untrack
  <2>2. \A x \in Conns \ {c} : task'[x] = task[x]
    BY <1>3, <2>1
  <2>3. /\ tcp_conn_to_session'[c] = None
        /\ \A x \in Conns \ {c} : tcp_conn_to_session'[x] = tcp_conn_to_session[x]
    BY <1>5 DEF Untrack, TypeOK, MapsOK
  <2> QED
    BY <2>2, <2>3 DEF ForgottenFirst
<1>6. CASE Unpath(c)
  BY <1>1, <1>6, ForgottenKept DEF Unpath
<1> QED
  BY <1>4, <1>5, <1>6 DEF ConnStep

\* A connection returns through its cleanup only.
LEMMA NextPreservesForgotten == TypeOK /\ ForgottenFirst /\ [Next]_vars => ForgottenFirst'
<1> SUFFICES ASSUME TypeOK, ForgottenFirst, [Next]_vars PROVE ForgottenFirst'
  OBVIOUS
<1>1. ASSUME NEW t \in Tasks, NEW sid \in SessionIds, NEW seq \in Seqs, NEW addr,
             RecvUdp(t, sid, seq, addr) \/ ReadData(t, sid, seq)
      PROVE  ForgottenFirst'
  <2>1. PICK a : Packet(t, sid, seq, a)
    BY <1>1 DEF RecvUdp, ReadData
  <2>2. UNCHANGED tcp_conn_to_session
    BY <1>1 DEF RecvUdp, ReadData, maps
  <2> QED
    BY <2>1, <2>2, ForgottenKept DEF Packet
<1>2. ASSUME NEW u \in Listeners, ListenerExit(u) PROVE ForgottenFirst'
  BY <1>2, ForgottenKept, NamesAssumption DEF ListenerExit, Tasks, maps
<1>3. ASSUME NEW c \in Conns, AcceptTcp(c) \/ DecodeFails(c) \/ TcpClose(c) \/ ConnExit(c)
      PROVE  ForgottenFirst'
  <2>1. Resting.pc = "recv" /\ [Resting EXCEPT !.pc = "untrack"].pc = "untrack"
    BY DEF Resting
  <2> QED
    BY <1>3, <2>1, ForgottenKept
       DEF AcceptTcp, DecodeFails, TcpClose, ConnExit, Rest, Tasks, maps
<1>4. ASSUME NEW c \in Conns, ReadLength(c) PROVE ForgottenFirst'
  <2>1. c \in Tasks /\ TaskOK(c, task[c])
    BY TaskFacts DEF Tasks
  <2>2. [task[c] EXCEPT !.pc = "body"].pc = "body"
    BY <2>1 DEF TaskOK
  <2> QED
    BY <1>4, <2>1, <2>2, ForgottenKept DEF ReadLength, Goto, maps
<1>5. ASSUME NEW o \in Objs,
             RecvTarget(o) \/ HandlerError(o) \/ HandlerExit(o) \/ RespStep(o)
      PROVE  ForgottenFirst'
  <2>1. UNCHANGED <<task, tcp_conn_to_session>>
    BY <1>5 DEF RecvTarget, HandlerError, HandlerExit, RespStep, RespTouch, RespStamp,
                RespSeq, RespDropped, RespPaths, RespSend, maps
  <2> QED
    BY <2>1 DEF ForgottenFirst
<1>6. ASSUME SweepStep \/ SweepExit \/ Tick \/ Stop \/ AcceptExit \/ UNCHANGED vars
      PROVE  ForgottenFirst'
  <2>1. /\ UNCHANGED task
        /\ UNCHANGED maps \/ UNCHANGED tcp_conn_to_session
    BY <1>6, Zenon DEF SweepStep, SweepTick, SweepScan, SweepRemove, SweepPaths, SweepExit,
                       Tick, Stop, AcceptExit, vars
  <2> QED
    BY <2>1 DEF ForgottenFirst, maps
<1> QED
  BY <1>1, <1>2, <1>3, <1>4, <1>5, <1>6, PacketForgotten, ConnForgotten
     DEF Next, Terminated, Tasks

\* When the task of a connection has returned, no map leads from its id to a
\* session, so the next connection with that id starts with nothing.
THEOREM EndedConnForgotten == Spec => []ClosedConnForgotten
<1>1. Init => ForgottenFirst
  BY DEF Init, ForgottenFirst
<1>2. IInv => TypeOK
  BY DEF IInv
<1>3. ForgottenFirst => ClosedConnForgotten
  BY DEF ForgottenFirst, ClosedConnForgotten
<1> QED
  BY <1>1, <1>2, <1>3, NextPreservesForgotten, IInvHolds, PTL DEF Spec

-----------------------------------------------------------------------------
(* The sweeper removes idle sessions only *)

\* What finds a session in the map waits for the sweep to end.
LEMMA LockedOut ==
    ASSUME ListedIdle, UNCHANGED sweep, SessionsWriteLocked => UNCHANGED <<sessions, idle>>
    PROVE  ListedIdle'
BY DEF ListedIdle, SessionsWriteLocked

\* No step but the sweeper's finds a session idle, or takes one from the map.
LEMMA OthersList ==
    ASSUME IInv, ListedIdle, [Next]_vars, ~SweepStep
    PROVE  /\ ListedIdle' /\ idle' \subseteq idle
           /\ \A s \in SessionIds : sessions[s] # 0 => sessions'[s] = sessions[s]
<1> DEFINE Harmless ==
               /\ UNCHANGED sweep /\ idle' \subseteq idle
               /\ SessionsWriteLocked => UNCHANGED <<sessions, idle>>
               /\ \A s \in SessionIds : sessions[s] # 0 => sessions'[s] = sessions[s]
<1>1. ASSUME NEW t \in Tasks, PacketStep(t) PROVE Harmless
  <2>1. CASE Create(t)
    <3>1. /\ sessions' = [sessions EXCEPT ![task[t].sid] = created + 1]
          /\ sessions[task[t].sid] = 0 /\ SessionsFree /\ UNCHANGED <<sweep, idle>>
      BY <2>1 DEF Create, NewSession, history
    <3>2. \A s \in SessionIds : sessions[s] # 0 => sessions'[s] = sessions[s]
      BY <3>1 DEF IInv, TypeOK, MapsOK
    <3> QED
      BY <3>1, <3>2 DEF SessionsFree
  <2>2. CASE Lookup(t) \/ CreateFindsOne(t)
    BY <2>2 DEF Lookup, CreateFindsOne, SessionsFree, maps
  <2>3. CASE ~(Create(t) \/ Lookup(t) \/ CreateFindsOne(t))
    BY <1>1, <2>3 DEF PacketStep, CreateFails, Touch, Stamp, Dedup, AddPath, Forward,
                      ForwardFails, maps, history
  <2> QED
    BY <2>1, <2>2, <2>3
<1>2. ASSUME NEW o, RecvTarget(o) \/ HandlerError(o) \/ HandlerExit(o) \/ RespStep(o)
      PROVE  Harmless
  BY <1>2 DEF RecvTarget, HandlerError, HandlerExit, RespStep, RespTouch, RespStamp, RespSeq,
              RespDropped, RespPaths, RespSend, maps, history
<1>3. ASSUME NEW t,
             \/ ListenerExit(t) \/ AcceptTcp(t) \/ ReadLength(t) \/ DecodeFails(t)
             \/ TcpClose(t) \/ ConnExit(t) \/ ConnStep(t)
      PROVE  Harmless
  BY <1>3 DEF ListenerExit, AcceptTcp, ReadLength, DecodeFails, TcpClose, ConnExit, ConnStep,
              Track, Untrack, Unpath, maps, history
<1>4. ASSUME NEW t, NEW sid, NEW seq, NEW addr,
             RecvUdp(t, sid, seq, addr) \/ ReadData(t, sid, seq)
      PROVE  Harmless
  BY <1>4 DEF RecvUdp, ReadData, maps
<1>5. ASSUME Tick \/ Stop \/ AcceptExit \/ UNCHANGED vars PROVE Harmless
  BY <1>5 DEF Tick, Stop, AcceptExit, vars, maps, history
<1>6. CASE SweepExit
  <2>1. [sweep EXCEPT !.pc = "done"].pc = "done"
    BY DEF IInv, TypeOK, SweepOK
  <2>2. sweep'.pc = "done" /\ UNCHANGED <<sessions, idle>>
    BY <1>6, <2>1 DEF SweepExit, maps, history
  <2> QED
    BY <2>2 DEF ListedIdle
<1>7. CASE Harmless
  BY <1>7, LockedOut
<1> HIDE DEF Harmless
<1> QED
  BY <1>1, <1>2, <1>3, <1>4, <1>5, <1>6, <1>7 DEF Next, Terminated

\* What the scan lists is idle by the time the sweeper read.
LEMMA ScanLists ==
    ASSUME IInv, SweepScan
    PROVE  /\ ListedIdle' /\ UNCHANGED sessions
           /\ \A o \in idle' : last_activity[o] + Timeout < sweep.now
<1> DEFINE expired == {sid \in SessionIds : Expired(sid)}
           r == [sweep EXCEPT !.pc = "remove", !.expired = expired]
<1>1. /\ sweep' = (IF expired = {} THEN Waiting ELSE r)
      /\ idle' = {sessions[sid] : sid \in expired} /\ UNCHANGED sessions
  BY Zenon DEF SweepScan, maps
<1>2. r.expired = expired /\ Waiting.pc = "wait"
  BY DEF Waiting, IInv, TypeOK, SweepOK
<1>3. \A s \in expired : last_activity[sessions[s]] + Timeout < sweep.now
  <2> SUFFICES ASSUME NEW s \in SessionIds, Expired(s)
               PROVE  last_activity[sessions[s]] + Timeout < sweep.now
    OBVIOUS
  <2>1. sessions[s] \in Objs
    BY BoundsAssumption DEF Expired, IInv, TypeOK, MapsOK, ObjectsOK, Objs
  <2>2. last_activity[sessions[s]] \in Nat /\ sweep.now \in Nat /\ Timeout \in Nat
    BY <2>1, BoundsAssumption DEF IInv, TypeOK, ObjectsOK, SweepOK
  <2> QED
    BY <2>2 DEF Expired
<1> HIDE DEF expired, r
<1>4. ListedIdle'
  <2>1. CASE expired = {}
    BY <1>1, <1>2, <2>1 DEF ListedIdle
  <2>2. CASE expired # {}
    BY <1>1, <1>2, <2>2 DEF ListedIdle
  <2> QED
    BY <2>1, <2>2
<1> QED
  BY <1>1, <1>3, <1>4

\* A removal takes one session, that of its id, off the list and the map.
LEMMA RemoveListed ==
    ASSUME IInv, ListedIdle, NEW sid \in SessionIds, SweepRemove(sid)
    PROVE  /\ ListedIdle' /\ idle' \subseteq idle
           /\ \A s \in SessionIds :
                 sessions[s] # 0 /\ sessions'[s] # sessions[s] => sessions[s] \in idle
<1> DEFINE r == [sweep EXCEPT !.pc = "paths", !.cur = sid]
<1>1. /\ sweep' = r /\ idle' = idle \ {sessions[sid]}
      /\ sweep.pc = "remove" /\ sid \in sweep.expired
  BY Zenon DEF SweepRemove
<1>2. r.expired = sweep.expired /\ sweep.expired \subseteq SessionIds
  BY DEF IInv, TypeOK, SweepOK
<1> HIDE DEF r
<1>3. \A s \in SessionIds : sessions'[s] = IF s = sid THEN 0 ELSE sessions[s]
  BY DEF SweepRemove, IInv, TypeOK, MapsOK
<1>4. \A s \in sweep.expired : sessions[s] # 0 => sessions[s] \in idle
  BY <1>1 DEF ListedIdle
<1>5. \A s \in SessionIds : sessions[s] # 0 /\ s # sid => sessions[s] # sessions[sid]
  BY DEF IInv, SessionOwner
<1>6. ListedIdle'
  BY <1>1, <1>2, <1>3, <1>4, <1>5 DEF ListedIdle
<1> QED
  BY <1>1, <1>3, <1>4, <1>6

\* A sweep starts with an empty list, and only shortens it.
LEMMA SweepListed ==
    ASSUME IInv, ListedIdle, SweepTick \/ SweepPaths
    PROVE  ListedIdle' /\ UNCHANGED <<sessions, idle>>
<1>1. UNCHANGED <<sessions, idle>>
  BY DEF SweepTick, SweepPaths, maps, history
<1>2. sweep \in [pc : SweepPCs, now : Nat, expired : SUBSET SessionIds,
                 cur : SessionIds \cup {None}]
  BY DEF IInv, TypeOK, SweepOK
<1>3. CASE SweepTick
  <2>1. [sweep EXCEPT !.pc = "scan", !.now = now].pc = "scan"
    BY <1>2
  <2> QED
    BY <1>1, <1>3, <2>1 DEF SweepTick, ListedIdle
<1>4. CASE SweepPaths
  <2> DEFINE rest == sweep.expired \ {sweep.cur}
             r == [sweep EXCEPT !.pc = "remove", !.expired = rest, !.cur = None]
  <2>1. sweep' = (IF rest = {} THEN Waiting ELSE r)
    BY <1>4, Zenon DEF SweepPaths
  <2>2. r.expired \subseteq sweep.expired /\ Waiting.pc = "wait"
    BY <1>2 DEF Waiting
  <2>3. \A s \in sweep.expired : sessions[s] # 0 => sessions[s] \in idle
    BY <1>4 DEF SweepPaths, ListedIdle
  <2> HIDE DEF r, rest
  <2> QED
    BY <1>1, <2>1, <2>2, <2>3 DEF ListedIdle
<1> QED
  BY <1>1, <1>3, <1>4

\* A session leaves the map only if the sweep in progress found it idle for
\* longer than the timeout, and no packet and no response has found it since:
\* session_cleanup_loop keeps the lock from the look at last_activity to the
\* last removal.  A packet that found the session before the sweep may still
\* work on it, and may write its activity after the look.
THEOREM SweepRemovesIdle == Spec => OnlyIdleRemoved
<1> DEFINE Removed ==
               /\ \A o \in idle' \ idle : last_activity[o] + Timeout < sweep.now
               /\ \A s \in SessionIds :
                     sessions[s] # 0 /\ sessions'[s] # sessions[s] => sessions[s] \in idle
<1>1. Init => ListedIdle
  BY DEF Init, ListedIdle, Waiting
<1>2. IInv /\ ListedIdle /\ [Next]_vars => ListedIdle' /\ [Removed]_vars
  <2> SUFFICES ASSUME IInv, ListedIdle, [Next]_vars PROVE ListedIdle' /\ Removed
    OBVIOUS
  <2>1. CASE ~SweepStep
    BY <2>1, OthersList
  <2>2. CASE SweepScan
    BY <2>2, ScanLists
  <2>3. CASE SweepTick \/ SweepPaths
    BY <2>3, SweepListed
  <2>4. CASE \E sid \in SessionIds : SweepRemove(sid)
    BY <2>4, RemoveListed
  <2> QED
    BY <2>1, <2>2, <2>3, <2>4 DEF SweepStep
<1>3. Spec => [][Removed]_vars
  BY <1>1, <1>2, IInvHolds, PTL DEF Spec
<1> QED
  BY <1>3 DEF OnlyIdleRemoved

=============================================================================
