-------------------------- MODULE RustServerProofs --------------------------
(***************************************************************************)
(* The server of the Rust implementation, for every set of ids, sequence   *)
(* numbers, listeners, connections and addresses, every window size and    *)
(* every bound: IInv is inductive, so the state stays well typed, a        *)
(* sequence number of a session is forwarded at most once, and an id has   *)
(* one target socket.  The last section shows that the server implements   *)
(* TargetSessions.                                                         *)
(*                                                                         *)
(* Most steps move one task, or no task, and leave alone what the parts of *)
(* IInv other than TypeOK speak of: QuietTaskStep and QuietStep settle     *)
(* them, and leave the type of what changed.  Create, Dedup, Forward and   *)
(* SweepRemove are the steps the invariant is about.                       *)
(***************************************************************************)
EXTENDS RustServer, DedupWindowProofs

-----------------------------------------------------------------------------
(* Types of the parts *)

\* A part of the state that does not change keeps its type.
LEMMA Frame ==
    ASSUME TypeOK, UNCHANGED created
    PROVE  /\ UNCHANGED maps => MapsOK'
           /\ UNCHANGED objects => ObjectsOK'
           /\ UNCHANGED task => TasksOK'
           /\ UNCHANGED handler => HandlersOK'
           /\ UNCHANGED sweep => SweepOK'
           /\ UNCHANGED history => HistoryOK'
<1>1. UNCHANGED maps => MapsOK'
  BY DEF TypeOK, MapsOK, maps
<1>2. UNCHANGED objects => ObjectsOK'
  BY DEF TypeOK, ObjectsOK, objects
<1>3. UNCHANGED task => TasksOK'
  BY DEF TypeOK, TasksOK, TaskOK
<1>4. UNCHANGED handler => HandlersOK'
  BY DEF TypeOK, HandlersOK, HandlerOK
<1>5. UNCHANGED sweep => SweepOK'
  BY DEF TypeOK, SweepOK
<1>6. UNCHANGED history => HistoryOK'
  BY DEF TypeOK, HistoryOK, history
<1> QED
  BY <1>1, <1>2, <1>3, <1>4, <1>5, <1>6

\* One task, or one handler, is replaced by a well typed one.
LEMMA TaskUpdate ==
    ASSUME TasksOK, UNCHANGED created, NEW t \in Tasks, NEW r, TaskOK(t, r),
           task' = [task EXCEPT ![t] = r]
    PROVE  TasksOK'
<1>1. \A x \in Tasks : task'[x] = IF x = t THEN r ELSE task[x]
  BY DEF TasksOK
<1>2. \A x \in Tasks : TaskOK(x, task'[x])
  BY <1>1 DEF TasksOK
<1>3. task' = [x \in Tasks |-> task'[x]]
  BY DEF TasksOK
<1> QED
  BY <1>2, <1>3 DEF TasksOK, TaskOK

LEMMA HandlerUpdate ==
    ASSUME HandlersOK, UNCHANGED created, NEW o \in Objs, NEW r, HandlerOK(o, r),
           handler' = [handler EXCEPT ![o] = r]
    PROVE  HandlersOK'
<1>1. \A x \in Objs : handler'[x] = IF x = o THEN r ELSE handler[x]
  BY DEF HandlersOK
<1>2. \A x \in Objs : HandlerOK(x, handler'[x])
  BY <1>1 DEF HandlersOK
<1>3. handler' = [x \in Objs |-> handler'[x]]
  BY DEF HandlersOK
<1> QED
  BY <1>2, <1>3 DEF HandlersOK, HandlerOK

-----------------------------------------------------------------------------
(* Steps the invariant is not about *)

kept == <<sessions, created, owner, window, cancelled, forwarded>>

\* No task moves.
LEMMA QuietStep ==
    ASSUME IInv, UNCHANGED <<kept, task>>, TypeOK'
    PROVE  IInv'
<1>1. UNCHANGED <<sessions, created, owner, window, cancelled, forwarded, task>>
  BY DEF kept
<1>2. WindowsOK' /\ PassedOnce' /\ ForwardedOnce'
  BY <1>1 DEF IInv, WindowsOK, PassedOnce, ForwardedOnce, Passed
<1>3. SessionOwner' /\ OneTargetSocket'
  BY <1>1 DEF IInv, SessionOwner, OneTargetSocket
<1> QED
  BY <1>2, <1>3 DEF IInv

\* One task moves, and if its packet counts as passed, it did before.
LEMMA QuietTaskStep ==
    ASSUME IInv, UNCHANGED <<kept, handler, sweep, stopped, accepting, now>>,
           NEW t \in Tasks, NEW r, TaskOK(t, r), task' = [task EXCEPT ![t] = r],
           r.pc \in {"track", "path", "forward"} =>
               Passed(t) /\ r.obj = task[t].obj /\ r.seq = task[t].seq,
           MapsOK', ObjectsOK', HistoryOK'
    PROVE  IInv'
<1>1. UNCHANGED <<sessions, created, owner, window, cancelled, forwarded>>
  BY DEF kept
<1>2. TasksOK'
  BY <1>1, TaskUpdate DEF IInv, TypeOK
<1>3. TypeOK'
  BY <1>1, <1>2, Frame DEF IInv, TypeOK
<1>4. \A x \in Tasks : task'[x] = IF x = t THEN r ELSE task[x]
  BY DEF IInv, TypeOK, TasksOK
<1>5. \A x \in Tasks : Passed(x)' =>
         Passed(x) /\ task'[x].obj = task[x].obj /\ task'[x].seq = task[x].seq
  BY <1>4 DEF Passed
<1>6. WindowsOK' /\ ForwardedOnce'
  BY <1>1 DEF IInv, WindowsOK, ForwardedOnce
<1>7. PassedOnce'
  BY <1>1, <1>5 DEF IInv, PassedOnce
<1>8. SessionOwner' /\ OneTargetSocket'
  BY <1>1 DEF IInv, SessionOwner, OneTargetSocket
<1> QED
  BY <1>3, <1>6, <1>7, <1>8 DEF IInv


-----------------------------------------------------------------------------
(* Packets *)

\* What the type says of one task.
LEMMA TaskFacts ==
    ASSUME TypeOK, NEW t \in Tasks
    PROVE  /\ TaskOK(t, task[t])
           /\ task[t].pc \in TaskPCs /\ task[t].sid \in SessionIds \cup {None}
           /\ task[t].seq \in Nat /\ task[t].addr \in Addrs \cup {None}
           /\ task[t].obj \in 0..created /\ task[t].at \in Nat
           /\ created \in 0..MaxSessions /\ MaxSessions \in Nat
BY BoundsAssumption DEF TypeOK, TasksOK, TaskOK, ObjectsOK

LEMMA RestingOK == ASSUME TypeOK, NEW t PROVE TaskOK(t, Resting) /\ TaskOK(t, Closed)
BY BoundsAssumption DEF TaskOK, Resting, Closed, TaskPCs, PacketPCs, TypeOK, ObjectsOK

\* A packet arrives.
LEMMA PacketPreserves ==
    ASSUME IInv, NEW t \in Tasks, NEW sid \in SessionIds, NEW seq \in Seqs, NEW addr,
           [ep |-> t, addr |-> addr] \in Paths, Packet(t, sid, seq, addr),
           UNCHANGED <<maps, objects, forwarded, numbered, idle, stopped, accepting, handler,
                       sweep, now>>
    PROVE  IInv'
<1> DEFINE r == [pc |-> "lookup", sid |-> sid, seq |-> seq, addr |-> addr, obj |-> 0,
                 at |-> 0]
<1>1. addr \in Addrs \cup {None} /\ seq \in Nat /\ sid # None
  BY SeqsAssumption, NamesAssumption DEF Paths
<1>2. TaskOK(t, r)
  BY <1>1, BoundsAssumption DEF TaskOK, TaskPCs, PacketPCs, IInv, TypeOK, ObjectsOK
<1>3. HistoryOK'
  BY DEF Packet, IInv, TypeOK, HistoryOK, objects
<1>4. MapsOK' /\ ObjectsOK'
  BY Frame DEF IInv, TypeOK, objects
<1>5. task' = [task EXCEPT ![t] = r]
  BY DEF Packet
<1>6. r.pc \notin {"track", "path", "forward"}
  OBVIOUS
<1>7. UNCHANGED <<kept, handler, sweep, stopped, accepting, now>>
  BY DEF kept, maps, objects
<1> HIDE DEF r
<1> QED
  BY <1>2, <1>3, <1>4, <1>5, <1>6, <1>7, QuietTaskStep

LEMMA RecvUdpPreserves ==
    ASSUME IInv, NEW u \in Listeners, NEW sid \in SessionIds, NEW seq \in Seqs,
           NEW addr \in Addrs, RecvUdp(u, sid, seq, addr)
    PROVE  IInv'
BY PacketPreserves DEF RecvUdp, Tasks, Paths

LEMMA ReadDataPreserves ==
    ASSUME IInv, NEW c \in Conns, NEW sid \in SessionIds, NEW seq \in Seqs,
           ReadData(c, sid, seq)
    PROVE  IInv'
BY PacketPreserves DEF ReadData, Tasks, Paths

\* A task that changes nothing but itself, and what is listed as idle.
LEMMA TaskAlonePreserves ==
    ASSUME IInv, NEW t \in Tasks, NEW r, TaskOK(t, r), task' = [task EXCEPT ![t] = r],
           r.pc \notin {"track", "path", "forward"}, idle' \subseteq idle,
           UNCHANGED <<maps, objects, forwarded, heard, numbered, stopped, accepting,
                       handler, sweep, now>>
    PROVE  IInv'
<1>1. MapsOK' /\ ObjectsOK'
  BY Frame DEF IInv, TypeOK, objects
<1>2. HistoryOK'
  BY DEF IInv, TypeOK, HistoryOK, objects
<1>3. UNCHANGED <<kept, handler, sweep, stopped, accepting, now>>
  BY DEF kept, maps, objects
<1> QED
  BY <1>1, <1>2, <1>3, QuietTaskStep

\* Dropped packets, and the arrival and the end of listeners and connections.
LEMMA EndsPreserve ==
    ASSUME IInv, NEW t \in Tasks,
           \/ CreateFails(t) \/ ForwardFails(t) \/ DecodeFails(t) \/ ListenerExit(t)
           \/ AcceptTcp(t) \/ TcpClose(t) \/ ConnExit(t)
    PROVE  IInv'
<1>1. TaskOK(t, Resting) /\ TaskOK(t, Closed)
  BY RestingOK DEF IInv
<1>2. TaskOK(t, [Resting EXCEPT !.pc = "untrack"])
  BY <1>1 DEF TaskOK, Resting, TaskPCs, PacketPCs
<1>3. \A r \in {Resting, Closed, [Resting EXCEPT !.pc = "untrack"]} :
         r.pc \notin {"track", "path", "forward"}
  BY DEF Resting, Closed
<1> QED
  BY <1>1, <1>2, <1>3, TaskAlonePreserves
     DEF CreateFails, ForwardFails, DecodeFails, ListenerExit, AcceptTcp, TcpClose,
         ConnExit, Rest, history

LEMMA ReadLengthPreserves ==
    ASSUME IInv, NEW c \in Conns, ReadLength(c)
    PROVE  IInv'
<1> DEFINE r == [task[c] EXCEPT !.pc = "body"]
<1>1. c \in Tasks /\ TaskOK(c, task[c])
  BY TaskFacts DEF IInv, Tasks
<1>2. TaskOK(c, r) /\ r.pc = "body"
  BY <1>1 DEF TaskOK, TaskPCs, PacketPCs
<1>3. task' = [task EXCEPT ![c] = r]
  BY DEF ReadLength, Goto
<1> HIDE DEF r
<1> QED
  BY <1>1, <1>2, <1>3, TaskAlonePreserves DEF ReadLength, history

\* The session of an id that has one.
LEMMA SessionFacts ==
    ASSUME TypeOK, NEW s \in SessionIds
    PROVE  sessions[s] \in 0..created
BY DEF TypeOK, MapsOK

LEMMA LookupPreserves ==
    ASSUME IInv, NEW t \in Tasks, Lookup(t)
    PROVE  IInv'
<1> DEFINE o == sessions[task[t].sid]
           r == [task[t] EXCEPT !.pc = IF o = 0 THEN "create" ELSE "touch", !.obj = o]
<1>1. TaskOK(t, task[t]) /\ task[t].pc = "lookup"
  BY TaskFacts DEF IInv, Lookup
<1>2. task[t].sid \in SessionIds
  BY <1>1 DEF TaskOK
<1>3. o \in 0..created
  BY <1>2, SessionFacts DEF IInv
<1>4. TaskOK(t, r) /\ r.pc \notin {"track", "path", "forward"}
  BY <1>1, <1>3 DEF TaskOK, TaskPCs, PacketPCs
<1>5. task' = [task EXCEPT ![t] = r]
  BY DEF Lookup
<1> HIDE DEF r
<1> QED
  BY <1>4, <1>5, TaskAlonePreserves DEF Lookup

LEMMA CreateFindsOnePreserves ==
    ASSUME IInv, NEW t \in Tasks, CreateFindsOne(t)
    PROVE  IInv'
<1> DEFINE o == sessions[task[t].sid]
           r == [task[t] EXCEPT !.pc = "touch", !.obj = o]
<1>1. TaskOK(t, task[t]) /\ task[t].pc = "create"
  BY TaskFacts DEF IInv, CreateFindsOne
<1>2. task[t].sid \in SessionIds
  BY <1>1 DEF TaskOK
<1>3. o \in 0..created
  BY <1>2, SessionFacts DEF IInv
<1>4. TaskOK(t, r) /\ r.pc \notin {"track", "path", "forward"}
  BY <1>1, <1>3 DEF TaskOK, TaskPCs, PacketPCs, CreateFindsOne
<1>5. task' = [task EXCEPT ![t] = r]
  BY DEF CreateFindsOne
<1> HIDE DEF r
<1> QED
  BY <1>4, <1>5, TaskAlonePreserves DEF CreateFindsOne

LEMMA TouchPreserves ==
    ASSUME IInv, NEW t \in Tasks, Touch(t)
    PROVE  IInv'
<1> DEFINE r == [task[t] EXCEPT !.pc = "stamp", !.at = now]
<1>1. TaskOK(t, task[t]) /\ task[t].pc = "touch" /\ now \in Nat
  BY TaskFacts DEF IInv, TypeOK, Touch
<1>2. TaskOK(t, r) /\ r.pc = "stamp"
  BY <1>1 DEF TaskOK, TaskPCs, PacketPCs
<1>3. task' = [task EXCEPT ![t] = r]
  BY DEF Touch
<1> HIDE DEF r
<1> QED
  BY <1>2, <1>3, TaskAlonePreserves DEF Touch, history

LEMMA StampPreserves ==
    ASSUME IInv, NEW t \in Tasks, Stamp(t)
    PROVE  IInv'
<1> DEFINE r == [task[t] EXCEPT !.pc = "dedup", !.at = 0]
<1>1. TaskOK(t, task[t]) /\ task[t].pc = "stamp" /\ task[t].at \in Nat
  BY TaskFacts DEF IInv, Stamp
<1>2. TaskOK(t, r) /\ r.pc = "dedup"
  BY <1>1 DEF TaskOK, TaskPCs, PacketPCs
<1>3. task' = [task EXCEPT ![t] = r]
  BY DEF Stamp
<1>4. ObjectsOK'
  BY <1>1 DEF Stamp, IInv, TypeOK, ObjectsOK
<1>5. MapsOK' /\ HistoryOK'
  BY Frame DEF Stamp, IInv
<1>6. UNCHANGED <<kept, handler, sweep, stopped, accepting, now>>
  BY DEF Stamp, kept, maps, history
<1> HIDE DEF r
<1> QED
  BY <1>2, <1>3, <1>4, <1>5, <1>6, QuietTaskStep

LEMMA TrackPreserves ==
    ASSUME IInv, NEW c \in Conns, Track(c)
    PROVE  IInv'
<1> DEFINE r == [task[c] EXCEPT !.pc = "path"]
<1>1. c \in Tasks /\ TaskOK(c, task[c]) /\ task[c].pc = "track"
  BY TaskFacts DEF IInv, Tasks, Track
<1>2. TaskOK(c, r) /\ r.pc = "path" /\ r.obj = task[c].obj /\ r.seq = task[c].seq
  BY <1>1 DEF TaskOK, TaskPCs, PacketPCs
<1>3. task' = [task EXCEPT ![c] = r]
  BY DEF Track, Goto
<1>4. MapsOK'
  BY <1>1 DEF Track, IInv, TypeOK, MapsOK, TaskOK, objects
<1>5. ObjectsOK' /\ HistoryOK'
  BY Frame DEF Track, IInv, objects
<1>6. UNCHANGED <<kept, handler, sweep, stopped, accepting, now>>
  BY DEF Track, kept, objects, history
<1> HIDE DEF r
<1> QED
  BY <1>1, <1>2, <1>3, <1>4, <1>5, <1>6, QuietTaskStep DEF Passed

LEMMA AddPathPreserves ==
    ASSUME IInv, NEW t \in Tasks, AddPath(t)
    PROVE  IInv'
<1> DEFINE p == [ep |-> t, addr |-> task[t].addr]
           r == [task[t] EXCEPT !.pc = "forward"]
<1>1. TaskOK(t, task[t]) /\ task[t].pc = "path" /\ p \in Paths
  BY TaskFacts DEF IInv, AddPath, TaskOK, PacketPCs
<1>2. TaskOK(t, r) /\ r.pc = "forward" /\ r.obj = task[t].obj /\ r.seq = task[t].seq
  BY <1>1 DEF TaskOK, TaskPCs, PacketPCs
<1>3. task' = [task EXCEPT ![t] = r]
  BY DEF AddPath, Goto
<1>4. \A ps \in SUBSET Paths : WithPath(ps, p) \in SUBSET Paths
  BY <1>1 DEF WithPath
<1>5. client_paths' = [client_paths EXCEPT ![task[t].sid] = WithPath(@, p)]
  BY DEF AddPath
<1> HIDE DEF p, r
<1>6. MapsOK'
  <2>1. client_paths' \in [SessionIds -> SUBSET Paths]
    BY <1>4, <1>5 DEF IInv, TypeOK, MapsOK
  <2> QED
    BY <2>1 DEF AddPath, IInv, TypeOK, MapsOK, objects
<1>7. ObjectsOK' /\ HistoryOK'
  BY Frame DEF AddPath, IInv, objects
<1>8. UNCHANGED <<kept, handler, sweep, stopped, accepting, now>>
  BY DEF AddPath, kept, objects, history
<1> QED
  BY <1>1, <1>2, <1>3, <1>6, <1>7, <1>8, QuietTaskStep DEF Passed

LEMMA UntrackPreserves ==
    ASSUME IInv, NEW c \in Conns, Untrack(c)
    PROVE  IInv'
<1> DEFINE sid == tcp_conn_to_session[c]
           r == IF sid = None THEN Closed
                ELSE [task[c] EXCEPT !.pc = "unpath", !.sid = sid]
<1>1. c \in Tasks /\ TaskOK(c, task[c]) /\ TaskOK(c, Closed)
  BY TaskFacts, RestingOK DEF IInv, Tasks
<1>2. sid \in SessionIds \cup {None}
  BY DEF IInv, TypeOK, MapsOK
<1>3. TaskOK(c, r) /\ r.pc \notin {"track", "path", "forward"}
  BY <1>1, <1>2 DEF TaskOK, TaskPCs, PacketPCs, Closed, Resting
<1>4. task' = [task EXCEPT ![c] = r]
  BY DEF Untrack
<1>5. MapsOK'
  BY DEF Untrack, IInv, TypeOK, MapsOK, objects
<1>6. ObjectsOK' /\ HistoryOK'
  BY Frame DEF Untrack, IInv, objects
<1>7. UNCHANGED <<kept, handler, sweep, stopped, accepting, now>>
  BY DEF Untrack, kept, objects, history
<1> HIDE DEF r
<1> QED
  BY <1>1, <1>3, <1>4, <1>5, <1>6, <1>7, QuietTaskStep

LEMMA UnpathPreserves ==
    ASSUME IInv, NEW c \in Conns, Unpath(c)
    PROVE  IInv'
<1>1. c \in Tasks /\ TaskOK(c, Closed) /\ Closed.pc \notin {"track", "path", "forward"}
  BY RestingOK DEF IInv, Tasks, Closed, Resting
<1>2. task' = [task EXCEPT ![c] = Closed]
  BY DEF Unpath
<1>3. MapsOK'
  BY DEF Unpath, IInv, TypeOK, MapsOK, objects
<1>4. ObjectsOK' /\ HistoryOK'
  BY Frame DEF Unpath, IInv, objects
<1>5. UNCHANGED <<kept, handler, sweep, stopped, accepting, now>>
  BY DEF Unpath, kept, objects, history
<1> QED
  BY <1>1, <1>2, <1>3, <1>4, <1>5, QuietTaskStep

-----------------------------------------------------------------------------
(* The steps the invariant is about *)

\* A new session: its window is empty, no task has it, it alone is not
\* cancelled among the sessions of its id.
LEMMA CreatePreserves ==
    ASSUME IInv, NEW t \in Tasks, Create(t)
    PROVE  IInv'
<1> DEFINE o == created + 1
           sid == task[t].sid
           r == [task[t] EXCEPT !.pc = "touch", !.obj = o]
<1>1. /\ TaskOK(t, task[t]) /\ task[t].pc = "create" /\ sid \in SessionIds
      /\ created \in Nat /\ MaxSessions \in Nat /\ created < MaxSessions
      /\ o \in Objs /\ o > created /\ created \in 0..MaxSessions
      /\ sessions[sid] = 0
  <2>1. TaskOK(t, task[t]) /\ created \in 0..MaxSessions /\ MaxSessions \in Nat
    BY TaskFacts DEF IInv
  <2> QED
    BY <2>1 DEF Create, NewSession, TaskOK, Objs
<1>2. /\ created' = o
      /\ sessions' = [sessions EXCEPT ![sid] = o]
      /\ owner' = [owner EXCEPT ![o] = sid]
      /\ window' = [window EXCEPT ![o] = New]
      /\ response_seq' = [response_seq EXCEPT ![o] = 0]
      /\ last_activity' = [last_activity EXCEPT ![o] = now]
      /\ cancelled' = [cancelled EXCEPT ![o] = FALSE]
      /\ handler' = [handler EXCEPT ![o] = Selecting]
      /\ task' = [task EXCEPT ![t] = r]
      /\ UNCHANGED <<client_paths, tcp_conn_to_session, forwarded, heard, numbered, idle,
                     stopped, accepting, sweep, now>>
  BY DEF Create, NewSession, history
<1>3. \A x \in Tasks : task'[x] = IF x = t THEN r ELSE task[x]
  BY <1>2 DEF IInv, TypeOK, TasksOK
<1>4. \A x \in Tasks : Passed(x)' => x # t /\ Passed(x) /\ task'[x] = task[x]
  <2>1. r.pc = "touch"
    BY <1>1 DEF TaskOK
  <2> HIDE DEF r
  <2> QED
    BY <1>3, <2>1 DEF Passed
<1>5. \A x \in Tasks : task[x].obj \in 0..created
  BY TaskFacts DEF IInv
<1>6. TypeOK'
  <2>1. MapsOK'
    <3>1. 0..created \subseteq 0..o /\ o \in 0..o
      BY <1>1
    <3> HIDE DEF o
    <3> QED
      BY <1>2, <3>1 DEF IInv, TypeOK, MapsOK
  <2>2. ObjectsOK'
    <3>1. o \in 0..MaxSessions /\ 1..o = 1..created \cup {o} /\ New \in Window
      BY <1>1 DEF New, Window
    <3>2. \A x \in 1..o : owner'[x] # None
      BY <1>1, <1>2, <3>1, NamesAssumption DEF IInv, TypeOK, ObjectsOK
    <3> HIDE DEF o
    <3> QED
      BY <1>1, <1>2, <3>1, <3>2 DEF IInv, TypeOK, ObjectsOK
  <2>3. TasksOK'
    <3>0. 0..created \subseteq 0..o /\ o \in 0..o /\ o # 0
      BY <1>1
    <3>1. \A x \in Tasks : TaskOK(x, task[x])'
      <4> SUFFICES ASSUME NEW x \in Tasks PROVE TaskOK(x, task[x])'
        OBVIOUS
      <4>1. CASE x = t
        <5>1. /\ r \in [pc : TaskPCs, sid : SessionIds \cup {None}, seq : Nat,
                        addr : Addrs \cup {None}, obj : 0..o, at : Nat]
              /\ r.pc = "touch" /\ r.obj = o /\ r.sid = task[t].sid
              /\ r.seq = task[t].seq /\ r.addr = task[t].addr
          BY <1>1, <3>0 DEF TaskOK, TaskPCs
        <5>2. task'[x] = r
          BY <1>3, <4>1
        <5> HIDE DEF r, o
        <5> QED
          BY <1>1, <1>2, <3>0, <4>1, <5>1, <5>2 DEF TaskOK, PacketPCs
      <4>2. CASE x # t
        <5>1. task'[x] = task[x] /\ TaskOK(x, task[x])
          BY <1>3, <4>2 DEF IInv, TypeOK, TasksOK
        <5> HIDE DEF r, o
        <5> QED
          BY <1>2, <3>0, <5>1 DEF TaskOK
      <4> QED
        BY <4>1, <4>2
    <3> QED
      BY <1>2, <3>1 DEF IInv, TypeOK, TasksOK
  <2>4. HandlersOK'
    <3>1. \A x \in Objs : handler'[x] = IF x = o THEN Selecting ELSE handler[x]
      BY <1>2 DEF IInv, TypeOK, HandlersOK
    <3>2. \A x \in Objs : HandlerOK(x, handler[x])'
      BY <1>1, <1>2, <3>1
         DEF IInv, TypeOK, HandlersOK, HandlerOK, Selecting, HandlerPCs, Objs
    <3> QED
      BY <1>2, <3>2 DEF IInv, TypeOK, HandlersOK
  <2>5. SweepOK'
    BY <1>2 DEF IInv, TypeOK, SweepOK
  <2>6. HistoryOK'
    <3>1. 0..created \subseteq 0..o
      BY <1>1
    <3> HIDE DEF o
    <3> QED
      BY <1>2, <3>1 DEF IInv, TypeOK, HistoryOK
  <2> QED
    BY <1>2, <2>1, <2>2, <2>3, <2>4, <2>5, <2>6 DEF IInv, TypeOK
<1>7. WindowsOK'
  BY <1>2 DEF IInv, TypeOK, ObjectsOK, WindowsOK, WellFormed, New, Window
<1>8. PassedOnce'
  <2>1. \A x \in Tasks : window'[task[x].obj] = window[task[x].obj]
    BY <1>1, <1>2, <1>5 DEF IInv, TypeOK, ObjectsOK
  <2> QED
    BY <1>2, <1>4, <2>1 DEF IInv, PassedOnce
<1>9. ForwardedOnce'
  <2>1. \A x \in Objs : x <= created => x # o /\ window'[x] = window[x] /\ x <= o
    BY <1>1, <1>2 DEF Objs, IInv, TypeOK, ObjectsOK
  <2> QED
    BY <1>2, <2>1 DEF IInv, ForwardedOnce
<1>10. SessionOwner' /\ OneTargetSocket'
  <2>1. \A s \in SessionIds : sessions'[s] = IF s = sid THEN o ELSE sessions[s]
    BY <1>2 DEF IInv, TypeOK, MapsOK
  <2>2. \A x \in Objs : /\ owner'[x] = IF x = o THEN sid ELSE owner[x]
                        /\ cancelled'[x] = IF x = o THEN FALSE ELSE cancelled[x]
    BY <1>2 DEF IInv, TypeOK, ObjectsOK
  <2>3. \A s \in SessionIds : sessions[s] \in 0..created
    BY SessionFacts DEF IInv
  <2>4. SessionOwner'
    <3> SUFFICES ASSUME NEW s \in SessionIds, sessions'[s] # 0
                 PROVE  owner'[sessions'[s]] = s
      BY DEF SessionOwner
    <3>1. CASE s = sid
      BY <1>1, <2>1, <2>2, <3>1
    <3>2. CASE s # sid
      <4>1. sessions'[s] = sessions[s] /\ sessions[s] \in Objs /\ sessions[s] # o
        BY <1>1, <2>1, <2>3, <3>2 DEF Objs
      <4> QED
        BY <2>2, <4>1 DEF IInv, SessionOwner
    <3> QED
      BY <3>1, <3>2
  <2>5. OneTargetSocket'
    <3> SUFFICES ASSUME NEW x \in 1..o
                 PROVE  ~cancelled'[x] <=> sessions'[owner'[x]] = x
      BY <1>2 DEF OneTargetSocket
    <3>1. CASE x = o
      BY <1>1, <2>1, <2>2, <3>1
    <3>2. CASE x # o
      <4>1. x \in 1..created /\ x \in Objs
        BY <1>1, <3>2 DEF Objs
      <4>2. owner[x] \in SessionIds
        BY <4>1 DEF IInv, TypeOK, ObjectsOK
      <4>3. ~cancelled[x] <=> sessions[owner[x]] = x
        BY <4>1 DEF IInv, OneTargetSocket
      <4>4. owner'[x] = owner[x] /\ cancelled'[x] = cancelled[x]
        BY <2>2, <3>2, <4>1
      <4>5. owner[x] = sid => sessions'[owner[x]] # x /\ sessions[owner[x]] # x
        BY <1>1, <2>1, <3>2, <4>1
      <4>6. owner[x] # sid => sessions'[owner[x]] = sessions[owner[x]]
        BY <2>1, <4>2
      <4> QED
        BY <4>3, <4>4, <4>5, <4>6
    <3> QED
      BY <3>1, <3>2
  <2> QED
    BY <2>4, <2>5
<1> QED
  BY <1>6, <1>7, <1>8, <1>9, <1>10 DEF IInv

\* The window answers: a packet that passes is recorded in the same section,
\* so no packet on its way and no packet that was sent has the same number.
LEMMA DedupPreserves ==
    ASSUME IInv, NEW t \in Tasks, Dedup(t)
    PROVE  IInv'
<1> DEFINE o == task[t].obj
           q == task[t].seq
           pass == [task[t] EXCEPT !.pc = IF t \in Conns THEN "track" ELSE "path"]
           r == IF IsDuplicate(window[o], q) THEN Resting ELSE pass
<1>1. /\ TaskOK(t, task[t]) /\ task[t].pc = "dedup" /\ TaskOK(t, Resting)
      /\ created \in 0..MaxSessions /\ MaxSessions \in Nat
  BY TaskFacts, RestingOK DEF IInv, Dedup
<1>2. o \in 1..created /\ o \in Objs /\ q \in Seqs /\ q \in Nat
  BY <1>1, SeqsAssumption DEF TaskOK, PacketPCs, Objs
<1>3. /\ window' = [window EXCEPT ![o] = Mark(@, q, DedupSize)]
      /\ task' = [task EXCEPT ![t] = r]
      /\ UNCHANGED <<maps, created, owner, response_seq, last_activity, cancelled,
                     history, stopped, accepting, handler, sweep, now>>
  BY DEF Dedup, Rest, Goto
<1>4. \A x \in Objs : window'[x] = IF x = o THEN Mark(window[o], q, DedupSize) ELSE window[x]
  BY <1>3 DEF IInv, TypeOK, ObjectsOK
<1>5. \A x \in Objs : WellFormed(window[x])
  BY DEF IInv, WindowsOK
<1>6. WindowsOK'
  BY <1>2, <1>4, <1>5, SizeAssumption, MarkWellFormed DEF WindowsOK
<1>7. /\ \A x \in Objs, s \in Seqs : IsDuplicate(window[x], s) => IsDuplicate(window'[x], s)
      /\ IsDuplicate(window'[o], q)
  BY <1>2, <1>4, <1>5, SizeAssumption, SeqsAssumption, DuplicateStable, MarkRecords
<1>8. /\ pass.pc \in {"track", "path"} /\ pass.obj = o /\ pass.seq = q
      /\ TaskOK(t, pass) /\ Resting.pc = "recv"
  BY <1>1 DEF TaskOK, TaskPCs, PacketPCs, Resting
<1>9. TaskOK(t, r)
  BY <1>1, <1>8
<1>10. \A x \in Tasks : task'[x] = IF x = t THEN r ELSE task[x]
  BY <1>3 DEF IInv, TypeOK, TasksOK
<1>11. Passed(t)' => ~IsDuplicate(window[o], q) /\ task'[t].obj = o /\ task'[t].seq = q
  BY <1>8, <1>10 DEF Passed
<1>12. \A x \in Tasks \ {t} : (Passed(x)' <=> Passed(x)) /\ task'[x] = task[x]
  BY <1>10 DEF Passed
<1> HIDE DEF r, pass
<1>13. TypeOK'
  <2>1. TasksOK'
    BY <1>3, <1>9, TaskUpdate DEF IInv, TypeOK
  <2>2. ObjectsOK'
    BY <1>3, <1>6 DEF IInv, TypeOK, ObjectsOK, WindowsOK, WellFormed
  <2> QED
    BY <1>3, <2>1, <2>2, Frame DEF IInv, TypeOK
<1>14. \A x \in Tasks : Passed(x) =>
          /\ task[x].obj \in Objs /\ task[x].seq \in Seqs
          /\ IsDuplicate(window[task[x].obj], task[x].seq)
          /\ forwarded[task[x].obj][task[x].seq] = 0
  <2> SUFFICES ASSUME NEW x \in Tasks, Passed(x)
               PROVE  task[x].obj \in Objs /\ task[x].seq \in Seqs
    BY DEF IInv, PassedOnce
  <2>1. TaskOK(x, task[x]) /\ task[x].obj \in 0..created
    BY TaskFacts DEF IInv
  <2> QED
    BY <1>1, <2>1 DEF TaskOK, Passed, PacketPCs, Objs
<1>15. ~IsDuplicate(window[o], q) => forwarded[o][q] = 0
  BY <1>2 DEF IInv, ForwardedOnce
<1>16. PassedOnce'
  <2>1. \A x \in Tasks : Passed(x)' =>
           /\ IsDuplicate(window'[task'[x].obj], task'[x].seq)
           /\ forwarded'[task'[x].obj][task'[x].seq] = 0
    <3> SUFFICES ASSUME NEW x \in Tasks, Passed(x)'
                 PROVE  /\ IsDuplicate(window'[task'[x].obj], task'[x].seq)
                        /\ forwarded[task'[x].obj][task'[x].seq] = 0
      BY <1>3 DEF history
    <3>1. CASE x = t
      BY <1>7, <1>11, <1>15, <3>1
    <3>2. CASE x # t
      BY <1>7, <1>12, <1>14, <3>2
    <3> QED
      BY <3>1, <3>2
  <2>2. ASSUME NEW x \in Tasks, NEW y \in Tasks, Passed(x)', Passed(y)', x # y,
               task'[x].obj = task'[y].obj, task'[x].seq = task'[y].seq
        PROVE  FALSE
    <3>1. x # t /\ y # t
      BY <1>11, <1>12, <1>14, <2>2
    <3> QED
      BY <1>12, <2>2, <3>1 DEF IInv, PassedOnce
  <2> QED
    BY <2>1, <2>2 DEF PassedOnce
<1>17. ForwardedOnce'
  <2>1. forwarded' = forwarded /\ created' = created
    BY <1>3 DEF history
  <2>2. \A x \in Objs, s \in Seqs : IsDuplicate(window[x], s) => IsDuplicate(window'[x], s)
    BY <1>7
  <2> QED
    BY <2>1, <2>2 DEF IInv, ForwardedOnce
<1>18. SessionOwner' /\ OneTargetSocket'
  BY <1>3 DEF IInv, SessionOwner, OneTargetSocket, maps
<1> QED
  BY <1>6, <1>13, <1>16, <1>17, <1>18 DEF IInv

\* A packet leaves: its task held it alone, and it was not sent before.
LEMMA ForwardPreserves ==
    ASSUME IInv, NEW t \in Tasks, Forward(t)
    PROVE  IInv'
<1> DEFINE o == task[t].obj
           q == task[t].seq
<1>1. /\ TaskOK(t, task[t]) /\ task[t].pc = "forward" /\ TaskOK(t, Resting)
      /\ created \in 0..MaxSessions /\ MaxSessions \in Nat /\ o \in 0..created
  BY TaskFacts, RestingOK DEF IInv, Forward
<1>2. o \in 1..created /\ o \in Objs /\ q \in Seqs /\ Passed(t)
  BY <1>1 DEF TaskOK, PacketPCs, Objs, Passed
<1>3. /\ forwarded' = [forwarded EXCEPT ![o][q] = @ + 1]
      /\ task' = [task EXCEPT ![t] = Resting]
      /\ UNCHANGED <<maps, objects, heard, numbered, idle, stopped, accepting, handler,
                     sweep, now>>
  BY DEF Forward, Rest
<1>4. \A x \in Objs, s \in Seqs :
         forwarded'[x][s] = IF x = o /\ s = q THEN forwarded[x][s] + 1 ELSE forwarded[x][s]
  BY <1>3 DEF IInv, TypeOK, HistoryOK
<1>5. forwarded' \in [Objs -> [Seqs -> Nat]]
  BY <1>2, <1>3 DEF IInv, TypeOK, HistoryOK
<1>6. forwarded[o][q] = 0 /\ IsDuplicate(window[o], q)
  BY <1>2 DEF IInv, PassedOnce
<1>7. \A x \in Tasks : Passed(x)' => x # t /\ Passed(x) /\ task'[x] = task[x]
  <2>1. \A x \in Tasks : task'[x] = IF x = t THEN Resting ELSE task[x]
    BY <1>3 DEF IInv, TypeOK, TasksOK
  <2> QED
    BY <2>1 DEF Passed, Resting
<1>8. TypeOK'
  <2>1. TasksOK'
    BY <1>1, <1>3, TaskUpdate DEF IInv, TypeOK, objects
  <2>2. HistoryOK'
    BY <1>3, <1>5 DEF IInv, TypeOK, HistoryOK, objects
  <2>3. UNCHANGED created
    BY <1>3 DEF objects
  <2> QED
    BY <1>3, <2>1, <2>2, <2>3, Frame DEF IInv, TypeOK
<1>9. PassedOnce'
  <2>1. \A x \in Tasks : Passed(x) =>
           /\ task[x].obj \in Objs /\ task[x].seq \in Seqs
           /\ x # t => task[x].obj # o \/ task[x].seq # q
    <3> SUFFICES ASSUME NEW x \in Tasks, Passed(x)
                 PROVE  task[x].obj \in Objs /\ task[x].seq \in Seqs
      BY <1>2 DEF IInv, PassedOnce
    <3>1. TaskOK(x, task[x]) /\ task[x].obj \in 0..created
      BY TaskFacts DEF IInv
    <3> QED
      BY <1>1, <3>1 DEF TaskOK, Passed, PacketPCs, Objs
  <2>2. \A x \in Tasks : Passed(x)' =>
           forwarded'[task'[x].obj][task'[x].seq] = forwarded[task[x].obj][task[x].seq]
    BY <1>4, <1>7, <2>1
  <2>3. window' = window
    BY <1>3 DEF objects
  <2> QED
    BY <1>7, <2>2, <2>3 DEF IInv, PassedOnce
<1>10. ForwardedOnce'
  <2>1. window' = window /\ created' = created /\ o <= created
    BY <1>1, <1>3 DEF objects
  <2> QED
    BY <1>4, <1>6, <2>1 DEF IInv, ForwardedOnce
<1>11. WindowsOK' /\ SessionOwner' /\ OneTargetSocket'
  BY <1>3 DEF IInv, WindowsOK, SessionOwner, OneTargetSocket, maps, objects
<1> QED
  BY <1>8, <1>9, <1>10, <1>11 DEF IInv

\* A session leaves the map and is cancelled in the same step.
LEMMA SweepRemovePreserves ==
    ASSUME IInv, NEW sid \in SessionIds, SweepRemove(sid)
    PROVE  IInv'
<1> DEFINE o == sessions[sid]
<1>1. /\ sessions' = [sessions EXCEPT ![sid] = 0]
      /\ cancelled' = [cancelled EXCEPT ![o] = TRUE]
      /\ sweep' = [sweep EXCEPT !.pc = "paths", !.cur = sid]
      /\ idle' \subseteq idle
      /\ UNCHANGED <<client_paths, tcp_conn_to_session, created, owner, window,
                     response_seq, last_activity, forwarded, heard, numbered, stopped,
                     task, accepting, handler, now>>
  BY DEF SweepRemove
<1>2. created \in 0..MaxSessions /\ MaxSessions \in Nat
  BY BoundsAssumption DEF IInv, TypeOK, ObjectsOK
<1>3. TypeOK'
  <2>0. 0 \in 0..created
    BY <1>2
  <2>1. MapsOK' /\ ObjectsOK'
    <3> HIDE DEF o
    <3>1. sessions' \in [SessionIds -> 0..created]
      BY <1>1, <2>0 DEF IInv, TypeOK, MapsOK
    <3>2. cancelled' \in [Objs -> BOOLEAN]
      BY <1>1 DEF IInv, TypeOK, ObjectsOK
    <3> QED
      BY <1>1, <3>1, <3>2 DEF IInv, TypeOK, MapsOK, ObjectsOK
  <2>2. SweepOK'
    BY <1>1, NamesAssumption DEF IInv, TypeOK, SweepOK, SweepPCs
  <2>3. HistoryOK'
    BY <1>1 DEF IInv, TypeOK, HistoryOK
  <2> QED
    BY <1>1, <2>1, <2>2, <2>3, Frame DEF IInv, TypeOK
<1>4. WindowsOK' /\ PassedOnce' /\ ForwardedOnce'
  BY <1>1 DEF IInv, WindowsOK, PassedOnce, ForwardedOnce, Passed
<1>5. \A s \in SessionIds : sessions'[s] = IF s = sid THEN 0 ELSE sessions[s]
  BY <1>1 DEF IInv, TypeOK, MapsOK
<1>6. SessionOwner'
  BY <1>1, <1>5 DEF IInv, SessionOwner
<1>7. OneTargetSocket'
  <2>0. created' = created /\ owner' = owner
    BY <1>1
  <2> SUFFICES ASSUME NEW x \in 1..created
               PROVE  ~cancelled'[x] <=> sessions'[owner[x]] = x
    BY <2>0 DEF OneTargetSocket
  <2>1. x \in Objs /\ owner[x] \in SessionIds /\ x # 0
    BY <1>2 DEF Objs, IInv, TypeOK, ObjectsOK
  <2>2. ~cancelled[x] <=> sessions[owner[x]] = x
    BY DEF IInv, OneTargetSocket
  <2>3. CASE x = o
    <3>1. owner[x] = sid
      BY <2>1, <2>3 DEF IInv, SessionOwner
    <3>2. cancelled'[x] = TRUE
      BY <1>1, <2>1, <2>3 DEF IInv, TypeOK, ObjectsOK
    <3> QED
      BY <1>5, <2>1, <3>1, <3>2
  <2>4. CASE x # o
    <3>1. cancelled'[x] = cancelled[x]
      BY <1>1, <2>1, <2>4 DEF IInv, TypeOK, ObjectsOK
    <3>2. owner[x] = sid => sessions[owner[x]] # x
      BY <2>4
    <3> QED
      BY <1>5, <2>1, <2>2, <3>1, <3>2
  <2> QED
    BY <2>3, <2>4
<1> QED
  BY <1>3, <1>4, <1>6, <1>7 DEF IInv

-----------------------------------------------------------------------------
(* Response handlers, the sweeper, time and shutdown *)

LEMMA HandlerFacts ==
    ASSUME TypeOK, NEW o \in Objs
    PROVE  HandlerOK(o, handler[o]) /\ created \in Nat
BY BoundsAssumption DEF TypeOK, HandlersOK, ObjectsOK

HandlerRecords == [pc : HandlerPCs \ {"unborn"}, obj : 0..created, seq : Nat,
                   paths : SUBSET Paths, at : Nat]

\* A handler that exists is replaced by one that is well typed.
LEMMA HandlerAlonePreserves ==
    ASSUME IInv, NEW o \in Objs, handler[o].pc # "unborn",
           NEW r \in HandlerRecords, r.pc = "stamp" => r.obj # 0,
           handler' = [handler EXCEPT ![o] = r],
           UNCHANGED <<maps, created, owner, window, cancelled, forwarded, stopped, task,
                       accepting, sweep, now>>,
           ObjectsOK', HistoryOK'
    PROVE  IInv'
<1>1. HandlerOK(o, r)
  BY HandlerFacts DEF IInv, HandlerOK, HandlerRecords
<1>2. HandlersOK'
  BY <1>1, HandlerUpdate DEF IInv, TypeOK
<1>3. TypeOK'
  BY <1>2, Frame DEF IInv, TypeOK
<1> QED
  BY <1>3, QuietStep DEF kept, maps

LEMMA HandlerStepPreserves ==
    ASSUME IInv, NEW o \in Objs,
           \/ RecvTarget(o) \/ HandlerError(o) \/ HandlerExit(o)
           \/ RespDropped(o) \/ RespPaths(o) \/ \E p \in Paths : RespSend(o, p)
    PROVE  IInv'
<1> DEFINE Records == {r \in HandlerRecords : r.pc = "stamp" => r.obj # 0}
<1>1. HandlerOK(o, handler[o]) /\ created \in Nat
  BY HandlerFacts DEF IInv
<1>2. Returned \in Records /\ Selecting \in Records
  BY <1>1 DEF Returned, Selecting, HandlerPCs, HandlerRecords
<1>3. handler[o].pc # "unborn" => handler[o] \in Records
  BY <1>1 DEF HandlerOK, HandlerPCs, HandlerRecords
<1>4. ObjectsOK' /\ HistoryOK'
  BY Frame DEF IInv, RecvTarget, HandlerError, HandlerExit, RespDropped, RespPaths,
               RespSend, objects
<1>5. UNCHANGED <<maps, created, owner, window, cancelled, forwarded, stopped, task,
                  accepting, sweep, now>>
  BY DEF RecvTarget, HandlerError, HandlerExit, RespDropped, RespPaths, RespSend, objects,
         history
<1>6. ASSUME NEW r \in Records, handler[o].pc # "unborn",
             handler' = [handler EXCEPT ![o] = r]
      PROVE  IInv'
  BY <1>4, <1>5, <1>6, HandlerAlonePreserves
<1>7. CASE HandlerError(o) \/ HandlerExit(o)
  BY <1>2, <1>6, <1>7 DEF HandlerError, HandlerExit
<1>8. CASE RecvTarget(o)
  <2>1. [handler[o] EXCEPT !.pc = "touch"] \in Records /\ handler[o].pc # "unborn"
    BY <1>3, <1>8 DEF RecvTarget, HandlerPCs, HandlerRecords
  <2> QED
    BY <1>6, <1>8, <2>1 DEF RecvTarget, RespGoto
<1>9. CASE RespDropped(o)
  <2>1. [handler[o] EXCEPT !.pc = "select"] \in Records /\ handler[o].pc # "unborn"
    BY <1>3, <1>9 DEF RespDropped, HandlerPCs, HandlerRecords
  <2> QED
    BY <1>6, <1>9, <2>1 DEF RespDropped, RespGoto
<1>10. CASE RespPaths(o)
  <2> DEFINE ps == client_paths[owner[o]]
             r == IF ps = {} THEN Selecting
                  ELSE [handler[o] EXCEPT !.pc = "send", !.paths = ps]
  <2>1. handler[o].pc = "paths"
    BY <1>10 DEF RespPaths
  <2>2. owner[o] \in SessionIds
    BY <1>1, <2>1 DEF IInv, TypeOK, ObjectsOK, HandlerOK, Objs
  <2>3. ps \in SUBSET Paths
    BY <2>2 DEF IInv, TypeOK, MapsOK
  <2>4. r \in Records
    BY <1>2, <1>3, <2>1, <2>3 DEF HandlerPCs, HandlerRecords
  <2>5. handler' = [handler EXCEPT ![o] = r]
    BY <1>10 DEF RespPaths
  <2> QED
    BY <1>6, <2>1, <2>4, <2>5
<1>11. ASSUME NEW p \in Paths, RespSend(o, p) PROVE IInv'
  <2> DEFINE rest == handler[o].paths \ {p}
             r == IF rest = {} THEN Selecting ELSE [handler[o] EXCEPT !.paths = rest]
  <2>1. handler[o].pc = "send"
    BY <1>11 DEF RespSend
  <2>2. r \in Records
    BY <1>2, <1>3, <2>1 DEF HandlerPCs, HandlerRecords
  <2>3. handler' = [handler EXCEPT ![o] = r]
    BY <1>11 DEF RespSend
  <2>4. handler[o].pc # "unborn"
    BY <2>1
  <2> HIDE DEF r
  <2> QED
    BY <1>6, <2>2, <2>3, <2>4
<1> QED
  BY <1>7, <1>8, <1>9, <1>10, <1>11

LEMMA RespTouchPreserves ==
    ASSUME IInv, NEW o \in Objs, RespTouch(o)
    PROVE  IInv'
<1> DEFINE cur == sessions[owner[o]]
           r == IF cur = 0 THEN [handler[o] EXCEPT !.pc = "seq"]
                ELSE [handler[o] EXCEPT !.pc = "stamp", !.obj = cur, !.at = now]
<1>1. HandlerOK(o, handler[o]) /\ handler[o].pc = "touch" /\ now \in Nat
  BY HandlerFacts DEF IInv, TypeOK, RespTouch
<1>2. owner[o] \in SessionIds
  BY <1>1, BoundsAssumption DEF IInv, TypeOK, ObjectsOK, HandlerOK, Objs
<1>3. cur \in 0..created
  BY <1>2, SessionFacts DEF IInv
<1>4. r \in HandlerRecords /\ (r.pc = "stamp" => r.obj # 0)
  BY <1>1, <1>3 DEF HandlerOK, HandlerPCs, HandlerRecords
<1>5. handler' = [handler EXCEPT ![o] = r]
  BY DEF RespTouch, RespGoto
<1>6. ObjectsOK'
  BY Frame DEF RespTouch, IInv, objects
<1>7. HistoryOK'
  BY DEF RespTouch, IInv, TypeOK, HistoryOK, objects
<1>8. UNCHANGED <<maps, created, owner, window, cancelled, forwarded, stopped, task,
                  accepting, sweep, now>>
  BY DEF RespTouch, objects
<1> HIDE DEF r
<1> QED
  BY <1>1, <1>4, <1>5, <1>6, <1>7, <1>8, HandlerAlonePreserves

LEMMA RespStampPreserves ==
    ASSUME IInv, NEW o \in Objs, RespStamp(o)
    PROVE  IInv'
<1> DEFINE r == [Selecting EXCEPT !.pc = "seq"]
<1>1. HandlerOK(o, handler[o]) /\ handler[o].pc = "stamp" /\ created \in Nat
  BY HandlerFacts DEF IInv, RespStamp
<1>2. r \in HandlerRecords /\ r.pc = "seq"
  BY <1>1 DEF Selecting, HandlerPCs, HandlerRecords
<1>3. handler[o].at \in Nat
  BY <1>1 DEF HandlerOK
<1>4. handler' = [handler EXCEPT ![o] = r]
  BY DEF RespStamp
<1>5. ObjectsOK'
  BY <1>3 DEF RespStamp, IInv, TypeOK, ObjectsOK
<1>6. HistoryOK'
  BY Frame DEF RespStamp, IInv
<1>7. UNCHANGED <<maps, created, owner, window, cancelled, forwarded, stopped, task,
                  accepting, sweep, now>>
  BY DEF RespStamp, history
<1> HIDE DEF r
<1> QED
  BY <1>1, <1>2, <1>4, <1>5, <1>6, <1>7, HandlerAlonePreserves

LEMMA RespSeqPreserves ==
    ASSUME IInv, NEW o \in Objs, RespSeq(o)
    PROVE  IInv'
<1> DEFINE cur == sessions[owner[o]]
           r == [handler[o] EXCEPT !.pc = "paths", !.obj = cur, !.seq = response_seq[cur]]
<1>1. HandlerOK(o, handler[o]) /\ handler[o].pc = "seq" /\ created \in 0..MaxSessions
  BY HandlerFacts DEF IInv, RespSeq, TypeOK, ObjectsOK
<1>2. owner[o] \in SessionIds
  BY <1>1, BoundsAssumption DEF IInv, TypeOK, ObjectsOK, HandlerOK, Objs
<1>3. cur \in 0..created /\ cur # 0
  BY <1>2, SessionFacts DEF IInv, RespSeq
<1>4. cur \in Objs /\ response_seq[cur] \in Nat
  BY <1>1, <1>3, BoundsAssumption DEF Objs, IInv, TypeOK, ObjectsOK
<1>5. r \in HandlerRecords /\ r.pc = "paths"
  BY <1>1, <1>3, <1>4 DEF HandlerOK, HandlerPCs, HandlerRecords
<1>6. handler' = [handler EXCEPT ![o] = r]
  BY DEF RespSeq
<1>7. response_seq' = [response_seq EXCEPT ![cur] = @ + 1]
  BY DEF RespSeq
<1> HIDE DEF r, cur
<1>8. ObjectsOK'
  BY <1>4, <1>7 DEF RespSeq, IInv, TypeOK, ObjectsOK
<1>9. numbered' = [numbered EXCEPT ![cur] = @ \cup {response_seq[cur]}]
  BY DEF RespSeq, cur
<1>10. HistoryOK'
  <2>1. UNCHANGED <<forwarded, heard, idle, created>>
    BY DEF RespSeq
  <2>2. numbered \in [Objs -> SUBSET Nat] /\ HistoryOK
    BY DEF IInv, TypeOK, HistoryOK
  <2>3. numbered' \in [Objs -> SUBSET Nat]
    BY <1>4, <1>9, <2>2
  <2> QED
    BY <2>1, <2>2, <2>3 DEF HistoryOK
<1> QED
  BY <1>1, <1>5, <1>6, <1>8, <1>10, HandlerAlonePreserves DEF RespSeq

\* Steps of the sweeper other than the removal, the clock, and the shutdown.
LEMMA OthersPreserve ==
    ASSUME IInv,
           \/ SweepTick \/ SweepScan \/ SweepPaths \/ SweepExit
           \/ Tick \/ Stop \/ AcceptExit \/ UNCHANGED vars
    PROVE  IInv'
<1>1. UNCHANGED <<kept, task, handler, created>> /\ UNCHANGED objects
  BY DEF SweepTick, SweepScan, SweepPaths, SweepExit, Tick, Stop, AcceptExit, vars,
         kept, maps, objects, history
<1>2. ObjectsOK' /\ TasksOK' /\ HandlersOK' /\ HistoryOK'
  <2>1. ObjectsOK' /\ TasksOK' /\ HandlersOK'
    BY <1>1, Frame DEF IInv
  <2>2. ASSUME SweepScan PROVE HistoryOK'
    <3>1. idle' \subseteq 0..created
      BY <2>2, SessionFacts DEF SweepScan, IInv
    <3>2. UNCHANGED <<forwarded, heard, numbered, created>>
      BY <1>1, <2>2 DEF SweepScan
    <3>3. HistoryOK
      BY DEF IInv, TypeOK
    <3> QED
      BY <3>1, <3>2, <3>3 DEF HistoryOK
  <2>3. ASSUME ~SweepScan PROVE HistoryOK'
    <3>1. UNCHANGED history
      BY <2>3 DEF SweepTick, SweepPaths, SweepExit, Tick, Stop, AcceptExit, vars, history
    <3> QED
      BY <1>1, <3>1, Frame DEF IInv
  <2> QED
    BY <2>1, <2>2, <2>3
<1>3. MapsOK'
  <2>1. CASE SweepPaths
    BY <2>1, <1>1 DEF SweepPaths, IInv, TypeOK, MapsOK
  <2>2. CASE ~SweepPaths
    BY <1>1, <2>2, Frame
       DEF SweepTick, SweepScan, SweepExit, Tick, Stop, AcceptExit, vars, IInv
  <2> QED
    BY <2>1, <2>2
<1>4. SweepOK'
  <2>1. /\ sweep \in [pc : SweepPCs, now : Nat, expired : SUBSET SessionIds,
                     cur : SessionIds \cup {None}]
        /\ now \in Nat /\ Waiting \in [pc : SweepPCs, now : Nat,
                expired : SUBSET SessionIds, cur : SessionIds \cup {None}]
        /\ Waiting.pc = "wait"
    BY DEF IInv, TypeOK, SweepOK, SweepPCs, Waiting
  <2>2. CASE SweepTick
    BY <2>1, <2>2 DEF SweepTick, SweepOK, SweepPCs
  <2>3. CASE SweepScan
    BY <2>1, <2>3 DEF SweepScan, SweepOK, SweepPCs
  <2>4. CASE SweepPaths
    BY <2>1, <2>4 DEF SweepPaths, SweepOK, SweepPCs
  <2>5. CASE SweepExit
    BY <2>1, <2>5 DEF SweepExit, SweepOK, SweepPCs
  <2>6. CASE Tick \/ Stop \/ AcceptExit \/ UNCHANGED vars
    <3>1. UNCHANGED sweep
      BY <2>6 DEF Tick, Stop, AcceptExit, vars
    <3> QED
      BY <1>1, <3>1, Frame DEF IInv
  <2> QED
    BY <2>2, <2>3, <2>4, <2>5, <2>6
<1>5. stopped' \in BOOLEAN /\ accepting' \in BOOLEAN /\ now' \in Nat
  <2>1. stopped \in BOOLEAN /\ accepting \in BOOLEAN /\ now \in Nat
    BY DEF IInv, TypeOK
  <2>2. CASE Tick
    BY <2>1, <2>2 DEF Tick
  <2>3. CASE Stop \/ AcceptExit
    BY <2>1, <2>3 DEF Stop, AcceptExit
  <2>4. CASE SweepTick \/ SweepScan \/ SweepPaths \/ SweepExit \/ UNCHANGED vars
    BY <2>1, <2>4 DEF SweepTick, SweepScan, SweepPaths, SweepExit, vars
  <2> QED
    BY <2>2, <2>3, <2>4
<1>6. TypeOK'
  BY <1>2, <1>3, <1>4, <1>5 DEF TypeOK
<1> QED
  BY <1>1, <1>6, QuietStep

-----------------------------------------------------------------------------
(* The theorems *)

LEMMA InitEstablishesIInv == Init => IInv
<1> SUFFICES ASSUME Init PROVE IInv
  OBVIOUS
<1>1. MapsOK /\ HistoryOK /\ SweepOK
  BY NamesAssumption DEF Init, MapsOK, HistoryOK, SweepOK, SweepPCs, Waiting
<1>2. ObjectsOK
  BY BoundsAssumption DEF Init, ObjectsOK, New, Window
<1>3. TasksOK
  BY BoundsAssumption
     DEF Init, TasksOK, TaskOK, Resting, Closed, TaskPCs, PacketPCs
<1>4. HandlersOK
  BY BoundsAssumption DEF Init, HandlersOK, HandlerOK, HandlerPCs, Unborn, Selecting, Objs
<1>5. TypeOK
  BY <1>1, <1>2, <1>3, <1>4 DEF Init, TypeOK
<1>6. WindowsOK
  BY DEF Init, WindowsOK, WellFormed, New, Window
<1>7. PassedOnce
  BY DEF Init, PassedOnce, Passed, Resting, Closed
<1>8. ForwardedOnce /\ SessionOwner /\ OneTargetSocket
  BY DEF Init, ForwardedOnce, SessionOwner, OneTargetSocket
<1> QED
  BY <1>5, <1>6, <1>7, <1>8 DEF IInv

LEMMA NextPreservesIInv == IInv /\ [Next]_vars => IInv'
<1> SUFFICES ASSUME IInv, [Next]_vars PROVE IInv'
  OBVIOUS
<1>1. ASSUME NEW t \in Tasks, PacketStep(t) PROVE IInv'
  BY <1>1, LookupPreserves, CreateFindsOnePreserves, CreatePreserves, EndsPreserve,
     TouchPreserves, StampPreserves, DedupPreserves, AddPathPreserves, ForwardPreserves
     DEF PacketStep
<1>2. ASSUME NEW c \in Conns, ConnStep(c) PROVE IInv'
  BY <1>2, TrackPreserves, UntrackPreserves, UnpathPreserves DEF ConnStep
<1>3. ASSUME NEW o \in Objs,
             RecvTarget(o) \/ HandlerError(o) \/ HandlerExit(o) \/ RespStep(o)
      PROVE  IInv'
  BY <1>3, HandlerStepPreserves, RespTouchPreserves, RespStampPreserves, RespSeqPreserves
     DEF RespStep
<1>4. ASSUME NEW c \in Conns, AcceptTcp(c) \/ ReadLength(c) \/ DecodeFails(c) \/ TcpClose(c)
                                  \/ ConnExit(c)
      PROVE  IInv'
  <2>1. c \in Tasks
    BY DEF Tasks
  <2> QED
    BY <1>4, <2>1, EndsPreserve, ReadLengthPreserves
<1>5. ASSUME NEW u \in Listeners, ListenerExit(u) PROVE IInv'
  <2>1. u \in Tasks
    BY DEF Tasks
  <2> QED
    BY <1>5, <2>1, EndsPreserve
<1>6. ASSUME SweepStep PROVE IInv'
  BY <1>6, OthersPreserve, SweepRemovePreserves DEF SweepStep
<1> QED
  BY <1>1, <1>2, <1>3, <1>4, <1>5, <1>6, RecvUdpPreserves, ReadDataPreserves,
     OthersPreserve DEF Next, Terminated

\* Every reachable state satisfies the inductive invariant.
THEOREM IInvHolds == Spec => []IInv
BY InitEstablishesIInv, NextPreservesIInv, PTL DEF Spec

\* The state of the server is well typed.
THEOREM TypeCorrect == Spec => []TypeOK
<1>1. IInv => TypeOK
  BY DEF IInv
<1> QED
  BY <1>1, IInvHolds, PTL

\* The target receives a sequence number of a session at most once, however
\* many listeners and connections carry copies of it.
THEOREM ForwardedAtMostOnce == Spec => []AtMostOnce
<1>1. IInv => AtMostOnce
  BY DEF IInv, ForwardedOnce, AtMostOnce
<1> QED
  BY <1>1, IInvHolds, PTL

\* An id has one target socket that is not being closed.
THEOREM OneSocketPerSession == Spec => []OneTargetSocket
<1>1. IInv => OneTargetSocket
  BY DEF IInv
<1> QED
  BY <1>1, IInvHolds, PTL

-----------------------------------------------------------------------------
(* The server implements TargetSessions.  Three of its steps are steps of the
   abstract specification: Create opens a session, Forward sends to the target,
   SweepRemove closes a session.  IInv is what makes them so; every other step
   is a stutter. *)

\* What the target sees is not touched.
Unseen == UNCHANGED <<sessions, created, forwarded>>

LEMMA UnseenStutters == Unseen => UNCHANGED Target!vars
BY DEF Unseen, Target!vars

\* The steps that open, send and close.
LEMMA CreateOpens ==
    ASSUME IInv, NEW t \in Tasks, Create(t)
    PROVE  Target!Next
<1>1. /\ task[t].pc = "create" /\ sessions[task[t].sid] = 0
      /\ created' = created + 1 /\ created < MaxSessions
      /\ sessions' = [sessions EXCEPT ![task[t].sid] = created + 1]
      /\ forwarded' = forwarded
  BY DEF Create, NewSession, history
<1>2. created \in Nat /\ MaxSessions \in Nat
  BY BoundsAssumption DEF IInv, TypeOK, ObjectsOK
<1>3. task[t].sid \in SessionIds
  BY <1>1 DEF IInv, TypeOK, TasksOK, TaskOK
<1>4. /\ created + 1 \in Objs /\ created + 1 \notin 1..created
      /\ 1..created' = (1..created) \cup {created + 1}
  BY <1>1, <1>2 DEF Objs
<1>5. Target!Open(task[t].sid, created + 1)
  BY <1>1, <1>4 DEF Target!Open
<1> QED
  BY <1>3, <1>4, <1>5 DEF Target!Next

LEMMA ForwardReceives ==
    ASSUME IInv, NEW t \in Tasks, Forward(t)
    PROVE  Target!Next
<1> DEFINE o == task[t].obj
           q == task[t].seq
<1>1. /\ task[t].pc = "forward"
      /\ forwarded' = [forwarded EXCEPT ![o][q] = @ + 1]
      /\ UNCHANGED <<sessions, created>>
  BY DEF Forward, maps, objects
<1>2. o \in 1..created /\ o \in Objs /\ q \in Seqs
  <2>1. TaskOK(t, task[t]) /\ created \in 0..MaxSessions
    BY DEF IInv, TypeOK, TasksOK, ObjectsOK
  <2>2. task[t].obj \in 0..created /\ task[t].obj # 0 /\ task[t].seq \in Seqs
    BY <1>1, <2>1 DEF TaskOK, PacketPCs
  <2> QED
    BY <2>1, <2>2, BoundsAssumption DEF Objs
<1>3. forwarded[o][q] = 0
  BY <1>1 DEF IInv, PassedOnce, Passed
<1>4. forwarded' = [forwarded EXCEPT ![o][q] = 1]
  BY <1>1, <1>2, <1>3 DEF IInv, TypeOK, HistoryOK
<1>5. Target!Receive(o, q)
  BY <1>1, <1>2, <1>3, <1>4 DEF Target!Receive
<1> QED
  BY <1>2, <1>5 DEF Target!Next

LEMMA SweepRemoveCloses ==
    ASSUME IInv, NEW sid \in SessionIds, SweepRemove(sid)
    PROVE  Target!Next \/ Unseen
<1>1. /\ sessions' = [sessions EXCEPT ![sid] = 0]
      /\ UNCHANGED <<created, forwarded>>
  BY DEF SweepRemove, history
<1>2. CASE sessions[sid] = 0
  BY <1>1, <1>2 DEF IInv, TypeOK, MapsOK, Unseen
<1>3. CASE sessions[sid] # 0
  <2>1. Target!Close(sid)
    BY <1>1, <1>3 DEF Target!Close
  <2> QED
    BY <2>1 DEF Target!Next
<1> QED
  BY <1>2, <1>3

\* Every other step of a task leaves the target's view alone.
LEMMA TaskStepsUnseen ==
    ASSUME NEW t,
           \/ Lookup(t) \/ CreateFindsOne(t) \/ CreateFails(t) \/ Touch(t) \/ Stamp(t)
           \/ Dedup(t) \/ AddPath(t) \/ ForwardFails(t) \/ ConnStep(t) \/ ListenerExit(t)
           \/ DecodeFails(t) \/ AcceptTcp(t) \/ ReadLength(t) \/ TcpClose(t) \/ ConnExit(t)
    PROVE  Unseen
BY DEF Lookup, CreateFindsOne, CreateFails, Touch, Stamp, Dedup, AddPath, ForwardFails,
       DecodeFails, ConnStep, Track, Untrack, Unpath, ListenerExit, AcceptTcp, ReadLength, TcpClose, ConnExit,
       maps, objects, history, Unseen

LEMMA ArrivalsUnseen ==
    ASSUME NEW t, NEW sid, NEW seq, NEW addr,
           RecvUdp(t, sid, seq, addr) \/ ReadData(t, sid, seq)
    PROVE  Unseen
BY DEF RecvUdp, ReadData, maps, objects, Unseen

LEMMA HandlerStepsUnseen ==
    ASSUME NEW o, RecvTarget(o) \/ HandlerError(o) \/ HandlerExit(o) \/ RespStep(o)
    PROVE  Unseen
BY DEF RecvTarget, HandlerError, HandlerExit, RespStep, RespTouch, RespStamp, RespSeq,
       RespDropped, RespPaths, RespSend, maps, objects, history, Unseen

LEMMA OtherStepsUnseen ==
    ASSUME SweepTick \/ SweepScan \/ SweepPaths \/ SweepExit \/ Tick \/ Stop
           \/ AcceptExit \/ Terminated \/ UNCHANGED vars
    PROVE  Unseen
BY DEF SweepTick, SweepScan, SweepPaths, SweepExit, Tick, Stop, AcceptExit, Terminated,
       vars, maps, objects, history, Unseen

-----------------------------------------------------------------------------
(* The refinement theorem *)

LEMMA InitMaps == Init => Target!Init
<1> SUFFICES ASSUME Init PROVE Target!Init
  OBVIOUS
<1>1. 1..created = {}
  BY DEF Init
<1> QED
  BY <1>1 DEF Init, Target!Init

LEMMA NextMaps == IInv /\ [Next]_vars => [Target!Next]_(Target!vars)
<1> SUFFICES ASSUME IInv, [Next]_vars PROVE Target!Next \/ Unseen
  BY UnseenStutters
<1>1. ASSUME NEW t \in Tasks, PacketStep(t) PROVE Target!Next \/ Unseen
  BY <1>1, TaskStepsUnseen, CreateOpens, ForwardReceives DEF PacketStep
<1>2. ASSUME SweepStep PROVE Target!Next \/ Unseen
  BY <1>2, OtherStepsUnseen, SweepRemoveCloses DEF SweepStep
<1> QED
  BY <1>1, <1>2, TaskStepsUnseen, ArrivalsUnseen, HandlerStepsUnseen, OtherStepsUnseen
     DEF Next

\* Whatever the tasks and the sweeper do at the same time, the target sees one
\* session per id at a time, each opened once, and each number at most once
\* per session.
THEOREM ServerImplementsTargetSessions == Spec => ImplementsTargetSessions
BY InitMaps, NextMaps, IInvHolds, PTL DEF Spec, ImplementsTargetSessions, Target!Spec

=============================================================================
