--------------------------- MODULE GoServerProofs ---------------------------
(***************************************************************************)
(* The Go server, for every set of ids, sequence numbers and connections   *)
(* and every bound: the state stays well typed, a target socket that is    *)
(* open is the one its id leads to, and when Stop has returned no          *)
(* connection is open.                                                     *)
(*                                                                         *)
(* SocketInv holds types, windows and sockets and is inductive: Create,    *)
(* SweepRemove and StopSessions are the steps it is about, the others      *)
(* leave sessions and their sockets alone and owe the types only.          *)
(* ClosedInv is inductive over the types: it ties a connection to the      *)
(* goroutine whose last step closes it, and the return of Stop to the end  *)
(* of everything that could accept a connection.                           *)
(***************************************************************************)
EXTENDS GoServer, DedupWindowProofs, SequenceTheorems

-----------------------------------------------------------------------------
(* Types of the parts *)

LEMMA ConstantFacts ==
    /\ MaxSessions \in Nat /\ Udp \in Tasks /\ Conns \subseteq Tasks /\ None \notin Ids
    /\ Seqs \subseteq Nat /\ Udp \notin Conns /\ SeqSpan \in Nat \ {0}
    /\ Seqs \subseteq 0..(SeqSpan - 1) /\ DedupSize \in Nat \ {0}
BY GoServerAssumption DEF Tasks

\* A part of the state that does not change keeps its type.
LEMMA Frame ==
    ASSUME TypeOK, UNCHANGED created
    PROVE  /\ UNCHANGED <<maps, session>> => MapsOK'
           /\ UNCHANGED <<session, stoppedAt>> => SessionsOK'
           /\ UNCHANGED task => TasksOK'
           /\ UNCHANGED handler => HandlersOK'
           /\ UNCHANGED sweeper => SweeperOK'
<1>1. UNCHANGED <<maps, session>> => MapsOK'
  BY DEF TypeOK, MapsOK, maps
<1>2. UNCHANGED <<session, stoppedAt>> => SessionsOK'
  BY DEF TypeOK, SessionsOK
<1>3. UNCHANGED task => TasksOK'
  BY DEF TypeOK, TasksOK, TaskOK
<1>4. UNCHANGED handler => HandlersOK'
  BY DEF TypeOK, HandlersOK, HandlerOK
<1>5. UNCHANGED sweeper => SweeperOK'
  BY DEF TypeOK, SweeperOK
<1> QED
  BY <1>1, <1>2, <1>3, <1>4, <1>5

\* One task, or one handler, is replaced by a well typed one.
LEMMA TaskUpdate ==
    ASSUME TasksOK, UNCHANGED created, NEW t \in Tasks, NEW r, TaskOK(r),
           task' = [task EXCEPT ![t] = r]
    PROVE  TasksOK'
<1>1. \A x \in Tasks : task'[x] = IF x = t THEN r ELSE task[x]
  BY DEF TasksOK
<1>2. \A x \in Tasks : TaskOK(task'[x])
  BY <1>1 DEF TasksOK
<1>3. task' = [x \in Tasks |-> task'[x]]
  BY DEF TasksOK
<1> QED
  BY <1>2, <1>3 DEF TasksOK, TaskOK

LEMMA HandlerUpdate ==
    ASSUME HandlersOK, UNCHANGED created, NEW o \in Objs, NEW r, HandlerOK(o, r),
           handler' = [handler EXCEPT ![o] = r]
    PROVE  HandlersOK'
<1>1. \A x \in Objs : handler'[x] = IF x = o THEN r ELSE handler[x]
  BY DEF HandlersOK
<1>2. \A x \in Objs : HandlerOK(x, handler'[x])
  BY <1>1 DEF HandlersOK
<1>3. handler' = [x \in Objs |-> handler'[x]]
  BY DEF HandlersOK
<1> QED
  BY <1>2, <1>3 DEF HandlersOK, HandlerOK

\* What the type says of one task, one handler and one session.
LEMMA TaskFacts ==
    ASSUME TypeOK, NEW t \in Tasks
    PROVE  /\ TaskOK(task[t])
           /\ task[t].pc \in TaskPCs /\ task[t].id \in Ids \cup {None}
           /\ task[t].seq \in Nat /\ task[t].obj \in 0..created
BY DEF TypeOK, TasksOK, TaskOK

LEMMA SessionFacts ==
    ASSUME TypeOK
    PROVE  /\ created \in 0..MaxSessions /\ MaxSessions \in Nat /\ created \in Nat
           /\ 1..created \subseteq Objs
           /\ \A o \in 1..created : session[o].id \in Ids
           /\ \A i \in Ids : sessions[i] \in 0..created
BY ConstantFacts DEF TypeOK, SessionsOK, MapsOK, Objs

\* Back to the read, or on the way out.
LEMMA RestOK ==
    ASSUME TypeOK, NEW t
    PROVE  /\ TaskOK(Rest(t)) /\ TaskOK([Idle EXCEPT !.pc = "done"])
           /\ Rest(t).pc \in {"read", "untrack", "done"}
           /\ t # Udp => Rest(t).pc \in {"read", "untrack"}
BY SessionFacts DEF TaskOK, Rest, Idle, TaskPCs, InHand, Found

\* Nothing happens to a session: what the invariant says beyond types stays.
LEMMA SocketsStay ==
    ASSUME SocketInv, UNCHANGED <<sessions, created, session, stoppedAt>>, TypeOK'
    PROVE  SocketInv'
<1>1. WindowsOK'
  BY DEF SocketInv, WindowsOK
<1>2. SocketsClosed'
  BY DEF SocketInv, SocketsClosed
<1> QED
  BY <1>1, <1>2 DEF SocketInv

-----------------------------------------------------------------------------
(* Packets and connections *)

\* One task moves and no session changes.
LEMMA TaskMoves ==
    ASSUME SocketInv, NEW t \in Tasks, NEW r, TaskOK(r), task' = [task EXCEPT ![t] = r],
           UNCHANGED <<sessions, created, session, stoppedAt, handler, sweeper, done,
                       listening,
                       stopper>>,
           clientPaths' \in [Ids -> Seq(Tasks)],
           tcpConnToSession' \in [Conns -> Ids \cup {None}],
           conn' \in [Conns -> [open : BOOLEAN, peer : BOOLEAN]],
           acceptor' \in {"accept", "done"}
    PROVE  SocketInv'
<1>1. TypeOK
  BY DEF SocketInv
<1>2. MapsOK'
  BY <1>1 DEF TypeOK, MapsOK
<1>3. TasksOK'
  BY <1>1, TaskUpdate DEF TypeOK
<1>4. SessionsOK' /\ HandlersOK' /\ SweeperOK'
  BY <1>1, Frame
<1>5. TypeOK'
  BY <1>1, <1>2, <1>3, <1>4 DEF TypeOK
<1> QED
  BY <1>5, SocketsStay

\* The same, and nothing else changes.
LEMMA TaskAlone ==
    ASSUME SocketInv, NEW t \in Tasks, NEW r, TaskOK(r), task' = [task EXCEPT ![t] = r],
           UNCHANGED <<done, listening, maps, objects, conn, handler, acceptor, sweeper,
                       stopper>>
    PROVE  SocketInv'
<1>1. UNCHANGED <<sessions, created, session, stoppedAt, handler, sweeper, done,
                  listening, stopper,
                  clientPaths, tcpConnToSession, conn, acceptor>>
  BY DEF maps, objects
<1> QED
  BY <1>1, TaskMoves DEF SocketInv, TypeOK, MapsOK

\* A packet arrives, and is dropped when the session cannot be created, when it
\* is a duplicate or when it was sent; a read fails.
LEMMA ReadPreserves ==
    ASSUME SocketInv, NEW t \in Tasks, NEW id \in Ids, NEW seq \in Seqs, Read(t, id, seq)
    PROVE  SocketInv'
<1> DEFINE r == [pc |-> "lookup", id |-> id, seq |-> seq, obj |-> 0]
<1>1. TaskOK(r)
  BY ConstantFacts, SessionFacts DEF TaskOK, TaskPCs, InHand, Found, SocketInv
<1>2. task' = [task EXCEPT ![t] = r]
  BY DEF Read
<1> HIDE DEF r
<1> QED
  BY <1>1, <1>2, TaskAlone DEF Read

LEMMA RestPreserves ==
    ASSUME SocketInv, NEW t \in Tasks, DecodeFails(t) \/ CreateFails(t) \/ Forward(t)
    PROVE  SocketInv'
BY RestOK, TaskAlone DEF DecodeFails, CreateFails, Forward, SocketInv

\* A task moves on with the packet it has, or leaves its loop.
LEMMA GotoOK ==
    ASSUME TypeOK, NEW t \in Tasks, NEW q \in TaskPCs,
           q \in InHand => task[t].pc \in InHand,
           q \in Found => task[t].pc \in Found,
           q # "unpath"
    PROVE  TaskOK([task[t] EXCEPT !.pc = q])
BY TaskFacts DEF TaskOK, TaskPCs

LEMMA LeavePreserves ==
    ASSUME SocketInv, NEW t \in Tasks, ReadFails(t) \/ (t \in Conns /\ BadFrame(t))
    PROVE  SocketInv'
<1>1. PICK q \in {"done", "untrack"} :
         task' = [task EXCEPT ![t] = [task[t] EXCEPT !.pc = q]]
  BY DEF ReadFails, BadFrame, Goto
<1>2. TaskOK([task[t] EXCEPT !.pc = q])
  BY GotoOK DEF SocketInv, TaskPCs, InHand, Found
<1> QED
  BY <1>1, <1>2, TaskAlone DEF ReadFails, BadFrame

LEMMA AcceptPreserves ==
    ASSUME SocketInv, NEW c \in Conns, Accept(c)
    PROVE  SocketInv'
<1>1. c \in Tasks /\ TaskOK(Rest(c)) /\ task' = [task EXCEPT ![c] = Rest(c)]
  BY ConstantFacts, RestOK DEF Accept, SocketInv
<1>2. conn' \in [Conns -> [open : BOOLEAN, peer : BOOLEAN]]
  BY DEF Accept, SocketInv, TypeOK
<1>3. acceptor' \in {"accept", "done"}
  BY DEF Accept
<1>4. UNCHANGED <<sessions, created, session, stoppedAt, handler, sweeper, done,
                  listening, stopper,
                  clientPaths, tcpConnToSession>>
  BY DEF Accept, maps, objects
<1> QED
  BY <1>1, <1>2, <1>3, <1>4, TaskMoves DEF SocketInv, TypeOK, MapsOK

\* The session of the packet is found.
LEMMA FindsOK ==
    ASSUME TypeOK, NEW t \in Tasks, task[t].pc \in InHand, NEW o \in 1..created
    PROVE  TaskOK([task[t] EXCEPT !.pc = "dedup", !.obj = o])
<1> DEFINE r == [task[t] EXCEPT !.pc = "dedup", !.obj = o]
<1>1. TaskOK(task[t]) /\ o \in 0..created /\ o # 0 /\ "dedup" \in TaskPCs
  BY TaskFacts, SessionFacts DEF TaskPCs
<1>2. r \in [pc : TaskPCs, id : Ids \cup {None}, seq : Nat, obj : 0..created]
  BY <1>1 DEF TaskOK
<1>3. r.pc = "dedup" /\ r.obj = o /\ r.id = task[t].id /\ r.seq = task[t].seq
  BY <1>1 DEF TaskOK
<1> HIDE DEF r
<1>4. TaskOK(r)
  BY <1>1, <1>2, <1>3 DEF TaskOK
<1> QED
  BY <1>4 DEF r

LEMMA LookupPreserves ==
    ASSUME SocketInv, NEW t \in Tasks, Lookup(t) \/ CreateFindsOne(t)
    PROVE  SocketInv'
<1> DEFINE o == sessions[task[t].id]
           r == [task[t] EXCEPT !.pc = "dedup", !.obj = o]
<1>1. TypeOK /\ task[t].pc \in InHand
  BY DEF Lookup, CreateFindsOne, InHand, SocketInv
<1>2. o \in 0..created
  BY <1>1, TaskFacts, SessionFacts DEF TaskOK
<1>3. ASSUME o # 0 PROVE TaskOK(r)
  <2>1. o \in 1..created
    BY <1>1, <1>2, <1>3, SessionFacts
  <2> QED
    BY <1>1, <2>1, FindsOK
<1>4. UNCHANGED <<done, listening, maps, objects, conn, handler, acceptor, sweeper, stopper>>
  BY DEF Lookup, CreateFindsOne
<1>5. CASE Goto(t, "create")
  <2>1. TaskOK([task[t] EXCEPT !.pc = "create"])
    BY <1>1, GotoOK DEF TaskPCs, InHand, Found
  <2> QED
    BY <1>4, <1>5, <2>1, TaskAlone DEF Goto
<1>6. CASE o # 0 /\ Finds(t, o)
  <2>1. task' = [task EXCEPT ![t] = r]
    BY <1>6, Zenon DEF Finds
  <2> HIDE DEF r, o
  <2> QED
    BY <1>3, <1>4, <1>6, <2>1, TaskAlone
<1> QED
  BY <1>5, <1>6 DEF Lookup, CreateFindsOne

\* The connection is noted, its path added.
LEMMA TrackPreserves ==
    ASSUME SocketInv, NEW c \in Conns, Track(c)
    PROVE  SocketInv'
<1>1. c \in Tasks /\ TaskOK([task[c] EXCEPT !.pc = "path"])
  BY ConstantFacts, GotoOK DEF Track, SocketInv, TaskPCs, InHand, Found
<1>2. task[c].id \in Ids
  BY <1>1, TaskFacts DEF Track, SocketInv, TaskOK, InHand
<1>3. tcpConnToSession' \in [Conns -> Ids \cup {None}]
  BY <1>2 DEF Track, SocketInv, TypeOK, MapsOK
<1>4. UNCHANGED <<sessions, created, session, stoppedAt, handler, sweeper, done,
                  listening, stopper,
                  clientPaths, conn, acceptor>>
  BY DEF Track, objects
<1> QED
  BY <1>1, <1>3, <1>4, TaskMoves DEF Track, Goto, SocketInv, TypeOK, MapsOK

LEMMA AddPathPreserves ==
    ASSUME SocketInv, NEW t \in Tasks, AddPath(t)
    PROVE  SocketInv'
<1>1. TaskOK([task[t] EXCEPT !.pc = "forward"])
  BY GotoOK DEF AddPath, SocketInv, TaskPCs, InHand, Found
<1>2. task[t].id \in Ids
  BY TaskFacts DEF AddPath, SocketInv, TaskOK, InHand
<1>3. clientPaths' \in [Ids -> Seq(Tasks)]
  <2> DEFINE ps == clientPaths[task[t].id]
  <2>1. ps \in Seq(Tasks) /\ Append(ps, t) \in Seq(Tasks)
    BY <1>2, AppendProperties DEF SocketInv, TypeOK, MapsOK
  <2>2. PICK qs \in {ps, Append(ps, t)} :
           clientPaths' = [clientPaths EXCEPT ![task[t].id] = qs]
    BY DEF AddPath
  <2> HIDE DEF ps
  <2>3. qs \in Seq(Tasks)
    BY <2>1, <2>2
  <2> QED
    BY <2>2, <2>3 DEF SocketInv, TypeOK, MapsOK
<1>4. UNCHANGED <<sessions, created, session, stoppedAt, handler, sweeper, done,
                  listening, stopper,
                  tcpConnToSession, conn, acceptor>>
  BY DEF AddPath, objects
<1> QED
  BY <1>1, <1>3, <1>4, TaskMoves DEF AddPath, Goto, SocketInv, TypeOK, MapsOK

\* The end of a connection: what is noted of it, its path, the connection.
LEMMA UntrackPreserves ==
    ASSUME SocketInv, NEW c \in Conns, Untrack(c)
    PROVE  SocketInv'
<1> DEFINE id == tcpConnToSession[c]
           q == IF id = None THEN "forget" ELSE "unpath"
           r == [task[c] EXCEPT !.id = id, !.pc = q]
<1>1. c \in Tasks /\ TaskOK(task[c])
  BY ConstantFacts, TaskFacts DEF SocketInv
<1>2. id \in Ids \cup {None} /\ q \in TaskPCs /\ q \notin InHand \cup Found
      /\ (q = "unpath" => id # None)
  BY DEF SocketInv, TypeOK, MapsOK, TaskPCs, InHand, Found
<1>3. task' = [task EXCEPT ![c] = r]
  BY Zenon DEF Untrack
<1> HIDE DEF id, q
<1>4. r \in [pc : TaskPCs, id : Ids \cup {None}, seq : Nat, obj : 0..created]
      /\ r.pc = q /\ r.id = id
  BY <1>1, <1>2 DEF TaskOK
<1> HIDE DEF r
<1>5. TaskOK(r)
  BY <1>2, <1>4 DEF TaskOK
<1> QED
  BY <1>1, <1>3, <1>5, TaskAlone DEF Untrack

LEMMA UnpathPreserves ==
    ASSUME SocketInv, NEW c \in Conns, Unpath(c)
    PROVE  SocketInv'
<1>1. c \in Tasks /\ TaskOK([task[c] EXCEPT !.pc = "forget"])
  BY ConstantFacts, GotoOK DEF Unpath, SocketInv, TaskPCs, InHand, Found
<1>2. task[c].id \in Ids
  BY <1>1, TaskFacts DEF Unpath, SocketInv, TaskOK
<1>3. clientPaths' \in [Ids -> Seq(Tasks)]
  <2> DEFINE ps == clientPaths[task[c].id]
             Cut(i) == SubSeq(ps, 1, i - 1) \o SubSeq(ps, i + 1, Len(ps))
  <2>1. clientPaths \in [Ids -> Seq(Tasks)] /\ ps \in Seq(Tasks)
    BY <1>2 DEF SocketInv, TypeOK, MapsOK
  <2>2. \A i \in 1..Len(ps) : Cut(i) \in Seq(Tasks)
    <3> SUFFICES ASSUME NEW i \in 1..Len(ps) PROVE Cut(i) \in Seq(Tasks)
      OBVIOUS
    <3>1. Len(ps) \in Nat /\ \A j \in 1..Len(ps) : ps[j] \in Tasks
      BY <2>1, LenProperties, ElementOfSeq
    <3>2. SubSeq(ps, 1, i - 1) \in Seq(Tasks)
      BY <2>1, <3>1, SubSeqProperties
    <3>3. SubSeq(ps, i + 1, Len(ps)) \in Seq(Tasks)
      BY <2>1, <3>1, SubSeqProperties
    <3> QED
      BY <3>2, <3>3, ConcatProperties
  <2>3. \/ \E i \in 1..Len(ps) : clientPaths' = [clientPaths EXCEPT ![task[c].id] = Cut(i)]
        \/ UNCHANGED clientPaths
    BY DEF Unpath
  <2> HIDE DEF Cut, ps
  <2> QED
    BY <2>1, <2>2, <2>3
<1>4. UNCHANGED <<sessions, created, session, stoppedAt, handler, sweeper, done,
                  listening, stopper,
                  tcpConnToSession, conn, acceptor>>
  BY DEF Unpath, objects
<1>5. task' = [task EXCEPT ![c] = [task[c] EXCEPT !.pc = "forget"]]
  BY DEF Unpath, Goto
<1> QED
  BY <1>1, <1>3, <1>4, <1>5, TaskMoves DEF SocketInv, TypeOK, MapsOK

LEMMA ForgetPreserves ==
    ASSUME SocketInv, NEW c \in Conns, Forget(c)
    PROVE  SocketInv'
<1>1. c \in Tasks /\ TaskOK([Idle EXCEPT !.pc = "done"])
  BY ConstantFacts, RestOK DEF SocketInv
<1>2. tcpConnToSession' \in [Conns -> Ids \cup {None}]
  BY DEF Forget, SocketInv, TypeOK, MapsOK
<1>3. conn' \in [Conns -> [open : BOOLEAN, peer : BOOLEAN]]
  BY DEF Forget, SocketInv, TypeOK
<1>4. UNCHANGED <<sessions, created, session, stoppedAt, handler, sweeper, done,
                  listening, stopper,
                  clientPaths, acceptor>>
  BY DEF Forget, objects
<1> QED
  BY <1>1, <1>2, <1>3, <1>4, TaskMoves DEF Forget, SocketInv, TypeOK, MapsOK

-----------------------------------------------------------------------------
(* Sessions *)

\* A session is created for an id that has none, so no socket of that id is
\* open.
LEMMA CreatePreserves ==
    ASSUME SocketInv, NEW t \in Tasks, Create(t)
    PROVE  SocketInv'
<1> DEFINE o == created + 1
           id == task[t].id
           new == [NoSession EXCEPT !.id = id, !.open = TRUE, !.cancelled = CancelledAtBirth]
           r == [task[t] EXCEPT !.pc = "dedup", !.obj = o]
           hpc == IF CancelledAtBirth THEN "done" ELSE "read"
           h == [handler[o] EXCEPT !.pc = hpc]
<1>1. TypeOK
  BY DEF SocketInv
<1>2. /\ created \in Nat /\ o \in Objs /\ o # 0 /\ 1..created \subseteq Objs
      /\ created' = o /\ o \in 0..o /\ o \in 0..MaxSessions
  BY <1>1, SessionFacts DEF Create, NewSession, Objs
<1>3. TaskOK(task[t]) /\ id \in Ids /\ sessions[id] = 0 /\ task[t].seq \in Seqs
  BY <1>1, TaskFacts DEF Create, TaskOK, InHand
<1>4. /\ sessions' = [sessions EXCEPT ![id] = o]
      /\ session' = [session EXCEPT ![o] = new]
      /\ handler' = [handler EXCEPT ![o] = h]
      /\ task' = [task EXCEPT ![t] = r]
  BY Zenon DEF Create, NewSession, HGoto, Finds
<1>5. UNCHANGED <<done, listening, clientPaths, tcpConnToSession, conn, acceptor, sweeper,
                  stopper, stoppedAt>>
  BY DEF Create, NewSession
<1>6. /\ new \in [id : Ids \cup {None}, open : BOOLEAN, cancelled : BOOLEAN,
                  window : Window, answers : Nat]
      /\ new.id = id /\ new.open = TRUE /\ new.window = New
  BY <1>1, <1>3 DEF NoSession, CancelledAtBirth, New, Window, TypeOK
<1>7. /\ r.pc = "dedup" /\ r.id = id /\ r.seq = task[t].seq /\ r.obj = o
      /\ r \in [pc : TaskPCs, id : Ids \cup {None}, seq : Nat, obj : 0..o]
  <2>1. "dedup" \in TaskPCs
    BY DEF TaskPCs
  <2> QED
    BY <1>2, <1>3, <2>1 DEF TaskOK
<1>8. handler[o] \in [pc : HandlerPCs, todo : Seq(Tasks)] /\ hpc \in {"read", "done"}
  <2>1. HandlerOK(o, handler[o])
    BY <1>1, <1>2 DEF TypeOK, HandlersOK
  <2>2. hpc \in {"read", "done"}
    OBVIOUS
  <2> QED
    BY <2>1, <2>2 DEF HandlerOK
<1> HIDE DEF hpc
<1>9. h \in [pc : HandlerPCs, todo : Seq(Tasks)] /\ h.pc = hpc
  BY <1>8 DEF HandlerPCs
<1> HIDE DEF new, r, h
<1>10. \A x \in Objs : session'[x] = IF x = o THEN new ELSE session[x]
  BY <1>4 DEF TypeOK, SessionsOK, SocketInv
<1>11. \A i \in Ids : sessions'[i] = IF i = id THEN o ELSE sessions[i]
  BY <1>1, <1>4 DEF TypeOK, MapsOK
<1>12. MapsOK'
  <2>1. sessions' \in [Ids -> 0..created']
    <3>1. \A i \in Ids : sessions[i] \in 0..created'
      BY <1>1, <1>2 DEF TypeOK, MapsOK
    <3> QED
      BY <1>1, <1>2, <1>4, <3>1 DEF TypeOK, MapsOK
  <2>2. ASSUME NEW i \in Ids, sessions'[i] # 0 PROVE session'[sessions'[i]].id = i
    <3>1. CASE i = id
      BY <1>2, <1>3, <1>6, <1>10, <1>11, <3>1
    <3>2. CASE i # id
      <4>1. sessions'[i] = sessions[i] /\ sessions[i] \in 1..created
        BY <1>1, <1>2, <1>11, <2>2, <3>2 DEF TypeOK, MapsOK
      <4>2. session'[sessions[i]] = session[sessions[i]]
        BY <1>2, <1>10, <4>1
      <4> QED
        BY <1>1, <2>2, <4>1, <4>2 DEF TypeOK, MapsOK
    <3> QED
      BY <3>1, <3>2
  <2> QED
    BY <1>1, <1>5, <2>1, <2>2 DEF TypeOK, MapsOK
<1>13. SessionsOK'
  <2>1. session' \in [Objs -> [id : Ids \cup {None}, open : BOOLEAN, cancelled : BOOLEAN,
                               window : Window, answers : Nat]]
    BY <1>1, <1>2, <1>4, <1>6 DEF TypeOK, SessionsOK
  <2>2. ASSUME NEW x \in 1..created' PROVE session'[x].id # None
    <3>1. CASE x = o
      BY <1>2, <1>3, <1>6, <1>10, <3>1, ConstantFacts
    <3>2. CASE x # o
      <4>1. x \in 1..created
        BY <1>2, <3>2
      <4> QED
        BY <1>1, <1>2, <1>10, <3>2, <4>1 DEF TypeOK, SessionsOK
    <3> QED
      BY <3>1, <3>2
  <2>3. created' \in 0..MaxSessions /\ stoppedAt' \in 0..created'
    BY <1>1, <1>2, <1>5 DEF TypeOK, SessionsOK
  <2> QED
    BY <2>1, <2>2, <2>3 DEF SessionsOK
<1>14. TasksOK'
  <2>1. \A x \in Tasks : task'[x] = IF x = t THEN r ELSE task[x]
    BY <1>1, <1>4 DEF TypeOK, TasksOK
  <2>2. task' = [x \in Tasks |-> task'[x]]
    BY <1>1, <1>4 DEF TypeOK, TasksOK
  <2>3. 0..created \subseteq 0..created'
    BY <1>2
  <2>4. ASSUME NEW x \in Tasks PROVE TaskOK(task[x])'
    <3>1. CASE x = t
      <4>1. task'[x] = r
        BY <2>1, <3>1
      <4>2. r \in [pc : TaskPCs, id : Ids \cup {None}, seq : Nat, obj : 0..created']
        BY <1>2, <1>7
      <4> QED
        BY <1>2, <1>3, <1>7, <4>1, <4>2, ConstantFacts DEF TaskOK
    <3>2. CASE x # t
      <4>1. task'[x] = task[x] /\ TaskOK(task[x])
        BY <1>1, <2>1, <3>2 DEF TypeOK, TasksOK
      <4> QED
        BY <2>3, <4>1 DEF TaskOK
    <3> QED
      BY <3>1, <3>2
  <2> QED
    BY <2>2, <2>4 DEF TasksOK
<1>15. HandlersOK'
  <2>1. \A x \in Objs : handler'[x] = IF x = o THEN h ELSE handler[x]
    BY <1>1, <1>4 DEF TypeOK, HandlersOK
  <2>2. handler' = [x \in Objs |-> handler'[x]]
    BY <1>1, <1>4 DEF TypeOK, HandlersOK
  <2>3. ASSUME NEW x \in Objs PROVE HandlerOK(x, handler[x])'
    <3>1. CASE x = o
      BY <1>2, <1>8, <1>9, <2>1, <3>1 DEF HandlerOK
    <3>2. CASE x # o
      <4>1. handler'[x] = handler[x] /\ HandlerOK(x, handler[x])
        BY <1>1, <2>1, <3>2 DEF TypeOK, HandlersOK
      <4>2. x > created <=> x > created'
        BY <1>2, <3>2 DEF Objs
      <4> QED
        BY <4>1, <4>2 DEF HandlerOK
    <3> QED
      BY <3>1, <3>2
  <2> QED
    BY <2>2, <2>3 DEF HandlersOK
<1>16. SweeperOK'
  BY <1>1, <1>5 DEF TypeOK, SweeperOK
<1>17. TypeOK'
  BY <1>1, <1>5, <1>12, <1>13, <1>14, <1>15, <1>16 DEF TypeOK
<1>18. WindowsOK'
  <2>1. WellFormed(New)
    BY DEF WellFormed, New, Window
  <2> QED
    BY <1>6, <1>10, <2>1 DEF SocketInv, WindowsOK
<1>19. SocketsClosed'
  <2> SUFFICES ASSUME NEW x \in 1..created', session'[x].open
               PROVE  sessions'[session'[x].id] = x /\ x > stoppedAt'
    BY DEF SocketsClosed
  <2>1. CASE x = o
    <3>1. sessions'[session'[x].id] = x
      BY <1>2, <1>3, <1>6, <1>10, <1>11, <2>1
    <3>2. x > stoppedAt'
      BY <1>1, <1>2, <1>5, <2>1 DEF TypeOK, SessionsOK
    <3> QED
      BY <3>1, <3>2
  <2>2. CASE x # o
    <3>1. x \in 1..created /\ session'[x] = session[x]
      BY <1>2, <1>10, <2>2
    <3>2. sessions[session[x].id] = x /\ session[x].id \in Ids /\ x > stoppedAt
      BY <1>1, <3>1, SessionFacts DEF SocketInv, SocketsClosed
    <3>3. session[x].id # id
      BY <1>3, <3>1, <3>2
    <3> QED
      BY <1>5, <1>11, <3>1, <3>2, <3>3
  <2> QED
    BY <2>1, <2>2
<1> QED
  BY <1>17, <1>18, <1>19 DEF SocketInv

\* The window takes the steps of the Rust one, and no task or socket notices.
LEMMA DedupPreserves ==
    ASSUME SocketInv, NEW t \in Tasks, Dedup(t)
    PROVE  SocketInv'
<1> DEFINE o == task[t].obj
           w == GoMark(session[o].window, task[t].seq, DedupSize, SeqSpan)
           n == [session[o] EXCEPT !.window = w]
<1>1. TypeOK /\ TaskOK(task[t]) /\ task[t].pc = "dedup"
  BY TaskFacts DEF SocketInv, Dedup
<1>2. o \in 1..created /\ o \in Objs /\ task[t].seq \in Seqs /\ task[t].seq \in Nat
  BY <1>1, SessionFacts, ConstantFacts DEF TaskOK, Found, InHand
<1>3. WellFormed(session[o].window)
  BY <1>2 DEF SocketInv, WindowsOK
<1>4. WellFormed(w)
  <2>1. task[t].seq \in 0..(SeqSpan - 1)
    BY <1>2, ConstantFacts
  <2>2. w = Mark(session[o].window, task[t].seq, DedupSize)
    BY <1>3, <2>1, GoMarkSame, ConstantFacts
  <2> QED
    BY <1>2, <1>3, <2>2, MarkWellFormed, ConstantFacts
<1>5. session' = [session EXCEPT ![o] = n]
  BY Zenon DEF Dedup
<1>6. UNCHANGED <<done, listening, maps, created, stoppedAt, conn, handler, acceptor,
                  sweeper, stopper>>
  BY DEF Dedup
<1>7. PICK r : TaskOK(r) /\ task' = [task EXCEPT ![t] = r]
  <2>1. CASE task' = [task EXCEPT ![t] = Rest(t)]
    BY <1>1, <2>1, RestOK
  <2>2. CASE \E q \in {"path", "track"} : Goto(t, q)
    <3>1. PICK q \in {"path", "track"} : Goto(t, q)
      BY <2>2
    <3>2. TaskOK([task[t] EXCEPT !.pc = q])
      BY <1>1, GotoOK DEF TaskPCs, InHand, Found
    <3> QED
      BY <3>1, <3>2 DEF Goto
  <2> QED
    BY <2>1, <2>2 DEF Dedup
<1>8. session[o] \in [id : Ids \cup {None}, open : BOOLEAN, cancelled : BOOLEAN,
                      window : Window, answers : Nat]
  BY <1>1, <1>2 DEF TypeOK, SessionsOK
<1>9. w \in Window
  BY <1>4 DEF WellFormed
<1> HIDE DEF w
<1>10. /\ n \in [id : Ids \cup {None}, open : BOOLEAN, cancelled : BOOLEAN,
                 window : Window, answers : Nat]
       /\ n.id = session[o].id /\ n.open = session[o].open /\ n.window = w
  BY <1>8, <1>9
<1> HIDE DEF n, o
<1>11. \A x \in Objs : session'[x] = IF x = o THEN n ELSE session[x]
  BY <1>1, <1>5 DEF TypeOK, SessionsOK
<1>12. \A x \in Objs : session'[x].id = session[x].id /\ session'[x].open = session[x].open
  BY <1>10, <1>11
<1>13. SessionsOK'
  <2>1. session' \in [Objs -> [id : Ids \cup {None}, open : BOOLEAN, cancelled : BOOLEAN,
                               window : Window, answers : Nat]]
    BY <1>1, <1>5, <1>10 DEF TypeOK, SessionsOK
  <2> QED
    BY <1>1, <1>6, <1>12, <2>1, SessionFacts DEF TypeOK, SessionsOK
<1>14. MapsOK'
  <2>1. \A i \in Ids : sessions[i] # 0 => sessions[i] \in Objs
    BY <1>1, SessionFacts
  <2> QED
    BY <1>1, <1>6, <1>12, <2>1 DEF TypeOK, MapsOK, maps
<1>15. TypeOK'
  BY <1>1, <1>6, <1>7, <1>13, <1>14, TaskUpdate, Frame DEF TypeOK
<1>16. WindowsOK'
  BY <1>4, <1>10, <1>11 DEF SocketInv, WindowsOK
<1>17. SocketsClosed'
  BY <1>1, <1>6, <1>12, SessionFacts DEF SocketInv, SocketsClosed, maps
<1> QED
  BY <1>15, <1>16, <1>17 DEF SocketInv

SessionRecord == [id : Ids \cup {None}, open : BOOLEAN, cancelled : BOOLEAN,
                  window : Window, answers : Nat]

\* Sessions keep their ids and windows, no socket is opened, and the map loses
\* only sessions whose socket is closed.
LEMMA SessionsEnd ==
    ASSUME SocketInv, UNCHANGED <<created, clientPaths, tcpConnToSession, conn, task, handler,
                                  acceptor, listening>>,
           SweeperOK', done' \in BOOLEAN, stoppedAt' \in 0..created,
           stopper' \in {"idle", "listeners", "sessions", "paths", "conns", "wait",
                         "returned"},
           session' = [o \in Objs |-> session'[o]],
           \A o \in Objs : /\ session'[o] \in SessionRecord
                           /\ session'[o].id = session[o].id
                           /\ session'[o].window = session[o].window
                           /\ session'[o].open => session[o].open,
           sessions' \in [Ids -> 0..created],
           \A i \in Ids : \/ sessions'[i] = sessions[i]
                          \/ /\ sessions'[i] = 0
                             /\ sessions[i] \in Objs => ~session'[sessions[i]].open,
           \A o \in 1..created : session'[o].open => o > stoppedAt'
    PROVE  SocketInv'
<1>1. TypeOK
  BY DEF SocketInv
<1>2. SessionsOK'
  BY <1>1, SessionFacts DEF TypeOK, SessionsOK, SessionRecord
<1>3. MapsOK'
  <2>1. ASSUME NEW i \in Ids, sessions'[i] # 0 PROVE session'[sessions'[i]].id = i
    <3>1. sessions'[i] = sessions[i] /\ sessions[i] # 0
      BY <2>1
    <3>2. sessions[i] \in Objs /\ session[sessions[i]].id = i
      BY <1>1, <3>1, SessionFacts DEF TypeOK, MapsOK
    <3> QED
      BY <3>1, <3>2
  <2> QED
    BY <1>1, <2>1 DEF TypeOK, MapsOK
<1>4. TypeOK'
  BY <1>1, <1>2, <1>3, Frame DEF TypeOK
<1>5. WindowsOK'
  BY DEF SocketInv, WindowsOK
<1>6. SocketsClosed'
  <2> SUFFICES ASSUME NEW o \in 1..created, session'[o].open
               PROVE  sessions'[session'[o].id] = o
    BY DEF SocketsClosed
  <2>1. o \in Objs /\ session[o].id \in Ids
    BY <1>1, SessionFacts
  <2>2. session'[o].id = session[o].id /\ session[o].open
    BY <2>1
  <2>3. sessions[session[o].id] = o
    BY <2>2 DEF SocketInv, SocketsClosed
  <2> QED
    BY <2>1, <2>2, <2>3
<1> QED
  BY <1>4, <1>5, <1>6 DEF SocketInv

\* As long as no socket is opened, those that are open are of sessions created
\* after Stop closed the others.
LEMMA OpenLate ==
    ASSUME SocketInv, UNCHANGED stoppedAt,
           \A o \in Objs : session'[o].open => session[o].open
    PROVE  /\ stoppedAt' \in 0..created
           /\ \A o \in 1..created : session'[o].open => o > stoppedAt'
<1>1. stoppedAt \in 0..created /\ 1..created \subseteq Objs
  BY SessionFacts DEF SocketInv, TypeOK, SessionsOK
<1> QED
  BY <1>1 DEF SocketInv, SocketsClosed

\* Shut closes the sockets of some sessions.
LEMMA ShutFields ==
    ASSUME SocketInv, NEW ss, session' = Shut(ss)
    PROVE  /\ session' = [o \in Objs |-> session'[o]]
           /\ \A o \in Objs : /\ session'[o] \in SessionRecord
                              /\ session'[o].id = session[o].id
                              /\ session'[o].window = session[o].window
                              /\ session'[o].open => session[o].open /\ o \notin ss
<1>1. session' = [o \in Objs |-> session'[o]]
  BY Zenon DEF Shut
<1>2. ASSUME NEW o \in Objs
      PROVE  /\ session'[o] \in SessionRecord
             /\ session'[o].id = session[o].id
             /\ session'[o].window = session[o].window
             /\ session'[o].open => session[o].open /\ o \notin ss
  <2> DEFINE n == [session[o] EXCEPT !.open = FALSE, !.cancelled = TRUE]
  <2>1. session[o] \in SessionRecord
    BY DEF SocketInv, TypeOK, SessionsOK, SessionRecord
  <2>2. session'[o] = IF o \in ss THEN n ELSE session[o]
    BY Zenon DEF Shut
  <2>3. n \in SessionRecord /\ n.id = session[o].id /\ n.window = session[o].window
        /\ n.open = FALSE
    BY <2>1 DEF SessionRecord
  <2> HIDE DEF n
  <2> QED
    BY <2>1, <2>2, <2>3
<1> QED
  BY <1>1, <1>2

\* The sweeper removes a session and closes its socket in one step.
LEMMA SweepRemovePreserves ==
    ASSUME SocketInv, NEW id \in Ids, SweepRemove(id)
    PROVE  SocketInv'
<1>1. SweeperOK'
  <2> DEFINE r == [sweeper EXCEPT !.pc = "paths", !.id = id]
  <2>1. sweeper' = r
    BY Zenon DEF SweepRemove
  <2>2. r \in [pc : {"wait", "remove", "paths", "done"}, todo : SUBSET Ids,
               id : Ids \cup {None}] /\ r.id = id
    BY DEF SocketInv, TypeOK, SweeperOK
  <2> HIDE DEF r
  <2> QED
    BY <2>1, <2>2, ConstantFacts DEF SweeperOK
<1>2. session' = Shut({sessions[id]})
  BY DEF SweepRemove
<1>3. /\ sessions' \in [Ids -> 0..created]
      /\ \A i \in Ids : \/ sessions'[i] = sessions[i]
                        \/ sessions'[i] = 0 /\ sessions[i] = sessions[id]
  <2>1. TypeOK
    BY DEF SocketInv
  <2>2. 0 \in 0..created
    BY <2>1, SessionFacts
  <2>3. sessions \in [Ids -> 0..created]
    BY <2>1 DEF TypeOK, MapsOK
  <2>4. sessions' = [sessions EXCEPT ![id] = 0]
    BY DEF SweepRemove
  <2>5. \A i \in Ids : sessions'[i] = IF i = id THEN 0 ELSE sessions[i]
    BY <2>3, <2>4
  <2>6. sessions' \in [Ids -> 0..created]
    BY <2>2, <2>3, <2>4
  <2> QED
    BY <2>5, <2>6
<1>4. \A o \in Objs : session'[o].open => o \notin {sessions[id]}
  BY <1>2, ShutFields
<1>5. UNCHANGED <<created, clientPaths, tcpConnToSession, conn, task, handler, acceptor,
                  listening, done, stopper, stoppedAt>>
  BY DEF SweepRemove
<1>6. \A i \in Ids : \/ sessions'[i] = sessions[i]
                     \/ /\ sessions'[i] = 0
                        /\ sessions[i] \in Objs => ~session'[sessions[i]].open
  BY <1>3, <1>4
<1>7. stoppedAt' \in 0..created /\ \A o \in 1..created : session'[o].open => o > stoppedAt'
  BY <1>2, <1>5, ShutFields, OpenLate
<1> QED
  BY <1>1, <1>2, <1>3, <1>5, <1>6, <1>7, ShutFields, SessionsEnd DEF SocketInv, TypeOK

\* Stop removes all sessions and closes all their sockets: those in the map, and
\* no other socket is open.
LEMMA StopSessionsPreserves ==
    ASSUME SocketInv, StopSessions
    PROVE  SocketInv'
<1> DEFINE live == {sessions[i] : i \in Ids}
<1>1. session' = Shut(live) /\ sessions' = [i \in Ids |-> 0]
  BY DEF StopSessions
<1>2. sessions' \in [Ids -> 0..created]
  BY <1>1, SessionFacts DEF SocketInv
<1>3. \A o \in Objs : session'[o].open => o \notin live
  BY <1>1, ShutFields
<1>4. UNCHANGED <<created, clientPaths, tcpConnToSession, conn, task, handler, acceptor,
                  listening, done, sweeper>>
  BY DEF StopSessions
<1>5. \A i \in Ids : sessions'[i] = 0 /\ (sessions[i] \in Objs => ~session'[sessions[i]].open)
  BY <1>1, <1>3
<1>6. SweeperOK' /\ stopper' = "paths"
  BY <1>4 DEF StopSessions, SocketInv, TypeOK, SweeperOK
<1>7. \A o \in 1..created : ~session'[o].open
  <2> SUFFICES ASSUME NEW o \in 1..created, session'[o].open PROVE FALSE
    OBVIOUS
  <2>1. o \in Objs /\ session[o].id \in Ids
    BY SessionFacts DEF SocketInv
  <2>2. session[o].open
    BY <1>1, <2>1, ShutFields
  <2>3. o \in live
    BY <2>1, <2>2 DEF SocketInv, SocketsClosed
  <2> QED
    BY <1>3, <2>1, <2>3
<1>8. stoppedAt' \in 0..created
  BY SessionFacts DEF StopSessions, SocketInv
<1> QED
  BY <1>1, <1>2, <1>4, <1>5, <1>6, <1>7, <1>8, ShutFields, SessionsEnd DEF SocketInv, TypeOK

\* Stop cancels every session and leaves their sockets to the next step.
LEMMA StopCancelPreserves ==
    ASSUME SocketInv, StopCancel
    PROVE  SocketInv'
<1>1. ASSUME NEW o \in Objs
      PROVE  /\ session'[o] \in SessionRecord
             /\ session'[o].id = session[o].id
             /\ session'[o].window = session[o].window
             /\ session'[o].open => session[o].open
  <2> DEFINE n == [session[o] EXCEPT !.cancelled = TRUE]
  <2>1. session[o] \in SessionRecord
    BY DEF SocketInv, TypeOK, SessionsOK, SessionRecord
  <2>2. session'[o] = IF o <= created THEN n ELSE session[o]
    BY Zenon DEF StopCancel
  <2>3. n \in SessionRecord /\ n.id = session[o].id /\ n.window = session[o].window
        /\ n.open = session[o].open
    BY <2>1 DEF SessionRecord
  <2> HIDE DEF n
  <2> QED
    BY <2>1, <2>2, <2>3
<1>2. session' = [o \in Objs |-> session'[o]]
  BY Zenon DEF StopCancel
<1>3. UNCHANGED <<sessions, created, clientPaths, tcpConnToSession, conn, task, handler,
                  acceptor, listening, sweeper, stoppedAt>>
      /\ done' = TRUE /\ stopper' = "listeners"
  BY DEF StopCancel, maps
<1>4. SweeperOK'
  BY <1>3 DEF SocketInv, TypeOK, SweeperOK
<1>5. sessions' \in [Ids -> 0..created] /\ \A i \in Ids : sessions'[i] = sessions[i]
  BY <1>3 DEF SocketInv, TypeOK, MapsOK
<1>6. stoppedAt' \in 0..created /\ \A o \in 1..created : session'[o].open => o > stoppedAt'
  BY <1>1, <1>3, OpenLate
<1> QED
  BY <1>1, <1>2, <1>3, <1>4, <1>5, <1>6, SessionsEnd

-----------------------------------------------------------------------------
(* Handlers *)

\* One handler moves; its session may have counted an answer.
LEMMA HandlerMoves ==
    ASSUME SocketInv, NEW o \in Objs, NEW r, HandlerOK(o, r),
           handler' = [handler EXCEPT ![o] = r],
           UNCHANGED <<done, listening, maps, objects, conn, task, acceptor, sweeper, stopper>>
    PROVE  SocketInv'
<1>1. TypeOK
  BY DEF SocketInv
<1>2. UNCHANGED <<sessions, created, session, stoppedAt>>
  BY DEF maps, objects
<1>3. TypeOK'
  BY <1>1, <1>2, HandlerUpdate, Frame DEF TypeOK
<1> QED
  BY <1>2, <1>3, SocketsStay

\* A handler that exists may stop or read on, or go on with an answer.
LEMMA HandlerGoto ==
    ASSUME SocketInv, NEW o \in Objs, handler[o].pc # "unborn",
           NEW q \in HandlerPCs \ {"unborn", "send"}
    PROVE  HandlerOK(o, [handler[o] EXCEPT !.pc = q])
<1>1. HandlerOK(o, handler[o])
  BY DEF SocketInv, TypeOK, HandlersOK
<1> DEFINE r == [handler[o] EXCEPT !.pc = q]
<1>2. r \in [pc : HandlerPCs, todo : Seq(Tasks)] /\ r.pc = q
  BY <1>1 DEF HandlerOK
<1> HIDE DEF r
<1>3. HandlerOK(o, r)
  BY <1>1, <1>2 DEF HandlerOK
<1> QED
  BY <1>3 DEF r

LEMMA HandlerStepPreserves ==
    ASSUME SocketInv, NEW o \in Objs, HandlerDeadline(o) \/ HandlerError(o) \/ HandlerNumber(o)
    PROVE  SocketInv'
<1>1. PICK q \in {"done", "read", "paths"} : HGoto(o, q)
  BY DEF HandlerDeadline, HandlerError, HandlerNumber, Round
<1>2. HandlerOK(o, [handler[o] EXCEPT !.pc = q])
  BY HandlerGoto DEF HandlerDeadline, HandlerError, HandlerNumber, HandlerPCs
<1> QED
  BY <1>1, <1>2, HandlerMoves DEF HandlerDeadline, HandlerError, HandlerNumber, HGoto

LEMMA HandlerReadPreserves ==
    ASSUME SocketInv, NEW o \in Objs, HandlerRead(o)
    PROVE  SocketInv'
<1> DEFINE n == [session[o] EXCEPT !.answers = session[o].answers + 1]
<1>1. TypeOK
  BY DEF SocketInv
<1>2. session[o] \in SessionRecord
  BY <1>1 DEF TypeOK, SessionsOK, SessionRecord
<1>3. session' = [session EXCEPT ![o] = n]
  BY Zenon DEF HandlerRead
<1>4. /\ n \in SessionRecord
      /\ n.id = session[o].id /\ n.window = session[o].window /\ n.open = session[o].open
  BY <1>2 DEF SessionRecord
<1> HIDE DEF n
<1>5. \A x \in Objs : /\ session'[x] \in SessionRecord
                      /\ session'[x].id = session[x].id
                      /\ session'[x].window = session[x].window
                      /\ session'[x].open = session[x].open
  BY <1>1, <1>3, <1>4 DEF TypeOK, SessionsOK, SessionRecord
<1>6. session' = [x \in Objs |-> session'[x]]
  BY <1>1, <1>3 DEF TypeOK, SessionsOK
<1>7. UNCHANGED <<done, listening, maps, created, stoppedAt, conn, task, acceptor,
                  sweeper, stopper>>
  BY DEF HandlerRead
<1>8. UNCHANGED <<sessions, clientPaths, tcpConnToSession>>
  BY <1>7 DEF maps
<1>9. SessionsOK'
  BY <1>1, <1>5, <1>6, <1>7, SessionFacts DEF TypeOK, SessionsOK, SessionRecord
<1>10. MapsOK'
  <2>1. \A i \in Ids : sessions[i] # 0 => sessions[i] \in Objs
    BY <1>1, SessionFacts
  <2> QED
    BY <1>1, <1>5, <1>7, <1>8, <2>1 DEF TypeOK, MapsOK
<1>11. HandlersOK'
  <2>1. HandlerOK(o, [handler[o] EXCEPT !.pc = "touch"])
    BY HandlerGoto DEF HandlerRead, HandlerPCs
  <2> QED
    BY <1>1, <1>7, <2>1, HandlerUpdate DEF HandlerRead, HGoto, TypeOK
<1>12. TypeOK'
  BY <1>1, <1>7, <1>9, <1>10, <1>11, Frame DEF TypeOK
<1>13. WindowsOK'
  BY <1>5 DEF SocketInv, WindowsOK
<1>14. SocketsClosed'
  BY <1>1, <1>5, <1>7, <1>8, SessionFacts DEF SocketInv, SocketsClosed
<1> QED
  BY <1>12, <1>13, <1>14 DEF SocketInv

\* The paths are copied, and sent to one by one.
LEMMA HandlerPathsPreserves ==
    ASSUME SocketInv, NEW o \in 1..created, HandlerPaths(o)
    PROVE  SocketInv'
<1> DEFINE ps == clientPaths[session[o].id]
           r == [pc |-> IF ps = <<>> THEN Round(o) ELSE "send", todo |-> ps]
<1>1. TypeOK /\ o \in Objs
  BY SessionFacts DEF SocketInv
<1>2. ps \in Seq(Tasks)
  BY <1>1, SessionFacts DEF TypeOK, MapsOK
<1>3. o <= created /\ created \in Nat
  BY <1>1, SessionFacts
<1>4. Round(o) \in {"read", "done"}
  BY DEF Round
<1>5. handler' = [handler EXCEPT ![o] = r]
  BY DEF HandlerPaths
<1> HIDE DEF ps
<1>6. HandlerOK(o, r)
  BY <1>2, <1>3, <1>4 DEF HandlerOK, HandlerPCs
<1> HIDE DEF r
<1> QED
  BY <1>1, <1>5, <1>6, HandlerMoves DEF HandlerPaths

LEMMA HandlerSendPreserves ==
    ASSUME SocketInv, NEW o \in 1..created, HandlerSend(o)
    PROVE  SocketInv'
<1> DEFINE ps == handler[o].todo
           r == [pc |-> IF Len(ps) = 1 THEN Round(o) ELSE "send", todo |-> Tail(ps)]
<1>1. TypeOK /\ o \in Objs
  BY SessionFacts DEF SocketInv
<1>2. ps \in Seq(Tasks) /\ ps # <<>>
  BY <1>1 DEF HandlerSend, TypeOK, HandlersOK, HandlerOK
<1>3. o <= created /\ created \in Nat
  BY <1>1, SessionFacts
<1>4. Round(o) \in {"read", "done"}
  BY DEF Round
<1>5. handler' = [handler EXCEPT ![o] = r]
  BY Zenon DEF HandlerSend
<1>6. Tail(ps) \in Seq(Tasks) /\ Len(Tail(ps)) = Len(ps) - 1 /\ Len(ps) \in Nat
  BY <1>2, HeadTailProperties, LenProperties
<1> HIDE DEF ps
<1>7. Len(ps) # 1 => Tail(ps) # <<>>
  <2>1. Len(<<>>) = 0
    OBVIOUS
  <2> QED
    BY <1>6, <2>1
<1>8. HandlerOK(o, r)
  BY <1>3, <1>4, <1>6, <1>7 DEF HandlerOK, HandlerPCs
<1> HIDE DEF r
<1> QED
  BY <1>1, <1>5, <1>8, HandlerMoves DEF HandlerSend

-----------------------------------------------------------------------------
(* The sweeper, Stop, and the clients' ends *)

LEMMA SweeperPreserves ==
    ASSUME SocketInv,
           \/ \E ids \in SUBSET Ids : SweepScan(ids)
           \/ SweepPaths \/ SweepExit
    PROVE  SocketInv'
<1>1. TypeOK
  BY DEF SocketInv
<1> DEFINE Records == [pc : {"wait", "remove", "paths", "done"}, todo : SUBSET Ids,
                       id : Ids \cup {None}]
<1>2. sweeper \in Records
  BY <1>1 DEF TypeOK, SweeperOK
<1>3. SweeperOK'
  <2>1. CASE \E ids \in SUBSET Ids : SweepScan(ids)
    BY <2>1 DEF SweepScan, SweeperOK
  <2>2. CASE SweepPaths
    <3> DEFINE left == sweeper.todo \ {sweeper.id}
               q == IF left = {} THEN "wait" ELSE "remove"
    <3>1. sweeper' = [pc |-> q, todo |-> left, id |-> None]
      BY <2>2 DEF SweepPaths
    <3>2. left \in SUBSET Ids /\ q \in {"wait", "remove"}
      BY <1>2
    <3> HIDE DEF left, q
    <3> QED
      BY <3>1, <3>2 DEF SweeperOK
  <2>3. CASE SweepExit
    <3>1. [sweeper EXCEPT !.pc = "done"] \in Records /\ [sweeper EXCEPT !.pc = "done"].pc = "done"
      BY <1>2
    <3> QED
      BY <2>3, <3>1 DEF SweepExit, SweeperOK
  <2> QED
    BY <2>1, <2>2, <2>3
<1>4. UNCHANGED <<done, listening, sessions, created, session, stoppedAt, conn, task,
                  handler, acceptor,
                  stopper>>
  BY DEF SweepScan, SweepPaths, SweepExit, maps, objects
<1>5. MapsOK'
  <2>1. CASE SweepPaths
    <3>1. clientPaths' \in [Ids -> Seq(Tasks)]
      <4>1. clientPaths' = [clientPaths EXCEPT ![sweeper.id] = <<>>]
        BY <2>1 DEF SweepPaths
      <4>2. <<>> \in Seq(Tasks)
        BY EmptySeq
      <4> QED
        BY <1>1, <4>1, <4>2 DEF TypeOK, MapsOK
    <3>2. tcpConnToSession' \in [Conns -> Ids \cup {None}]
      BY <1>1, <2>1 DEF SweepPaths, TypeOK, MapsOK
    <3> QED
      BY <1>1, <1>4, <3>1, <3>2 DEF TypeOK, MapsOK
  <2>2. CASE ~SweepPaths
    <3>1. UNCHANGED maps
      BY <2>2 DEF SweepScan, SweepExit
    <3> QED
      BY <1>1, <1>4, <3>1, Frame
  <2> QED
    BY <2>1, <2>2
<1>6. TypeOK'
  BY <1>1, <1>3, <1>4, <1>5, Frame DEF TypeOK
<1> QED
  BY <1>4, <1>6, SocketsStay

\* What moves neither a session, a task, a handler nor the sweeper.
LEMMA OthersPreserve ==
    ASSUME SocketInv,
           \/ AcceptFails \/ StopListeners \/ StopPaths \/ StopConns \/ StopReturn
           \/ \E c \in Conns : PeerCloses(c)
           \/ UNCHANGED vars
    PROVE  SocketInv'
<1>1. TypeOK
  BY DEF SocketInv
<1>2. UNCHANGED <<sessions, created, session, stoppedAt, task, handler, sweeper, done>>
  BY DEF AcceptFails, StopListeners, StopPaths, StopConns, StopReturn, PeerCloses, vars,
         maps, objects, goroutines
<1>3. clientPaths' \in [Ids -> Seq(Tasks)]
  <2>1. CASE StopPaths
    BY <2>1, EmptySeq DEF StopPaths
  <2>2. CASE ~StopPaths
    BY <1>1, <2>2 DEF AcceptFails, StopListeners, StopConns, StopReturn, PeerCloses, vars,
                      maps, TypeOK, MapsOK
  <2> QED
    BY <2>1, <2>2
<1>4. tcpConnToSession' \in [Conns -> Ids \cup {None}]
  <2>1. CASE StopConns
    BY <2>1 DEF StopConns
  <2>2. CASE ~StopConns
    BY <1>1, <2>2 DEF AcceptFails, StopListeners, StopPaths, StopReturn, PeerCloses, vars,
                      maps, TypeOK, MapsOK
  <2> QED
    BY <2>1, <2>2
<1>5. conn' \in [Conns -> [open : BOOLEAN, peer : BOOLEAN]]
  <2>1. CASE \E c \in Conns : PeerCloses(c)
    BY <1>1, <2>1 DEF PeerCloses, TypeOK
  <2>2. CASE \A c \in Conns : ~PeerCloses(c)
    BY <1>1, <2>2 DEF AcceptFails, StopListeners, StopPaths, StopConns, StopReturn, vars, TypeOK
  <2> QED
    BY <2>1, <2>2
<1>6. listening' \in BOOLEAN
  BY <1>1 DEF AcceptFails, StopListeners, StopPaths, StopConns, StopReturn, PeerCloses, vars,
              TypeOK
<1>7. /\ acceptor' \in {"accept", "done"}
      /\ stopper' \in {"idle", "listeners", "sessions", "paths", "conns", "wait", "returned"}
  BY <1>1 DEF AcceptFails, StopListeners, StopPaths, StopConns, StopReturn, PeerCloses, vars,
              goroutines, TypeOK
<1>8. MapsOK'
  BY <1>1, <1>2, <1>3, <1>4 DEF TypeOK, MapsOK
<1>9. TypeOK'
  BY <1>1, <1>2, <1>5, <1>6, <1>7, <1>8, Frame DEF TypeOK
<1> QED
  BY <1>2, <1>9, SocketsStay

-----------------------------------------------------------------------------
(* Types and sockets *)

LEMMA InitEstablishesSockets == Init => SocketInv
<1> SUFFICES ASSUME Init PROVE SocketInv
  OBVIOUS
<1>1. MapsOK
  BY EmptySeq, ConstantFacts DEF Init, MapsOK
<1>2. SessionsOK
  BY ConstantFacts DEF Init, SessionsOK, NoSession, New, Window
<1>3. TasksOK
  BY ConstantFacts DEF Init, TasksOK, TaskOK, Idle, TaskPCs, InHand, Found
<1>4. HandlersOK
  BY EmptySeq, ConstantFacts DEF Init, HandlersOK, HandlerOK, HandlerPCs, Objs
<1>5. SweeperOK
  BY DEF Init, SweeperOK
<1>6. TypeOK
  BY <1>1, <1>2, <1>3, <1>4, <1>5 DEF Init, TypeOK
<1>7. WindowsOK
  <2>1. WellFormed(New)
    BY DEF WellFormed, New, Window
  <2>2. \A o \in Objs : session[o].window = New
    BY DEF Init, NoSession
  <2> QED
    BY <2>1, <2>2 DEF WindowsOK
<1>8. SocketsClosed
  BY DEF Init, SocketsClosed
<1> QED
  BY <1>6, <1>7, <1>8 DEF SocketInv

LEMMA NextPreservesSockets == SocketInv /\ [Next]_vars => SocketInv'
<1> SUFFICES ASSUME SocketInv, [Next]_vars PROVE SocketInv'
  OBVIOUS
<1>1. Conns \subseteq Tasks /\ 1..created \subseteq Objs
  BY ConstantFacts, SessionFacts DEF SocketInv
<1>2. ASSUME NEW t \in Tasks,
             TaskStep(t) \/ DecodeFails(t) \/ \E id \in Ids, seq \in Seqs : Read(t, id, seq)
      PROVE  SocketInv'
  BY <1>2, ReadPreserves, RestPreserves, LeavePreserves, LookupPreserves, CreatePreserves,
     DedupPreserves, AddPathPreserves DEF TaskStep
<1>3. ASSUME NEW c \in Conns, Accept(c) \/ ConnStep(c) \/ BadFrame(c) \/ PeerCloses(c)
      PROVE  SocketInv'
  BY <1>1, <1>3, AcceptPreserves, LeavePreserves, TrackPreserves, UntrackPreserves,
     UnpathPreserves, ForgetPreserves, OthersPreserve DEF ConnStep
<1>4. ASSUME NEW o \in 1..created,
             HandlerStep(o) \/ HandlerRead(o) \/ HandlerError(o) \/ HandlerSend(o)
      PROVE  SocketInv'
  BY <1>1, <1>4, HandlerStepPreserves, HandlerReadPreserves, HandlerPathsPreserves,
     HandlerSendPreserves DEF HandlerStep
<1>5. ASSUME \/ \E ids \in SUBSET Ids : SweepScan(ids)
             \/ SweepStep \/ SweepExit
      PROVE  SocketInv'
  BY <1>5, SweeperPreserves, SweepRemovePreserves DEF SweepStep
<1>6. ASSUME AcceptFails \/ StopCancel \/ StopStep \/ UNCHANGED vars PROVE SocketInv'
  BY <1>6, OthersPreserve, StopCancelPreserves, StopSessionsPreserves DEF StopStep
<1> QED
  BY <1>2, <1>3, <1>4, <1>5, <1>6 DEF Next

\* Every reachable state satisfies the inductive invariant.
THEOREM GoServerInvariant == Spec => []SocketInv
BY InitEstablishesSockets, NextPreservesSockets, PTL DEF Spec

\* The state of the Go server is well typed: what is past the lookup has a
\* session, and a handler that sends has a path left.
THEOREM GoServerTypeCorrect == Spec => []TypeOK
<1>1. SocketInv => TypeOK
  BY DEF SocketInv
<1> QED
  BY <1>1, GoServerInvariant, PTL

\* Whoever creates, expires and stops at the same time: a target socket that is
\* open is the one its id leads to, and once Stop has closed the sessions, that
\* of a session a goroutine created afterwards.
THEOREM GoSocketsClosed == Spec => []SocketsClosed
<1>1. SocketInv => SocketsClosed
  BY DEF SocketInv
<1> QED
  BY <1>1, GoServerInvariant, PTL

\* Every window the Go server holds answers and moves as the Rust one would:
\* the subtraction of its lower edge never wraps.
WindowsAgree ==
    \A o \in Objs, q \in Seqs :
        GoMark(session[o].window, q, DedupSize, SeqSpan) = Mark(session[o].window, q, DedupSize)

\* In every reachable state the windows of is_duplicate in server.go and in
\* server.rs agree on every sequence number.
THEOREM GoWindowsAgree == Spec => []WindowsAgree
<1>1. WindowsOK => WindowsAgree
  BY GoMarkSame, ConstantFacts DEF WindowsOK, WindowsAgree
<1>2. SocketInv => WindowsOK
  BY DEF SocketInv
<1> QED
  BY <1>1, <1>2, GoServerInvariant, PTL

-----------------------------------------------------------------------------
(* What is closed when Stop has returned *)

\* One task moves and stays between its birth and its end; connections stay.
LEMMA ServedKept ==
    ASSUME TypeOK, ClosedInv, NEW t \in Tasks, NEW r, task' = [task EXCEPT ![t] = r],
           r.pc \in {"unborn", "done"} => t \notin Conns,
           task[t].pc \notin {"unborn", "done"},
           UNCHANGED <<conn, acceptor, stopper>>
    PROVE  ClosedInv'
<1>1. \A x \in Tasks : task'[x] = IF x = t THEN r ELSE task[x]
  BY DEF TypeOK, TasksOK
<1>2. OpenServed'
  BY <1>1, ConstantFacts DEF ClosedInv, OpenServed
<1>3. stopper # "returned"
  BY DEF ClosedInv, AllReturned
<1>4. AllReturned'
  BY <1>3 DEF AllReturned
<1> QED
  BY <1>2, <1>4 DEF ClosedInv

\* A packet on its way; the goroutine of a connection does not end with it.
LEMMA TaskStepServed ==
    ASSUME TypeOK, ClosedInv, NEW t \in Tasks,
           \/ TaskStep(t) \/ DecodeFails(t)
           \/ \E id \in Ids, seq \in Seqs : Read(t, id, seq)
    PROVE  ClosedInv'
<1> DEFINE Inside == TaskPCs \ {"unborn", "done"}
<1>1. TaskOK(task[t])
  BY TaskFacts
<1>2. task[t].pc \notin {"unborn", "done"} /\ UNCHANGED <<conn, acceptor, stopper>>
  BY DEF TaskStep, ReadFails, Lookup, CreateFindsOne, Create, NewSession, CreateFails, Dedup,
         AddPath, Forward, DecodeFails, Read
<1>3. ASSUME NEW r, task' = [task EXCEPT ![t] = r],
             r.pc \in {"unborn", "done"} => t \notin Conns
      PROVE  ClosedInv'
  BY <1>2, <1>3, ServedKept
<1>4. ASSUME task' = [task EXCEPT ![t] = Rest(t)] PROVE ClosedInv'
  BY <1>3, <1>4, RestOK, ConstantFacts
<1>5. ASSUME NEW q, q \in Inside \/ t = Udp, Goto(t, q) PROVE ClosedInv'
  <2>1. [task[t] EXCEPT !.pc = q].pc = q
    BY <1>1 DEF TaskOK
  <2> QED
    BY <1>3, <1>5, <2>1, ConstantFacts DEF Goto
<1>6. ASSUME NEW o, Finds(t, o) PROVE ClosedInv'
  <2> DEFINE r == [task[t] EXCEPT !.pc = "dedup", !.obj = o]
  <2>1. task' = [task EXCEPT ![t] = r]
    BY <1>6, Zenon DEF Finds
  <2>2. r.pc = "dedup"
    BY <1>1 DEF TaskOK
  <2> HIDE DEF r
  <2> QED
    BY <1>3, <2>1, <2>2
<1>7. CASE DecodeFails(t) \/ CreateFails(t) \/ Forward(t)
  BY <1>4, <1>7 DEF DecodeFails, CreateFails, Forward
<1>8. CASE ReadFails(t) \/ AddPath(t)
  BY <1>5, <1>8 DEF ReadFails, AddPath, TaskPCs
<1>9. CASE Lookup(t) \/ CreateFindsOne(t) \/ Create(t)
  <2>1. "create" \in Inside
    BY DEF TaskPCs
  <2>2. Goto(t, "create") \/ \E o : Finds(t, o)
    BY <1>9 DEF Lookup, CreateFindsOne, Create, NewSession
  <2> QED
    BY <1>5, <1>6, <2>1, <2>2
<1>10. CASE Dedup(t)
  <2>1. "path" \in Inside /\ "track" \in Inside
    BY DEF TaskPCs
  <2>2. \/ task' = [task EXCEPT ![t] = Rest(t)]
        \/ Goto(t, "path") \/ Goto(t, "track")
    BY <1>10 DEF Dedup
  <2> QED
    BY <1>4, <1>5, <2>1, <2>2
<1>11. ASSUME NEW id \in Ids, NEW seq \in Seqs, Read(t, id, seq) PROVE ClosedInv'
  BY <1>3, <1>11 DEF Read
<1> QED
  BY <1>7, <1>8, <1>9, <1>10, <1>11 DEF TaskStep

\* A connection is closed in the step its goroutine ends with.
LEMMA ConnStepServed ==
    ASSUME TypeOK, ClosedInv, NEW c \in Conns, ConnStep(c) \/ BadFrame(c)
    PROVE  ClosedInv'
<1>1. c \in Tasks /\ TaskOK(task[c])
  BY ConstantFacts, TaskFacts
<1>2. ASSUME NEW r, task' = [task EXCEPT ![c] = r], r.pc \notin {"unborn", "done"}, ~Forget(c)
      PROVE  ClosedInv'
  <2>1. task[c].pc \notin {"unborn", "done"} /\ UNCHANGED <<conn, acceptor, stopper>>
    BY <1>2 DEF ConnStep, Track, Untrack, Unpath, BadFrame
  <2> QED
    BY <1>1, <1>2, <2>1, ServedKept
<1>3. CASE ~Forget(c) /\ (Track(c) \/ Unpath(c) \/ BadFrame(c))
  <2>1. PICK q \in {"path", "forget", "untrack"} :
           task' = [task EXCEPT ![c] = [task[c] EXCEPT !.pc = q]]
    BY <1>3 DEF Track, Unpath, BadFrame, Goto
  <2>2. [task[c] EXCEPT !.pc = q].pc = q
    BY <1>1 DEF TaskOK
  <2> QED
    BY <1>2, <1>3, <2>1, <2>2
<1>4. CASE ~Forget(c) /\ Untrack(c)
  <2> DEFINE id == tcpConnToSession[c]
             q == IF id = None THEN "forget" ELSE "unpath"
             r == [task[c] EXCEPT !.id = id, !.pc = q]
  <2>1. task' = [task EXCEPT ![c] = r]
    BY <1>4, Zenon DEF Untrack
  <2>2. q \in {"forget", "unpath"}
    OBVIOUS
  <2> HIDE DEF q
  <2>3. r.pc = q
    BY <1>1 DEF TaskOK
  <2> HIDE DEF r
  <2> QED
    BY <1>2, <1>4, <2>1, <2>2, <2>3
<1>5. CASE Forget(c)
  <2>1. \A x \in Conns \ {c} : task'[x] = task[x] /\ conn'[x] = conn[x]
    BY <1>1, <1>5, ConstantFacts DEF Forget, TypeOK, TasksOK
  <2>2. ~conn'[c].open
    BY <1>5 DEF Forget, TypeOK
  <2>3. OpenServed'
    BY <2>1, <2>2 DEF ClosedInv, OpenServed
  <2>4. stopper # "returned" /\ UNCHANGED stopper
    BY <1>1, <1>5 DEF Forget, ClosedInv, AllReturned
  <2>5. AllReturned'
    BY <2>4 DEF AllReturned
  <2> QED
    BY <2>3, <2>5 DEF ClosedInv
<1> QED
  BY <1>3, <1>4, <1>5 DEF ConnStep

\* A connection is opened with its goroutine, by an acceptor Stop waits for.
LEMMA AcceptServed ==
    ASSUME TypeOK, ClosedInv, NEW c \in Conns, Accept(c)
    PROVE  ClosedInv'
<1>1. c \in Tasks /\ c # Udp /\ Rest(c).pc \in {"read", "untrack"}
  BY ConstantFacts, RestOK
<1>2. task'[c] = Rest(c) /\ \A x \in Conns \ {c} : task'[x] = task[x] /\ conn'[x] = conn[x]
  BY <1>1, ConstantFacts DEF Accept, TypeOK, TasksOK
<1>3. OpenServed'
  BY <1>1, <1>2 DEF ClosedInv, OpenServed
<1>4. stopper # "returned" /\ UNCHANGED stopper
  BY DEF Accept, ClosedInv, AllReturned
<1>5. AllReturned'
  BY <1>4 DEF AllReturned
<1> QED
  BY <1>3, <1>5 DEF ClosedInv

\* The other steps move no task and open no connection; Stop returns when all
\* goroutines have.
LEMMA OthersServed ==
    ASSUME TypeOK, ClosedInv, UNCHANGED task,
           conn' = conn \/ \E c \in Conns : PeerCloses(c),
           acceptor' \in {acceptor, "done"},
           StopReturn \/ stopper' = stopper \/ stopper' # "returned"
    PROVE  ClosedInv'
<1>1. \A c \in Conns : conn'[c].open = conn[c].open
  <2>1. ASSUME NEW c \in Conns, PeerCloses(c) PROVE \A x \in Conns : conn'[x].open = conn[x].open
    BY <2>1 DEF PeerCloses, TypeOK
  <2> QED
    BY <2>1
<1>2. OpenServed'
  BY <1>1 DEF ClosedInv, OpenServed
<1>3. AllReturned'
  BY DEF ClosedInv, AllReturned, StopReturn
<1> QED
  BY <1>2, <1>3 DEF ClosedInv

LEMMA NextPreservesClosed == TypeOK /\ ClosedInv /\ [Next]_vars => ClosedInv'
<1> SUFFICES ASSUME TypeOK, ClosedInv, [Next]_vars PROVE ClosedInv'
  OBVIOUS
<1>1. ASSUME NEW o,
             HandlerStep(o) \/ HandlerRead(o) \/ HandlerError(o) \/ HandlerSend(o)
      PROVE  ClosedInv'
  <2>1. UNCHANGED <<task, conn, acceptor, stopper>>
    BY <1>1 DEF HandlerStep, HandlerDeadline, HandlerNumber, HandlerPaths, HandlerRead,
                HandlerError, HandlerSend
  <2> QED
    BY <2>1, OthersServed
<1>2. ASSUME \/ \E ids \in SUBSET Ids : SweepScan(ids)
             \/ SweepStep \/ SweepExit
      PROVE  ClosedInv'
  <2>1. UNCHANGED <<task, conn, acceptor, stopper>>
    BY <1>2 DEF SweepScan, SweepStep, SweepPaths, SweepRemove, SweepExit
  <2> QED
    BY <2>1, OthersServed
<1>3. ASSUME AcceptFails \/ UNCHANGED vars PROVE ClosedInv'
  <2>1. UNCHANGED <<task, conn, stopper>> /\ acceptor' \in {acceptor, "done"}
    BY <1>3 DEF AcceptFails, vars, goroutines
  <2> QED
    BY <2>1, OthersServed
<1>4. ASSUME StopCancel \/ StopStep PROVE ClosedInv'
  <2>1. UNCHANGED <<task, conn, acceptor>> /\ (StopReturn \/ stopper' # "returned")
    BY <1>4 DEF StopCancel, StopStep, StopListeners, StopSessions, StopPaths, StopConns,
                StopReturn
  <2> QED
    BY <2>1, OthersServed
<1>5. ASSUME NEW c \in Conns, PeerCloses(c) PROVE ClosedInv'
  <2>1. UNCHANGED <<task, acceptor, stopper>>
    BY <1>5 DEF PeerCloses, goroutines
  <2> QED
    BY <1>5, <2>1, OthersServed
<1> QED
  BY <1>1, <1>2, <1>3, <1>4, <1>5, TaskStepServed, ConnStepServed, AcceptServed DEF Next

\* When Stop has returned no connection is open: the goroutine of a connection
\* closes it before wg.Done, and the acceptor has returned as well.
THEOREM GoReturnedClosed == Spec => []ReturnedClosed
<1>1. Init => ClosedInv
  BY DEF Init, ClosedInv, OpenServed, AllReturned
<1>2. SocketInv => TypeOK
  BY DEF SocketInv
<1>3. ClosedInv => ReturnedClosed
  BY ConstantFacts DEF ClosedInv, OpenServed, AllReturned, ReturnedClosed
<1> QED
  BY <1>1, <1>2, <1>3, NextPreservesClosed, GoServerInvariant, PTL DEF Spec

=============================================================================
