------------------------------- MODULE GoServer -------------------------------
(***************************************************************************)
(* The Go server (server/server.go): packets, responses, expiry and Stop,  *)
(* which waits for every goroutine.                                        *)
(*                                                                         *)
(* Each map has a mutex of its own.  No critical section waits for the     *)
(* network, so each is one step, except the sweeper's: it keeps sessionsMu *)
(* from one removal to the next, and takes clientPathsMu in between.       *)
(* A goroutine blocks in a read from a listener or a connection, and in a  *)
(* write to a connection whose peer does not read; reads of the target     *)
(* have a deadline.                                                        *)
(*                                                                         *)
(* A goroutine looks at its context at the end of each round of its loop;  *)
(* what changes after that it sees at the end of the next.  Which sessions *)
(* are idle is left open, and so is the address of a UDP path: the         *)
(* listener stands for the path.                                           *)
(***************************************************************************)
EXTENDS DedupWindow, Sequences

LOCAL INSTANCE SequencesExt

CONSTANTS Ids, Seqs,
          Udp,            \* the UDP listener and its goroutine
          Conns,          \* TCP connections, each with its goroutine
          None,
          DedupSize,      \* cfg.DedupWindow
          SeqSpan,        \* 2^32
          MaxSessions,    \* bound: sessions created
          MaxResponses    \* bound: responses of the target to a session

ASSUME GoServerAssumption ==
    /\ SeqSpan \in Nat \ {0} /\ Seqs \subseteq 0..(SeqSpan - 1) /\ DedupSize \in Nat \ {0}
    /\ MaxSessions \in Nat /\ MaxResponses \in Nat
    /\ Udp \notin Conns /\ None \notin Conns \cup Ids

Tasks == {Udp} \cup Conns
Objs == 1..MaxSessions

VARIABLES
    done,          \* the context of the server is cancelled
    listening,     \* the listeners are open
    sessions,      \* the TargetSession of an id, 0 if none
    created,       \* sessions created
    session,       \* [id, open, cancelled, window, answers] of each
    clientPaths,   \* the paths of an id, in the order they were added
    tcpConnToSession,
    conn,          \* [open, peer]: the two ends of each connection
    task,          \* [pc, id, seq, obj]: who receives packets
    handler,       \* [pc, todo]: handleTargetResponse of each session
    acceptor,      \* control state
    sweeper,       \* [pc, todo, id]
    stopper,       \* control state
    stoppedAt      \* history: sessions created when Stop closed those in the map

maps == <<sessions, clientPaths, tcpConnToSession>>
objects == <<created, session, stoppedAt>>
goroutines == <<task, handler, acceptor, sweeper, stopper>>
vars == <<done, listening, maps, objects, conn, goroutines>>

Idle == [pc |-> "read", id |-> None, seq |-> 0, obj |-> 0]
NoSession == [id |-> None, open |-> FALSE, cancelled |-> FALSE, window |-> New, answers |-> 0]

Init ==
    /\ done = FALSE /\ listening = TRUE
    /\ sessions = [i \in Ids |-> 0]
    /\ created = 0 /\ session = [o \in Objs |-> NoSession] /\ stoppedAt = 0
    /\ clientPaths = [i \in Ids |-> <<>>]
    /\ tcpConnToSession = [c \in Conns |-> None]
    /\ conn = [c \in Conns |-> [open |-> FALSE, peer |-> FALSE]]
    /\ task = [t \in Tasks |-> IF t = Udp THEN Idle ELSE [Idle EXCEPT !.pc = "unborn"]]
    /\ handler = [o \in Objs |-> [pc |-> "unborn", todo |-> <<>>]]
    /\ acceptor = "accept" /\ stopper = "idle"
    /\ sweeper = [pc |-> "wait", todo |-> {}, id |-> None]

Goto(t, pc) == task' = [task EXCEPT ![t] = [@ EXCEPT !.pc = pc]]
HGoto(o, pc) == handler' = [handler EXCEPT ![o] = [@ EXCEPT !.pc = pc]]

\* The session a packet belongs to is known.
Finds(t, o) == task' = [task EXCEPT ![t] = [@ EXCEPT !.pc = "dedup", !.obj = o]]

\* sessionsMu is free: the sweeper is the one that keeps it from step to step.
SessionsFree == sweeper.pc \notin {"remove", "paths"}

\* Mutant: the context of a session is cancelled, and its socket left to the
\* handler.
ShutCancelsOnly(ss) ==
    [o \in Objs |-> IF o \in ss THEN [session[o] EXCEPT !.cancelled = TRUE] ELSE session[o]]

\* session.cancel(), targetConn.Close()
Shut(ss) == [o \in Objs |->
                IF o \in ss THEN [session[o] EXCEPT !.open = FALSE, !.cancelled = TRUE]
                ELSE session[o]]

-----------------------------------------------------------------------------
(* Packets: handleUDPListener, handleTCPListener, handleTCPConn *)

\* Back to the read, or out: a connection's goroutine to its deferred clean-up.
Rest(t) == [Idle EXCEPT !.pc = IF ~done THEN "read" ELSE IF t = Udp THEN "done" ELSE "untrack"]

\* A packet may still be read: a peer that closed stays until what it sent is.
Arrives(t) == IF t = Udp THEN listening ELSE conn[t].peer

Read(t, id, seq) ==
    /\ task[t].pc = "read" /\ Arrives(t)
    /\ task' = [task EXCEPT ![t] = [pc |-> "lookup", id |-> id, seq |-> seq, obj |-> 0]]
    /\ UNCHANGED <<done, listening, maps, objects, conn, handler, acceptor, sweeper, stopper>>

\* A packet that cannot be decoded.
DecodeFails(t) ==
    /\ task[t].pc = "read" /\ Arrives(t)
    /\ task' = [task EXCEPT ![t] = Rest(t)]
    /\ UNCHANGED <<done, listening, maps, objects, conn, handler, acceptor, sweeper, stopper>>

\* The listener was closed, or the connection ended.
ReadFails(t) ==
    /\ task[t].pc = "read" /\ ~Arrives(t)
    /\ Goto(t, IF t = Udp THEN "done" ELSE "untrack")
    /\ UNCHANGED <<done, listening, maps, objects, conn, handler, acceptor, sweeper, stopper>>

\* A frame of length 0.
BadFrame(c) ==
    /\ task[c].pc = "read" /\ conn[c].peer
    /\ Goto(c, "untrack")
    /\ UNCHANGED <<done, listening, maps, objects, conn, handler, acceptor, sweeper, stopper>>

Accept(c) ==
    /\ acceptor = "accept" /\ listening
    /\ task[c].pc = "unborn"
    /\ conn' = [conn EXCEPT ![c] = [open |-> TRUE, peer |-> TRUE]]
    /\ task' = [task EXCEPT ![c] = Rest(c)]
    /\ acceptor' = IF done THEN "done" ELSE "accept"
    /\ UNCHANGED <<done, listening, maps, objects, handler, sweeper, stopper>>

AcceptFails ==
    /\ acceptor = "accept" /\ ~listening
    /\ acceptor' = "done"
    /\ UNCHANGED <<done, listening, maps, objects, conn, task, handler, sweeper, stopper>>

-----------------------------------------------------------------------------
(* handleUDPPacket and handleTCPPacket *)

\* Mutant: the map is taken to hold every id.
LookupAssumesHit(t) ==
    /\ task[t].pc = "lookup" /\ SessionsFree
    /\ Finds(t, sessions[task[t].id])
    /\ UNCHANGED <<done, listening, maps, objects, conn, handler, acceptor, sweeper, stopper>>

Lookup(t) ==
    /\ task[t].pc = "lookup" /\ SessionsFree
    /\ LET o == sessions[task[t].id]
       IN  IF o = 0 THEN Goto(t, "create") ELSE Finds(t, o)
    /\ UNCHANGED <<done, listening, maps, objects, conn, handler, acceptor, sweeper, stopper>>

\* The second look at the map finds the session of another goroutine.
CreateFindsOne(t) ==
    /\ task[t].pc = "create" /\ SessionsFree
    /\ sessions[task[t].id] # 0
    /\ Finds(t, sessions[task[t].id])
    /\ UNCHANGED <<done, listening, maps, objects, conn, handler, acceptor, sweeper, stopper>>

\* Mutant: the context of a session is not a child of the server's.
CancelledAtBirthNever == FALSE

\* context.WithCancel(s.ctx): cancelled from the start if the server is.
CancelledAtBirth == done

\* A session, its socket and its handler.
NewSession(t) ==
    LET o == created + 1
    IN  /\ created < MaxSessions
        /\ created' = o
        /\ sessions' = [sessions EXCEPT ![task[t].id] = o]
        /\ session' = [session EXCEPT ![o] = [NoSession EXCEPT !.id = task[t].id,
                                !.open = TRUE, !.cancelled = CancelledAtBirth]]
        /\ HGoto(o, IF CancelledAtBirth THEN "done" ELSE "read")
        /\ Finds(t, o)
        /\ UNCHANGED <<done, listening, clientPaths, tcpConnToSession, stoppedAt, conn,
                       acceptor, sweeper, stopper>>

Create(t) ==
    /\ task[t].pc = "create" /\ SessionsFree
    /\ sessions[task[t].id] = 0
    /\ NewSession(t)

\* The target cannot be resolved or dialed.
CreateFails(t) ==
    /\ task[t].pc = "create" /\ SessionsFree
    /\ sessions[task[t].id] = 0
    /\ task' = [task EXCEPT ![t] = Rest(t)]
    /\ UNCHANGED <<done, listening, maps, objects, conn, handler, acceptor, sweeper, stopper>>

\* lastActivity needs sessionsMu; then the window, under its own mutex.
Dedup(t) ==
    LET o == task[t].obj
        q == task[t].seq
        w == GoMark(session[o].window, q, DedupSize, SeqSpan)
    IN  /\ task[t].pc = "dedup" /\ SessionsFree
        /\ session' = [session EXCEPT ![o] = [@ EXCEPT !.window = w]]
        /\ IF IsDuplicate(session[o].window, q) THEN task' = [task EXCEPT ![t] = Rest(t)]
           ELSE Goto(t, IF t = Udp THEN "path" ELSE "track")
        /\ UNCHANGED <<done, listening, maps, created, stoppedAt, conn, handler, acceptor,
                       sweeper, stopper>>

\* addTCPPath first notes the id of the connection.
Track(c) ==
    /\ task[c].pc = "track"
    /\ tcpConnToSession' = [tcpConnToSession EXCEPT ![c] = task[c].id]
    /\ Goto(c, "path")
    /\ UNCHANGED <<done, listening, sessions, clientPaths, objects, conn, handler, acceptor,
                   sweeper, stopper>>

\* addUDPPath, and the second half of addTCPPath.
AddPath(t) ==
    LET ps == clientPaths[task[t].id]
    IN  /\ task[t].pc = "path"
        /\ clientPaths' = [clientPaths EXCEPT ![task[t].id] =
                              IF Contains(ps, t) THEN ps ELSE Append(ps, t)]
        /\ Goto(t, "forward")
        /\ UNCHANGED <<done, listening, sessions, tcpConnToSession, objects, conn, handler,
                       acceptor, sweeper, stopper>>

\* The payload is sent to the target, or not, if the sweeper or Stop closed the
\* socket.
Forward(t) ==
    /\ task[t].pc = "forward"
    /\ task' = [task EXCEPT ![t] = Rest(t)]
    /\ UNCHANGED <<done, listening, maps, objects, conn, handler, acceptor, sweeper, stopper>>

-----------------------------------------------------------------------------
(* cleanupTCPConn *)

\* Mutant: a connection that has no id returns at once.
UntrackReturns(c) ==
    /\ task[c].pc = "untrack"
    /\ LET id == tcpConnToSession[c]
       IN  task' = [task EXCEPT ![c] =
                    [@ EXCEPT !.id = id, !.pc = IF id = None THEN "done" ELSE "unpath"]]
    /\ UNCHANGED <<done, listening, maps, objects, conn, handler, acceptor, sweeper, stopper>>

\* The id is looked up; a connection that has none is only closed.
Untrack(c) ==
    /\ task[c].pc = "untrack"
    /\ LET id == tcpConnToSession[c]
       IN  task' = [task EXCEPT ![c] =
                    [@ EXCEPT !.id = id, !.pc = IF id = None THEN "forget" ELSE "unpath"]]
    /\ UNCHANGED <<done, listening, maps, objects, conn, handler, acceptor, sweeper, stopper>>

\* The first path that is the connection is cut out, if there is one.
Unpath(c) ==
    LET id == task[c].id
        ps == clientPaths[id]
    IN  /\ task[c].pc = "unpath"
        /\ \/ \E i \in 1..Len(ps) :
                 /\ ps[i] = c /\ \A j \in 1..(i - 1) : ps[j] # c
                 /\ clientPaths' = [clientPaths EXCEPT ![id] =
                                      SubSeq(ps, 1, i - 1) \o SubSeq(ps, i + 1, Len(ps))]
           \/ ~Contains(ps, c) /\ UNCHANGED clientPaths
        /\ Goto(c, "forget")
        /\ UNCHANGED <<done, listening, sessions, tcpConnToSession, objects, conn, handler,
                       acceptor, sweeper, stopper>>

\* The note is deleted, the connection closed, and the goroutine done.
Forget(c) ==
    /\ task[c].pc = "forget"
    /\ tcpConnToSession' = [tcpConnToSession EXCEPT ![c] = None]
    /\ conn' = [conn EXCEPT ![c] = [@ EXCEPT !.open = FALSE]]
    /\ task' = [task EXCEPT ![c] = [Idle EXCEPT !.pc = "done"]]
    /\ UNCHANGED <<done, listening, sessions, clientPaths, objects, handler, acceptor,
                   sweeper, stopper>>

-----------------------------------------------------------------------------
(* handleTargetResponse *)

\* The end of a round.
Round(o) == IF session[o].cancelled THEN "done" ELSE "read"

HandlerRead(o) ==
    /\ handler[o].pc = "read" /\ session[o].open
    /\ session[o].answers < MaxResponses
    /\ session' = [session EXCEPT ![o] = [@ EXCEPT !.answers = session[o].answers + 1]]
    /\ HGoto(o, "touch")
    /\ UNCHANGED <<done, listening, maps, created, stoppedAt, conn, task, acceptor, sweeper,
                   stopper>>

HandlerDeadline(o) ==
    /\ handler[o].pc = "read" /\ session[o].open
    /\ HGoto(o, Round(o))
    /\ UNCHANGED <<done, listening, maps, objects, conn, task, acceptor, sweeper, stopper>>

\* The socket was closed, or the target refuses: the handler ends, the session
\* stays.
HandlerError(o) ==
    /\ handler[o].pc = "read"
    /\ HGoto(o, "done")
    /\ UNCHANGED <<done, listening, maps, objects, conn, task, acceptor, sweeper, stopper>>

\* lastActivity and the number, of whatever session the id has now.
HandlerNumber(o) ==
    /\ handler[o].pc = "touch" /\ SessionsFree
    /\ HGoto(o, IF sessions[session[o].id] = 0 THEN Round(o) ELSE "paths")
    /\ UNCHANGED <<done, listening, maps, objects, conn, task, acceptor, sweeper, stopper>>

\* A copy of the paths; with none the response is dropped.
HandlerPaths(o) ==
    /\ handler[o].pc = "paths"
    /\ LET ps == clientPaths[session[o].id]
       IN  handler' = [handler EXCEPT ![o] = [pc |-> IF ps = <<>> THEN Round(o) ELSE "send",
                                              todo |-> ps]]
    /\ UNCHANGED <<done, listening, maps, objects, conn, task, acceptor, sweeper, stopper>>

\* Mutant: a write that failed is tried again.
HandlerSendAgain(o) ==
    /\ handler[o].pc = "send"
    /\ UNCHANGED vars

\* The next path: sent, or failed; either way the handler goes on.
HandlerSend(o) ==
    /\ handler[o].pc = "send"
    /\ handler' = [handler EXCEPT ![o] = [pc |-> IF Len(@.todo) = 1 THEN Round(o) ELSE "send",
                                          todo |-> Tail(@.todo)]]
    /\ UNCHANGED <<done, listening, maps, objects, conn, task, acceptor, sweeper, stopper>>

\* The next path is a connection that is open at both ends: a write to it ends
\* when the peer has read enough.
InStreamWrite(o) ==
    /\ handler[o].pc = "send"
    /\ Head(handler[o].todo) # Udp
    /\ conn[Head(handler[o].todo)].open /\ conn[Head(handler[o].todo)].peer

-----------------------------------------------------------------------------
(* The sweeper *)

\* Some sessions are idle, and sessionsMu is held until all are removed.
SweepScan(ids) ==
    /\ sweeper.pc = "wait"
    /\ ids # {} /\ \A i \in ids : sessions[i] # 0
    /\ sweeper' = [pc |-> "remove", todo |-> ids, id |-> None]
    /\ UNCHANGED <<done, listening, maps, objects, conn, task, handler, acceptor, stopper>>

SweepRemove(id) ==
    /\ sweeper.pc = "remove" /\ id \in sweeper.todo
    /\ session' = Shut({sessions[id]})
    /\ sessions' = [sessions EXCEPT ![id] = 0]
    /\ sweeper' = [sweeper EXCEPT !.pc = "paths", !.id = id]
    /\ UNCHANGED <<done, listening, clientPaths, tcpConnToSession, created, stoppedAt, conn,
                   task, handler, acceptor, stopper>>

\* The paths of the id, and what is noted of each connection among them, of
\* whatever id it is by now.
SweepPaths ==
    LET ps == ToSet(clientPaths[sweeper.id])
        left == sweeper.todo \ {sweeper.id}
    IN  /\ sweeper.pc = "paths"
        /\ tcpConnToSession' = [c \in Conns |-> IF c \in ps THEN None ELSE tcpConnToSession[c]]
        /\ clientPaths' = [clientPaths EXCEPT ![sweeper.id] = <<>>]
        /\ sweeper' = [pc |-> IF left = {} THEN "wait" ELSE "remove", todo |-> left, id |-> None]
        /\ UNCHANGED <<done, listening, sessions, objects, conn, task, handler, acceptor,
                       stopper>>

SweepExit ==
    /\ sweeper.pc = "wait" /\ done
    /\ sweeper' = [sweeper EXCEPT !.pc = "done"]
    /\ UNCHANGED <<done, listening, maps, objects, conn, task, handler, acceptor, stopper>>

-----------------------------------------------------------------------------
(* Stop *)

StopCancel ==
    /\ stopper = "idle"
    /\ done' = TRUE
    /\ session' = [o \in Objs |-> IF o <= created THEN [session[o] EXCEPT !.cancelled = TRUE]
                                  ELSE session[o]]
    /\ stopper' = "listeners"
    /\ UNCHANGED <<listening, maps, created, stoppedAt, conn, task, handler, acceptor, sweeper>>

StopListeners ==
    /\ stopper = "listeners"
    /\ listening' = FALSE
    /\ stopper' = "sessions"
    /\ UNCHANGED <<done, maps, objects, conn, task, handler, acceptor, sweeper>>

StopSessions ==
    /\ stopper = "sessions" /\ SessionsFree
    /\ session' = Shut({sessions[i] : i \in Ids})
    /\ sessions' = [i \in Ids |-> 0]
    /\ stoppedAt' = created
    /\ stopper' = "paths"
    /\ UNCHANGED <<done, listening, clientPaths, tcpConnToSession, created, conn, task, handler,
                   acceptor, sweeper>>

StopPaths ==
    /\ stopper = "paths"
    /\ clientPaths' = [i \in Ids |-> <<>>]
    /\ stopper' = "conns"
    /\ UNCHANGED <<done, listening, sessions, tcpConnToSession, objects, conn, task, handler,
                   acceptor, sweeper>>

\* What is noted of the connections is cleared; the connections stay open.
StopConns ==
    /\ stopper = "conns"
    /\ tcpConnToSession' = [c \in Conns |-> None]
    /\ stopper' = "wait"
    /\ UNCHANGED <<done, listening, sessions, clientPaths, objects, conn, task, handler,
                   acceptor, sweeper>>

\* wg.Wait()
StopReturn ==
    /\ stopper = "wait"
    /\ \A t \in Tasks : task[t].pc \in {"unborn", "done"}
    /\ \A o \in Objs : handler[o].pc \in {"unborn", "done"}
    /\ acceptor = "done" /\ sweeper.pc = "done"
    /\ stopper' = "returned"
    /\ UNCHANGED <<done, listening, maps, objects, conn, task, handler, acceptor, sweeper>>

-----------------------------------------------------------------------------
(* The specification *)

\* The client's end of a connection closes.
PeerCloses(c) ==
    /\ conn[c].peer
    /\ conn' = [conn EXCEPT ![c] = [@ EXCEPT !.peer = FALSE]]
    /\ UNCHANGED <<done, listening, maps, objects, goroutines>>

TaskStep(t) ==
    \/ ReadFails(t) \/ Lookup(t) \/ CreateFindsOne(t) \/ Create(t)
    \/ CreateFails(t) \/ Dedup(t) \/ AddPath(t) \/ Forward(t)

ConnStep(c) == Track(c) \/ Untrack(c) \/ Unpath(c) \/ Forget(c)

\* What a handler does by itself.
HandlerProgress(o) ==
    \/ HandlerDeadline(o) \/ HandlerNumber(o) \/ HandlerPaths(o)
    \/ HandlerError(o) /\ ~session[o].open
    \/ HandlerSend(o) /\ ~InStreamWrite(o)

HandlerStep(o) == HandlerDeadline(o) \/ HandlerNumber(o) \/ HandlerPaths(o)

StopStep == StopListeners \/ StopSessions \/ StopPaths \/ StopConns \/ StopReturn

SweepStep == SweepPaths \/ \E id \in Ids : SweepRemove(id)

Next ==
    \/ \E t \in Tasks :
          TaskStep(t) \/ DecodeFails(t) \/ \E id \in Ids, seq \in Seqs : Read(t, id, seq)
    \/ \E c \in Conns : Accept(c) \/ ConnStep(c) \/ BadFrame(c) \/ PeerCloses(c)
    \/ \E o \in 1..created : HandlerStep(o) \/ HandlerRead(o) \/ HandlerError(o)
                         \/ HandlerSend(o)
    \/ \E ids \in SUBSET Ids : SweepScan(ids)
    \/ AcceptFails \/ SweepStep \/ SweepExit \/ StopCancel \/ StopStep

Spec == Init /\ [][Next]_vars

\* Goroutines run and mutexes pass over nobody for ever; dialing the target and
\* a write to a datagram socket or a closed connection end.  A read of the
\* target ends with its deadline, or at once when the socket was closed.  Nothing
\* is assumed of clients, of the target, of what arrives, or of a write whose peer
\* may never read.
Fairness ==
    /\ SF_vars(TaskStep(Udp))
    /\ \A c \in Conns : SF_vars(TaskStep(c) \/ ConnStep(c))
    /\ \A o \in Objs : SF_vars(HandlerProgress(o))
    /\ SF_vars(AcceptFails)
    /\ SF_vars(SweepStep \/ SweepExit)
    /\ SF_vars(StopStep)

FairSpec == Spec /\ Fairness

-----------------------------------------------------------------------------
(* Properties *)

TaskPCs == {"unborn", "read", "lookup", "create", "dedup", "track", "path", "forward",
            "untrack", "unpath", "forget", "done"}
HandlerPCs == {"unborn", "read", "touch", "paths", "send", "done"}

\* A packet is in hand, and its session known.
InHand == {"lookup", "create", "dedup", "track", "path", "forward"}
Found == {"dedup", "track", "path", "forward"}

MapsOK ==
    /\ sessions \in [Ids -> 0..created]
    /\ \A i \in Ids : sessions[i] # 0 => session[sessions[i]].id = i
    /\ clientPaths \in [Ids -> Seq(Tasks)]
    /\ tcpConnToSession \in [Conns -> Ids \cup {None}]

SessionsOK ==
    /\ created \in 0..MaxSessions /\ stoppedAt \in 0..created
    /\ session \in [Objs -> [id : Ids \cup {None}, open : BOOLEAN, cancelled : BOOLEAN,
                            window : Window, answers : Nat]]
    /\ \A o \in 1..created : session[o].id # None

TaskOK(r) ==
    /\ r \in [pc : TaskPCs, id : Ids \cup {None}, seq : Nat, obj : 0..created]
    /\ r.pc \in InHand => r.id # None /\ r.seq \in Seqs
    /\ r.pc \in Found => r.obj # 0
    /\ r.pc = "unpath" => r.id # None

TasksOK ==
    /\ task = [t \in Tasks |-> task[t]]
    /\ \A t \in Tasks : TaskOK(task[t])

HandlerOK(o, r) ==
    /\ r \in [pc : HandlerPCs, todo : Seq(Tasks)]
    /\ r.pc = "unborn" <=> o > created
    /\ r.pc = "send" => r.todo # <<>>

HandlersOK ==
    /\ handler = [o \in Objs |-> handler[o]]
    /\ \A o \in Objs : HandlerOK(o, handler[o])

SweeperOK ==
    /\ sweeper \in [pc : {"wait", "remove", "paths", "done"}, todo : SUBSET Ids,
                    id : Ids \cup {None}]
    /\ sweeper.pc = "paths" => sweeper.id # None

\* What is past the lookup has a session, only created sessions have a handler,
\* a handler that sends has a path to send to, and an id leads to its session.
TypeOK ==
    /\ MapsOK /\ SessionsOK /\ TasksOK /\ HandlersOK /\ SweeperOK
    /\ conn \in [Conns -> [open : BOOLEAN, peer : BOOLEAN]]
    /\ done \in BOOLEAN /\ listening \in BOOLEAN
    /\ acceptor \in {"accept", "done"}
    /\ stopper \in {"idle", "listeners", "sessions", "paths", "conns", "wait", "returned"}

\* A session's target socket is closed when its id is led to no more, and Stop
\* closes those of all sessions there are.  Open after that is only the socket of
\* a session created later, by a goroutine that finds the map empty: the sweeper
\* may meet it before it ends itself, and nothing else closes it.
SocketsClosed ==
    \A o \in 1..created :
        session[o].open => sessions[session[o].id] = o /\ o > stoppedAt

\* When Stop has returned no connection is open, whichever way its goroutine
\* left its loop.
ReturnedClosed == stopper = "returned" => \A c \in Conns : ~conn[c].open

\* Every client has hung up, or never called.
HungUp == \A c \in Conns : ~conn[c].peer

\* Stop returns if the clients hang up: it does not close their connections
\* itself, and waits for the goroutines that read them.
StopReturns == <>[]HungUp => (done ~> (stopper = "returned"))

\* The handler of a cancelled session returns, unless it stays in a write that a
\* client keeps it in.
CancelledHandlerReturns ==
    \A o \in Objs :
        []<>~InStreamWrite(o) => (session[o].cancelled ~> (handler[o].pc = "done"))

-----------------------------------------------------------------------------
(* The inductive invariants *)

\* The window of every session is one the window code can leave behind.
WindowsOK == \A o \in Objs : WellFormed(session[o].window)

SocketInv == TypeOK /\ WindowsOK /\ SocketsClosed

\* What ReturnedClosed rests on: an open connection has a goroutine that is not
\* done, and when Stop has returned none is left that could open one.
OpenServed == \A c \in Conns : conn[c].open => task[c].pc \notin {"unborn", "done"}

AllReturned ==
    stopper = "returned" =>
        acceptor = "done" /\ \A t \in Tasks : task[t].pc \in {"unborn", "done"}

ClosedInv == OpenServed /\ AllReturned
=============================================================================
