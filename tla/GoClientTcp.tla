----------------------------- MODULE GoClientTcp -----------------------------
(***************************************************************************)
(* The TCP side of the Go client (client/client.go), for one source and    *)
(* one TCP endpoint: who waits for whom.                                   *)
(*                                                                         *)
(* The listener writes frames while it holds the mutex of the session, and *)
(* a write blocks when the server does not read.  The reader of a          *)
(* connection takes tcpSessionsMu for reading and then that mutex; the     *)
(* sweeper takes tcpSessionsMu for writing and then that mutex; Stop needs *)
(* tcpSessionsMu to close the connections.  A writer that waits keeps new  *)
(* readers out.  Critical sections that cannot block are one step.         *)
(*                                                                         *)
(* Frames to the server are counted whole.  A response is three units, the *)
(* two bytes of the length and the packet, because a read deadline may     *)
(* expire between any of them.  Which responses are duplicates or of       *)
(* sessions that are gone is left open: the source's UDP session is not    *)
(* represented.                                                            *)
(***************************************************************************)
EXTENDS Integers, FiniteSets

CONSTANTS Listener, Sweeper, Stopper,   \* goroutines besides the readers
          None,
          UpCap,          \* frames a connection takes that the server does not read
          MaxPackets,     \* bound: packets of the source
          MaxResponses,   \* bound: responses per connection
          MaxConns,       \* bound: connections dialed
          Answered        \* bound: the connections that carry responses

ASSUME GoClientAssumption ==
    /\ UpCap \in Nat \ {0} /\ MaxPackets \in Nat /\ MaxResponses \in Nat
    /\ MaxConns \in Nat /\ Answered \subseteq 1..MaxConns

\* A connection, its TCPSession and the goroutine that reads it.
Conns == 1..MaxConns

VARIABLES
    done,          \* the context of the client is cancelled
    tcpSessions,   \* the session of the source's key, 0 if none
    made,          \* connections dialed
    conn,          \* [open, cancelled, peer, up, written, down] of each
    mu,            \* tcpSessionsMu: [writer, waiting, readers]
    sessionMu,     \* the goroutine that holds the mutex of each session
    listener,      \* [pc, c]
    reader,        \* [pc, c] of each connection
    sweeper, stopper,   \* control states
    packets        \* packets taken from the source

tasks == <<listener, reader, sweeper, stopper>>
vars == <<done, tcpSessions, made, conn, mu, sessionMu, tasks, packets>>

NoConn == [open |-> FALSE, cancelled |-> FALSE, peer |-> FALSE,
           up |-> 0, written |-> 0, down |-> 0]

Init ==
    /\ done = FALSE
    /\ tcpSessions = 0 /\ made = 0
    /\ conn = [c \in Conns |-> NoConn]
    /\ mu = [writer |-> None, waiting |-> {}, readers |-> {}]
    /\ sessionMu = [c \in Conns |-> None]
    /\ listener = [pc |-> "recv", c |-> 0]
    /\ reader = [c \in Conns |-> [pc |-> "unborn", c |-> 0]]
    /\ sweeper = "wait" /\ stopper = "idle"
    /\ packets = 0

-----------------------------------------------------------------------------
(* tcpSessionsMu, a RWMutex *)

MayRead == mu.writer = None /\ mu.waiting = {}
WaitToWrite(t) == mu' = [mu EXCEPT !.waiting = @ \cup {t}]
MayWrite(t) == t \in mu.waiting /\ mu.writer = None /\ mu.readers = {}
Lock(t) == MayWrite(t) /\ mu' = [mu EXCEPT !.waiting = @ \ {t}, !.writer = t]
Unlock == mu' = [mu EXCEPT !.writer = None]
\* Mutant: a critical section that returns without its unlock.
LockAndKeep(t) == MayWrite(t) /\ mu' = [mu EXCEPT !.waiting = @ \ {t}, !.writer = t]

\* A critical section that is one step.
LockAndUnlock(t) == MayWrite(t) /\ mu' = [mu EXCEPT !.waiting = @ \ {t}]

\* session.cancel() and session.conn.Close(); what was in flight, and the other
\* end, matter no more.
Closed(k) == [NoConn EXCEPT !.cancelled = TRUE]
CloseSession(c) == conn' = IF c = 0 THEN conn ELSE [conn EXCEPT ![c] = Closed(@)]

-----------------------------------------------------------------------------
(* The listener *)

LGoto(pc) == listener' = [listener EXCEPT !.pc = pc]
LRest == listener' = [pc |-> "recv", c |-> 0]

\* The listener's socket is open until Stop closes it.
LRecv ==
    /\ listener.pc = "recv" /\ stopper \in {"idle", "cancelled"}
    /\ packets < MaxPackets
    /\ packets' = packets + 1
    /\ LGoto("lookup")
    /\ UNCHANGED <<done, tcpSessions, made, conn, mu, sessionMu, reader, sweeper, stopper>>

LExit ==
    /\ listener.pc = "recv" /\ done
    /\ LGoto("done")
    /\ UNCHANGED <<done, tcpSessions, made, conn, mu, sessionMu, reader, sweeper, stopper,
                   packets>>

LLookup ==
    /\ listener.pc = "lookup" /\ MayRead
    /\ IF tcpSessions # 0
       THEN listener' = [pc |-> "mutex", c |-> tcpSessions] /\ UNCHANGED mu
       ELSE LGoto("lock") /\ WaitToWrite(Listener)
    /\ UNCHANGED <<done, tcpSessions, made, conn, sessionMu, reader, sweeper, stopper,
                   packets>>

\* Nobody else adds a session: the second look at the map finds none.
LLock ==
    /\ listener.pc = "lock" /\ Lock(Listener)
    /\ LGoto("dial")
    /\ UNCHANGED <<done, tcpSessions, made, conn, sessionMu, reader, sweeper, stopper,
                   packets>>

\* Mutant: the context of a session is not a child of the client's.
CancelledAtBirthNever == FALSE

\* context.WithCancel(c.ctx): cancelled from the start if the client is.
CancelledAtBirth == done

\* The connection is made, the write lock held since before it was dialed.
LDial ==
    LET c == made + 1
    IN  /\ listener.pc = "dial" /\ made < MaxConns
        /\ made' = c /\ tcpSessions' = c
        /\ conn' = [conn EXCEPT ![c] = [NoConn EXCEPT !.open = TRUE, !.peer = TRUE,
                                                      !.cancelled = CancelledAtBirth]]
        /\ reader' = [reader EXCEPT ![c].pc = "loop"]
        /\ listener' = [pc |-> "mutex", c |-> c]
        /\ Unlock
        /\ UNCHANGED <<done, sessionMu, sweeper, stopper, packets>>

LDialFails ==
    /\ listener.pc = "dial"
    /\ LRest /\ Unlock
    /\ UNCHANGED <<done, tcpSessions, made, conn, sessionMu, reader, sweeper, stopper,
                   packets>>

\* The mutex is taken for lastActivity, let go, and taken by sendTCPFrame.
LMutex ==
    /\ listener.pc = "mutex" /\ sessionMu[listener.c] = None
    /\ sessionMu' = [sessionMu EXCEPT ![listener.c] = Listener]
    /\ LGoto("write")
    /\ UNCHANGED <<done, tcpSessions, made, conn, mu, reader, sweeper, stopper, packets>>

LWrite ==
    /\ listener.pc = "write"
    /\ conn[listener.c].open /\ conn[listener.c].peer /\ conn[listener.c].up < UpCap
    /\ conn' = [conn EXCEPT ![listener.c].up = @ + 1]
    /\ sessionMu' = [sessionMu EXCEPT ![listener.c] = None]
    /\ LRest
    /\ UNCHANGED <<done, tcpSessions, made, mu, reader, sweeper, stopper, packets>>

LWriteFails ==
    /\ listener.pc = "write"
    /\ ~conn[listener.c].open \/ ~conn[listener.c].peer
    /\ sessionMu' = [sessionMu EXCEPT ![listener.c] = None]
    /\ LRest
    /\ UNCHANGED <<done, tcpSessions, made, conn, mu, reader, sweeper, stopper, packets>>

-----------------------------------------------------------------------------
(* The reader of a connection: handleTCPServerResponse *)

RGoto(c, pc) == reader' = [reader EXCEPT ![c].pc = pc]
Reading(c) == reader[c].pc \in {"length", "length2", "packet", "astray"}

\* The deferred cleanupTCPSession begins to wait for tcpSessionsMu.
RLeave(c) == RGoto(c, "cleanup") /\ WaitToWrite(c)

\* The context is looked at, and the read deadline set.
RLoop(c) ==
    /\ reader[c].pc = "loop"
    /\ IF conn[c].cancelled THEN RLeave(c) ELSE RGoto(c, "length") /\ UNCHANGED mu
    /\ UNCHANGED <<done, tcpSessions, made, conn, sessionMu, listener, sweeper, stopper,
                   packets>>

Take(c, n) == conn' = [conn EXCEPT ![c].down = @ - n]

RLength(c) ==
    /\ reader[c].pc = "length" /\ conn[c].down > 0
    /\ Take(c, 1) /\ RGoto(c, "length2")
    /\ UNCHANGED <<done, tcpSessions, made, mu, sessionMu, listener, sweeper, stopper,
                   packets>>

\* The unit read next is the second of a response.
OnSecond(c) == (conn[c].written - conn[c].down) % 3 = 1

\* What was read as a length is one only if nothing was dropped before.
RLength2(c) ==
    /\ reader[c].pc = "length2" /\ conn[c].down > 0
    /\ Take(c, 1) /\ RGoto(c, IF OnSecond(c) THEN "packet" ELSE "astray")
    /\ UNCHANGED <<done, tcpSessions, made, mu, sessionMu, listener, sweeper, stopper,
                   packets>>

\* A packet: dropped, or returned to the source after the session was touched.
RPacket(c) ==
    /\ reader[c].pc = "packet" /\ conn[c].down > 0
    /\ Take(c, 1)
    /\ RGoto(c, "loop") \/ RGoto(c, "touch")
    /\ UNCHANGED <<done, tcpSessions, made, mu, sessionMu, listener, sweeper, stopper,
                   packets>>

\* Some bytes are taken for a packet, of a length that is anything, or 0.
RAstray(c) ==
    /\ reader[c].pc = "astray"
    /\ \/ /\ \E n \in 1..conn[c].down : Take(c, n)
          /\ RGoto(c, "loop") \/ RGoto(c, "touch")
          /\ UNCHANGED mu
       \/ RLeave(c) /\ UNCHANGED conn
    /\ UNCHANGED <<done, tcpSessions, made, sessionMu, listener, sweeper, stopper, packets>>

\* The deadline.  In the length it is taken for an idle connection, whatever
\* part of the length was read; in the packet it ends the reader.
RDeadline(c) ==
    /\ Reading(c)
    /\ IF reader[c].pc \in {"length", "length2"} THEN RGoto(c, "loop") /\ UNCHANGED mu
       ELSE RLeave(c)
    /\ UNCHANGED <<done, tcpSessions, made, conn, sessionMu, listener, sweeper, stopper,
                   packets>>

\* The connection was closed at either end.
RError(c) ==
    /\ Reading(c)
    /\ ~conn[c].open \/ (~conn[c].peer /\ conn[c].down = 0)
    /\ RLeave(c)
    /\ UNCHANGED <<done, tcpSessions, made, conn, sessionMu, listener, sweeper, stopper,
                   packets>>

RTouch(c) ==
    /\ reader[c].pc = "touch" /\ MayRead
    /\ mu' = [mu EXCEPT !.readers = @ \cup {c}]
    /\ RGoto(c, "touching")
    /\ UNCHANGED <<done, tcpSessions, made, conn, sessionMu, listener, sweeper, stopper,
                   packets>>

\* The session of the key, which need not be the reader's own.
RTouched(c) ==
    /\ reader[c].pc = "touching"
    /\ tcpSessions # 0 => sessionMu[tcpSessions] = None
    /\ mu' = [mu EXCEPT !.readers = @ \ {c}]
    /\ RGoto(c, "loop")
    /\ UNCHANGED <<done, tcpSessions, made, conn, sessionMu, listener, sweeper, stopper,
                   packets>>

\* cleanupTCPSession takes the session of the key out of the map...
RCleanup(c) ==
    /\ reader[c].pc = "cleanup" /\ LockAndUnlock(c)
    /\ tcpSessions' = 0
    /\ reader' = [reader EXCEPT ![c] = [pc |-> "close", c |-> tcpSessions]]
    /\ UNCHANGED <<done, made, conn, sessionMu, listener, sweeper, stopper, packets>>

\* Mutant: ...and leaves it to its reader to close it.
RCloseNot(c) ==
    /\ reader[c].pc = "close"
    /\ reader' = [reader EXCEPT ![c] = [pc |-> "done", c |-> 0]]
    /\ UNCHANGED <<done, tcpSessions, made, conn, mu, sessionMu, listener, sweeper, stopper,
                   packets>>

\* ...and closes it.
RClose(c) ==
    /\ reader[c].pc = "close"
    /\ CloseSession(reader[c].c)
    /\ reader' = [reader EXCEPT ![c] = [pc |-> "done", c |-> 0]]
    /\ UNCHANGED <<done, tcpSessions, made, mu, sessionMu, listener, sweeper, stopper,
                   packets>>

-----------------------------------------------------------------------------
(* The sweeper *)

SweepTick ==
    /\ sweeper = "wait"
    /\ sweeper' = "lock" /\ WaitToWrite(Sweeper)
    /\ UNCHANGED <<done, tcpSessions, made, conn, sessionMu, listener, reader, stopper,
                   packets>>

SweepLock ==
    /\ sweeper = "lock" /\ Lock(Sweeper)
    /\ sweeper' = "sweep"
    /\ UNCHANGED <<done, tcpSessions, made, conn, sessionMu, listener, reader, stopper,
                   packets>>

\* Mutant: the sweeper waits for its ticker with tcpSessionsMu held.
SweepKeepsLock(expired) ==
    /\ sweeper = "sweep"
    /\ tcpSessions # 0 => sessionMu[tcpSessions] = None
    /\ IF expired THEN CloseSession(tcpSessions) /\ tcpSessions' = 0
       ELSE UNCHANGED <<conn, tcpSessions>>
    /\ sweeper' = "wait"
    /\ UNCHANGED <<done, made, mu, sessionMu, listener, reader, stopper, packets>>

\* The session's mutex is needed to read lastActivity.
Sweep(expired) ==
    /\ sweeper = "sweep"
    /\ tcpSessions # 0 => sessionMu[tcpSessions] = None
    /\ IF expired THEN CloseSession(tcpSessions) /\ tcpSessions' = 0
       ELSE UNCHANGED <<conn, tcpSessions>>
    /\ sweeper' = "wait" /\ Unlock
    /\ UNCHANGED <<done, made, sessionMu, listener, reader, stopper, packets>>

SweepExit ==
    /\ sweeper = "wait" /\ done
    /\ sweeper' = "done"
    /\ UNCHANGED <<done, tcpSessions, made, conn, mu, sessionMu, listener, reader, stopper,
                   packets>>

-----------------------------------------------------------------------------
(* Stop *)

StopCancel ==
    /\ stopper = "idle"
    /\ stopper' = "cancelled" /\ done' = TRUE
    /\ conn' = [c \in Conns |-> IF c <= made THEN [conn[c] EXCEPT !.cancelled = TRUE]
                                ELSE conn[c]]
    /\ UNCHANGED <<tcpSessions, made, mu, sessionMu, listener, reader, sweeper, packets>>

\* The listener's socket and the UDP senders are closed.
StopListener ==
    /\ stopper = "cancelled"
    /\ stopper' = "lock" /\ WaitToWrite(Stopper)
    /\ UNCHANGED <<done, tcpSessions, made, conn, sessionMu, listener, reader, sweeper,
                   packets>>

\* The connections in the map are closed, and stay in the map.
StopClose ==
    /\ stopper = "lock" /\ LockAndUnlock(Stopper)
    /\ CloseSession(tcpSessions)
    /\ stopper' = "wait"
    /\ UNCHANGED <<done, tcpSessions, made, sessionMu, listener, reader, sweeper, packets>>

\* wg.Wait()
StopReturn ==
    /\ stopper = "wait"
    /\ listener.pc = "done" /\ sweeper = "done"
    /\ \A c \in Conns : reader[c].pc \in {"unborn", "done"}
    /\ stopper' = "returned"
    /\ UNCHANGED <<done, tcpSessions, made, conn, mu, sessionMu, listener, reader, sweeper,
                   packets>>

-----------------------------------------------------------------------------
(* The server's end of a connection *)

PeerReads(c) ==
    /\ conn[c].peer /\ conn[c].up > 0
    /\ conn' = [conn EXCEPT ![c].up = @ - 1]
    /\ UNCHANGED <<done, tcpSessions, made, mu, sessionMu, tasks, packets>>

PeerWrites(c) ==
    /\ c \in Answered /\ conn[c].written < 3 * MaxResponses
    /\ conn[c].peer /\ conn[c].open
    /\ conn' = [conn EXCEPT ![c].written = @ + 1, ![c].down = @ + 1]
    /\ UNCHANGED <<done, tcpSessions, made, mu, sessionMu, tasks, packets>>

PeerCloses(c) ==
    /\ conn[c].peer
    /\ conn' = [conn EXCEPT ![c].peer = FALSE, ![c].up = 0]
    /\ UNCHANGED <<done, tcpSessions, made, mu, sessionMu, tasks, packets>>

-----------------------------------------------------------------------------
(* The specification *)

ListenerStep ==
    LLookup \/ LLock \/ LDial \/ LDialFails \/ LMutex \/ LWrite \/ LWriteFails

ReaderStep(c) ==
    \/ RLoop(c) \/ RLength(c) \/ RLength2(c) \/ RPacket(c) \/ RAstray(c)
    \/ RDeadline(c) \/ RError(c)
    \/ RTouch(c) \/ RTouched(c) \/ RCleanup(c) \/ RClose(c)

Next ==
    \/ LRecv \/ LExit \/ ListenerStep
    \/ \E c \in Conns :
          ReaderStep(c) \/ PeerReads(c) \/ PeerWrites(c) \/ PeerCloses(c)
    \/ SweepTick \/ SweepLock \/ SweepExit
    \/ \E expired \in BOOLEAN : Sweep(expired)
    \/ StopCancel \/ StopListener \/ StopClose \/ StopReturn

Spec == Init /\ [][Next]_vars

\* Goroutines run, dialing ends in one way or the other, a read ends with its
\* deadline at the latest.  A mutex does not pass over a waiter for ever, so a
\* goroutine that can go on again and again does.  A select with a ready channel
\* takes it in the end.  Nothing is assumed of the server, of the source, of
\* what arrives, or that Stop is called.
Fairness ==
    /\ SF_vars(LExit \/ ListenerStep)
    /\ \A c \in Conns : SF_vars(ReaderStep(c))
    /\ SF_vars(SweepLock \/ \E expired \in BOOLEAN : Sweep(expired))
    /\ SF_vars(SweepExit)
    /\ SF_vars(StopListener \/ StopClose \/ StopReturn)

FairSpec == Spec /\ Fairness

-----------------------------------------------------------------------------
(* Properties *)

ListenerPCs == {"recv", "lookup", "lock", "dial", "mutex", "write", "done"}
ReaderPCs == {"unborn", "loop", "length", "length2", "packet", "astray", "touch",
              "touching", "cleanup", "close", "done"}

\* What is in flight was written.
Connections ==
    {k \in [open : BOOLEAN, cancelled : BOOLEAN, peer : BOOLEAN, up : 0..UpCap,
            written : 0..3 * MaxResponses, down : 0..3 * MaxResponses] :
        k.down <= k.written}

\* A writer excludes readers; only the listener and the sweeper keep
\* tcpSessionsMu for writing from one step to another.
MuOK ==
    /\ mu \in [writer : {None, Listener, Sweeper}, readers : SUBSET Conns,
               waiting : SUBSET ({Listener, Sweeper, Stopper} \cup Conns)]
    /\ mu.writer # None => mu.readers = {}

\* Types; the mutex of a session is kept from one step to another by the
\* listener only, and what a goroutine works on was dialed.
TypeOK ==
    /\ done \in BOOLEAN
    /\ made \in 0..MaxConns /\ tcpSessions \in 0..made
    /\ conn \in [Conns -> Connections] /\ MuOK
    /\ sessionMu \in [Conns -> {None, Listener}]
    /\ listener \in [pc : ListenerPCs, c : 0..made]
    /\ reader \in [Conns -> [pc : ReaderPCs, c : 0..made]]
    /\ sweeper \in {"wait", "lock", "sweep", "done"}
    /\ stopper \in {"idle", "cancelled", "lock", "wait", "returned"}
    /\ packets \in 0..MaxPackets

\* The listener is in a write that cannot go on, and another goroutine waits
\* for the session's mutex with tcpSessionsMu held: nothing but the server can
\* end it, for Stop cannot get at the connection to close it.
Jammed ==
    /\ listener.pc = "write"
    /\ conn[listener.c].open /\ conn[listener.c].peer /\ conn[listener.c].up = UpCap
    /\ mu.writer = Sweeper \/ mu.readers # {}

\* Stop returns, unless the client stays jammed by a server that does not read.
StopReturns == []<>~Jammed => ((stopper # "idle") ~> (stopper = "returned"))

\* The reader of a connection that was cancelled returns, with the same
\* exception.
CancelledReaderReturns ==
    []<>~Jammed => \A c \in Conns : conn[c].cancelled ~> (reader[c].pc = "done")

\* When Stop has returned every connection is closed, also one that was dialed
\* after Stop closed those in the map.
ReturnedClosed == stopper = "returned" => \A c \in Conns : ~conn[c].open

-----------------------------------------------------------------------------
(* The inductive invariant *)

\* Whoever dials found no session, and nobody else puts one into the map.
DialsAlone == listener.pc \in {"lock", "dial"} => tcpSessions = 0

\* A reader runs for every connection that was dialed.
ReaderEach == \A c \in Conns : reader[c].pc = "unborn" <=> c > made

\* Somebody closes a connection that is open: whoever takes it out of the map,
\* or the reader that has done so.
OpenHasCloser ==
    \A c \in Conns : conn[c].open =>
        tcpSessions = c \/ \E r \in Conns : reader[r].pc = "close" /\ reader[r].c = c

\* A reader that has been through the clean-up does not leave its own
\* connection in the map, although it may have removed another's.
CleanedUp == \A c \in Conns : reader[c].pc \in {"close", "done"} => tcpSessions # c

\* What wg.Wait() waited for stays returned.
AllReturned ==
    stopper = "returned" =>
        listener.pc = "done" /\ \A c \in Conns : reader[c].pc \in {"unborn", "done"}

ClosedInv ==
    DialsAlone /\ ReaderEach /\ OpenHasCloser /\ CleanedUp /\ AllReturned
=============================================================================
