-------------------------- MODULE GoClientTcpProofs --------------------------
(***************************************************************************)
(* Theorems about GoClientTcp: its types, and that Stop leaves no          *)
(* connection open when it returns.                                        *)
(***************************************************************************)
EXTENDS GoClientTcp, TLAPS

LEMMA ConstantFacts ==
    /\ UpCap \in Nat /\ UpCap > 0 /\ MaxPackets \in Nat
    /\ MaxResponses \in Nat /\ MaxConns \in Nat
BY GoClientAssumption

-----------------------------------------------------------------------------
(* Types *)

LEMMA BoundFacts == 3 * MaxResponses \in Nat /\ 0 \in 0..3 * MaxResponses /\ 0 \in 0..UpCap
BY ConstantFacts

LEMMA NewConns ==
    /\ NoConn \in Connections
    /\ \A b \in BOOLEAN :
          [NoConn EXCEPT !.open = TRUE, !.peer = TRUE, !.cancelled = b] \in Connections
    /\ \A k : Closed(k) \in Connections
<1>1. NoConn \in Connections
  BY BoundFacts DEF NoConn, Connections
<1>2. ASSUME NEW b \in BOOLEAN
      PROVE  [NoConn EXCEPT !.open = TRUE, !.peer = TRUE, !.cancelled = b] \in Connections
  <2>1. \A k \in Connections :
           [k EXCEPT !.open = TRUE, !.peer = TRUE, !.cancelled = b] \in Connections
    BY DEF Connections
  <2> QED
    BY <1>1, <2>1
<1>3. ASSUME NEW k PROVE Closed(k) \in Connections
  <2>1. \A x \in Connections : [x EXCEPT !.cancelled = TRUE] \in Connections
    BY DEF Connections
  <2> QED
    BY <1>1, <2>1 DEF Closed
<1> QED
  BY <1>1, <1>2, <1>3

LEMMA CloseTypes ==
    ASSUME conn \in [Conns -> Connections], NEW c, CloseSession(c)
    PROVE  conn' \in [Conns -> Connections]
<1>1. CASE c = 0
  BY <1>1 DEF CloseSession
<1>2. CASE c # 0
  <2>1. conn' = [conn EXCEPT ![c] = Closed(conn[c])] /\ Closed(conn[c]) \in Connections
    BY <1>2, NewConns DEF CloseSession
  <2> QED
    BY <2>1
<1> QED
  BY <1>1, <1>2

LEMMA InitTypes == Init => TypeOK
<1> SUFFICES ASSUME Init PROVE TypeOK
  OBVIOUS
<1>1. made = 0 /\ made \in 0..MaxConns /\ tcpSessions \in 0..made /\ packets \in 0..MaxPackets
  BY ConstantFacts DEF Init
<1>2. conn \in [Conns -> Connections]
  BY NewConns DEF Init
<1>3. MuOK /\ sessionMu \in [Conns -> {None, Listener}]
  BY DEF Init, MuOK
<1>4. /\ listener \in [pc : ListenerPCs, c : 0..made]
      /\ reader \in [Conns -> [pc : ReaderPCs, c : 0..made]]
  BY <1>1 DEF Init, ListenerPCs, ReaderPCs
<1> QED
  BY <1>1, <1>2, <1>3, <1>4 DEF Init, TypeOK

LEMMA ListenerTypes ==
    ASSUME TypeOK, LRecv \/ LExit \/ ListenerStep
    PROVE  TypeOK'
<1> USE DEF TypeOK, MuOK, ListenerPCs
<1>0. made \in Nat /\ 0 \in 0..made
  BY ConstantFacts
<1>1. CASE LRecv
  BY <1>1, ConstantFacts DEF LRecv, LGoto
<1>2. CASE LExit
  BY <1>2 DEF LExit, LGoto
<1>3. CASE LLookup
  BY <1>3 DEF LLookup, LGoto, WaitToWrite
<1>4. CASE LLock
  BY <1>4 DEF LLock, LGoto, Lock, MayWrite
<1>5. CASE LDial
  <2> DEFINE k == [NoConn EXCEPT !.open = TRUE, !.peer = TRUE,
                                 !.cancelled = CancelledAtBirth]
             c == made + 1
  <2>1. c \in Conns /\ c \in 1..MaxConns /\ made \in Nat /\ 0..made \subseteq 0..c
    BY <1>5, ConstantFacts DEF LDial, Conns
  <2>2. k \in Connections
    BY NewConns DEF CancelledAtBirth
  <2>3. conn' = [conn EXCEPT ![c] = k]
    BY <1>5, Zenon DEF LDial
  <2>4. conn' \in [Conns -> Connections]
    <3> HIDE DEF k, c
    <3> QED
      BY <2>2, <2>3
  <2>5. reader' = [reader EXCEPT ![c].pc = "loop"]
    BY <1>5 DEF LDial
  <2>6. reader' \in [Conns -> [pc : ReaderPCs, c : 0..c]]
    BY <2>1, <2>5 DEF ReaderPCs
  <2>7. /\ made' = c /\ tcpSessions' = c /\ listener' = [pc |-> "mutex", c |-> c]
        /\ mu' = [mu EXCEPT !.writer = None]
        /\ UNCHANGED <<done, sessionMu, sweeper, stopper, packets>>
    BY <1>5 DEF LDial, Unlock
  <2> HIDE DEF k
  <2> QED
    <3>1. made' \in 0..MaxConns /\ tcpSessions' \in 0..made' /\ c \in 0..c
      BY <2>1, <2>7, ConstantFacts
    <3>2. listener' \in [pc : ListenerPCs, c : 0..made']
      BY <2>7, <3>1
    <3>3. MuOK'
      BY <2>7
    <3> HIDE DEF c
    <3> QED
      BY <2>4, <2>6, <2>7, <3>1, <3>2, <3>3
<1>6. CASE LDialFails
  BY <1>0, <1>6 DEF LDialFails, LRest, Unlock
<1>7. CASE LMutex
  BY <1>7 DEF LMutex, LGoto
<1>8. CASE LWrite
  <2> DEFINE k == [conn[listener.c] EXCEPT !.up = conn[listener.c].up + 1]
  <2>1. conn' = [conn EXCEPT ![listener.c] = k]
    BY <1>8 DEF LWrite
  <2>2. listener.c \in Conns => k \in Connections
    BY <1>8, ConstantFacts DEF LWrite, Connections
  <2>3. conn' \in [Conns -> Connections]
    <3> HIDE DEF k
    <3> QED
      BY <2>1, <2>2
  <2> QED
    BY <1>0, <1>8, <2>3 DEF LWrite, LRest
<1>9. CASE LWriteFails
  BY <1>0, <1>9 DEF LWriteFails, LRest
<1> QED
  BY <1>1, <1>2, <1>3, <1>4, <1>5, <1>6, <1>7, <1>8, <1>9 DEF ListenerStep

\* Taking n units off what is in flight.
LEMMA TakeTypes ==
    ASSUME conn \in [Conns -> Connections], NEW c \in Conns, NEW n \in 1..conn[c].down,
           Take(c, n)
    PROVE  conn' \in [Conns -> Connections]
<1>1. conn[c] \in Connections /\ conn[c].down \in Nat /\ conn[c].down - n \in 0..3 * MaxResponses
  BY BoundFacts DEF Connections
<1>2. [conn[c] EXCEPT !.down = @ - n] \in Connections
  BY <1>1, BoundFacts DEF Connections
<1> QED
  BY <1>2 DEF Take

LEMMA ReaderTypes ==
    ASSUME TypeOK, NEW c \in Conns, ReaderStep(c)
    PROVE  TypeOK'
<1> USE DEF TypeOK, MuOK
<1>1. ASSUME NEW pc \in ReaderPCs, RGoto(c, pc)
      PROVE  reader' \in [Conns -> [pc : ReaderPCs, c : 0..made]]
  BY <1>1 DEF RGoto
<1>2. /\ {"length", "length2", "packet", "astray", "loop", "touch", "touching", "cleanup",
          "close", "done"} \subseteq ReaderPCs
      /\ \A x, y \in ReaderPCs, b \in BOOLEAN : (IF b THEN x ELSE y) \in ReaderPCs
  BY DEF ReaderPCs
<1>3. ASSUME RLeave(c)
      PROVE  MuOK' /\ reader' \in [Conns -> [pc : ReaderPCs, c : 0..made]]
  <2>1. MuOK'
    BY <1>3 DEF RLeave, WaitToWrite
  <2> QED
    BY <1>1, <1>2, <1>3, <2>1 DEF RLeave
<1>4. CASE RLoop(c)
  <2>1. UNCHANGED <<done, tcpSessions, made, conn, sessionMu, listener, sweeper, stopper,
                    packets>>
    BY <1>4 DEF RLoop
  <2>2. MuOK' /\ reader' \in [Conns -> [pc : ReaderPCs, c : 0..made]]
    BY <1>1, <1>2, <1>3, <1>4 DEF RLoop
  <2> QED
    BY <2>1, <2>2
<1>5. CASE RLength(c) \/ RLength2(c) \/ RPacket(c)
  <2>1. UNCHANGED <<done, tcpSessions, made, mu, sessionMu, listener, sweeper, stopper,
                    packets>>
    BY <1>5 DEF RLength, RLength2, RPacket
  <2>2. Take(c, 1) /\ conn[c].down > 0
    BY <1>5 DEF RLength, RLength2, RPacket
  <2>3. 1 \in 1..conn[c].down
    BY <2>2, BoundFacts DEF Connections
  <2>4. conn' \in [Conns -> Connections]
    BY <2>2, <2>3, TakeTypes
  <2>5. \E pc \in ReaderPCs : RGoto(c, pc)
    BY <1>2, <1>5 DEF RLength, RLength2, RPacket
  <2> QED
    BY <1>1, <2>1, <2>4, <2>5
<1>6. CASE RAstray(c)
  <2>1. UNCHANGED <<done, tcpSessions, made, sessionMu, listener, sweeper, stopper, packets>>
    BY <1>6 DEF RAstray
  <2>2. CASE /\ \E n \in 1..conn[c].down : Take(c, n)
             /\ RGoto(c, "loop") \/ RGoto(c, "touch")
             /\ UNCHANGED mu
    <3>1. conn' \in [Conns -> Connections]
      BY <2>2, TakeTypes
    <3>2. reader' \in [Conns -> [pc : ReaderPCs, c : 0..made]]
      BY <1>1, <1>2, <2>2
    <3> QED
      BY <2>1, <2>2, <3>1, <3>2
  <2>3. CASE RLeave(c) /\ UNCHANGED conn
    BY <1>3, <2>1, <2>3
  <2> QED
    BY <1>6, <2>2, <2>3 DEF RAstray
<1>7. CASE RDeadline(c) \/ RError(c)
  <2>1. UNCHANGED <<done, tcpSessions, made, conn, sessionMu, listener, sweeper, stopper,
                    packets>>
    BY <1>7 DEF RDeadline, RError
  <2>2. RLeave(c) \/ (RGoto(c, "loop") /\ UNCHANGED mu)
    BY <1>7 DEF RDeadline, RError
  <2>3. MuOK' /\ reader' \in [Conns -> [pc : ReaderPCs, c : 0..made]]
    BY <1>1, <1>2, <1>3, <2>2
  <2> QED
    BY <2>1, <2>3
<1>8. CASE RTouch(c)
  <2>1. MuOK'
    BY <1>8 DEF RTouch, MayRead
  <2>2. RGoto(c, "touching")
    BY <1>8 DEF RTouch
  <2> QED
    BY <1>1, <1>2, <1>8, <2>1, <2>2 DEF RTouch
<1>9. CASE RTouched(c)
  <2>1. MuOK'
    BY <1>9 DEF RTouched
  <2>2. RGoto(c, "loop")
    BY <1>9 DEF RTouched
  <2> QED
    BY <1>1, <1>2, <1>9, <2>1, <2>2 DEF RTouched
<1>10. CASE RCleanup(c)
  <2>1. MuOK' /\ 0 \in 0..made
    BY <1>10, ConstantFacts DEF RCleanup, LockAndUnlock
  <2> QED
    BY <1>2, <1>10, <2>1 DEF RCleanup
<1>11. CASE RClose(c)
  <2>1. conn' \in [Conns -> Connections] /\ 0 \in 0..made
    BY <1>11, CloseTypes, ConstantFacts DEF RClose
  <2> QED
    BY <1>2, <1>11, <2>1 DEF RClose
<1> QED
  BY <1>4, <1>5, <1>6, <1>7, <1>8, <1>9, <1>10, <1>11 DEF ReaderStep

LEMMA SweepTypes ==
    ASSUME TypeOK, SweepTick \/ SweepLock \/ SweepExit \/ \E expired \in BOOLEAN : Sweep(expired)
    PROVE  TypeOK'
<1> USE DEF TypeOK, MuOK
<1>1. CASE SweepTick
  BY <1>1 DEF SweepTick, WaitToWrite
<1>2. CASE SweepLock
  BY <1>2 DEF SweepLock, Lock, MayWrite
<1>3. CASE SweepExit
  BY <1>3 DEF SweepExit
<1>4. ASSUME NEW expired \in BOOLEAN, Sweep(expired) PROVE TypeOK'
  <2>1. conn' \in [Conns -> Connections] /\ tcpSessions' \in 0..made
    BY <1>4, CloseTypes, ConstantFacts DEF Sweep
  <2> QED
    BY <1>4, <2>1 DEF Sweep, Unlock
<1> QED
  BY <1>1, <1>2, <1>3, <1>4

LEMMA StopTypes ==
    ASSUME TypeOK, StopCancel \/ StopListener \/ StopClose \/ StopReturn
    PROVE  TypeOK'
<1> USE DEF TypeOK, MuOK
<1>1. CASE StopCancel
  <2>1. \A k \in Connections : [k EXCEPT !.cancelled = TRUE] \in Connections
    BY DEF Connections
  <2>2. conn' \in [Conns -> Connections]
    BY <1>1, <2>1 DEF StopCancel
  <2> QED
    BY <1>1, <2>2 DEF StopCancel
<1>2. CASE StopListener
  BY <1>2 DEF StopListener, WaitToWrite
<1>3. CASE StopClose
  <2>1. conn' \in [Conns -> Connections]
    BY <1>3, CloseTypes DEF StopClose
  <2> QED
    BY <1>3, <2>1 DEF StopClose, LockAndUnlock
<1>4. CASE StopReturn
  BY <1>4 DEF StopReturn
<1> QED
  BY <1>1, <1>2, <1>3, <1>4

LEMMA PeerTypes ==
    ASSUME TypeOK, NEW c \in Conns, PeerReads(c) \/ PeerWrites(c) \/ PeerCloses(c)
    PROVE  TypeOK'
<1> USE DEF TypeOK, MuOK
<1>1. UNCHANGED <<done, tcpSessions, made, mu, sessionMu, tasks, packets>>
  BY DEF PeerReads, PeerWrites, PeerCloses
<1>2. conn[c] \in Connections
  OBVIOUS
<1>3. CASE PeerReads(c)
  <2>1. [conn[c] EXCEPT !.up = @ - 1] \in Connections
    BY <1>2, <1>3, ConstantFacts DEF PeerReads, Connections
  <2> QED
    BY <1>1, <1>3, <2>1 DEF PeerReads, tasks
<1>4. CASE PeerWrites(c)
  <2>1. [conn[c] EXCEPT !.written = @ + 1, !.down = @ + 1] \in Connections
    BY <1>2, <1>4, BoundFacts DEF PeerWrites, Connections
  <2>2. conn' = [conn EXCEPT ![c] = [conn[c] EXCEPT !.written = @ + 1, !.down = @ + 1]]
    BY <1>4 DEF PeerWrites
  <2> QED
    BY <1>1, <2>1, <2>2 DEF tasks
<1>5. CASE PeerCloses(c)
  <2>1. [conn[c] EXCEPT !.peer = FALSE, !.up = 0] \in Connections
    BY <1>2, BoundFacts DEF Connections
  <2>2. conn' = [conn EXCEPT ![c] = [conn[c] EXCEPT !.peer = FALSE, !.up = 0]]
    BY <1>5 DEF PeerCloses
  <2> QED
    BY <1>1, <2>1, <2>2 DEF tasks
<1> QED
  BY <1>3, <1>4, <1>5

LEMMA NextPreservesTypes == TypeOK /\ [Next]_vars => TypeOK'
<1> SUFFICES ASSUME TypeOK, [Next]_vars PROVE TypeOK'
  OBVIOUS
<1>1. CASE UNCHANGED vars
  BY <1>1 DEF vars, tasks, TypeOK, MuOK
<1> QED
  BY <1>1, ListenerTypes, ReaderTypes, SweepTypes, StopTypes, PeerTypes DEF Next

\* Types of the locks, goroutines and connections of the Go client.
THEOREM GoClientTypeCorrect == Spec => []TypeOK
BY InitTypes, NextPreservesTypes, PTL DEF Spec

-----------------------------------------------------------------------------
(* Connections are closed *)

\* What most steps leave alone: the map, who closes what, and who has returned.
ReadersKeep ==
    \A c \in Conns :
        /\ reader'[c].pc = "unborn" <=> reader[c].pc = "unborn"
        /\ reader'[c].pc = "done" => reader[c].pc = "done"
        /\ reader'[c].pc = "close" => reader[c].pc = "close"
        /\ reader[c].pc = "done" => reader'[c].pc = "done"
        /\ reader[c].pc = "close" => reader'[c] = reader[c]

ListenerKeeps ==
    /\ listener'.pc \in {"lock", "dial"} =>
           listener.pc \in {"lock", "dial"} \/ tcpSessions = 0
    /\ listener.pc = "done" => listener'.pc = "done"

NoneOpened == \A c \in Conns : conn'[c].open => conn[c].open

LEMMA ClosedStays ==
    ASSUME ClosedInv, ReadersKeep, ListenerKeeps, NoneOpened,
           UNCHANGED <<tcpSessions, made>>, stopper' = "returned" => stopper = "returned"
    PROVE  ClosedInv'
<1>1. DialsAlone'
  BY DEF ClosedInv, DialsAlone, ListenerKeeps
<1>2. ReaderEach'
  BY DEF ClosedInv, ReaderEach, ReadersKeep
<1>3. OpenHasCloser'
  BY DEF ClosedInv, OpenHasCloser, ReadersKeep, NoneOpened
<1>4. CleanedUp'
  BY DEF ClosedInv, CleanedUp, ReadersKeep
<1>5. AllReturned'
  BY DEF ClosedInv, AllReturned, ReadersKeep, ListenerKeeps
<1> QED
  BY <1>1, <1>2, <1>3, <1>4, <1>5 DEF ClosedInv

\* Closing opens nothing.
LEMMA ClosingKeeps ==
    ASSUME TypeOK, NEW c, CloseSession(c)
    PROVE  NoneOpened /\ (c \in Conns => ~conn'[c].open)
<1>1. ~Closed(conn[c]).open
  BY DEF Closed, NoConn
<1>2. CASE c = 0
  BY <1>2 DEF CloseSession, NoneOpened, Conns
<1>3. CASE c # 0
  <2>1. conn' = [conn EXCEPT ![c] = Closed(conn[c])]
    BY <1>3 DEF CloseSession
  <2> QED
    BY <1>1, <2>1 DEF TypeOK, NoneOpened
<1> QED
  BY <1>2, <1>3

\* The listener puts a connection into the map that no reader has cleaned up.
LEMMA DialClosed ==
    ASSUME TypeOK, ClosedInv, LDial
    PROVE  ClosedInv'
<1> DEFINE c == made + 1
           k == [NoConn EXCEPT !.open = TRUE, !.peer = TRUE, !.cancelled = CancelledAtBirth]
<1>1. /\ listener.pc = "dial" /\ tcpSessions = 0
      /\ made' = c /\ tcpSessions' = c /\ stopper' = stopper
      /\ reader' = [reader EXCEPT ![c].pc = "loop"]
      /\ listener' = [pc |-> "mutex", c |-> c]
  BY DEF LDial, ClosedInv, DialsAlone
<1>2. c \in Conns /\ made \in Nat
  BY ConstantFacts DEF LDial, TypeOK, Conns
<1>3. conn' = [conn EXCEPT ![c] = k]
  BY Zenon DEF LDial
<1>4. reader[c].pc = "unborn" /\ reader'[c].pc = "loop"
  BY <1>1, <1>2 DEF TypeOK, ClosedInv, ReaderEach
<1>5. \A x \in Conns : x # c => reader'[x] = reader[x] /\ conn'[x] = conn[x]
  BY <1>1, <1>2, <1>3 DEF TypeOK
<1>6. stopper # "returned"
  BY <1>1 DEF ClosedInv, AllReturned
<1>7. DialsAlone' /\ AllReturned'
  BY <1>1, <1>6 DEF DialsAlone, AllReturned
<1>8. ReaderEach'
  <2>1. \A x \in Conns : x # c => (x > made <=> x > c)
    BY <1>2 DEF Conns
  <2>2. ~(c > c)
    BY <1>2
  <2> HIDE DEF c
  <2> QED
    BY <1>1, <1>4, <1>5, <2>1, <2>2 DEF ClosedInv, ReaderEach
<1> HIDE DEF c, k
<1>9. OpenHasCloser'
  <2> SUFFICES ASSUME NEW x \in Conns, conn'[x].open, x # c
               PROVE  \E r \in Conns : reader'[r].pc = "close" /\ reader'[r].c = x
    BY <1>1 DEF OpenHasCloser
  <2>1. PICK r \in Conns : reader[r].pc = "close" /\ reader[r].c = x
    BY <1>1, <1>5 DEF ClosedInv, OpenHasCloser, Conns
  <2>2. r # c
    BY <1>4, <2>1
  <2> QED
    BY <1>5, <2>1, <2>2
<1>10. CleanedUp'
  BY <1>1, <1>4 DEF CleanedUp
<1> QED
  BY <1>7, <1>8, <1>9, <1>10 DEF ClosedInv

LEMMA ListenerClosed ==
    ASSUME TypeOK, ClosedInv, LRecv \/ LExit \/ ListenerStep
    PROVE  ClosedInv'
<1>1. CASE LDial
  BY <1>1, DialClosed
<1>2. CASE LRecv \/ LExit \/ LLookup \/ LLock \/ LDialFails \/ LMutex \/ LWrite \/ LWriteFails
  <2>1. UNCHANGED <<tcpSessions, made, reader, stopper>>
    BY <1>2 DEF LRecv, LExit, LLookup, LLock, LDialFails, LMutex, LWrite, LWriteFails
  <2>2. NoneOpened
    <3>1. CASE LWrite
      BY <3>1 DEF LWrite, NoneOpened, TypeOK, Connections
    <3> QED
      BY <1>2, <3>1 DEF LRecv, LExit, LLookup, LLock, LDialFails, LMutex, LWriteFails,
                        NoneOpened
  <2>3. ListenerKeeps
    BY <1>2 DEF LRecv, LExit, LLookup, LLock, LDialFails, LMutex, LWrite, LWriteFails,
                LGoto, LRest, ListenerKeeps, TypeOK
  <2>4. ReadersKeep
    BY <2>1 DEF ReadersKeep
  <2> QED
    BY <2>1, <2>2, <2>3, <2>4, ClosedStays
<1> QED
  BY <1>1, <1>2 DEF ListenerStep

\* The clean-up hands the connection in the map to the reader that cleans up.
LEMMA CleanupClosed ==
    ASSUME TypeOK, ClosedInv, NEW c \in Conns, RCleanup(c)
    PROVE  ClosedInv'
<1>1. /\ reader[c].pc = "cleanup" /\ tcpSessions' = 0
      /\ reader' = [reader EXCEPT ![c] = [pc |-> "close", c |-> tcpSessions]]
      /\ UNCHANGED <<made, conn, listener, stopper>>
  BY DEF RCleanup
<1>2. /\ reader'[c].pc = "close" /\ reader'[c].c = tcpSessions
      /\ \A x \in Conns : x # c => reader'[x] = reader[x]
  BY <1>1 DEF TypeOK
<1>3. \A x \in Conns : x # 0
  BY DEF Conns
<1>4. stopper # "returned"
  BY <1>1 DEF ClosedInv, AllReturned
<1>5. DialsAlone' /\ CleanedUp' /\ AllReturned'
  BY <1>1, <1>3, <1>4 DEF DialsAlone, CleanedUp, AllReturned
<1>6. ReaderEach'
  BY <1>1, <1>2 DEF ClosedInv, ReaderEach
<1>7. OpenHasCloser'
  BY <1>1, <1>2 DEF ClosedInv, OpenHasCloser
<1> QED
  BY <1>5, <1>6, <1>7 DEF ClosedInv

\* ...and that reader closes it.
LEMMA CloseClosed ==
    ASSUME TypeOK, ClosedInv, NEW c \in Conns, RClose(c)
    PROVE  ClosedInv'
<1>1. /\ reader[c].pc = "close" /\ CloseSession(reader[c].c)
      /\ reader' = [reader EXCEPT ![c] = [pc |-> "done", c |-> 0]]
      /\ UNCHANGED <<tcpSessions, made, listener, stopper>>
  BY DEF RClose
<1>2. reader'[c].pc = "done" /\ \A x \in Conns : x # c => reader'[x] = reader[x]
  BY <1>1 DEF TypeOK
<1>3. NoneOpened /\ (reader[c].c \in Conns => ~conn'[reader[c].c].open)
  BY <1>1, ClosingKeeps
<1>4. stopper # "returned"
  BY <1>1 DEF ClosedInv, AllReturned
<1>5. DialsAlone' /\ AllReturned'
  BY <1>1, <1>4 DEF ClosedInv, DialsAlone, AllReturned
<1>6. ReaderEach' /\ CleanedUp'
  BY <1>1, <1>2 DEF ClosedInv, ReaderEach, CleanedUp
<1>7. OpenHasCloser'
  <2> SUFFICES ASSUME NEW x \in Conns, conn'[x].open, tcpSessions # x
               PROVE  \E r \in Conns : reader'[r].pc = "close" /\ reader'[r].c = x
    BY <1>1 DEF OpenHasCloser
  <2>1. PICK r \in Conns : reader[r].pc = "close" /\ reader[r].c = x
    BY <1>3 DEF ClosedInv, OpenHasCloser, NoneOpened
  <2>2. r # c
    BY <1>3, <2>1
  <2> QED
    BY <1>2, <2>1, <2>2
<1> QED
  BY <1>5, <1>6, <1>7 DEF ClosedInv

LEMMA ReaderClosed ==
    ASSUME TypeOK, ClosedInv, NEW c \in Conns, ReaderStep(c)
    PROVE  ClosedInv'
<1>1. CASE RCleanup(c) \/ RClose(c)
  BY <1>1, CleanupClosed, CloseClosed
<1>2. CASE \/ RLoop(c) \/ RLength(c) \/ RLength2(c) \/ RPacket(c) \/ RAstray(c)
           \/ RDeadline(c) \/ RError(c) \/ RTouch(c) \/ RTouched(c)
  <2>1. UNCHANGED <<tcpSessions, made, listener, stopper>>
    BY <1>2 DEF RLoop, RLength, RLength2, RPacket, RAstray, RDeadline, RError, RTouch, RTouched
  <2>2. NoneOpened
    <3>1. ASSUME NEW n, Take(c, n) PROVE NoneOpened
      BY <3>1 DEF Take, NoneOpened, TypeOK, Connections
    <3>2. UNCHANGED conn => NoneOpened
      BY DEF NoneOpened
    <3> QED
      BY <1>2, <3>1, <3>2 DEF RLoop, RLength, RLength2, RPacket, RAstray, RDeadline, RError,
                              RTouch, RTouched
  <2>3. /\ reader[c].pc \notin {"unborn", "close", "done"}
        /\ \E pc \in ReaderPCs \ {"unborn", "close", "done"} : RGoto(c, pc)
    BY <1>2 DEF RLoop, RLength, RLength2, RPacket, RAstray, RDeadline, RError, RTouch, RTouched,
                RLeave, Reading, ReaderPCs
  <2>4. ReadersKeep
    BY <2>3 DEF RGoto, ReadersKeep, TypeOK
  <2>5. ListenerKeeps
    BY <2>1 DEF ListenerKeeps
  <2> QED
    BY <2>1, <2>2, <2>4, <2>5, ClosedStays
<1> QED
  BY <1>1, <1>2 DEF ReaderStep

LEMMA SweepClosed ==
    ASSUME TypeOK, ClosedInv,
           SweepTick \/ SweepLock \/ SweepExit \/ \E expired \in BOOLEAN : Sweep(expired)
    PROVE  ClosedInv'
<1>1. UNCHANGED <<made, reader, listener, stopper>>
  BY DEF SweepTick, SweepLock, SweepExit, Sweep
<1>2. ReadersKeep
  BY <1>1 DEF ReadersKeep
<1>3. CASE UNCHANGED <<tcpSessions, conn>>
  <2>1. NoneOpened /\ ListenerKeeps
    BY <1>1, <1>3 DEF NoneOpened, ListenerKeeps
  <2> QED
    BY <1>1, <1>2, <1>3, <2>1, ClosedStays
<1>4. CASE CloseSession(tcpSessions) /\ tcpSessions' = 0
  <2>1. NoneOpened /\ (tcpSessions \in Conns => ~conn'[tcpSessions].open)
    BY <1>4, ClosingKeeps
  <2>2. \A x \in Conns : x # 0
    BY DEF Conns
  <2>3. DialsAlone' /\ ReaderEach' /\ CleanedUp' /\ AllReturned'
    BY <1>1, <1>4, <2>2 DEF ClosedInv, DialsAlone, ReaderEach, CleanedUp, AllReturned
  <2>4. OpenHasCloser'
    BY <1>1, <2>1 DEF ClosedInv, OpenHasCloser, NoneOpened
  <2> QED
    BY <2>3, <2>4 DEF ClosedInv
<1> QED
  BY <1>3, <1>4 DEF SweepTick, SweepLock, SweepExit, Sweep

LEMMA StopClosed ==
    ASSUME TypeOK, ClosedInv, StopCancel \/ StopListener \/ StopClose \/ StopReturn
    PROVE  ClosedInv'
<1>1. UNCHANGED <<tcpSessions, made, reader, listener>>
  BY DEF StopCancel, StopListener, StopClose, StopReturn
<1>2. ReadersKeep /\ ListenerKeeps
  BY <1>1 DEF ReadersKeep, ListenerKeeps
<1>3. NoneOpened
  <2>1. CASE StopCancel
    BY <2>1 DEF StopCancel, NoneOpened, TypeOK, Connections
  <2>2. CASE StopClose
    BY <2>2, ClosingKeeps DEF StopClose
  <2> QED
    BY <2>1, <2>2 DEF StopListener, StopReturn, NoneOpened
<1>4. CASE StopReturn
  <2>1. DialsAlone' /\ ReaderEach' /\ CleanedUp'
    BY <1>1 DEF ClosedInv, DialsAlone, ReaderEach, CleanedUp
  <2>2. OpenHasCloser'
    BY <1>1, <1>3 DEF ClosedInv, OpenHasCloser, NoneOpened
  <2>3. AllReturned'
    BY <1>1, <1>4 DEF StopReturn, AllReturned
  <2> QED
    BY <2>1, <2>2, <2>3 DEF ClosedInv
<1>5. CASE StopCancel \/ StopListener \/ StopClose
  <2>1. stopper' # "returned"
    BY <1>5 DEF StopCancel, StopListener, StopClose
  <2> QED
    BY <1>1, <1>2, <1>3, <2>1, ClosedStays
<1> QED
  BY <1>4, <1>5

LEMMA PeerClosed ==
    ASSUME TypeOK, ClosedInv, NEW c \in Conns, PeerReads(c) \/ PeerWrites(c) \/ PeerCloses(c)
    PROVE  ClosedInv'
<1>1. UNCHANGED <<tcpSessions, made, reader, listener, stopper>>
  BY DEF PeerReads, PeerWrites, PeerCloses, tasks
<1>2. ReadersKeep /\ ListenerKeeps
  BY <1>1 DEF ReadersKeep, ListenerKeeps
<1>3. NoneOpened
  BY DEF PeerReads, PeerWrites, PeerCloses, NoneOpened, TypeOK, Connections
<1> QED
  BY <1>1, <1>2, <1>3, ClosedStays

LEMMA NextPreservesClosed == TypeOK /\ ClosedInv /\ [Next]_vars => ClosedInv'
<1> SUFFICES ASSUME TypeOK, ClosedInv, [Next]_vars PROVE ClosedInv'
  OBVIOUS
<1>1. CASE UNCHANGED vars
  BY <1>1 DEF vars, tasks, ClosedInv, DialsAlone, ReaderEach, OpenHasCloser, CleanedUp,
              AllReturned
<1> QED
  BY <1>1, ListenerClosed, ReaderClosed, SweepClosed, StopClosed, PeerClosed DEF Next

LEMMA ClosedInvHolds == Spec => []ClosedInv
<1>1. Init => ClosedInv
  BY DEF Init, ClosedInv, DialsAlone, ReaderEach, OpenHasCloser, CleanedUp, AllReturned,
         NoConn, Conns
<1> QED
  BY <1>1, NextPreservesClosed, GoClientTypeCorrect, PTL DEF Spec

\* When Stop has returned no connection is open, also one that was dialed after
\* Stop closed the one in the map: its reader has been through the clean-up, so
\* it is not in the map, and nobody is left who has still to close it.
THEOREM GoClientReturnedClosed == Spec => []ReturnedClosed
<1>1. TypeOK /\ ClosedInv => ReturnedClosed
  <2> SUFFICES ASSUME TypeOK, ClosedInv, stopper = "returned", NEW c \in Conns, conn[c].open
               PROVE  FALSE
    BY DEF ReturnedClosed
  <2>1. \A r \in Conns : reader[r].pc # "close"
    BY DEF ClosedInv, AllReturned
  <2>2. tcpSessions = c
    BY <2>1 DEF ClosedInv, OpenHasCloser
  <2>3. reader[c].pc = "unborn"
    BY <2>2 DEF ClosedInv, AllReturned, CleanedUp
  <2> QED
    BY <2>2, <2>3, ConstantFacts DEF ClosedInv, ReaderEach, TypeOK, Conns
<1> QED
  BY <1>1, ClosedInvHolds, GoClientTypeCorrect, PTL

=============================================================================
