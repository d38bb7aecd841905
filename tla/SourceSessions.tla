--------------------------- MODULE SourceSessions ---------------------------
(***************************************************************************)
(* What a client promises sources and servers.  A source has at most one   *)
(* session at a time, and no id is used twice; a source has at most one    *)
(* connection to a server that was not told to close, and the server hears *)
(* of no other source there; a response number is returned at most once    *)
(* in a session, perhaps after the session was closed.                     *)
(***************************************************************************)
CONSTANTS Sources, Servers, Ids, Seqs, Sessions, Conns, None

VARIABLES
    session,    \* the session of a source, 0 if it has none
    opened,     \* sessions there were
    source, id, \* of a session
    dialed,     \* connections there were
    key,        \* of a connection: its source and its server
    alive,      \* connections that were not told to close
    heard,      \* session ids a server heard over a connection
    received    \* responses returned to the source, per session and number

sessions == <<session, opened, source, id>>
conns == <<dialed, key, alive>>
vars == <<sessions, conns, heard, received>>

Init ==
    /\ session = [s \in Sources |-> 0]
    /\ opened = {} /\ dialed = {} /\ alive = {}
    /\ source = [o \in Sessions |-> None]
    /\ id = [o \in Sessions |-> 0]
    /\ key = [c \in Conns |-> <<None, None>>]
    /\ heard = [c \in Conns |-> {}]
    /\ received = [o \in Sessions |-> [q \in Seqs |-> 0]]

Open(s, o, i) ==
    /\ session[s] = 0
    /\ o \notin opened
    /\ \A x \in opened : id[x] # i
    /\ session' = [session EXCEPT ![s] = o]
    /\ opened' = opened \cup {o}
    /\ source' = [source EXCEPT ![o] = s]
    /\ id' = [id EXCEPT ![o] = i]
    /\ UNCHANGED <<conns, heard, received>>

Close(s) ==
    /\ session[s] # 0
    /\ session' = [session EXCEPT ![s] = 0]
    /\ UNCHANGED <<opened, source, id, conns, heard, received>>

Dial(k, c) ==
    /\ c \notin dialed
    /\ \A x \in alive : key[x] # k
    /\ dialed' = dialed \cup {c}
    /\ key' = [key EXCEPT ![c] = k]
    /\ alive' = alive \cup {c}
    /\ heard' = [heard EXCEPT ![c] = {}]
    /\ UNCHANGED <<sessions, received>>

Drop(C) ==
    /\ alive' = alive \ C
    /\ UNCHANGED <<sessions, dialed, key, heard, received>>

\* Also over a connection that was told to close meanwhile.
Hear(c, o) ==
    /\ o \in opened /\ c \in dialed
    /\ key[c][1] = source[o]
    /\ heard' = [heard EXCEPT ![c] = @ \cup {id[o]}]
    /\ UNCHANGED <<sessions, conns, received>>

Return(o, q) ==
    /\ o \in opened
    /\ received[o][q] = 0
    /\ received' = [received EXCEPT ![o][q] = 1]
    /\ UNCHANGED <<sessions, conns, heard>>

Next ==
    \/ \E C \in SUBSET Conns : Drop(C)
    \/ \E c \in Conns, o \in Sessions : Hear(c, o)
    \/ \E k \in Sources \X Servers, c \in Conns : Dial(k, c)
    \/ \E s \in Sources : Close(s)
    \/ \E s \in Sources, o \in Sessions, i \in Ids : Open(s, o, i)
    \/ \E o \in Sessions, q \in Seqs : Return(o, q)

Spec == Init /\ [][Next]_vars
=============================================================================
