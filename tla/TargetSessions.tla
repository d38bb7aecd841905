--------------------------- MODULE TargetSessions ---------------------------
(***************************************************************************)
(* What a server promises the target.  An id has at most one session, and  *)
(* every session is a new one with a socket of its own; the target         *)
(* receives each sequence number at most once on a session's socket, the   *)
(* last ones perhaps after the session was closed.                         *)
(***************************************************************************)
EXTENDS Integers

CONSTANTS Ids, Seqs, Sessions

VARIABLES
    session,    \* the session of an id, 0 if it has none
    opened,     \* sessions there were
    received    \* datagrams the target received, per session and number

vars == <<session, opened, received>>

Init ==
    /\ session = [i \in Ids |-> 0]
    /\ opened = {}
    /\ received = [s \in Sessions |-> [q \in Seqs |-> 0]]

Open(i, s) ==
    /\ session[i] = 0
    /\ s \notin opened
    /\ session' = [session EXCEPT ![i] = s]
    /\ opened' = opened \cup {s}
    /\ UNCHANGED received

Receive(s, q) ==
    /\ s \in opened
    /\ received[s][q] = 0
    /\ received' = [received EXCEPT ![s][q] = 1]
    /\ UNCHANGED <<session, opened>>

Close(i) ==
    /\ session[i] # 0
    /\ session' = [session EXCEPT ![i] = 0]
    /\ UNCHANGED <<opened, received>>

Next ==
    \/ \E i \in Ids : Close(i) \/ \E s \in Sessions : Open(i, s)
    \/ \E s \in Sessions, q \in Seqs : Receive(s, q)

Spec == Init /\ [][Next]_vars
=============================================================================
