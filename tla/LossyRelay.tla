----------------------------- MODULE LossyRelay -----------------------------
(***************************************************************************)
(* What the relay promises end to end.  It may lose packets and responses  *)
(* and deliver them in any order.  A client session has at most one target *)
(* session at a time; a packet passes at the target session its client     *)
(* session has at that moment, at most once for each; a response belongs   *)
(* to a target session and is returned at most once per client session.    *)
(***************************************************************************)
EXTENDS Integers, Sequences

CONSTANTS Sessions, Packets, Targets

VARIABLES
    origin,     \* the client session of each packet sent
    open,       \* the target session of a client session, as a set
    passed,     \* packets that passed at a target session
    answered,   \* the target session of each response
    returned    \* responses returned in a client session

vars == <<origin, open, passed, answered, returned>>

Init ==
    /\ origin = <<>>
    /\ open = [s \in Sessions |-> {}]
    /\ passed = [o \in Targets |-> {}]
    /\ answered = <<>>
    /\ returned = [s \in Sessions |-> {}]

Send(s) ==
    /\ Len(origin) + 1 \in Packets
    /\ origin' = Append(origin, s)
    /\ UNCHANGED <<open, passed, answered, returned>>

\* The target session a packet of s is handled at: the one there is, or one
\* nothing passed at yet.
Serves(o, s) ==
    /\ open[s] \subseteq {o}
    /\ open[s] = {} => passed[o] = {}
    /\ \A x \in Sessions \ {s} : o \notin open[x]

Pass(k, o) ==
    /\ k \in 1..Len(origin)
    /\ Serves(o, origin[k])
    /\ k \notin passed[o]
    /\ passed' = [passed EXCEPT ![o] = @ \cup {k}]
    /\ open' = [open EXCEPT ![origin[k]] = {o}]
    /\ UNCHANGED <<origin, answered, returned>>

\* Expiry, or a restart of the server.
Close(S) ==
    /\ open' = [s \in Sessions |-> IF s \in S THEN {} ELSE open[s]]
    /\ UNCHANGED <<origin, passed, answered, returned>>

Answer(s, o) ==
    /\ o \in open[s]
    /\ answered' = Append(answered, o)
    /\ UNCHANGED <<origin, open, passed, returned>>

Return(s, r) ==
    /\ r \notin returned[s]
    /\ returned' = [returned EXCEPT ![s] = @ \cup {r}]
    /\ UNCHANGED <<origin, open, passed, answered>>

Next ==
    \/ \E s \in Sessions : Send(s)
    \/ \E k \in Packets, o \in Targets : Pass(k, o)
    \/ \E S \in SUBSET Sessions : Close(S)
    \/ \E s \in Sessions, o \in Targets : Answer(s, o)
    \/ \E s \in Sessions : \E r \in 1..Len(answered) : Return(s, r)

Spec == Init /\ [][Next]_vars
=============================================================================
