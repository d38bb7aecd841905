----------------------------- MODULE LateFilter -----------------------------
(***************************************************************************)
(* What a deduplication window promises, without saying how: each sequence *)
(* number passes at most once, and a number that never passed is refused   *)
(* only if it comes before the first one that passed or lies at least Size *)
(* behind some number that passed.                                         *)
(***************************************************************************)
EXTENDS Integers

CONSTANTS Seqs,   \* the sequence numbers that may be offered
          Size    \* numbers the filter promises to tell apart

VARIABLES accepted,   \* the sequence numbers that passed
          first,      \* the first of them
          answer      \* the last call: [seq, dup]

vars == <<accepted, first, answer>>

TooLate(s) == s < first \/ \E a \in accepted : s + Size <= a

Init == accepted = {} /\ first = 0 /\ answer = [seq |-> 0, dup |-> TRUE]

Accept(s) ==
    /\ s \notin accepted
    /\ accepted' = accepted \cup {s}
    /\ first' = IF accepted = {} THEN s ELSE first
    /\ answer' = [seq |-> s, dup |-> FALSE]

Refuse(s) ==
    /\ accepted # {}
    /\ s \in accepted \/ TooLate(s)
    /\ answer' = [seq |-> s, dup |-> TRUE]
    /\ UNCHANGED <<accepted, first>>

Next == \E s \in Seqs : Accept(s) \/ Refuse(s)

Spec == Init /\ [][Next]_vars
=============================================================================
