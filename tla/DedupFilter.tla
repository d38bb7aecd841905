---------------------------- MODULE DedupFilter ----------------------------
(***************************************************************************)
(* One deduplication window in use: a caller offers sequence numbers in    *)
(* any order, with repetitions, and forwards a packet exactly when         *)
(* is_duplicate answers FALSE.  accepted, first and answer are history     *)
(* variables; win is the program's state.                                  *)
(***************************************************************************)
EXTENDS DedupWindow

CONSTANTS Seqs,   \* sequence numbers the peer may send (u32)
          Size,   \* dedup_window; config.rs replaces 0 by the default
          SeqSpan  \* 2^32

ASSUME SeqsAssumption == SeqSpan \in Nat \ {0} /\ Seqs \subseteq 0..(SeqSpan - 1)
ASSUME SizeAssumption == Size \in Nat \ {0}

VARIABLES win, accepted, first, answer

vars == <<win, accepted, first, answer>>

Init ==
    /\ win = New
    /\ accepted = {}
    /\ first = 0
    /\ answer = [seq |-> 0, dup |-> TRUE]

\* One call of is_duplicate, whose caller forwards the packet on FALSE.
Offer(seq) ==
    /\ win' = Mark(win, seq, Size)
    /\ answer' = [seq |-> seq, dup |-> IsDuplicate(win, seq)]
    /\ accepted' = IF IsDuplicate(win, seq) THEN accepted ELSE accepted \cup {seq}
    /\ first' = IF win.started THEN first ELSE seq

Next == \E seq \in Seqs : Offer(seq)

Spec == Init /\ [][Next]_vars

-----------------------------------------------------------------------------
(* Properties *)

TypeOK ==
    /\ win \in Window
    /\ accepted \subseteq Seqs
    /\ first \in Nat
    /\ answer \in [seq : Nat, dup : BOOLEAN]

\* The window remembers exactly the accepted numbers that are not below
\* min_seq, however packets were reordered and however often it slid.
Remembers == win.started => win.seen = {s \in accepted : s >= win.min_seq}

\* Everything accepted lies between the first number and max_seq, and min_seq
\* is either still the first number or at least Size - 1 behind max_seq:
\* the window never slides past the newest Size numbers.
Span ==
    win.started =>
        /\ {first, win.max_seq} \subseteq accepted
        /\ \A a \in accepted : first <= a /\ a <= win.max_seq
        /\ first <= win.min_seq /\ win.min_seq <= win.max_seq
        /\ win.min_seq = first \/ win.min_seq + Size <= win.max_seq + 1

\* Nothing was accepted before the window was opened.
Unopened == ~win.started => win = New /\ accepted = {}

\* The inductive invariant.
IInv == TypeOK /\ Unopened /\ Remembers /\ Span

\* The window implements the abstract filter: no sequence number passes
\* twice, and only late ones are refused without having passed.
Abstract == INSTANCE LateFilter WITH
    Seqs     <- Seqs,
    Size     <- Size,
    accepted <- accepted,
    first    <- first,
    answer   <- answer
ImplementsLateFilter == Abstract!Spec

\* The lower edge never moves back (saturating_sub never saturates into a
\* number that was already dropped): a dropped number cannot pass again.
LowerEdgeAdvances == [][win.started => win'.min_seq >= win.min_seq]_vars

\* The Go window computes its lower edge in wrapping arithmetic (server.go 68)
\* and still does what the Rust one does: an edge that wrapped would refuse
\* everything from then on.
GoWindowAgrees ==
    \A seq \in Seqs : GoMark(win, seq, Size, SeqSpan) = Mark(win, seq, Size)
=============================================================================
