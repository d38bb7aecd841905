---------------------------- MODULE DedupWindow ----------------------------
(***************************************************************************)
(* The sliding deduplication window, as a data structure.                  *)
(*                                                                         *)
(* The server keeps one window per session for request packets             *)
(* (server.rs, DedupWindow) and the client one per session for responses   *)
(* (client.rs, ResponseDedupWindow).  The two are the same code.  One call *)
(* of is_duplicate(seq) does two things: it answers, and it records seq.   *)
(* IsDuplicate is the answer, Mark the window left behind.                 *)
(*                                                                         *)
(* The window of the Go server (server.go) gives the same answers, and     *)
(* computes its lower edge with plain 32-bit arithmetic: GoMark.           *)
(***************************************************************************)
EXTENDS Integers, FiniteSets

\* DedupWindow::new.  The configured size is a parameter of Mark.
New == [seen |-> {}, min_seq |-> 0, max_seq |-> 0, started |-> FALSE]

Window == [seen : SUBSET Nat, min_seq : Nat, max_seq : Nat, started : BOOLEAN]

\* u32::saturating_sub.
SaturatingSub(a, b) == IF a >= b THEN a - b ELSE 0

\* The value is_duplicate returns.
IsDuplicate(w, seq) == w.started /\ (seq \in w.seen \/ seq < w.min_seq)

\* The first packet opens the window at its own sequence number.
Open(seq) == [seen |-> {seq}, min_seq |-> seq, max_seq |-> seq, started |-> TRUE]

\* Mutant: the retain predicate is off by one and forgets new_min itself.
SlideForgetsEdge(w, size) ==
    LET new_min == SaturatingSub(w.max_seq, size - 1)
    IN  [w EXCEPT !.seen = {s \in w.seen : s > new_min}, !.min_seq = new_min]

\* Mutant: the entries are dropped but min_seq is not moved.
SlideKeepsMin(w, size) ==
    [w EXCEPT !.seen = {s \in w.seen : s >= SaturatingSub(w.max_seq, size - 1)}]

\* Drops what lies below the newest `size' sequence numbers.
Slide(w, size) ==
    LET new_min == SaturatingSub(w.max_seq, size - 1)
    IN  [w EXCEPT !.seen = {s \in w.seen : s >= new_min}, !.min_seq = new_min]

\* Mutant: the window slides on every advance, however few numbers it holds.
InsertAlwaysSlides(w, seq, size) ==
    LET held == [w EXCEPT !.seen = w.seen \cup {seq}]
    IN  IF seq <= w.max_seq THEN held ELSE Slide([held EXCEPT !.max_seq = seq], size)

\* Records a sequence number that is new and not too old.  The window slides
\* only when the newest number advances and too many numbers are held.
Insert(w, seq, size) ==
    LET held == [w EXCEPT !.seen = w.seen \cup {seq}]
        top  == [held EXCEPT !.max_seq = seq]
    IN  IF seq <= w.max_seq THEN held
        ELSE IF Cardinality(top.seen) > size THEN Slide(top, size) ELSE top

\* The window after is_duplicate(seq).
Mark(w, seq, size) ==
    IF ~w.started THEN Open(seq)
    ELSE IF IsDuplicate(w, seq) THEN w
    ELSE Insert(w, seq, size)

\* server.go: the new lower edge wraps where Rust's saturates.  mod is 2^32.
GoSlide(w, size, mod) ==
    LET newMin == (w.max_seq - size + 1) % mod
    IN  [w EXCEPT !.seen = {s \in w.seen : s >= newMin}, !.min_seq = newMin]

\* Mutant: without the test of len(d.seen) the subtraction wraps.
GoInsertAlwaysSlides(w, seq, size, mod) ==
    LET held == [w EXCEPT !.seen = w.seen \cup {seq}]
    IN  IF seq <= w.max_seq THEN held
        ELSE GoSlide([held EXCEPT !.max_seq = seq], size, mod)

GoInsert(w, seq, size, mod) ==
    LET held == [w EXCEPT !.seen = w.seen \cup {seq}]
        top  == [held EXCEPT !.max_seq = seq]
    IN  IF seq <= w.max_seq THEN held
        ELSE IF Cardinality(top.seen) > size THEN GoSlide(top, size, mod) ELSE top

\* The window after IsDuplicate(seq) of server.go.
GoMark(w, seq, size, mod) ==
    IF ~w.started THEN Open(seq)
    ELSE IF IsDuplicate(w, seq) THEN w
    ELSE GoInsert(w, seq, size, mod)

\* What every window the program can hold looks like: the numbers held lie
\* between the two edges, and the newest one is held.
WellFormed(w) ==
    /\ w \in Window
    /\ IF w.started
       THEN w.seen \subseteq w.min_seq..w.max_seq /\ w.max_seq \in w.seen
       ELSE w = New

=============================================================================
