------------------------- MODULE DedupWindowProofs -------------------------
(***************************************************************************)
(* Facts about one call of is_duplicate, for every window the program can  *)
(* hold, every sequence number and every window size.  The proofs of the   *)
(* filter and of the server rest on them.                                  *)
(***************************************************************************)
EXTENDS DedupWindow, FiniteSetTheorems, TLAPS

\* A set of numbers between two edges is no larger than their distance.
LEMMA IntervalBound ==
    ASSUME NEW lo \in Nat, NEW hi \in Nat, NEW S, S \subseteq lo..hi, S # {}
    PROVE  /\ IsFiniteSet(S)
           /\ Cardinality(S) \in Nat
           /\ Cardinality(S) <= hi - lo + 1
<1>1. lo <= hi
  <2>1. PICK x \in S : x \in lo..hi
    OBVIOUS
  <2> QED
    BY <2>1
<1>2. IsFiniteSet(lo..hi) /\ Cardinality(lo..hi) = hi - lo + 1
  BY <1>1, FS_Interval
<1>3. IsFiniteSet(S) /\ Cardinality(S) <= Cardinality(lo..hi)
  BY <1>2, FS_Subset
<1> QED
  BY <1>2, <1>3, FS_CardinalityType

\* The window that is_duplicate hands to the retain step holds more numbers
\* than its size, so saturating_sub is a plain subtraction and the new lower
\* edge lies above the old one.
LEMMA SlideAdvances ==
    ASSUME NEW w \in Window, NEW size \in Nat \ {0},
           w.seen \subseteq w.min_seq..w.max_seq, w.max_seq \in w.seen,
           Cardinality(w.seen) > size
    PROVE  /\ SaturatingSub(w.max_seq, size - 1) = w.max_seq - (size - 1)
           /\ w.max_seq - (size - 1) > w.min_seq
           /\ w.max_seq - (size - 1) \in Nat
<1>1. w.min_seq \in Nat /\ w.max_seq \in Nat
  BY DEF Window
<1>2. /\ Cardinality(w.seen) \in Nat
      /\ Cardinality(w.seen) <= w.max_seq - w.min_seq + 1
  BY <1>1, IntervalBound
<1> QED
  BY <1>1, <1>2 DEF SaturatingSub

\* The fields of the window after a number that is new was recorded.
LEMMA InsertFields ==
    ASSUME NEW w, WellFormed(w), w.started, NEW seq \in Nat,
           NEW size \in Nat \ {0}, ~IsDuplicate(w, seq), NEW n,
           n = Insert(w, seq, size)
    PROVE  /\ n \in Window
           /\ n.started
           /\ n.min_seq >= w.min_seq
           /\ n.seen = {s \in w.seen \cup {seq} : s >= n.min_seq}
           /\ n.max_seq = IF seq <= w.max_seq THEN w.max_seq ELSE seq
           /\ n.max_seq \in n.seen
           /\ n.min_seq = w.min_seq \/ n.min_seq = n.max_seq - (size - 1)
<1>1. /\ w \in Window /\ w.min_seq \in Nat /\ w.max_seq \in Nat
      /\ w.seen \subseteq w.min_seq..w.max_seq /\ w.max_seq \in w.seen
      /\ w.seen \subseteq Nat
      /\ seq >= w.min_seq
  BY DEF WellFormed, Window, IsDuplicate
<1>2. CASE seq <= w.max_seq
  <2>1. n = [w EXCEPT !.seen = w.seen \cup {seq}]
    BY <1>2 DEF Insert
  <2>2. /\ n \in Window /\ n.started /\ n.seen = w.seen \cup {seq}
        /\ n.min_seq = w.min_seq /\ n.max_seq = w.max_seq
    BY <1>1, <2>1 DEF Window
  <2> QED
    BY <1>1, <1>2, <2>2
<1>3. CASE seq > w.max_seq
  <2>1. PICK top : top = [[w EXCEPT !.seen = w.seen \cup {seq}] EXCEPT !.max_seq = seq]
    OBVIOUS
  <2>2. /\ top \in Window /\ top.started /\ top.max_seq = seq
        /\ top.min_seq = w.min_seq /\ top.seen = w.seen \cup {seq}
    BY <1>1, <2>1 DEF Window
  <2>3. top.seen \subseteq top.min_seq..top.max_seq
    BY <1>1, <1>3, <2>2
  <2>4. n = IF Cardinality(top.seen) > size THEN Slide(top, size) ELSE top
    BY <1>1, <1>3, <2>1 DEF Insert
  <2>5. CASE Cardinality(top.seen) > size
    <3>1. /\ SaturatingSub(top.max_seq, size - 1) = seq - (size - 1)
          /\ seq - (size - 1) > w.min_seq
          /\ seq - (size - 1) \in Nat
      BY <2>2, <2>3, <2>5, SlideAdvances
    <3>2. n = [top EXCEPT !.seen = {s \in top.seen : s >= seq - (size - 1)},
                          !.min_seq = seq - (size - 1)]
      BY <2>4, <2>5, <3>1 DEF Slide
    <3>3. /\ n \in Window /\ n.started /\ n.max_seq = seq
          /\ n.min_seq = seq - (size - 1)
          /\ n.seen = {s \in w.seen \cup {seq} : s >= seq - (size - 1)}
      BY <2>2, <3>1, <3>2 DEF Window
    <3> QED
      BY <1>1, <1>3, <3>1, <3>3
  <2>6. CASE ~(Cardinality(top.seen) > size)
    <3>1. n = top
      BY <2>4, <2>6
    <3>2. w.seen \cup {seq} = {s \in w.seen \cup {seq} : s >= w.min_seq}
      BY <1>1
    <3> QED
      BY <1>1, <1>3, <2>2, <3>1, <3>2
  <2> QED
    BY <2>5, <2>6
<1> QED
  BY <1>1, <1>2, <1>3

\* A window stays well formed.
LEMMA MarkWellFormed ==
    ASSUME NEW w, WellFormed(w), NEW seq \in Nat, NEW size \in Nat \ {0}
    PROVE  WellFormed(Mark(w, seq, size))
<1>1. CASE ~w.started
  BY <1>1 DEF Mark, Open, WellFormed, Window
<1>2. CASE w.started /\ IsDuplicate(w, seq)
  BY <1>2 DEF Mark
<1>3. CASE w.started /\ ~IsDuplicate(w, seq)
  <2>0. PICK n : n = Insert(w, seq, size)
    OBVIOUS
  <2>1. Mark(w, seq, size) = n
    BY <2>0, <1>3 DEF Mark
  <2>2. /\ n \in Window /\ n.started
        /\ n.seen = {s \in w.seen \cup {seq} : s >= n.min_seq}
        /\ n.max_seq = IF seq <= w.max_seq THEN w.max_seq ELSE seq
        /\ n.max_seq \in n.seen
    BY <2>0, <1>3, InsertFields
  <2>3. \A s \in n.seen : n.min_seq <= s /\ s <= n.max_seq /\ s \in Nat
    BY <1>3, <2>2 DEF WellFormed, Window
  <2> QED
    BY <2>1, <2>2, <2>3 DEF WellFormed, Window
<1> QED
  BY <1>1, <1>2, <1>3

\* is_duplicate(seq) answers TRUE to every later call with the same number.
LEMMA MarkRecords ==
    ASSUME NEW w, WellFormed(w), NEW seq \in Nat, NEW size \in Nat \ {0}
    PROVE  IsDuplicate(Mark(w, seq, size), seq)
<1>1. CASE ~w.started
  BY <1>1 DEF Mark, Open, IsDuplicate
<1>2. CASE w.started /\ IsDuplicate(w, seq)
  BY <1>2 DEF Mark
<1>3. CASE w.started /\ ~IsDuplicate(w, seq)
  <2>0. PICK n : n = Insert(w, seq, size)
    OBVIOUS
  <2>1. Mark(w, seq, size) = n
    BY <2>0, <1>3 DEF Mark
  <2>2. n.started /\ n \in Window /\ n.seen = {s \in w.seen \cup {seq} : s >= n.min_seq}
    BY <2>0, <1>3, InsertFields
  <2> QED
    BY <2>1, <2>2 DEF IsDuplicate, Window
<1> QED
  BY <1>1, <1>2, <1>3

\* A number that is refused once is refused for good, whatever arrives later.
LEMMA DuplicateStable ==
    ASSUME NEW w, WellFormed(w), NEW seq \in Nat, NEW size \in Nat \ {0},
           NEW q \in Nat, IsDuplicate(w, q)
    PROVE  IsDuplicate(Mark(w, seq, size), q)
<1>1. w.started
  BY DEF IsDuplicate
<1>2. CASE IsDuplicate(w, seq)
  BY <1>1, <1>2 DEF Mark
<1>3. CASE ~IsDuplicate(w, seq)
  <2>0. PICK n : n = Insert(w, seq, size)
    OBVIOUS
  <2>1. Mark(w, seq, size) = n
    BY <2>0, <1>1, <1>3 DEF Mark
  <2>2. /\ n.started /\ n \in Window /\ n.min_seq >= w.min_seq
        /\ n.seen = {s \in w.seen \cup {seq} : s >= n.min_seq}
    BY <2>0, <1>1, <1>3, InsertFields
  <2> QED
    BY <2>1, <2>2 DEF IsDuplicate, WellFormed, Window
<1> QED
  BY <1>2, <1>3

\* The Go window does the same: when it slides it holds more numbers than its
\* size, so its newest number is at least its size and nothing wraps.
LEMMA GoMarkSame ==
    ASSUME NEW w, WellFormed(w), NEW mod \in Nat \ {0}, NEW seq \in 0..(mod - 1),
           NEW size \in Nat \ {0}
    PROVE  GoMark(w, seq, size, mod) = Mark(w, seq, size)
<1>1. CASE ~w.started \/ IsDuplicate(w, seq)
  BY <1>1 DEF Mark, GoMark
<1>2. CASE w.started /\ ~IsDuplicate(w, seq)
  <2>1. GoMark(w, seq, size, mod) = GoInsert(w, seq, size, mod)
        /\ Mark(w, seq, size) = Insert(w, seq, size)
    BY <1>2 DEF Mark, GoMark
  <2>2. PICK top : top = [[w EXCEPT !.seen = w.seen \cup {seq}] EXCEPT !.max_seq = seq]
    OBVIOUS
  <2>3. CASE seq > w.max_seq /\ Cardinality(top.seen) > size
    <3>1. /\ w \in Window /\ w.seen \subseteq w.min_seq..w.max_seq
          /\ w.min_seq \in Nat /\ w.max_seq \in Nat /\ seq \in Nat /\ seq >= w.min_seq
      BY <1>2 DEF WellFormed, Window, IsDuplicate
    <3>2. /\ top \in Window /\ top.max_seq = seq /\ top.min_seq = w.min_seq
          /\ top.seen = w.seen \cup {seq}
      BY <2>2, <3>1 DEF Window
    <3>5. top.max_seq \in top.seen /\ top.seen \subseteq top.min_seq..top.max_seq
      BY <2>3, <3>1, <3>2
    <3>3. /\ SaturatingSub(top.max_seq, size - 1) = seq - (size - 1)
          /\ seq - (size - 1) \in Nat
      BY <2>3, <3>2, <3>5, SlideAdvances
    <3>4. (top.max_seq - size + 1) % mod = SaturatingSub(top.max_seq, size - 1)
      <4>1. top.max_seq - size + 1 = seq - (size - 1) /\ seq - (size - 1) < mod
        BY <3>1, <3>2
      <4> QED
        BY <3>3, <4>1
    <3>6. Slide(top, size) = GoSlide(top, size, mod)
      BY <3>4 DEF Slide, GoSlide
    <3> QED
      BY <2>1, <2>2, <3>6 DEF Insert, GoInsert
  <2> QED
    BY <2>1, <2>2, <2>3, <1>2 DEF Insert, GoInsert, WellFormed, Window
<1> QED
  BY <1>1, <1>2

=============================================================================
