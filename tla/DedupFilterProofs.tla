------------------------- MODULE DedupFilterProofs -------------------------
(***************************************************************************)
(* The deduplication window keeps its promise for every window size and    *)
(* every set of sequence numbers: IInv is inductive, the lower edge never  *)
(* moves back, and the window implements LateFilter.                       *)
(***************************************************************************)
EXTENDS DedupFilter, DedupWindowProofs

LEMMA WindowIsWellFormed == IInv => WellFormed(win)
BY DEF IInv, TypeOK, Unopened, Remembers, Span, WellFormed, Window

LEMMA InitEstablishesIInv == Init => IInv
<1> SUFFICES ASSUME Init PROVE IInv
  OBVIOUS
<1>1. win = New /\ accepted = {} /\ first = 0 /\ answer = [seq |-> 0, dup |-> TRUE]
  BY DEF Init
<1> QED
  BY <1>1 DEF IInv, TypeOK, Unopened, Remembers, Span, New, Window

\* One call of is_duplicate preserves the inductive invariant.
LEMMA OfferPreservesIInv ==
    ASSUME IInv, NEW seq \in Seqs, Offer(seq)
    PROVE  IInv'
<1>1. /\ seq \in Nat /\ WellFormed(win) /\ Size \in Nat \ {0}
      /\ win' = Mark(win, seq, Size)
      /\ answer' = [seq |-> seq, dup |-> IsDuplicate(win, seq)]
      /\ accepted' = IF IsDuplicate(win, seq) THEN accepted ELSE accepted \cup {seq}
      /\ first' = IF win.started THEN first ELSE seq
  BY SeqsAssumption, SizeAssumption, WindowIsWellFormed DEF Offer
<1>2. WellFormed(win')
  BY <1>1, MarkWellFormed
<1>3. answer' \in [seq : Nat, dup : BOOLEAN]
  BY <1>1 DEF IsDuplicate
<1>4. CASE ~win.started
  <2>1. /\ accepted' = {seq} /\ first' = seq
        /\ win' = [seen |-> {seq}, min_seq |-> seq, max_seq |-> seq, started |-> TRUE]
    BY <1>1, <1>4 DEF IInv, Unopened, IsDuplicate, Mark, Open
  <2> QED
    BY <1>1, <1>2, <1>3, <2>1
       DEF IInv, TypeOK, Unopened, Remembers, Span, WellFormed
<1>5. CASE win.started /\ IsDuplicate(win, seq)
  <2>1. win' = win /\ accepted' = accepted /\ first' = first
    BY <1>1, <1>5 DEF Mark
  <2> QED
    BY <1>3, <2>1 DEF IInv, TypeOK, Unopened, Remembers, Span
<1>6. CASE win.started /\ ~IsDuplicate(win, seq)
  <2>1. win' = Insert(win, seq, Size) /\ accepted' = accepted \cup {seq} /\ first' = first
    BY <1>1, <1>6 DEF Mark
  <2>2. /\ win' \in Window
        /\ win'.started
        /\ win'.min_seq >= win.min_seq
        /\ win'.seen = {s \in win.seen \cup {seq} : s >= win'.min_seq}
        /\ win'.max_seq = IF seq <= win.max_seq THEN win.max_seq ELSE seq
        /\ win'.max_seq \in win'.seen
        /\ win'.min_seq = win.min_seq \/ win'.min_seq = win'.max_seq - (Size - 1)
    BY <1>1, <1>6, <2>1, InsertFields
  <2>3. /\ win \in Window /\ win.seen = {s \in accepted : s >= win.min_seq}
        /\ accepted \subseteq Nat /\ first \in Nat /\ seq >= win.min_seq
        /\ {first, win.max_seq} \subseteq accepted
        /\ \A a \in accepted : first <= a /\ a <= win.max_seq
        /\ first <= win.min_seq /\ win.min_seq <= win.max_seq
        /\ win.min_seq = first \/ win.min_seq + Size <= win.max_seq + 1
    BY <1>1, <1>6, SeqsAssumption
       DEF IInv, TypeOK, Remembers, Span, IsDuplicate, Window
  <2>4. TypeOK'
    BY <1>3, <2>1, <2>2, <2>3 DEF IInv, TypeOK
  <2>5. Remembers'
    <3>1. win.min_seq \in Nat /\ win'.min_seq \in Nat
      BY <2>2, <2>3 DEF Window
    <3>2. /\ \A s : s \in win.seen <=> s \in accepted /\ s >= win.min_seq
          /\ \A s : s \in win'.seen <=> s \in win.seen \cup {seq} /\ s >= win'.min_seq
      BY <2>2, <2>3
    <3>3. /\ accepted' = accepted \cup {seq} /\ accepted \subseteq Nat
          /\ win'.min_seq >= win.min_seq
      BY <2>1, <2>2, <2>3
    <3>4. ASSUME NEW s \in accepted', s >= win'.min_seq PROVE s \in win'.seen
      <4>1. s \in accepted => s \in Nat /\ s >= win.min_seq
        BY <3>1, <3>3, <3>4
      <4> QED
        BY <3>2, <3>3, <3>4, <4>1
    <3>5. \A s : s \in win'.seen <=> s \in accepted' /\ s >= win'.min_seq
      BY <3>2, <3>3, <3>4
    <3>6. win'.seen = {s \in accepted' : s >= win'.min_seq}
      BY <3>5
    <3> QED
      BY <3>6 DEF Remembers
  <2>6. Span'
    <3>1. /\ win.min_seq \in Nat /\ win.max_seq \in Nat
          /\ win'.min_seq \in Nat /\ win'.max_seq \in Nat
      BY <2>2, <2>3 DEF Window
    <3>2. win'.min_seq <= win'.max_seq
      BY <2>2, <3>1
    <3>3. \A a \in accepted' : first' <= a /\ a <= win'.max_seq
      BY <1>1, <2>1, <2>2, <2>3, <3>1
    <3>4. {first', win'.max_seq} \subseteq accepted'
      BY <2>1, <2>2, <2>3
    <3>5. win'.min_seq = first' \/ win'.min_seq + Size <= win'.max_seq + 1
      BY <1>1, <2>1, <2>2, <2>3, <3>1
    <3>6. first' <= win'.min_seq
      BY <2>1, <2>2, <2>3, <3>1
    <3> QED
      BY <3>2, <3>3, <3>4, <3>5, <3>6, Zenon DEF Span
  <2>7. Unopened'
    BY <2>2 DEF Unopened
  <2> QED
    BY <2>4, <2>5, <2>6, <2>7 DEF IInv
<1> QED
  BY <1>4, <1>5, <1>6

\* The window remembers exactly what it must, in every reachable state.
THEOREM IInvHolds == Spec => []IInv
<1>1. IInv /\ [Next]_vars => IInv'
  <2> SUFFICES ASSUME IInv, [Next]_vars PROVE IInv'
    OBVIOUS
  <2>1. CASE Next
    BY <2>1, OfferPreservesIInv DEF Next
  <2>2. CASE UNCHANGED vars
    BY <2>2 DEF vars, IInv, TypeOK, Unopened, Remembers, Span
  <2> QED
    BY <2>1, <2>2
<1> QED
  BY <1>1, InitEstablishesIInv, PTL DEF Spec

\* The lower edge of a window never moves back.
THEOREM EdgeNeverMovesBack == Spec => LowerEdgeAdvances
<1>1. IInv /\ [Next]_vars => [win.started => win'.min_seq >= win.min_seq]_vars
  <2> SUFFICES ASSUME IInv, NEW seq \in Seqs, Offer(seq), win.started
               PROVE  win'.min_seq >= win.min_seq
    BY DEF Next
  <2>1. /\ seq \in Nat /\ WellFormed(win) /\ Size \in Nat \ {0}
        /\ win' = Mark(win, seq, Size) /\ win.min_seq \in Nat
    BY SeqsAssumption, SizeAssumption, WindowIsWellFormed
       DEF Offer, WellFormed, Window
  <2>2. CASE IsDuplicate(win, seq)
    BY <2>1, <2>2 DEF Mark
  <2>3. CASE ~IsDuplicate(win, seq)
    <3>1. win' = Insert(win, seq, Size)
      BY <2>1, <2>3 DEF Mark
    <3> QED
      BY <2>1, <2>3, <3>1, InsertFields
  <2> QED
    BY <2>2, <2>3
<1> QED
  BY <1>1, IInvHolds, PTL DEF Spec, LowerEdgeAdvances

\* Every call of is_duplicate is a step of the abstract filter.
LEMMA OfferIsAcceptOrRefuse ==
    ASSUME IInv, NEW seq \in Seqs, Offer(seq)
    PROVE  Abstract!Accept(seq) \/ Abstract!Refuse(seq)
<1>1. /\ seq \in Nat /\ Size \in Nat \ {0} /\ win \in Window /\ win.min_seq \in Nat
      /\ accepted \subseteq Nat /\ first \in Nat
      /\ answer' = [seq |-> seq, dup |-> IsDuplicate(win, seq)]
      /\ accepted' = IF IsDuplicate(win, seq) THEN accepted ELSE accepted \cup {seq}
      /\ first' = IF win.started THEN first ELSE seq
  BY SeqsAssumption, SizeAssumption DEF IInv, TypeOK, Window, Offer
<1>2. win.started <=> accepted # {}
  BY DEF IInv, Unopened, Span
<1>3. CASE ~IsDuplicate(win, seq)
  <2>1. seq \notin accepted
    BY <1>1, <1>2, <1>3 DEF IInv, Remembers, IsDuplicate
  <2>2. (IsDuplicate(win, seq)) = FALSE
    BY <1>3 DEF IsDuplicate
  <2> QED
    BY <1>1, <1>2, <2>1, <2>2 DEF Abstract!Accept
<1>4. CASE IsDuplicate(win, seq)
  <2>1. accepted # {} /\ accepted' = accepted /\ first' = first
    BY <1>1, <1>2, <1>4 DEF IsDuplicate
  <2>2. (IsDuplicate(win, seq)) = TRUE
    BY <1>4 DEF IsDuplicate
  <2>3. seq \in accepted \/ Abstract!TooLate(seq)
    <3>1. CASE seq \in win.seen
      BY <1>4, <3>1 DEF IsDuplicate, IInv, Remembers
    <3>2. CASE seq < win.min_seq
      <4>1. win.max_seq \in accepted /\ win.max_seq \in Nat
        BY <1>1, <1>4 DEF IsDuplicate, IInv, Span
      <4>2. seq < first \/ seq + Size <= win.max_seq
        BY <1>1, <1>4, <3>2, <4>1 DEF IsDuplicate, IInv, Span
      <4> QED
        BY <4>1, <4>2 DEF Abstract!TooLate
    <3> QED
      BY <1>4, <3>1, <3>2 DEF IsDuplicate
  <2> QED
    BY <1>1, <2>1, <2>2, <2>3 DEF Abstract!Refuse
<1> QED
  BY <1>3, <1>4

\* The window implements the abstract filter, for every size.
THEOREM WindowImplementsLateFilter == Spec => ImplementsLateFilter
<1>1. Init => Abstract!Init
  BY DEF Init, Abstract!Init
<1>2. IInv /\ [Next]_vars => [Abstract!Next]_(Abstract!vars)
  <2> SUFFICES ASSUME IInv, [Next]_vars PROVE [Abstract!Next]_(Abstract!vars)
    OBVIOUS
  <2>1. CASE Next
    <3>1. PICK seq \in Seqs : Offer(seq)
      BY <2>1 DEF Next
    <3> QED
      BY <3>1, OfferIsAcceptOrRefuse DEF Abstract!Next
  <2>2. CASE UNCHANGED vars
    BY <2>2 DEF vars, Abstract!vars
  <2> QED
    BY <2>1, <2>2
<1> QED
  BY <1>1, <1>2, IInvHolds, PTL DEF Spec, ImplementsLateFilter, Abstract!Spec

\* In every state a session's window can be in, and for every number that may
\* come next, the Go server's window (server.go, IsDuplicate) leaves what the Rust
\* one leaves: the unguarded subtraction of its slide never wraps.
THEOREM GoWindowIsTheSame == Spec => []GoWindowAgrees
<1>1. IInv => GoWindowAgrees
  BY WindowIsWellFormed, GoMarkSame, SeqsAssumption, SizeAssumption DEF GoWindowAgrees
<1> QED
  BY <1>1, IInvHolds, PTL

=============================================================================
