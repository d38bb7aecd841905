SPECIFICATION Spec
CONSTANTS
    Seqs = {0, 1, 2, 3, 4, 5, 6, 7}
    Size = 3
    SeqSpan = 8
INVARIANT IInv
INVARIANT GoWindowAgrees
PROPERTY ImplementsLateFilter
PROPERTY LowerEdgeAdvances
