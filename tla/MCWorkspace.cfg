SPECIFICATION Spec
CONSTANTS
    c1 = c1
    c2 = c2
    c3 = c3
    n0 = n0
    n1 = n1
    n2 = n2
    m1 = m1
    m2 = m2
    m3 = m3
    Call = {c1, c2, c3}
    NoCall = NoCall
    Notebook = {n0, n1, n2}
    Memo = {m1, m2, m3}
    Root = Root
    NoMemo = NoMemo
    Given <- MCGiven
    Kept = {m1, m2}
    OpsOf <- MCOpsOf
INVARIANTS
    TypeOK
    HomeIsKept
    PlacesDiffer
    MergeKeepsText
    OnlyMergeIsSilent
SYMMETRY MCSymmetry
