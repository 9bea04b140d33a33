SPECIFICATION Spec
CONSTANTS
    c1 = c1
    c2 = c2
    c3 = c3
    c4 = c4
    m1 = m1
    m2 = m2
    m3 = m3
    big = big
    small = small
    s1 = s1
    s2 = s2
    Call = {c1, c2, c3, c4}
    NoCall = NoCall
    Text = {big, small}
    NoText = NoText
    Cut = Cut
    Large = {big}
    Memo = {m1, m2, m3}
    NoMemo = NoMemo
    First <- MCFirst
    Space = {s1, s2}
    SpaceOf <- MCSpaceOf
    OpsOf <- MCOpsOf
INVARIANTS
    TypeOK
    StoredWhole
    CountCoversReferrers
    OneResource
    FoundIfReferred
    OwnTexts
SYMMETRY MCSymmetry
