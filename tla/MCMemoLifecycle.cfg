SPECIFICATION FairSpec
CONSTANTS
    h1 = h1
    h2 = h2
    h3 = h3
    h4 = h4
    m1 = m1
    m2 = m2
    k1 = k1
    k2 = k2
    t1 = t1
    Handler = {h1, h2, h3}
    NoHandler = NoHandler
    Memo = {m1}
    Key = {k1, t1}
    EditKey = {k1}
    NoKey = NoKey
    MemoOf <- MCMemoOf
    InlineThreshold = 1
    Ops = {"create", "edit", "tag", "trash", "purge", "restore", "lease"}
INVARIANTS
    IInv
PROPERTIES
    ImplementsLedger
    PurgeIsFinal
    EveryRequestEnds
