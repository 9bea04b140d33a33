SPECIFICATION FairSpec
CONSTANTS
    d1 = d1
    d2 = d2
    e1 = e1
    e2 = e2
    Device = {d1}
    Nameless = {d1}
    Item = {e1, e2}
    NoItem = NoItem
    Section = 2
    SectionOf <- MCSectionOf
    PageLimit = 2
    MaxVersion <- MCThrice
INVARIANTS
    IInv
PROPERTIES
    NeverGoesBack
    CatchesUp
