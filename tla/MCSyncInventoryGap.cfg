SPECIFICATION Spec
CONSTANTS
    d1 = d1
    d2 = d2
    e1 = e1
    e2 = e2
    Device = {d1}
    Nameless = {}
    Item = {e1, e2}
    NoItem = NoItem
    Section = 2
    SectionOf <- MCSectionOf
    PageLimit = 1
    MaxVersion <- MCOnce
INVARIANTS
    NothingSkipped
