SPECIFICATION Spec
CONSTANTS
    p1 = p1
    p2 = p2
    p3 = p3
    t1 = t1
    m1 = m1
    new = new
    edit = edit
    blind = blind
    trash = trash
    restore = restore
    bare = bare
    write = write
    rewrite = rewrite
    drop = drop
    note = note
    empty = empty
    odd = odd
    othersEdit = othersEdit
    othersTrash = othersTrash
    othersPurge = othersPurge
    Call = {p1, p2}
    NoCall = NoCall
    Item = {new, edit, blind, trash, restore, bare, write, rewrite, drop, note, empty, odd, othersEdit, othersTrash, othersPurge}
    Outboxes <- MCNotes
    Elsewhere = {othersEdit, othersTrash, othersPurge}
    Named = {new, edit, trash, restore, bare, write, rewrite, drop, note, empty, odd}
    Malformed = {bare, empty}
    Failing = {restore, note, blind}
    Todo = {t1}
    Memo = {m1}
    OpOf <- MCOpOf
    TargetOf <- MCTargetOf
    BaseOf <- MCBaseOf
INVARIANTS
    OperationOnce
