----------------------------- MODULE MCSyncPush -----------------------------
(* Small instances of SyncPush: operations on one todo, on a memo the device *)
(* knows, and on memos it creates.                                           *)
EXTENDS SyncPush, TLC

CONSTANTS p1, p2, p3, t1, m1,
    new, edit, blind, trash, restore, bare,          \* operations on the todo
    write, rewrite, drop, note, empty, odd,          \* on memos
    othersEdit, othersTrash, othersPurge

MCOpOf == [i \in Item |->
    CASE i = new -> "todo.create"
      [] i \in {edit, blind, bare, othersEdit} -> "todo.update"
      [] i \in {trash, othersTrash} -> "todo.delete"
      [] i = restore -> "todo.restore"
      [] i = othersPurge -> "todo.purge"
      [] i = note -> "memo.create"
      [] i \in {write, rewrite, empty} -> "memo.update"
      [] i = drop -> "memo.delete"
      [] i = odd -> "unknown"]

MCTargetOf == [i \in Item |->
    IF i \in {write, rewrite, drop, note, empty, odd} THEN m1 ELSE t1]

MCBaseOf == [i \in Item |-> CASE i \in {edit, write} -> 1
                              [] i \in {trash, restore} -> 2
                              [] OTHER -> 0]

\* Queues of a device: it makes a todo and edits and trashes it; or edits it without a
\* base; or takes it back; it writes memos; it sends what the server cannot take.
MCOutboxes == { <<new, edit, trash>>, <<new, blind>>, <<new, restore>>, <<new, bare>>,
                <<note, write>>, <<drop, odd>>, <<empty, rewrite>> }
MCNotes == { <<note>> }

MCSymmetry == Permutations(Call)
=============================================================================
