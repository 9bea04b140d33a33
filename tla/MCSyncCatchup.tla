--------------------------- MODULE MCSyncCatchup ---------------------------
(* A small instance of SyncCatchup. *)
EXTENDS SyncCatchup, TLC

CONSTANTS d1, d2, e1, e2

\* A notebook and a memo, or two memos of one page of the inventory.
MCSectionOf == [e \in Item |-> IF e = e1 THEN 1 ELSE 2]
MCOneSection == [e \in Item |-> 1]

\* Bounds on changes: one of each item, or three in all.
MCOnce == [e \in Item |-> 1]
MCThrice == [e \in Item |-> IF e = e1 THEN 2 ELSE 1]

\* Devices are alike, and so are items read by one statement and changed as often.
MCSymmetry == Permutations(Device) \union Permutations(Item)
=============================================================================
