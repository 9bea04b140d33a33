---------------------------- MODULE MCWorkspace ----------------------------
(* A small instance of Workspace: the Inbox and two notebooks, two memos,   *)
(* one notebook and one memo to be made.                                    *)
EXTENDS Workspace, TLC

CONSTANTS c1, c2, c3, n0, n1, n2, m1, m2, m3

MCGiven == <<n0, n1>>

\* One call on notebooks, one that puts memos into them, one on memos or notebooks.
MCOpsOf == [c \in Call |->
    CASE c = c1 -> {"insert", "rename", "delete", "reorder"}
      [] c = c2 -> {"create", "move", "merge", "restore"}
      [] c = c3 -> {"edit", "file", "trash", "purge", "insert", "reorder"}]

MCSymmetry == Permutations(Kept)
=============================================================================
