----------------------------- MODULE MCContents -----------------------------
(* A small instance of Contents: a large and a small text, a memo in each of *)
(* two workspaces and one to be made.                                        *)
EXTENDS Contents, TLC

CONSTANTS c1, c2, c3, c4, m1, m2, m3, big, small, s1, s2

MCFirst == [m \in {m1, m2} |-> small]

MCSpaceOf == [m \in Memo |-> IF m = m2 THEN s2 ELSE s1]

\* Two calls that put texts, one that takes an old one up again, one of everything else.
MCOpsOf == [c \in Call |->
    CASE c \in {c1, c2} -> {"upload", "save"}
      [] c = c3         -> {"reuse", "revert"}
      [] c = c4         -> {"create", "purge", "read"}]

MCSymmetry == Permutations({c1, c2})
=============================================================================
