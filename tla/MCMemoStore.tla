---------------------------- MODULE MCMemoStore ----------------------------
(* A small instance of MemoStore. *)
EXTENDS MemoStore, TLC

CONSTANTS h1, h2, h3, h4, m1, m2, k1, k2, t1

MCMemoOf == [k \in Key |-> m1]

MCSymmetry == Permutations(Handler)
=============================================================================
