----------------------------- MODULE EditLedger -----------------------------
(***************************************************************************)
(* What the memo store promises its clients, without locks, revisions,     *)
(* etags or steps: a memo is a ledger of edits.  An edit is added at the   *)
(* end of what is there, in one step, or not at all; the operation a key   *)
(* names takes effect once while the key is kept; an acknowledgement comes *)
(* after the effect.                                                       *)
(***************************************************************************)
EXTENDS Naturals, Sequences

CONSTANTS Memo, Key, EditKey, NoKey, MemoOf

VARIABLES
    presence,  \* of each memo
    ledger,    \* the edits in each memo
    used,      \* what became of each key
    acked      \* the keys whose operation a client was told is done

vars == <<presence, ledger, used, acked>>

Init ==
    /\ presence = [m \in Memo |-> "absent"]
    /\ ledger = [m \in Memo |-> << >>]
    /\ used = [k \in Key |-> "unused"]
    /\ acked = {}

\* A memo begins with text of no keyed edit.
Create(m) ==
    /\ presence[m] = "absent"
    /\ presence' = [presence EXCEPT ![m] = "present"]
    /\ ledger'[m] \in Seq({NoKey})
    /\ ledger' = [ledger EXCEPT ![m] = ledger'[m]]
    /\ UNCHANGED <<used, acked>>

Apply(k) ==
    /\ presence[MemoOf[k]] = "present"
    /\ used[k] = "unused"
    /\ used' = [used EXCEPT ![k] = "live"]
    /\ ledger' = IF k \in EditKey
                 THEN [ledger EXCEPT ![MemoOf[k]] = Append(@, k)]
                 ELSE ledger
    /\ UNCHANGED <<presence, acked>>

\* A key used again after its retention names a new operation, and is not kept.
Reapply(k) ==
    /\ k \in EditKey
    /\ presence[MemoOf[k]] = "present"
    /\ used[k] = "expired"
    /\ ledger' = [ledger EXCEPT ![MemoOf[k]] = Append(@, k)]
    /\ UNCHANGED <<presence, used, acked>>

Acknowledge(k) ==
    /\ used[k] # "unused"
    /\ acked' = acked \union {k}
    /\ UNCHANGED <<presence, ledger, used>>

Expire(k) ==
    /\ used[k] = "live"
    /\ used' = [used EXCEPT ![k] = "expired"]
    /\ UNCHANGED <<presence, ledger, acked>>

Purge(m) ==
    /\ presence[m] = "present"
    /\ presence' = [presence EXCEPT ![m] = "purged"]
    /\ ledger' = [ledger EXCEPT ![m] = << >>]
    /\ UNCHANGED <<used, acked>>

Next ==
    \/ \E m \in Memo : Create(m) \/ Purge(m)
    \/ \E k \in Key : Apply(k) \/ Reapply(k) \/ Acknowledge(k) \/ Expire(k)

Spec == Init /\ [][Next]_vars
=============================================================================
