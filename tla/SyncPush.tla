------------------------------ MODULE SyncPush ------------------------------
(***************************************************************************)
(* The offline queue: POST /sync/push of routes/sync_routes.rs and the     *)
(* todos of crates/store/src/todos.rs it works on.                         *)
(*                                                                         *)
(* A device queues operations while it is offline and sends them as a      *)
(* batch.  The server takes them one by one: it looks the operation up in  *)
(* sync_operations, applies it, and stores its result.  These are separate *)
(* steps, the look-up and the store without the write lock, so a repeated  *)
(* batch may run beside the first one, or after one that was dropped       *)
(* between two steps.  Other clients change todos meanwhile.               *)
(*                                                                         *)
(* An operation is a model value; what it does is given by OpOf, TargetOf  *)
(* and BaseOf.  Of a row only its state and revision are kept: the etag of *)
(* a todo is made of its revision and id and says nothing more.  A save of *)
(* a memo, with its steps, is MemoStore's; here it is one step.            *)
(***************************************************************************)
EXTENDS Naturals, Sequences, SequencesExt

CONSTANTS
    Call,        \* requests: pushes of the device, REST calls of others
    NoCall,
    Item,        \* operations
    Outboxes,    \* the queues the device may have: sequences of operations
    Elsewhere,   \* the operations other clients call through REST
    Named,       \* the operations with a client_op_id
    Malformed,   \* the operations that lack their payload
    Failing,     \* a bound: the operations a statement of which may fail
    Todo, Memo,
    OpOf,        \* what an operation does
    TargetOf,    \* to which todo or memo
    BaseOf       \* the revision it says it replaces; 0: it does not say

TodoOps == {"todo.create", "todo.update", "todo.delete", "todo.restore", "todo.purge"}
MemoOps == {"memo.create", "memo.update", "memo.delete"}

ASSUME SyncPushAssumption ==
    /\ NoCall \notin Call
    /\ Outboxes \subseteq Seq(Item)
    /\ Elsewhere \subseteq Item
    /\ \A box \in Outboxes : ToSet(box) \intersect Elsewhere = {} /\ IsInjective(box)
    /\ Named \subseteq Item /\ Malformed \subseteq Item /\ Failing \subseteq Item
    /\ OpOf \in [Item -> TodoOps \union MemoOps \union {"unknown"}]
    /\ TargetOf \in [Item -> Todo \union Memo]
    /\ BaseOf \in [Item -> Nat]
    /\ \A i \in Item : /\ OpOf[i] \in TodoOps => TargetOf[i] \in Todo
                       /\ OpOf[i] \in MemoOps => TargetOf[i] \in Memo

\* "A sync retry reuses the client-generated id" (todos.rs:251): only the operation that
\* makes a todo, and its repetitions, carry that todo's id; no client draws it again.
ASSUME DrawnOnce ==
    \A i, j \in Item :
        OpOf[i] = "todo.create" /\ OpOf[j] = "todo.create" /\ TargetOf[i] = TargetOf[j]
        => i = j

VARIABLES
    outbox,      \* what the device has queued
    todos,       \* table todos
    memos,       \* table memos: the memos the device already knows
    keys,        \* table idempotency_keys
    recorded,    \* table sync_operations
    writer,      \* holder of Db.write
    pc, queue,   \* the step a call is at, the operations it has before it
    results,     \* the results a push has gathered
    reply,       \* what a call has answered
    history,     \* history: the operations in the order they took effect
    told,        \* history: the operations with a row in sync_changes
    torn,        \* history: operations whose call was dropped, or failed, half way
    overlapped   \* history: operations two pushes worked on at a time

tables == <<todos, memos, keys, recorded>>
ghosts == <<told, torn, overlapped>>
vars == <<outbox, tables, writer, pc, queue, results, reply, history, ghosts>>

-----------------------------------------------------------------------------
(* Values. *)

TodoRow == [state : {"absent", "live", "trashed"}, revision : Nat]
MemoRow == [state : {"live", "trashed"}, revision : Nat]

Step == {"idle", "load", "apply", "append", "record", "done"}
Refusal == {"not_found", "conflict", "invalid", "precondition_failed", "internal"}
Code == Refusal \union {"none", "ok"}

Current(p) == Head(queue[p])
At(p, step) == pc[p] = step /\ queue[p] # << >>
Queued == ToSet(outbox)

-----------------------------------------------------------------------------
Init ==
    /\ outbox \in Outboxes
    /\ todos = [t \in Todo |-> [state |-> "absent", revision |-> 0]]
    /\ memos = [m \in Memo |-> [state |-> "live", revision |-> 1]]
    /\ keys = {}
    /\ recorded = {}
    /\ writer = NoCall
    /\ pc = [p \in Call |-> "idle"]
    /\ queue = [p \in Call |-> << >>]
    /\ results = [p \in Call |-> [i \in Item |-> "none"]]
    /\ reply = [p \in Call |-> "none"]
    /\ history = << >>
    /\ told = {}
    /\ torn = {}
    /\ overlapped = {}

-----------------------------------------------------------------------------
(* Requests arrive. *)

Start(p, items, step) ==
    /\ queue' = [queue EXCEPT ![p] = items]
    /\ pc' = [pc EXCEPT ![p] = step]
    /\ UNCHANGED <<outbox, tables, writer, results, reply, history, ghosts>>

Answered(i) == \E p \in Call : reply[p] = "results" /\ results[p][i] # "none"

Confirmed(i) == \E p \in Call : reply[p] = "results" /\ results[p][i] = "ok"

\* The device sends its queue, or the first part of it, from the first operation it
\* has no answer for, or from one that was refused.  An earlier push of the same may
\* still be running.
RequestPush(p) ==
    \E first \in DOMAIN outbox : \E end \in first .. Len(outbox) :
        /\ ~Confirmed(outbox[first])
        /\ \A n \in 1 .. first - 1 : Answered(outbox[n])
        /\ Start(p, SubSeq(outbox, first, end), "load")

\* Another client calls one of the todo routes.
RequestRest(p) == \E i \in Elsewhere : Start(p, <<i>>, "apply")

-----------------------------------------------------------------------------
(* One operation of a batch. *)

\* A push has the result of its current operation and goes on to the next; a REST
\* call answers.
Settle(p, code) ==
    /\ results' = [results EXCEPT ![p][Current(p)] = code]
    /\ queue' = [queue EXCEPT ![p] = Tail(@)]
    /\ IF Current(p) \in Queued
       THEN pc' = [pc EXCEPT ![p] = "load"] /\ UNCHANGED reply
       ELSE /\ pc' = [pc EXCEPT ![p] = "done"]
            /\ reply' = [reply EXCEPT ![p] = "results"]

Busy(i) == \E q \in Call : /\ pc[q] \in {"apply", "append", "record"}
                           /\ Current(q) = i

\* load_push_result: a stored result is the answer, and nothing is applied.
LoadPushResult(p) ==
    /\ At(p, "load")
    /\ UNCHANGED <<outbox, tables, writer, history, told, torn>>
    /\ \/ /\ Current(p) \in Named \intersect recorded
          /\ Settle(p, "ok")
          /\ UNCHANGED overlapped
       \/ /\ Current(p) \notin Named \intersect recorded
          /\ pc' = [pc EXCEPT ![p] = "apply"]
          /\ overlapped' = IF Busy(Current(p)) THEN overlapped \union {Current(p)}
                           ELSE overlapped
          /\ UNCHANGED <<queue, results, reply>>

\* A todo operation without its payload ends the whole request with an error: what
\* the earlier operations did stays, their results are not sent.
AbortBatch(p) ==
    /\ At(p, "apply")
    /\ Current(p) \in Malformed /\ OpOf[Current(p)] \in TodoOps
    /\ pc' = [pc EXCEPT ![p] = "done"]
    /\ queue' = [queue EXCEPT ![p] = << >>]
    /\ reply' = [reply EXCEPT ![p] = "error"]
    /\ UNCHANGED <<outbox, tables, writer, results, history, ghosts>>

\* An operation the server does not know, or on a memo without its payload.
RefuseMalformed(p) ==
    /\ At(p, "apply")
    /\ \/ OpOf[Current(p)] = "unknown"
       \/ Current(p) \in Malformed /\ OpOf[Current(p)] \in MemoOps
    /\ Settle(p, "invalid")
    /\ UNCHANGED <<outbox, tables, writer, history, ghosts>>

WellFormed(i) == i \notin Malformed /\ OpOf[i] # "unknown"

Based(i, row) == BaseOf[i] = 0 \/ BaseOf[i] = row.revision

\* Mutant of TodoVerdict: the revision is not compared.
TodoVerdictBlind(i) ==
    LET row == todos[TargetOf[i]]
        op == OpOf[i]
    IN
    IF op = "todo.create" THEN (IF row.state = "absent" THEN "ok" ELSE "exists")
    ELSE IF row.state = "absent" THEN "not_found"
    ELSE IF op \in {"todo.update", "todo.delete"} /\ row.state # "live" THEN "not_found"
    ELSE IF op \in {"todo.restore", "todo.purge"} /\ row.state # "trashed" THEN "invalid"
    ELSE "ok"

\* What a todo operation decides under the lock, each in the order of its code.
TodoVerdict(i) ==
    LET row == todos[TargetOf[i]]
        op == OpOf[i]
    IN
    IF op = "todo.create" THEN (IF row.state = "absent" THEN "ok" ELSE "exists")
    ELSE IF row.state = "absent" THEN "not_found"
    ELSE IF op \in {"todo.update", "todo.delete"} /\ row.state # "live" THEN "not_found"
    ELSE IF op = "todo.restore" /\ row.state # "trashed" THEN "invalid"
    ELSE IF ~Based(i, row) THEN "conflict"
    ELSE IF op = "todo.purge" /\ row.state # "trashed" THEN "invalid"
    ELSE "ok"

\* A save is known by its idempotency key; delete succeeds whatever it finds, and
\* create draws an id of its own each time.
MemoVerdict(i) ==
    IF OpOf[i] # "memo.update" THEN "ok"
    ELSE IF i \in keys THEN "exists"
    ELSE IF BaseOf[i] = 0 THEN "precondition_failed"
    ELSE IF ~Based(i, memos[TargetOf[i]]) THEN "conflict"
    ELSE "ok"

Verdict(i) == IF OpOf[i] \in TodoOps THEN TodoVerdict(i) ELSE MemoVerdict(i)

\* Before it takes the lock, create looks for the notebook, or for the memo a todo is
\* linked to, which somebody may have deleted; the update of a todo looks for that memo
\* under the lock, when its revision is right.
ParentMissing(p) ==
    /\ At(p, "apply")
    /\ WellFormed(Current(p))
    /\ \/ OpOf[Current(p)] \in {"memo.create", "todo.create"}
       \/ OpOf[Current(p)] = "todo.update" /\ writer = NoCall /\ Verdict(Current(p)) = "ok"
    /\ Settle(p, "not_found")
    /\ UNCHANGED <<outbox, tables, writer, history, ghosts>>

\* Mutant of Refuse: a refusal is stored as a result too.
RefuseRecorded(p) ==
    /\ At(p, "apply")
    /\ WellFormed(Current(p))
    /\ writer = NoCall
    /\ Verdict(Current(p)) \in Refusal
    /\ recorded' = recorded \union {Current(p)}
    /\ Settle(p, Verdict(Current(p)))
    /\ UNCHANGED <<outbox, todos, memos, keys, writer, history, ghosts>>

\* A refusal is a result of the push but is not stored: a repeated push asks again.
Refuse(p) ==
    /\ At(p, "apply")
    /\ WellFormed(Current(p))
    /\ writer = NoCall
    /\ Verdict(Current(p)) \in Refusal
    /\ Settle(p, Verdict(Current(p)))
    /\ UNCHANGED <<outbox, tables, writer, history, ghosts>>

\* The todo is there, or the save is known by its key (which is looked up before
\* the lock too): ok, and no change is made or logged.
FindApplied(p) ==
    /\ At(p, "apply")
    /\ WellFormed(Current(p))
    /\ OpOf[Current(p)] \in TodoOps => writer = NoCall
    /\ Verdict(Current(p)) = "exists"
    /\ IF Current(p) \in Queued
       THEN /\ pc' = [pc EXCEPT ![p] = "record"]
            /\ UNCHANGED <<queue, results, reply>>
       ELSE Settle(p, "ok")
    /\ UNCHANGED <<outbox, tables, writer, history, ghosts>>

\* A lookup, the blob, the write or its commit fails: the error is the result of this
\* operation, nothing was done, and the push goes on with the next.
FailBefore(p) ==
    /\ At(p, "apply")
    /\ Current(p) \in Failing /\ WellFormed(Current(p))
    /\ Settle(p, "internal")
    /\ UNCHANGED <<outbox, tables, writer, history, ghosts>>

TodoAfter(i) ==
    LET row == todos[TargetOf[i]] IN
    IF OpOf[i] = "todo.purge" THEN [state |-> "absent", revision |-> 0]
    ELSE [state |-> IF OpOf[i] = "todo.delete" THEN "trashed" ELSE "live",
          revision |-> row.revision + 1]

\* Under the lock the row is read, checked and written; the write takes effect.
TakeEffect(p) ==
    /\ At(p, "apply")
    /\ WellFormed(Current(p))
    /\ writer = NoCall
    /\ Verdict(Current(p)) = "ok"
    /\ writer' = p
    /\ pc' = [pc EXCEPT ![p] = "append"]
    /\ history' = Append(history, Current(p))
    /\ UNCHANGED <<outbox, recorded, queue, results, reply, ghosts>>

ApplyTodo(p) ==
    /\ TakeEffect(p)
    /\ OpOf[Current(p)] \in TodoOps
    /\ todos' = [todos EXCEPT ![TargetOf[Current(p)]] = TodoAfter(Current(p))]
    /\ UNCHANGED <<memos, keys>>

\* A memo that is created gets an id the device does not know yet.
MemoAfter(i) ==
    LET row == memos[TargetOf[i]] IN
    [state |-> IF OpOf[i] = "memo.delete" THEN "trashed" ELSE row.state,
     revision |-> IF OpOf[i] = "memo.update" THEN row.revision + 1 ELSE row.revision]

ApplyMemo(p) ==
    LET i == Current(p) IN
    /\ TakeEffect(p)
    /\ OpOf[i] \in MemoOps
    /\ memos' = [memos EXCEPT ![TargetOf[i]] = MemoAfter(i)]
    /\ keys' = IF OpOf[i] = "memo.update" THEN keys \union {i} ELSE keys
    /\ UNCHANGED todos

\* append_unlocked, a statement of its own; the lock is given back.
AppendUnlocked(p) ==
    /\ At(p, "append")
    /\ told' = told \union {Current(p)}
    /\ writer' = NoCall
    /\ IF Current(p) \in Queued
       THEN /\ pc' = [pc EXCEPT ![p] = "record"]
            /\ UNCHANGED <<queue, results, reply>>
       ELSE Settle(p, "ok")
    /\ UNCHANGED <<outbox, tables, history, torn, overlapped>>

\* A statement after the change fails: the row of the log, the read of the todo before
\* it, or that of a new memo after it.  The change stays; its result is an error.
FailAfter(p) ==
    /\ At(p, "append")
    /\ Current(p) \in Failing
    /\ \/ UNCHANGED told
       \/ OpOf[Current(p)] = "memo.create" /\ told' = told \union {Current(p)}
    /\ torn' = torn \union {Current(p)}
    /\ writer' = NoCall
    /\ Settle(p, "internal")
    /\ UNCHANGED <<outbox, tables, history, overlapped>>

\* Mutants of StorePushResult: the result is kept in the answer only; a result without
\* a client_op_id is stored like any other.
StorePushResultNot(p) ==
    /\ At(p, "record")
    /\ Settle(p, "ok")
    /\ UNCHANGED <<outbox, tables, writer, history, ghosts>>

StorePushResultAll(p) ==
    /\ At(p, "record")
    /\ recorded' = recorded \union {Current(p)}
    /\ Settle(p, "ok")
    /\ UNCHANGED <<outbox, todos, memos, keys, writer, history, ghosts>>

\* store_push_result, INSERT OR IGNORE, for an operation with a client_op_id.
StorePushResult(p) ==
    /\ At(p, "record")
    /\ recorded' = recorded \union ({Current(p)} \intersect Named)
    /\ Settle(p, "ok")
    /\ UNCHANGED <<outbox, todos, memos, keys, writer, history, ghosts>>

\* The hint, then the results of all operations.
Finish(p) ==
    /\ pc[p] = "load" /\ queue[p] = << >>
    /\ pc' = [pc EXCEPT ![p] = "done"]
    /\ reply' = [reply EXCEPT ![p] = "results"]
    /\ UNCHANGED <<outbox, tables, writer, queue, results, history, ghosts>>

-----------------------------------------------------------------------------
\* The call is dropped at an await, or load_push_result, default_inbox_id or
\* store_push_result fails, which ends the request: the lock is given back and no
\* result arrives.  With an empty queue it is the answer that is lost.
Drop(p) ==
    /\ pc[p] \notin {"idle", "done"}
    /\ pc' = [pc EXCEPT ![p] = "done"]
    /\ queue' = [queue EXCEPT ![p] = << >>]
    /\ writer' = IF writer = p THEN NoCall ELSE writer
    /\ torn' = IF pc[p] \in {"append", "record"} THEN torn \union {Current(p)} ELSE torn
    /\ UNCHANGED <<outbox, tables, results, reply, history, told, overlapped>>

CallStep(p) ==
    \/ LoadPushResult(p)
    \/ AbortBatch(p)
    \/ RefuseMalformed(p)
    \/ Refuse(p)
    \/ FindApplied(p)
    \/ ApplyTodo(p)
    \/ ApplyMemo(p)
    \/ FailBefore(p)
    \/ AppendUnlocked(p)
    \/ FailAfter(p)
    \/ StorePushResult(p)
    \/ Finish(p)

\* Every call has ended; the server waits for the next.
Quiescent ==
    /\ \A p \in Call : pc[p] \in {"idle", "done"}
    /\ UNCHANGED vars

Request(p) == pc[p] = "idle" /\ (RequestPush(p) \/ RequestRest(p))

Next ==
    \/ \E p \in Call : Request(p) \/ CallStep(p) \/ ParentMissing(p) \/ Drop(p)
    \/ Quiescent

Spec == Init /\ [][Next]_vars

-----------------------------------------------------------------------------
(* Properties. *)

\* Every table, and every call's step, queue and results, has its type.
TypeOK ==
    /\ outbox \in Seq(Item)
    /\ todos \in [Todo -> TodoRow]
    /\ memos \in [Memo -> MemoRow]
    /\ keys \subseteq Item
    /\ recorded \subseteq Named
    /\ writer \in Call \union {NoCall}
    /\ pc \in [Call -> Step]
    /\ queue \in [Call -> Seq(Item)]
    /\ results \in [Call -> [Item -> Code]]
    /\ reply \in [Call -> {"none", "results", "error"}]
    /\ history \in Seq(Item)
    /\ told \subseteq Item /\ torn \subseteq Item /\ overlapped \subseteq Item

Position(i) == CHOOSE n \in DOMAIN outbox : outbox[n] = i

\* An operation no call was dropped on or failed in half way, and no two pushes worked
\* on at once.
Sound(i) == i \in (Queued \intersect Named) \ (torn \union overlapped)

Refused(i) == \E p \in Call : results[p][i] \in Refusal

\* As long as no push was dropped or failed half way through an operation and no two
\* worked on it at once, however often the batch is repeated, aborted by another
\* operation or its answer lost: the operations take effect in the order they were
\* queued, each at most once.  One that a push refused or could not do for an internal
\* error is passed over, and a later push may apply it out of its turn.
AppliedAsQueued ==
    \A a, b \in DOMAIN history :
        /\ a < b
        /\ Sound(history[a]) /\ Sound(history[b])
        /\ ~Refused(history[a]) /\ ~Refused(history[b])
        => Position(history[a]) < Position(history[b])

Effects(i) == {n \in DOMAIN history : history[n] = i}

Purged(t) == \E n \in DOMAIN history : /\ OpOf[history[n]] = "todo.purge"
                                       /\ TargetOf[history[n]] = t

\* Pushes torn or overlapped still apply an operation at most once when something in
\* the operation itself says so: the client's id of a new todo, the key of a save, or
\* the revision a todo operation is based on.  A todo deleted for good takes its id and
\* its revisions with it: its operations may then run again.
Guarded(i) ==
    \/ OpOf[i] \in {"todo.create", "memo.update"}
    \/ OpOf[i] \in TodoOps /\ BaseOf[i] # 0

GuardedOnce ==
    \A i \in Queued : Guarded(i) /\ ~Purged(TargetOf[i]) =>
        \A a, b \in Effects(i) : a = b

\* What a push answers ok was done, and is in the log, unless the call that did it was
\* dropped or failed before its row or is about to write it.
AcknowledgedIsTold ==
    \A p \in Call : \A i \in Item : results[p][i] = "ok" =>
        /\ Effects(i) # {}
        /\ \/ i \in told \union torn
           \/ \E q \in Call : At(q, "append") /\ Current(q) = i

\* A named operation is not refused after it took effect, so that its device would take
\* its own change for somebody else's, unless a call was dropped or failed half way
\* through it or two worked on it at once.
RefusalIsOfNothingDone ==
    [][\A p \in Call : \A i \in Item :
            /\ results[p][i] = "none" /\ results'[p][i] \in Refusal
            /\ i \in Queued \intersect Named
            => Effects(i) = {} \/ i \in torn' \union overlapped]_vars

\* Said by migrations/001_initial.sql:234, and not so: the operation id is stable across
\* retries, so that a lost response cannot apply an operation twice.
OperationOnce ==
    \A i \in Queued \intersect Named : \A a, b \in Effects(i) : a = b
=============================================================================
