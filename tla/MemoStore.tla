------------------------------ MODULE MemoStore ------------------------------
(***************************************************************************)
(* The memo write path of crates/store/src/memos.rs: create, open, save    *)
(* (with if_match, edit lease and idempotency key), soft_delete, restore,  *)
(* the revision snapshot and the sync log row each write appends.          *)
(*                                                                         *)
(* A handler is one request in flight.  It moves from await point to await *)
(* point; between two of them other handlers run, and at any of them its   *)
(* future may be dropped (the client went away, the process died).  What   *)
(* is durable is the database and the blob directory; the write lock and   *)
(* the handlers themselves are not.                                        *)
(*                                                                         *)
(* A document is the sequence of the edits it is made of: an edit reads    *)
(* the document, appends its own mark and saves the whole text back.  A    *)
(* content hash is the document itself (equal hashes, equal texts).        *)
(***************************************************************************)
EXTENDS Naturals, Sequences, FiniteSets

CONSTANTS
    Handler,          \* requests
    NoHandler,        \* no holder of the write lock; no lease
    Memo,             \* memo ids (uuids: never used twice)
    Key,              \* idempotency keys, each naming one logical operation
    NoKey,            \* text or metadata that no keyed operation wrote
    EditKey,          \* the keys of content saves; the others save metadata
    MemoOf,           \* the memo the operation a key names is about
    InlineThreshold,  \* store.inline_threshold, counted in marks
    Ops               \* the operations clients call

AllOps == {"create", "edit", "tag", "trash", "purge", "restore", "lease"}

ASSUME MemoStoreAssumption ==
    /\ NoHandler \notin Handler
    /\ Memo # {}
    /\ NoKey \notin Key
    /\ EditKey \subseteq Key
    /\ MemoOf \in [Key -> Memo]
    /\ InlineThreshold \in Nat
    /\ Ops \subseteq AllOps

VARIABLES
    memos,      \* table memos
    contents,   \* table memo_contents
    keys,       \* table idempotency_keys
    snapshots,  \* table memo_revisions
    fresh,      \* memos whose last snapshot is less than 300 s old
    blobs,      \* blob files and their content_blobs rows: document -> refcount
    leases,     \* table edit_leases, by the request that opened the lease
    log,        \* table sync_changes
    writer,     \* holder of Db.write
    pc, req, answer

durable == <<memos, contents, keys, snapshots, fresh, blobs, leases, log>>
vars == <<durable, writer, pc, req, answer>>

-----------------------------------------------------------------------------
(* Values. *)

Mark == Key \union {NoKey}
Doc == Seq(Mark)
Etag == [revision : Nat, hash : Doc]

\* No etag given, none known.  A stored memo has a revision of at least 1.
NoEtag == [revision |-> 0, hash |-> << >>]

MemoRow == [state : {"absent", "live", "trashed", "purged"},
            revision : Nat, hash : Doc, meta : Mark]
ContentRow == [revision : Nat, doc : Doc]
KeyRow == [state : {"unused", "live", "expired"}, etag : Etag]
LogRow == [memo : Memo, kind : {"content", "meta", "delete"}, revision : Nat]

SaveOps == {"edit", "tag"}
RequestRow == [op : AllOps, memo : Memo, key : Mark, base : Etag, doc : Doc,
            lease : Handler \union {NoHandler}]

Step == {"idle", "summary", "content", "lease", "check", "lock", "blob",
         "snapshot", "commit", "append", "done"}
LockedStep == {"blob", "snapshot", "commit", "append"}

Code == {"none", "ok", "not_found", "conflict", "precondition_failed",
         "lease_conflict", "internal"}
Answer == [code : Code, etag : Etag]
NoAnswer == [code |-> "none", etag |-> NoEtag]

\* The text a memo is created with: within the inline threshold, or above it.
InitialDocs == {<< >>, [i \in 1 .. InlineThreshold + 1 |-> NoKey]}

Oversized(d) == Len(d) > InlineThreshold
Exists(m) == memos[m].state \in {"live", "trashed"}
EtagOf(m) == [revision |-> memos[m].revision, hash |-> memos[m].hash]

-----------------------------------------------------------------------------
Init ==
    /\ memos = [m \in Memo |-> [state |-> "absent", revision |-> 0,
                                hash |-> << >>, meta |-> NoKey]]
    /\ contents = [m \in Memo |-> [revision |-> 0, doc |-> << >>]]
    /\ keys = [k \in Key |-> [state |-> "unused", etag |-> NoEtag]]
    /\ snapshots = [m \in Memo |-> {}]
    /\ fresh = {}
    /\ blobs = [d \in {} |-> 0]
    /\ leases = [h \in Handler |-> "none"]
    /\ log = << >>
    /\ writer = NoHandler
    /\ pc = [h \in Handler |-> "idle"]
    /\ req = [h \in Handler |->
                [op |-> "edit", memo |-> CHOOSE m \in Memo : TRUE, key |-> NoKey,
                 base |-> NoEtag, doc |-> << >>, lease |-> NoHandler]]
    /\ answer = [h \in Handler |-> NoAnswer]

-----------------------------------------------------------------------------
(* Requests arrive. *)

Ask(op, m, k, d) ==
    [op |-> op, memo |-> m, key |-> k, base |-> NoEtag, doc |-> d,
     lease |-> NoHandler]

Start(h, r, step) ==
    /\ pc[h] = "idle"
    /\ req' = [req EXCEPT ![h] = r]
    /\ pc' = [pc EXCEPT ![h] = step]
    /\ UNCHANGED <<durable, writer, answer>>

\* POST /memos.  require_notebook has passed; new_id() is an id never drawn before.
Drawn(m) == \E g \in Handler : pc[g] # "idle" /\ req[g].op = "create" /\ req[g].memo = m

RequestCreate(h) ==
    /\ "create" \in Ops
    /\ \E m \in Memo, d \in InitialDocs :
        /\ ~Drawn(m)
        /\ Start(h, Ask("create", m, NoKey, d), "lock")

\* A client opens the memo to edit it, or an agent calls append_to_memo.
RequestEdit(h) ==
    /\ "edit" \in Ops
    /\ \E k \in EditKey : Start(h, Ask("edit", MemoOf[k], k, << >>), "summary")

\* A content save that names no version of the memo it replaces.
RequestBlindEdit(h) ==
    /\ "edit" \in Ops
    /\ \E k \in EditKey : Start(h, Ask("edit", MemoOf[k], k, <<k>>), "check")

\* A save of title, tags or flags, with the etag of an opened memo or without.
RequestTag(h) ==
    /\ "tag" \in Ops
    /\ \E k \in Key \ EditKey, step \in {"summary", "check"} :
            Start(h, Ask("tag", MemoOf[k], k, << >>), step)

\* The client repeats a save it has no answer for, or whose answer it lost: the
\* same body, precondition and key.  The first call may still be running.
RequestRetry(h) ==
    \E g \in Handler :
        /\ req[g].op \in SaveOps
        /\ pc[g] \in {"check", "lock", "done"} \union LockedStep
        /\ req[g].op = "edit" => req[g].doc # << >>
        /\ Start(h, req[g], "check")

RequestLifecycle(h) ==
    \E op \in Ops \intersect {"trash", "purge", "restore"}, m \in Memo :
        Start(h, Ask(op, m, NoKey, << >>), "lock")

-----------------------------------------------------------------------------
(* Steps of a handler. *)

Reply(h, code, etag) ==
    /\ pc' = [pc EXCEPT ![h] = "done"]
    /\ answer' = [answer EXCEPT ![h] = [code |-> code, etag |-> etag]]

\* The row the request names, read outside the lock: its revision and hash.
GetSummary(h) ==
    LET m == req[h].memo IN
    /\ pc[h] = "summary"
    /\ UNCHANGED <<durable, writer>>
    /\ \/ /\ ~Exists(m)
          /\ Reply(h, "not_found", NoEtag)
          /\ UNCHANGED req
       \/ /\ Exists(m)
          /\ req' = [req EXCEPT ![h].base = EtagOf(m)]
          /\ pc' = [pc EXCEPT ![h] =
                        IF req[h].op = "edit" THEN "content" ELSE "check"]
          /\ UNCHANGED answer

\* The text, read after the summary and still outside the lock.  The client
\* appends its mark and will save the result.
ReadMarkdown(h) ==
    LET m == req[h].memo IN
    /\ pc[h] = "content"
    /\ UNCHANGED <<durable, writer>>
    /\ \/ /\ ~Exists(m)
          /\ Reply(h, "not_found", NoEtag)
          /\ UNCHANGED req
       \/ /\ Exists(m)
          /\ req' = [req EXCEPT ![h].doc = Append(contents[m].doc, req[h].key)]
          /\ \E step \in {"check"} \union (Ops \intersect {"lease"}) :
                pc' = [pc EXCEPT ![h] = step]
          /\ UNCHANGED answer

\* create_lease takes the lock for one insert.  A memo purged meanwhile fails
\* the foreign key.  Nothing ever reads another client's lease.
CreateLease(h) ==
    /\ pc[h] = "lease"
    /\ writer = NoHandler
    /\ \/ /\ ~Exists(req[h].memo)
          /\ Reply(h, "internal", NoEtag)
          /\ UNCHANGED <<durable, writer, req>>
       \/ /\ Exists(req[h].memo)
          /\ leases' = [leases EXCEPT ![h] = "live"]
          /\ req' = [req EXCEPT ![h].lease = h]
          /\ pc' = [pc EXCEPT ![h] = "check"]
          /\ UNCHANGED <<memos, contents, keys, snapshots, fresh, blobs, log,
                         writer, answer>>

\* The answer stored under a key, while the key is kept.
Remembered(k) == k \in Key /\ keys[k].state = "live"

\* The key is looked up before the lock is asked for.
GetIdempotency(h) ==
    LET k == req[h].key IN
    /\ pc[h] = "check"
    /\ UNCHANGED <<durable, writer, req>>
    /\ \/ /\ Remembered(k)
          /\ Reply(h, "ok", keys[k].etag)
       \/ /\ ~Remembered(k)
          /\ pc' = [pc EXCEPT ![h] = "lock"]
          /\ UNCHANGED answer

\* Mutants of SaveVerdict: the comparison with the current etag, the precondition of a
\* content save, or the second look at the key, is left out.
SaveVerdictUnmatched(r) ==
    IF Remembered(r.key) THEN "ok"
    ELSE IF ~Exists(r.memo) THEN "not_found"
    ELSE IF r.base = NoEtag /\ r.op = "edit" THEN "precondition_failed"
    ELSE "none"

SaveVerdictBlind(r) ==
    IF Remembered(r.key) THEN "ok"
    ELSE IF ~Exists(r.memo) THEN "not_found"
    ELSE IF r.base # NoEtag /\ r.base # EtagOf(r.memo) THEN "conflict"
    ELSE "none"

SaveVerdictUnchecked(r) ==
    IF ~Exists(r.memo) THEN "not_found"
    ELSE IF r.base # NoEtag /\ r.base # EtagOf(r.memo) THEN "conflict"
    ELSE IF r.base = NoEtag /\ r.op = "edit" THEN "precondition_failed"
    ELSE "none"

\* What save decides, in the order it decides it, once it holds the lock.
SaveVerdict(r) ==
    IF Remembered(r.key) THEN "ok"
    ELSE IF ~Exists(r.memo) THEN "not_found"
    ELSE IF r.base # NoEtag /\ r.base # EtagOf(r.memo) THEN "conflict"
    ELSE IF r.base = NoEtag /\ r.op = "edit" THEN "precondition_failed"
    ELSE IF r.lease # NoHandler /\ leases[r.lease] # "live" THEN "lease_conflict"
    ELSE "none"

\* Mutant of SaveTurnedDown: the early return keeps the lock.
SaveTurnedDownLocked(h) ==
    /\ pc[h] = "lock" /\ req[h].op \in SaveOps
    /\ writer = NoHandler
    /\ SaveVerdict(req[h]) # "none"
    /\ writer' = h
    /\ Reply(h, "conflict", NoEtag)
    /\ UNCHANGED <<durable, req>>

\* The lock is taken and released again: a replayed key or a refusal.  A conflict
\* carries the current etag of the memo.
SaveTurnedDown(h) ==
    LET r == req[h]
        code == SaveVerdict(r)
    IN
    /\ pc[h] = "lock" /\ r.op \in SaveOps
    /\ writer = NoHandler
    /\ code # "none"
    /\ Reply(h, code, IF code = "ok" THEN keys[r.key].etag
                      ELSE IF code \in {"conflict", "lease_conflict"}
                           THEN EtagOf(r.memo) ELSE NoEtag)
    /\ UNCHANGED <<durable, writer, req>>

SaveAdmitted(h) ==
    LET r == req[h] IN
    /\ pc[h] = "lock" /\ r.op \in SaveOps
    /\ writer = NoHandler
    /\ SaveVerdict(r) = "none"
    /\ writer' = h
    /\ pc' = [pc EXCEPT ![h] = CASE r.op = "tag" -> "commit"
                                 [] r.op = "edit" /\ Oversized(r.doc) -> "blob"
                                 [] OTHER -> "snapshot"]
    /\ UNCHANGED <<durable, req, answer>>

CreateAdmitted(h) ==
    /\ pc[h] = "lock" /\ req[h].op = "create"
    /\ writer = NoHandler
    /\ memos[req[h].memo].state = "absent"
    /\ writer' = h
    /\ pc' = [pc EXCEPT ![h] = IF Oversized(req[h].doc) THEN "blob" ELSE "commit"]
    /\ UNCHANGED <<durable, req, answer>>

\* put_blob, then upsert_blob_meta with refcount 0; both keep what is there.
StoreBlob(h) ==
    LET d == req[h].doc IN
    /\ pc[h] = "blob"
    /\ blobs' = [x \in DOMAIN blobs \union {d} |->
                    IF x \in DOMAIN blobs THEN blobs[x] ELSE 0]
    /\ pc' = [pc EXCEPT ![h] = IF req[h].op = "create" THEN "commit" ELSE "snapshot"]
    /\ UNCHANGED <<memos, contents, keys, snapshots, fresh, leases, log,
                   writer, req, answer>>

\* Mutant of SnapshotRow: the text before the save, under the revision after it.
SnapshotRowAhead(m) == [revision |-> memos[m].revision + 1, doc |-> memos[m].hash]

\* The version about to be replaced is kept, at most one in 300 s.  The insert is
\* a statement of its own, before the transaction; (memo_id, revision) is UNIQUE.
SnapshotRow(m) == [revision |-> memos[m].revision, doc |-> memos[m].hash]

SnapshotTaken(m) == \E s \in snapshots[m] : s.revision = memos[m].revision

MaybeSnapshot(h) ==
    LET m == req[h].memo IN
    /\ pc[h] = "snapshot"
    /\ UNCHANGED <<memos, contents, keys, blobs, leases, log, req>>
    /\ \/ /\ m \in fresh
          /\ pc' = [pc EXCEPT ![h] = "commit"]
          /\ UNCHANGED <<snapshots, fresh, writer, answer>>
       \/ /\ m \notin fresh /\ ~SnapshotTaken(m)
          /\ snapshots' = [snapshots EXCEPT ![m] = @ \union {SnapshotRow(m)}]
          /\ fresh' = fresh \union {m}
          /\ pc' = [pc EXCEPT ![h] = "commit"]
          /\ UNCHANGED <<writer, answer>>
       \/ /\ m \notin fresh /\ SnapshotTaken(m)
          /\ Reply(h, "internal", NoEtag)
          /\ writer' = NoHandler
          /\ UNCHANGED <<snapshots, fresh>>

\* Mutant of Referenced: a blob that is there already gets no reference more.
ReferencedOnce(d) ==
    IF Oversized(d) /\ d \in DOMAIN blobs THEN [blobs EXCEPT ![d] = 1] ELSE blobs

\* refcount + 1 for the blob a committed content row points to.
Referenced(d) ==
    IF Oversized(d) /\ d \in DOMAIN blobs THEN [blobs EXCEPT ![d] = @ + 1] ELSE blobs

\* The handler's own note of the ack it will send after the log row.
Committed(h, etag) ==
    /\ pc' = [pc EXCEPT ![h] = "append"]
    /\ answer' = [answer EXCEPT ![h].etag = etag]

\* Mutant of KeyStored: the insert fails and its error is ignored.
KeyNotStored(k, etag) == keys

\* INSERT INTO idempotency_keys, its error ignored: a row that is there, even an
\* expired one, stays as it is.
KeyStored(k, etag) ==
    IF keys[k].state = "unused"
    THEN [keys EXCEPT ![k] = [state |-> "live", etag |-> etag]]
    ELSE keys

CommitCreate(h) ==
    LET m == req[h].memo
        d == req[h].doc
    IN
    /\ pc[h] = "commit" /\ req[h].op = "create"
    /\ memos' = [memos EXCEPT ![m] = [state |-> "live", revision |-> 1,
                                      hash |-> d, meta |-> NoKey]]
    /\ contents' = [contents EXCEPT ![m] = [revision |-> 1, doc |-> d]]
    /\ blobs' = Referenced(d)
    /\ Committed(h, [revision |-> 1, hash |-> d])
    /\ UNCHANGED <<keys, snapshots, fresh, leases, log, writer, req>>

\* Mutant of CommitContent: the lock covers the transaction, not the log row.
CommitContentUnlocks(h) ==
    LET m == req[h].memo
        d == req[h].doc
        etag == [revision |-> memos[m].revision + 1, hash |-> d]
    IN
    /\ pc[h] = "commit" /\ req[h].op = "edit"
    /\ memos' = [memos EXCEPT ![m].revision = etag.revision, ![m].hash = d]
    /\ contents' = [contents EXCEPT ![m] = [revision |-> etag.revision, doc |-> d]]
    /\ blobs' = Referenced(d)
    /\ keys' = KeyStored(req[h].key, etag)
    /\ Committed(h, etag)
    /\ writer' = NoHandler
    /\ UNCHANGED <<snapshots, fresh, leases, log, req>>

CommitContent(h) ==
    LET m == req[h].memo
        d == req[h].doc
        etag == [revision |-> memos[m].revision + 1, hash |-> d]
    IN
    /\ pc[h] = "commit" /\ req[h].op = "edit"
    /\ memos' = [memos EXCEPT ![m].revision = etag.revision, ![m].hash = d]
    /\ contents' = [contents EXCEPT ![m] = [revision |-> etag.revision, doc |-> d]]
    /\ blobs' = Referenced(d)
    /\ keys' = KeyStored(req[h].key, etag)
    /\ Committed(h, etag)
    /\ UNCHANGED <<snapshots, fresh, leases, log, writer, req>>

\* Title, tags and flags leave the revision, and so the etag, as they are.
CommitMeta(h) ==
    LET m == req[h].memo IN
    /\ pc[h] = "commit" /\ req[h].op = "tag"
    /\ memos' = [memos EXCEPT ![m].meta = req[h].key]
    /\ keys' = KeyStored(req[h].key, EtagOf(m))
    /\ Committed(h, EtagOf(m))
    /\ UNCHANGED <<contents, snapshots, fresh, blobs, leases, log, writer, req>>

\* Mutant of SetTrashed: the row is written whether it is there or not.
SetTrashedAlways(h, op, state) ==
    LET m == req[h].memo IN
    /\ pc[h] = "lock" /\ req[h].op = op
    /\ writer = NoHandler
    /\ memos' = [memos EXCEPT ![m].state = state]
    /\ writer' = h
    /\ pc' = [pc EXCEPT ![h] = "append"]
    /\ UNCHANGED <<contents, keys, snapshots, fresh, blobs, leases, log, req, answer>>

\* soft_delete and restore change the row if it is there, and log it either way.
SetTrashed(h, op, state) ==
    LET m == req[h].memo IN
    /\ pc[h] = "lock" /\ req[h].op = op
    /\ writer = NoHandler
    /\ memos' = IF Exists(m) THEN [memos EXCEPT ![m].state = state] ELSE memos
    /\ writer' = h
    /\ pc' = [pc EXCEPT ![h] = "append"]
    /\ UNCHANGED <<contents, keys, snapshots, fresh, blobs, leases, log, req, answer>>

SoftDelete(h) == SetTrashed(h, "trash", "trashed")

Restore(h) == SetTrashed(h, "restore", "live")

\* Mutant of Purge: the delete does not cascade to memo_contents.
PurgeRowOnly(h) ==
    LET m == req[h].memo IN
    /\ pc[h] = "lock" /\ req[h].op = "purge"
    /\ writer = NoHandler
    /\ memos' = IF Exists(m)
                THEN [memos EXCEPT ![m] = [state |-> "purged", revision |-> 0,
                                           hash |-> << >>, meta |-> NoKey]]
                ELSE memos
    /\ writer' = h
    /\ pc' = [pc EXCEPT ![h] = "append"]
    /\ UNCHANGED <<contents, snapshots, fresh, leases, keys, blobs, log, req, answer>>

\* The row goes, and by ON DELETE CASCADE its contents, revisions and leases.
\* Idempotency keys and blobs stay.
Purge(h) ==
    LET m == req[h].memo IN
    /\ pc[h] = "lock" /\ req[h].op = "purge"
    /\ writer = NoHandler
    /\ \/ /\ ~Exists(m)
          /\ UNCHANGED <<memos, contents, snapshots, fresh, leases>>
       \/ /\ Exists(m)
          /\ memos' = [memos EXCEPT ![m] = [state |-> "purged", revision |-> 0,
                                            hash |-> << >>, meta |-> NoKey]]
          /\ contents' = [contents EXCEPT ![m] = [revision |-> 0, doc |-> << >>]]
          /\ snapshots' = [snapshots EXCEPT ![m] = {}]
          /\ fresh' = fresh \ {m}
          /\ leases' = [g \in Handler |->
                            IF req[g].memo = m THEN "none" ELSE leases[g]]
    /\ writer' = h
    /\ pc' = [pc EXCEPT ![h] = "append"]
    /\ UNCHANGED <<keys, blobs, log, req, answer>>

\* Mutants of LogKind: an edit is logged as metadata; the operation is logged raw.
LogKindMeta(op) == CASE op = "create" -> "content"
                     [] op = "purge" -> "delete"
                     [] OTHER -> "meta"

LogKindRaw(op) == op

LogKind(op) == CASE op \in {"create", "edit"} -> "content"
                 [] op = "purge" -> "delete"
                 [] OTHER -> "meta"

\* append_unlocked, a statement of its own after the commit; then the answer.
AppendUnlocked(h) ==
    /\ pc[h] = "append"
    /\ log' = Append(log, [memo |-> req[h].memo, kind |-> LogKind(req[h].op),
                           revision |-> answer[h].etag.revision])
    /\ writer' = NoHandler
    /\ Reply(h, "ok", answer[h].etag)
    /\ UNCHANGED <<memos, contents, keys, snapshots, fresh, blobs, leases, req>>

-----------------------------------------------------------------------------
(* What the environment does. *)

\* The future is dropped at an await: the guard of the lock goes, no answer is
\* sent, the statements already executed stay.  Also any error the model leaves
\* out (a notebook or blob not found, a patch that does not apply, SQLite busy)
\* and, for every handler at once, the end of the process.
Drop(h) ==
    /\ pc[h] \notin {"idle", "done"}
    /\ pc' = [pc EXCEPT ![h] = "done"]
    /\ writer' = IF writer = h THEN NoHandler ELSE writer
    /\ UNCHANGED <<durable, req, answer>>

\* 24 hours pass for a key, 30 days for a lease, 300 seconds for a snapshot.
ExpireKey(k) ==
    /\ keys[k].state = "live"
    /\ keys' = [keys EXCEPT ![k].state = "expired"]
    /\ UNCHANGED <<memos, contents, snapshots, fresh, blobs, leases, log,
                   writer, pc, req, answer>>

ExpireLease(h) ==
    /\ leases[h] = "live"
    /\ leases' = [leases EXCEPT ![h] = "expired"]
    /\ UNCHANGED <<memos, contents, keys, snapshots, fresh, blobs, log,
                   writer, pc, req, answer>>

AgeSnapshot(m) ==
    /\ m \in fresh
    /\ fresh' = fresh \ {m}
    /\ UNCHANGED <<memos, contents, keys, snapshots, blobs, leases, log,
                   writer, pc, req, answer>>

Request(h) ==
    \/ RequestCreate(h)
    \/ RequestEdit(h)
    \/ RequestBlindEdit(h)
    \/ RequestTag(h)
    \/ RequestRetry(h)
    \/ RequestLifecycle(h)

HandlerStep(h) ==
    \/ GetSummary(h)
    \/ ReadMarkdown(h)
    \/ CreateLease(h)
    \/ GetIdempotency(h)
    \/ SaveTurnedDown(h)
    \/ SaveAdmitted(h)
    \/ CreateAdmitted(h)
    \/ StoreBlob(h)
    \/ MaybeSnapshot(h)
    \/ CommitCreate(h)
    \/ CommitContent(h)
    \/ CommitMeta(h)
    \/ SoftDelete(h)
    \/ Restore(h)
    \/ Purge(h)
    \/ AppendUnlocked(h)

\* Every request has ended; the server waits for the next.
Quiescent ==
    /\ \A h \in Handler : pc[h] = "done"
    /\ UNCHANGED vars

Next ==
    \/ \E h \in Handler : Request(h) \/ HandlerStep(h) \/ Drop(h) \/ ExpireLease(h)
    \/ \E k \in Key : ExpireKey(k)
    \/ \E m \in Memo : AgeSnapshot(m)
    \/ Quiescent

Spec == Init /\ [][Next]_vars

\* The runtime polls every task that can run, and Db.write is a tokio Mutex, which
\* serves its waiters in the order they came.
FairSpec == Spec /\ \A h \in Handler : WF_vars(HandlerStep(h))

-----------------------------------------------------------------------------
(* Properties. *)

\* Every table, and every handler's step, request and answer, has its type.
TypeOK ==
    /\ memos \in [Memo -> MemoRow]
    /\ contents \in [Memo -> ContentRow]
    /\ keys \in [Key -> KeyRow]
    /\ snapshots \in [Memo -> SUBSET ContentRow]
    /\ fresh \subseteq Memo
    /\ DOMAIN blobs \subseteq Doc
    /\ \A d \in DOMAIN blobs : blobs[d] \in Nat
    /\ leases \in [Handler -> {"none", "live", "expired"}]
    /\ log \in Seq(LogRow)
    /\ writer \in Handler \union {NoHandler}
    /\ pc \in [Handler -> Step]
    /\ req \in [Handler -> RequestRow]
    /\ answer \in [Handler -> Answer]

In(k, d) == \E i \in DOMAIN d : d[i] = k

\* An edit the server acknowledged is in the memo for as long as the memo exists:
\* no other writer, working from an older copy, ever saved over it.
NoLostEdit ==
    \A h \in Handler :
        /\ answer[h].code = "ok"
        /\ req[h].op = "edit"
        /\ Exists(req[h].memo)
        => In(req[h].key, contents[req[h].memo].doc)

\* However often a save is repeated with its idempotency key, from a stored request
\* or from a new read of the memo, it is applied once while the key is kept.
AppliedOnce ==
    \A m \in Memo : \A i, j \in DOMAIN contents[m].doc :
        LET k == contents[m].doc[i] IN
        /\ k \in Key
        /\ k = contents[m].doc[j]
        /\ keys[k].state # "expired"
        => i = j

\* A client is never told that its save conflicts with a version that already
\* holds that very save: a retry that waited for the lock while the first call
\* committed is recognised by its key, not refused for its old etag.
ConflictIsWithOthers ==
    \A h \in Handler :
        /\ answer[h].code = "conflict"
        /\ req[h].op = "edit"
        /\ keys[req[h].key].state # "expired"
        => ~In(req[h].key, answer[h].etag.hash)

\* A version of a memo that has no row in sync_changes was committed by a handler
\* that has its row still to append, or that was dropped before it did: no
\* sequence of complete requests leaves a change out of the log.
LoggedVersion(m, r) ==
    \E i \in DOMAIN log : log[i] = [memo |-> m, kind |-> "content", revision |-> r]

LogGapsAreDropped ==
    \A m \in Memo : \A r \in 1 .. memos[m].revision :
        \/ LoggedVersion(m, r)
        \/ \E h \in Handler :
              /\ req[h].memo = m /\ answer[h].etag.revision = r
              /\ answer[h].code = "none"
              /\ pc[h] \in {"append", "done"}

\* Said by docs/mcp.md, and not so: "Successful writes enter Panda's normal
\* sync_changes stream".  An edit answered ok is in the log, or a handler is about to
\* write its row.
AcknowledgedIsLogged ==
    \A h \in Handler :
        answer[h].code = "ok" /\ req[h].op = "edit" =>
            \/ LoggedVersion(req[h].memo, answer[h].etag.revision)
            \/ \E g \in Handler : pc[g] = "append" /\ req[g].memo = req[h].memo

\* The log tells the versions of a memo in the order they were committed, though
\* each row is written after its transaction: the lock covers both.
LogInOrder ==
    \A i, j \in DOMAIN log :
        /\ i < j
        /\ log[i].memo = log[j].memo
        /\ log[i].kind = "content" /\ log[j].kind = "content"
        => log[i].revision < log[j].revision

\* A snapshot is the text the memo had at that revision, also when the save that
\* took it never committed: each later revision has added one mark to it.
SnapshotsAreHistory ==
    \A m \in Memo : \A s \in snapshots[m] :
        /\ s.revision <= memos[m].revision
        /\ LET age == memos[m].revision - s.revision
               doc == contents[m].doc
           IN  Len(doc) >= age /\ s.doc = SubSeq(doc, 1, Len(doc) - age)

\* Said by UNIQUE(memo_id, revision) in the schema, and not so: a save never comes to
\* insert a second snapshot of one revision.
SnapshotOncePerRevision ==
    \A h \in Handler :
        /\ pc[h] = "snapshot"
        /\ req[h].memo \notin fresh
        => ~SnapshotTaken(req[h].memo)

\* A row that points to a blob finds it, and the blob's refcount is at least the
\* number of memos that point to it, whatever was dropped between the steps.
Pointing(d) == {m \in Memo : Exists(m) /\ contents[m].doc = d}

BlobsRetained ==
    \A m \in Memo : LET d == contents[m].doc IN
        Exists(m) /\ Oversized(d) =>
            d \in DOMAIN blobs /\ blobs[d] >= Cardinality(Pointing(d))

\* A purged memo stays purged: no save, restore or trash that was waiting for the
\* lock brings a row back, and nothing of it is left in the tables it owned.
PurgeIsFinal ==
    [][\A m \in Memo : memos[m].state = "purged" =>
            /\ memos'[m].state = "purged"
            /\ contents'[m].doc = << >>
            /\ snapshots'[m] = {}]_vars

\* Every request ends, with an answer or dropped: no path keeps the lock.
EveryRequestEnds == \A h \in Handler : pc[h] # "idle" ~> pc[h] = "done"

\* The store does what EditLedger promises.  The commit of a save is the step that
\* takes effect, and an "ok" is an acknowledgement.
Presence(m) == CASE memos[m].state = "absent" -> "absent"
                 [] memos[m].state = "purged" -> "purged"
                 [] OTHER -> "present"

Acked == {k \in Key : \E h \in Handler : answer[h].code = "ok" /\ req[h].key = k}

Ledger == INSTANCE EditLedger WITH
    presence <- [m \in Memo |-> Presence(m)],
    ledger   <- [m \in Memo |-> contents[m].doc],
    used     <- [k \in Key |-> keys[k].state],
    acked    <- Acked

ImplementsLedger == Ledger!Spec

-----------------------------------------------------------------------------
(* What is true between any two steps: the inductive invariant behind the   *)
(* properties above.  First the tables, then one handler against them.      *)

RowsAgree ==
    \A m \in Memo :
        /\ contents[m].revision = memos[m].revision
        /\ contents[m].doc = memos[m].hash
        /\ ~Exists(m) => memos[m].revision = 0 /\ memos[m].hash = << >>

MarksFollowKeys ==
    \A k \in Key :
        /\ keys[k].state = "unused" => \A m \in Memo : ~In(k, contents[m].doc)
        /\ k \in EditKey /\ keys[k].state # "unused" =>
              /\ memos[MemoOf[k]].state # "absent"
              /\ Exists(MemoOf[k]) => In(k, contents[MemoOf[k]].doc)

LockOf(h) == pc[h] \in LockedStep <=> writer = h

\* A key names one operation, on one memo; what is not a save has no key.
Named(h) ==
    pc[h] # "idle" =>
        IF req[h].op \in SaveOps
        THEN /\ req[h].key \in Key
             /\ req[h].memo = MemoOf[req[h].key]
             /\ req[h].op = "edit" <=> req[h].key \in EditKey
        ELSE req[h].key = NoKey

\* The version a request is based on is one the memo had.
BasedOnVersion(h) ==
    LET r == req[h]
        m == r.memo
    IN
    r.base # NoEtag =>
        /\ memos[m].state # "absent"
        /\ Exists(m) => /\ r.base.revision <= memos[m].revision
                        /\ r.base.revision = memos[m].revision => r.base = EtagOf(m)

\* While that version is the memo's, the body is its text and one more mark,
\* although summary and text were read in two steps.
ExtendsBase(h) ==
    LET r == req[h] IN
    /\ pc[h] = "summary" => r.base = NoEtag
    /\ pc[h] \in {"summary", "content"} => r.doc = << >>
    /\ /\ r.op = "edit" /\ r.doc # << >> /\ r.base # NoEtag
       /\ Exists(r.memo) /\ r.base = EtagOf(r.memo)
       => r.doc = Append(contents[r.memo].doc, r.key)
    /\ pc[h] \in {"lease", "check", "lock"} \union LockedStep /\ r.op = "edit"
       => r.doc # << >>

\* What was checked under the lock is still true when it is used.
Admitted(h) ==
    LET r == req[h] IN
    /\ pc[h] # "idle" /\ r.op = "create" => r.doc \in InitialDocs
    /\ pc[h] = "content" => r.op = "edit"
    /\ pc[h] = "blob" => r.op \in {"create", "edit"}
    /\ pc[h] = "snapshot" => r.op = "edit"
    /\ pc[h] = "commit" => r.op \in {"create", "edit", "tag"}
    /\ pc[h] \in {"blob", "snapshot", "commit"} =>
          /\ r.op = "create" => memos[r.memo].state = "absent"
          /\ r.op \in SaveOps =>
                /\ ~Remembered(r.key)
                /\ Exists(r.memo)
                /\ r.base = NoEtag \/ r.base = EtagOf(r.memo)
          /\ r.op = "edit" => r.base # NoEtag

AckFollowsEffect(h) ==
    /\ pc[h] # "done" => answer[h].code = "none"
    /\ /\ pc[h] = "append" \/ answer[h].code = "ok"
       /\ req[h].op \in SaveOps
       => keys[req[h].key].state # "unused"

HandlerInv(h) ==
    /\ LockOf(h)
    /\ Named(h)
    /\ BasedOnVersion(h)
    /\ ExtendsBase(h)
    /\ Admitted(h)
    /\ AckFollowsEffect(h)

\* Tables and handlers together: rows agree, marks follow keys, and each handler
\* acts on what is still true of the memo it named.
IInv ==
    /\ TypeOK
    /\ RowsAgree
    /\ MarksFollowKeys
    /\ AppliedOnce
    /\ \A h \in Handler : HandlerInv(h)
=============================================================================
