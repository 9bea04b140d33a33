# Verification of panda-server

TLA+ models of the server in this repository, TLC runs that check them on small
instances, and TLAPS proofs of the properties that matter most for every instance.
The reference is the source under `src/`; the definitions of each module are mapped
to the lines they stand for in `PROJECT.json` ("map").

## 1. The system

panda-server is one process: an axum HTTP server over a SQLite file and a
directory of blobs. Desktop and mobile clients edit memos through REST, follow each
other through a change log they pull, push their offline queue, and are woken by a
websocket; agents edit through MCP. Three facts shape everything that is hard in it.

* Every handler is an async function. Between two awaits any other handler may
  run, and at any await the handler's future may be dropped, when its client goes
  away or the process ends. What was executed before the drop stays.
* `Db.write` (`crates/store/src/db.rs:8-29`) is one tokio Mutex for the whole process.
  Writers take it; readers do not, and neither do a few writers
  (`process_search_dirty`, `upsert_device_cursor`, `store_push_result`).
* Few operations are one transaction. A save is a lookup, a lock, checks, a blob
  file, a blob row, a snapshot row, a transaction and a log row, each a statement of
  its own (`crates/store/src/memos.rs:567-881`).

### Inventory

| Component | State it keeps | Operations | Hard behaviour | What makes it correct |
|---|---|---|---|---|
| Memo write path (`store/memos.rs`) | `memos`, `memo_contents`, `memo_revisions`, `edit_leases`, `idempotency_keys` | create, open, save, soft_delete, restore | interleaved edits, stale reads, retries, drops between statements | no acknowledged edit lost, none applied twice, purge final, log/snapshots/blobs agree with the rows |
| Merge, batches, revisions (`store/memos.rs`) | the same tables | merge, batch_move, batch_delete, restore_revision | partial failure, reads before the lock | no text lost in a merge; other devices hear of it |
| Write lock (`store/db.rs`) | one mutex | write | every exit path gives it back | every request ends |
| Etags (`domain/etag.rs`) | none | format, compare | metadata saves keep the etag | an etag names one text |
| Sync log (`store/sync_repo.rs`, `routes/sync_routes.rs`) | `sync_changes`, `sync_meta`, `device_cursors` | append, inventory, pull, compact, hello | pages cut between changes, compaction against slow devices, lost responses | a device that follows the protocol misses nothing, or is told to start over |
| Offline push (`routes/sync_routes.rs`) | `sync_operations` | push | retry of a batch, overlap of two pushes, partial batches | an operation id takes effect once |
| Live hints (`sync/lib.rs`, `handle_ws`) | broadcast channels | subscribe, publish | change between hello and subscribe, lag | a connected device hears of a change |
| Notebooks (`store/notebooks.rs`) | `notebooks` | create, rename, reorder, soft_delete | deletion against memos on their way in, orders of stale clients | no live memo in a deleted notebook, an order among siblings |
| Todos (`store/todos.rs`) | `todos` | create, update, delete, restore, list | operations repeated after a lost answer, paging over two orders | a change is made once and logged |
| Search index (`store/memos.rs`, `server/state.rs`) | `search_dirty`, `memos_fts` | marks, the background loop | mark deleted after a newer save, restart in the middle | every memo is indexed some time |
| Resources and blobs (`store/resources.rs`, `blob/lib.rs`) | `content_blobs`, files | put, get, refcounts | crash in a write, duplicate upload | a row that points to a blob finds it |
| Accounts (`store/users.rs`, `auth/lib.rs`) | users, sessions, tokens | bootstrap, login, register, change password | two bootstraps, expiry | one owner; an expired session is refused |
| MCP (`mcp/lib.rs`) | none | append_to_memo, replace_in_memo, ... | read, then save, without the lock | a focused edit never overwrites |
| Markdown, wire format, config, metrics, export | none | pure functions, plumbing | - | unit tests |

### How they interact

* REST and MCP handlers call the store; a memo save calls the blob store, the
  snapshot helper and the sync log while it holds the lock.
* A route publishes a hint on the bus after the store call has returned; the
  websocket task of each device forwards it; the device then pulls.
* Push applies each operation through the same `save`/`create` and records the result
  in `sync_operations`.
* A background loop (`server/src/state.rs:46-63`) drains the search marks without the
  lock.

## 2. The modules

In the order of what a user would lose if the part were wrong. No two of them share
a variable; each takes up where another leaves off, and says so at its head.

1. **`MemoStore`** (section 3): the write path, statement by statement, with `EditLedger`
   as what it promises. Proofs in `MemoStoreTypeProofs` and `MemoStoreProofs`.
2. **`SyncCatchup`** (section 4): log, cursors, pages, inventory, compaction, lost
   responses. Proofs in `SyncCatchupProofs`.
3. **`SyncPush`** (section 5): the offline queue, its retries and overlaps, and the todos.
   Proofs in `SyncPushProofs`.
4. **`Workspace`** (section 6): notebooks, and the operations that put memos into them,
   move, trash, restore and merge them. Proofs in `WorkspaceProofs`.
5. **`Contents`** (section 7): files, their counts and what refers to them; uploads, large
   texts, revisions taken up again. Proofs in `ContentsProofs`.
6. **`SearchIndex`** and **`HintBus`** (section 8): what follows a save, the index and the
   hints to connected devices. Proofs in `SearchIndexProofs` and `HintBusProofs`.

Every invariant and every action property that a passing run checks is also a theorem, for
any sets of handlers, memos, keys, devices and so on, and so is the refinement to
`EditLedger`. Each section says from which assumptions and by which inductive
invariant. What stays with TLC:

* the liveness properties `EveryRequestEnds`, `CatchesUp`, `IsIndexed` and `IsTold`: the
  provers have no rule for fairness, and weak fairness is about ENABLED;
* what the runs with a violation show, which is a counterexample and needs no proof;
* that no handler waits for ever for the lock (deadlock), which is about ENABLED too.

No definition is by recursion over data: what the code does in a loop over a list is a step
per element, or a set or sequence described at once (`Fold` of `SyncCatchup`, `Without` of
`SearchIndex`), so that induction over data is nowhere needed, and no module declares a
RECURSIVE operator. What is not modelled, and why, is in section 9.

## 3. The memo write path: `MemoStore`

### State

| Variable | Code |
|---|---|
| `memos`, `contents` | rows of `memos` and `memo_contents`; state `absent` (id not drawn), `live`, `trashed` (`is_deleted`), `purged` (row deleted) |
| `keys` | `idempotency_keys`: unused, live (`expires_at > now`), expired; with the etag of the stored ack |
| `snapshots`, `fresh` | `memo_revisions`; `fresh` holds the memos whose newest snapshot is under 300 s old |
| `blobs` | the blob file and its `content_blobs` row, with the refcount |
| `leases` | `edit_leases`, by the request that opened it |
| `log` | `sync_changes` |
| `writer` | who holds `Db.write` |
| `pc`, `req`, `answer` | a handler: the await point it stands at, its arguments, what its client was told |

A document is the sequence of the edits that made it. An edit reads the text, appends
its mark and saves the whole text back, as a client's editor, `append_to_memo` and
`replace_in_memo` do; so "an edit is lost" and "an edit is applied twice" are visible
in the document. The content hash is the document itself: hashes of different texts
are assumed to differ. An etag is the pair of revision and hash, as in
`domain/src/etag.rs`. Its printed form keeps 16 digits of the hash; the model keeps all.

### Actions

| Action | Code |
|---|---|
| `RequestCreate` .. `RequestLifecycle` | requests arrive, from the routes and from MCP; `RequestRetry` repeats the request of another handler, whether that one still runs, was dropped or has answered |
| `GetSummary`, `ReadMarkdown` | two separate reads without the lock (`open`, `append_to_memo`) |
| `CreateLease` | `create_lease` |
| `GetIdempotency` | the key's first lookup, before the lock |
| `SaveTurnedDown`, `SaveAdmitted` | lock taken, key looked up again, checks in the code's order (`SaveVerdict`) |
| `CreateAdmitted` | `create`, from the lock to the blob |
| `StoreBlob` | blob file and row, before the transaction |
| `MaybeSnapshot` | the snapshot row, before the transaction |
| `CommitCreate`, `CommitContent`, `CommitMeta` | the transaction: rows, refcount, idempotency key |
| `SoftDelete`, `Restore`, `Purge` | the statement of each, lock held |
| `AppendUnlocked` | the log row, after the transaction; then the answer |
| `Drop` | the future is dropped: lock given back, no answer. It stands for a client that goes away, for a failing statement, and, for all handlers at once, for the end of the process |
| `ExpireKey`, `ExpireLease`, `AgeSnapshot` | 24 hours, the lease's time, 300 seconds pass |

`EditLedger` is what the write path promises: per memo a ledger to which an edit is
added at the end, in one step, once per key while the key is kept, and acknowledged
only after. `ImplementsLedger` maps `contents` to the ledger, `keys` to what became of
each key and the answers "ok" to acknowledgements.

### Runs

| Run | Instance | Shows |
|---|---|---|
| `memo_edits` | 4 handlers, 2 memos, 2 keyed edits of one memo, text over the inline threshold from the second mark | `NoLostEdit`, `AppliedOnce`, `ConflictIsWithOthers`, `LogGapsAreDropped`, `LogInOrder`, `SnapshotsAreHistory`, `BlobsRetained` under any interleaving and any drops |
| `memo_lifecycle` | 3 handlers, 1 memo, one content key and one metadata key, every operation | the refinement `ImplementsLedger`, `PurgeIsFinal`, `EveryRequestEnds`, and `IInv` as an invariant before it is proved |
| `memo_unlogged_ack` | 3 handlers | `AcknowledgedIsLogged` fails (finding 1) |
| `memo_snapshot_wedge` | 3 handlers | `SnapshotOncePerRevision` fails (finding 2) |

**Bounds.** A handler makes one request and then stays done, so the number of handlers
bounds the requests; nothing else is bounded (revisions, log and documents grow with the
requests). Four are what the interesting cases of an edit need: a create, an edit
that is dropped or late, its retry or rival, and a third party that commits in between.
Two memos show that the lock and the blob store are shared: equal texts share a
blob. Three suffice for the lifecycle: a create, a purge or trash, and a save or restore that waits for the lock. Handlers are symmetric in
`memo_edits`, which checks invariants only; the run with liveness uses no symmetry. A
finished system may stop (`Quiescent`), so deadlock is checked: a handler that waits
for ever for a lock nobody gives back is reported.

**Fairness.** `FairSpec` asks for weak fairness of each handler's own steps: the runtime
polls every task that is ready, and a tokio Mutex is served first come first served. A
handler waiting for the lock is disabled while it is held, and weak fairness suffices
all the same, because the instance has finitely many requests, after which the lock
stays free. Nothing is assumed of arrivals, drops or expiry.

### What is proved

`MemoStoreAssumption` is all that is assumed: the sets are any sets, finite or not.

* `MemoStoreTypeProofs!TypeCorrect`: `Spec => []TypeOK`.
* `MemoStoreProofs!Invariance`: `Spec => []IInv`.
* `MemoStoreProofs!NoEditIsLost`: `Spec => []NoLostEdit`.
* `MemoStoreProofs!EditsAreAppliedOnce`: `Spec => []AppliedOnce`.
* `ConflictsAreWithOthers`, `LogFollowsCommits`, `GapsComeOfDrops`, `SnapshotsTellHistory`,
  `BlobsAreKept`, `PurgesAreFinal` of `MemoStoreProofs`: the other properties of
  `memo_edits` and `memo_lifecycle`.
* `MemoStoreProofs!StoreImplementsLedger`: `Spec => ImplementsLedger`.

`NoLostEdit` speaks of answers and texts; neither it nor `AppliedOnce` is inductive,
because both depend on what a handler in the middle of a save is about to write. `IInv`
says so. `RowsAgree` and `MarksFollowKeys` are about the tables: the two rows of a memo
hold one version; a key nobody used marks no text, and the text of a used content key's
memo holds its mark. `HandlerInv` is about one handler and the tables: it holds the
lock exactly in the locked steps (`LockOf`); its base is a version the memo had
(`BasedOnVersion`); while that version is current, its body is the current text
and one mark (`ExtendsBase`) although summary and text were read in two steps; what
`SaveVerdict` found under the lock is still so at the commit (`Admitted`); and an
answer "ok" comes after the key is stored (`AckFollowsEffect`).

The argument for `ExtendsBase` is the heart of it: the summary is read first, so if a
save falls between the two reads the base is older than the text, the revision never
returns to it, and the precondition refuses the save. If the base is still current
when the save is admitted, nothing was committed since before the text was read.

The proof goes by the steps of a handler. A step that changes no table disturbs only
its own handler (`ReadIInv`, `LockIInv`); a commit also has to leave the handlers that wait
unhurt (`WaitersUnhurt`): the revision grows, so no waiting base becomes current. Then
one lemma per group of actions (`CreateIInv`, `ContentIInv`, `MetaIInv`,
`LifecycleIInv`, `ExpireKeyIInv`, `AgeingIInv`), put together by PTL.

The other theorems take `IInv` as known and add one invariant for each table beside the
rows, in the second half of `MemoStoreProofs`. They share a division of the steps
(`KindsOfSteps`): most are `Quiet`, that is, they leave rows, snapshots and log alone, blobs
only grow, keys only age, and a handler past its commit keeps what it has; the rest are the
eight steps of a handler that holds the lock (`Tells`), for which a lemma says the effect
(`CreateCommitted`, `ContentCommitted`, `VersionsKept`, `RowPurged`, `SnapshotAdded`,
`RowAppended`).

* `SnapshotsKept` adds to `SnapshotsAreHistory` that a memo that is not there has no
  snapshots: a create would else begin a history under snapshots of another.
* `LogTells` adds to the two properties of the log what makes them survive an append: no
  row is ahead of its memo, and a handler about to write its row writes the version its
  memo has, later than all rows before (`RowDue`). This is where it matters that the row,
  although outside the transaction, is written under the same lock. It also says of
  `LogGapsAreDropped` that only saves of text account for a version (`Untold`): a metadata
  save may note the same revision, and its row must not be mistaken for the missing one.
* `BlobsHeld` adds to `BlobsRetained` that a handler between blob and transaction finds the
  blob it stored (`BlobReady`), and that only finitely many memos point to a text.
* A conflict is told in one step with its check, so `ConflictIsWithOthers` needs only that the
  answer and the version it names are not changed later.

The refinement has a lemma for each step of the ledger. That a save takes effect at its
commit is `ContentRefines` and `MetaRefines`; that it is acknowledged only after is
`AcksOne`, which rests on `AckFollowsEffect`. All other steps are a stutter
(`NoEffectRefines`).

**Only model-checked**: `EveryRequestEnds`, and the absence of deadlock.

### Findings

1. `memo_unlogged_ack`: a save whose future is dropped between its commit and its log
   row, then retried with its key, is answered ok from `idempotency_keys`; no row of
   `sync_changes` is ever written for it and other devices do not hear of the edit.
   `docs/mcp.md:74-75` says successful writes enter the stream.
2. `memo_snapshot_wedge`: a save dropped between its snapshot and its transaction
   leaves a snapshot of the current revision. When the snapshot is 300 s old the next
   content save inserts another one of the same revision, violates
   `UNIQUE(memo_id, revision)` and fails with a retryable Internal; so do all later ones,
   since only a content save could raise the revision.

### What the model leaves out

Notebook ids and the notebook check of `create` (`Workspace`); patches,
titles, tags and excerpts (one metadata value, last writer wins as in the code); the search
mark each save sets (`SearchIndex`); resources and how a file is written (`Contents`); a
content save with a wrong `base_revision` or `base_content_hash` is the conflict of the
wrong etag; workspaces are independent and one is modelled.

## 4. Catching up: `SyncCatchup`

Here memos, notebooks and todos are items, and all that is told of an item is its
version. `MemoStore` shows when a write gets its log row; `SyncCatchup` starts from
there and asks what becomes of the rows on their way to a device.

### State

| Variable | Code |
|---|---|
| `version` | the rows of `notebooks`, `memos` and `todos`: how often each was changed |
| `pending` | a writer that has committed and holds the lock until its log row is written |
| `log`, `last` | `sync_changes` and its AUTOINCREMENT counter |
| `syncEpoch`, `cursors` | `sync_meta.sync_epoch`, `device_cursors` |
| `compaction` | `compact`: the statement it stands at, and its watermark |
| `req` | per device the request in work: the statement its handler stands at and what it has read |
| `client` | per device: cursor, epoch (0: none), the version it has of each item |
| `logged`, `unannounced`, the `missed` fields | history, for the properties only |

### Actions

| Action | Code |
|---|---|
| `Commit`, `AppendUnlocked`, `DropWriter` | a writer under the lock: change, log row, or dropped in between |
| `RequestInventory`, `RequestPull`, `RequestHello` | the device asks; external |
| `ReadSection`, `ReadEpoch`, `MaxCursor` | `inventory`, one statement at a time, none under the lock |
| `ReadPage` | the query of `pull`: rows above the cursor, limit, pop, fold |
| `UpsertDeviceCursor` | the device's row, written before the answer leaves; a request of a device in `Nameless` may leave out its `device_id`, and then none is written |
| `DeliverInventory`, `DeliverPull`, `DeliverHello` | the device takes the answer; another epoch sends it back to the inventory |
| `Lose` | request or answer lost, or handler dropped, at any step |
| `ExpireDevices`, `ReadWatermark`, `DeleteRows`, `RaiseEpoch`, `DropCompaction` | `compact`, under the lock, from the background loop or the owner, dropped or failing at any step |

The greeting of the websocket is a request of three steps: epoch, end of the log, and,
after the frame is sent, the device's row with the end of the log as its cursor.
Its fallbacks are kept: epoch 1 and the device's own cursor when a query fails, and a
frame that could not be sent does not stop the row from being written.

### Runs

| Run | Instance | Shows |
|---|---|---|
| `sync_catchup` | 1 device, a notebook changed twice and a memo once, pages of 2 rows | `IInv`, `NeverGoesBack`, and `CatchesUp` under fairness |
| `sync_compaction` | 2 devices, 2 items, pages of 1 row | `GapAnnounced` and `CursorsWithinLog` when a watermark is the slower of two cursors |
| `sync_inventory_gap` | 1 device, 2 items | `NothingSkipped` fails (finding 3) |

**Bounds.** `MaxVersion` bounds the changes of each item; it is a guard of `Commit` and
the only bound. Three changes are what it takes to have two rows of one item in a page,
a row beyond the page and a row that compaction removes. Two devices make the
watermark different from a device's own cursor. `Nameless` holds the device of
`sync_catchup`, so every answer there may or may not write a row; the two devices of
`sync_compaction` always name themselves, so that the watermark is the smaller of two
cursors. Devices, and in `sync_compaction` items,
are interchangeable there; the run with liveness uses no symmetry. There are no final
states: a device may always greet again.

**Fairness.** Weak fairness of a handler's next statement, of the log row of a writer, of
the statements of compaction and of the arrival of an answer: tasks that are ready are
polled. Of the device, which is not part of the server, it is assumed that it asks
again whenever it can again and again (strong fairness of its two requests, because
losses disable them for a while) and that from some time on nothing of its is lost: a
device whose every answer is lost never catches up. The arrival of an empty page is, as
a step, the same as its loss, so the assumption excludes only losses that are not also
arrivals; excluding all of them would leave no fair behaviour at all. Nothing is
assumed of writers' drops, of expiry or of when a compaction starts.

### What holds, and the two exceptions

`GapAnnounced`: if a device has an older version of an item than the log was ever
told, then a row of that item lies above its cursor, or its epoch is not the current
one, except in two cases, which the code has and the property names:

* the change was logged while the device's inventory was being read (`missed`);
* compaction has deleted rows and not yet raised the epoch (`unannounced`). When it is
  dropped there, or its last statement fails, which is ignored (`sync_repo.rs:241`), this
  lasts until a later compaction deletes something.

So what carries the device over compaction is the epoch, not the cursors: a lost
answer and a greeting both raise the device's row above what it has seen, the rows
in between are deleted, and the device learns of it from the next answer.

`NeverGoesBack`: no answer takes a device back, in particular not a row older than the
inventory that preceded it. `CursorsWithinLog`: compaction keeps the last row, since the
watermark is at most its id and only smaller ids are deleted; with `<=` an empty log
would show devices the cursor 0. `CatchesUp`: with fairness, all that is left
behind in the end are the two exceptions.

### What is proved

`SyncAssumption` is all that is assumed; `Device` and `Item` are any sets, `Nameless` any subset of `Device`.

* `SyncCatchupProofs!SpecIInv`: `Spec => []IInv`, type correctness included.
* `SyncCatchupProofs!SpecGapAnnounced`: `Spec => []GapAnnounced`.
* `SyncCatchupProofs!SpecNeverGoesBack`: `Spec => NeverGoesBack`.
* `SyncCatchupProofs!SpecCursorsWithinLog`: `Spec => []CursorsWithinLog`.

Call what a device knows *learned* when nothing is silently missing from it (`Informed`)
and rows above its cursor tell nothing older than it has (`Forward`). `GapAnnounced` is not
inductive, since it says nothing of answers in flight. `IInv` adds it: a device would
still be learned if the answer arrived now (`Learned(Apply(...))`,
`Learned(Inventoried(...))`), would know no less than before (`KnowsMore` and the clause on
sections in `InventoryInv`), and the log tells the versions of an item in order
and the last of them last (`LogTells`).

The core is that being learned is stable: whoever knows `c`, appending puts a row above
its cursor, deleting sets `unannounced`, and raising the epoch makes its epoch old
(`AppendIInv`, `DeleteRowsIInv`, `RaiseEpochIInv`, through `BackgroundIInv`). So it does
not matter how long an answer is under way or whether it arrives. What is left is
that each answer is learned when its last table is read: for a page
(`PageLearned`) because it holds every row between the two cursors (`PageIsPrefix`) and
folding keeps the last of each item (`FoldKeepsLast`); for an inventory because what the
view lacks at that moment is what `missed` records (`MaxCursorIInv`).

`CursorsWithinLog` needs `CursorInv` besides: no cursor in a request, a table or the
compaction is beyond the last row.

**Only model-checked**: `CatchesUp`.

### Finding

3. `sync_inventory_gap`: `inventory` reads its items first and `MAX(id)` last. A change
   that is committed and logged in between is not in the items and not above the
   cursor; no pull returns it and the device lacks it until the item changes again or
   the epoch does. Reading the cursor before the items would close the gap: the device
   would pull the change a second time, and the comment at `sync_repo.rs:111-113` shows
   that skipping an item is what the log is kept for.

### What the model leaves out

An inventory whose memos come in several pages, each with its own cursor; rows that
carry part of an item (`payload_json`): a row stands for the version it was written
with; the limit of 2,000 todos; `device_cursors.sync_epoch`, which is written and never
read; rejected and malformed requests; and the hints, which only make a device pull
sooner.

## 5. The offline queue: `SyncPush`

A device queues operations while it is offline and sends them to `POST /sync/push`, again
and again until it has an answer for each. `push` works on them one by one and in separate
steps: it looks the operation up in `sync_operations`, applies it, stores its result.

### State and actions

| Variable | Code |
|---|---|
| `outbox` | the device's queue (external) |
| `todos`, `memos` | the rows: state and revision |
| `keys`, `recorded` | `idempotency_keys`, `sync_operations` |
| `writer`, `pc`, `queue`, `results`, `reply` | the lock; per call its step, the operations before it, what it gathered and answered |
| `history`, `told`, `torn`, `overlapped` | history, for the properties only |

| Action | Code |
|---|---|
| `RequestPush`, `RequestRest` | the device sends its queue, or the first part, from the first operation it has no answer for, or again from one that was refused or failed; another client calls a todo route |
| `LoadPushResult`, `StorePushResult` | `load_push_result`, `store_push_result`, without the lock |
| `AbortBatch` | a todo operation without its payload ends the request with an error (`sync_routes.rs:283`) |
| `RefuseMalformed`, `ParentMissing`, `Refuse` | refusals, which are results and are not stored |
| `FindApplied` | the todo of a `todo.create` is there, the key of a save is known: ok |
| `ApplyTodo`, `ApplyMemo`, `AppendUnlocked` | the change under the lock, then its log row |
| `FailBefore`, `FailAfter` | a statement of the operation fails before, or after, its change: the result is `internal`, is not stored, and the push goes on (`sync_routes.rs:357-364` and its like) |
| `Finish`, `Drop` | the answer; the request dropped at any step, or ended by the error of `load_push_result`, `default_inbox_id` or `store_push_result` |

`Verdict` has the checks of `todos.rs` and of `save`, each in the order of its code:
`todo.purge` compares revisions before it asks for the trash, `todo.restore` after.

### Runs

| Run | Instance | Shows |
|---|---|---|
| `sync_push` | 3 calls, seven queues of two or three operations (`MCOutboxes`), three operations of other clients, 1 todo, 1 memo | `AppliedAsQueued`, `GuardedOnce`, `AcknowledgedIsTold`, `RefusalIsOfNothingDone` |
| `sync_push_twice` | 2 calls, one `memo.create` | `OperationOnce` fails (finding 4) |

**Bounds.** A call makes one request, so the number of calls bounds the pushes: three are a
push, its retry and another client, or a push and two retries. The queues are chosen so
that each kind of operation meets each kind of guard: by the client's id, by a key, by a
revision, by none; well formed, malformed and unknown. `Failing` has three operations a
statement of which may fail, any number of times: a todo with a revision, one without, a
new memo. That is enough to have each kind of failure before and behind others of the
queue. Calls are interchangeable. No
property here is a liveness property and no fairness is assumed.

### What holds

As long as no push is dropped or fails half way through an operation and no two work on it at
once, operations take effect in their order and once (`AppliedAsQueued`), and one that took
effect is not refused to its own device (`RefusalIsOfNothingDone`). The order has one more
exception: an operation that is refused, or fails with an internal error, is passed over,
those behind it take effect in the same batch, and a later push may apply it after them. Torn or overlapped,
those still take effect at most once that carry a guard of their own (`GuardedOnce`): the
id of a new todo, the key of a save, the revision of a todo operation. The exception is a
todo deleted for good, which takes its id and revision with it. An answer ok means that
the change was made and, unless a call was dropped or failed half way through it, that it is
in the log (`AcknowledgedIsTold`).

### What is proved

All four properties and `TypeOK`, for any number of calls and any queues (`SyncPushProofs`).
Two assumptions come from the code: an operation's kind says whether it is on a
todo or a memo; and an id is drawn once for a new todo (`DrawnOnce`: the id is the client's
and only "a sync retry reuses" it, `todos.rs:251`). Without the second, the ok that the
`todo.create` of another gets would be an answer for nothing done.

None of the four is inductive: they speak of what happened, and what decides whether it
happens again is where its traces are. `IInv` says where: an operation that took effect has
its result in `sync_operations`, or a call is about to store it, or such a call
was dropped or failed half way (`EffectsAccounted`); two calls at work on one operation are known to be
(`OverlapIsSeen`); so who applies an operation is the first, unless torn or overlapped
(`NotDoneYet`). `LeavesItsMark` does the same for guards: key, row or grown revision. For
the order, what a call has still to do is an end of the device's queue, and all before it
has a result (`QueueFits`, `TurnsAreKept`). For the answers, whatever makes a call say ok
means that the change was made and its row written, due or lost (`OkWasDone`). `LockIsKept`
makes the row that is due belong to one call.

The steps are first reduced to eleven kinds (`StepOf`: it begins, takes an operation up, refuses,
finds a result, takes effect, fails half way, ...), and each part of `IInv` is proved over these.

### Finding

4. `sync_push_twice`: the push of a `memo.create` is dropped between its commit and the store
   of its result, or its retry starts meanwhile; the retry finds no result and makes a
   second memo. `migrations/001_initial.sql:234-235` says that a lost response cannot
   apply a mutation twice.

### What the model leaves out

The fields of a todo and their validation; which memo a todo is linked to, except that
it may be missing; the limit of the batch's size, which refuses a request and changes nothing.

## 6. Where memos live: `Workspace`

### State and actions

`notebooks` and `memos` are the tables: state, parent, place among the siblings and name of a
notebook; state, notebook, edits in the text and `merged_into_memo_id` of a memo. `writer`,
`pc` and `req` are the lock and the calls. `unlogged`, `torn`, `stranded`, `merging` and
`late` are history: what was changed and is not in the log, by whom it was left so,
which memos a deletion found in the trash or on their way, what a merge has read and what
was added to it after.

| Action | Code |
|---|---|
| `CheckNotebook` | `require_notebook`, which `create`, `batch_move` and `merge` call before the lock |
| `InsertNotebook`, `Rename`, `Reorder`, `DeleteNotebook` | `notebooks.rs`, each under the lock |
| `InsertMemo`, `Edit`, `File` | `create`; a save of the text; a save with a notebook, checked under the lock |
| `Move` | `batch_move`, which keeps the lock over all its memos and logs each |
| `SoftDelete`, `Restore` | `batch_delete` takes the lock memo by memo |
| `ReadSource`, `InsertMemo`, `TrashSource` | `merge`: reads without the lock, creates, and trashes one source after the other, ignoring errors |
| `Refuse`, `AppendUnlocked`, `Drop` | checks that fail; a log row; a call dropped at any step |

### Run

`workspace`: the Inbox and a notebook, one to be made, two memos in any of them, one to be
made; three calls: one on notebooks, one that puts memos into them (create, move, merge,
restore), one on memos (edit, file, trash, purge) or on notebooks again. Each hazard
takes two actors at most and a state that a third has prepared. The two memos are interchangeable.
The requests are bounded by the calls, and nothing else is. No fairness is assumed.

* `HomeIsKept`: a live memo is in a live notebook, with two exceptions the code has:
  the notebook was deleted while the memo was in the trash, which `restore` does not ask, or
  while a call that had seen the notebook waited for the lock.
* `PlacesDiffer`: no two siblings share a place in the list, unless a client gave one its
  `sort_order` itself. The demand of `reorder` that every sibling be named is what keeps this.
* `MergeKeepsText`: what is in a trashed source and not in the merged memo was added
  after the merge had read the source: an acknowledged edit can be lost to the trash this way.
* `OnlyMergeIsSilent`: of changes, only the trashing of merged sources never reaches the log,
  and what a dropped call left behind.

### What is proved

`TypeOK` and the four properties (`WorkspaceProofs`), for any calls and any finite sets of
notebooks and memos, which is what a database has: a new notebook's place is one more than
the greatest among its siblings, and a batch names memos one after the other. `IInv` has
`PlacesDiffer` and `OnlyMergeIsSilent` as they are; the others need to know what a call that is
not at work yet will do.

* `HomeIsKept` from `HomeOrStranded`: the notebook of every memo, in the trash too, is
  live or the memo is stranded, and so is the notebook that a waiting call has seen
  (`Arrives`). Memos in the trash have to be in it, because `restore` brings them back unasked.
* `MergeKeepsText` from `MergesHold`: what a merge has read of a memo is all of it but late
  edits (`HasRead`), at each step on to the trashing; and once the merged memo is made it holds
  what was read (`HoldsText`). `MadeOnce` is needed for it: no other call makes the merged memo.
* `PlacesDiffer` is inductive by itself: a new place is one more than the greatest, and
  `reorder`, which insists on every sibling, gives each its own (`PlacesStep`).

### What the model leaves out

Paths and depth of notebooks, which never change once made; `merge`'s headings and tags;
ids that were never given out; that deleted notebooks keep their live children, in the
code as in the model, which no property judges.

## 7. Files and what refers to them: `Contents`

### State and actions

`files` are the files of the blob store, each `none`, `part` or `whole`; `blobs` the rows of
`content_blobs` with their counts; `memos` the text of each memo and a version that stands
for its etag; `revisions` and `resources` those tables. `torn`, `together` and `sent` are
history: the texts whose write was cut short, the uploads that looked for each other
before either was there, the texts each workspace has sent. A text is its own hash. Only
texts in `Large` go to a file when they are a memo's (`inline_threshold`); attachments always do.

| Action | Code |
|---|---|
| `Exists`, `Write`, `Flush` | `BlobStore::put`: the look, the file created or emptied, the file filled or the disk full |
| `Orphan` | tokio's file write goes on when its future is dropped |
| `Summary`, `Dedup`, `CountBlob`, `InsertResource` | `upload_resource` and `ResourceRepo::create`: memo and hash are looked up before the lock |
| `Enter`, `UpsertBlobMeta`, `Commit` | `create` and `save` from the lock on; the transaction counts the blob up, never down |
| `ReadRevision`, `Load` | `restore_revision`; a reused hash; downloads and other reads |
| `Purge` | the memo's rows go, its resources stay without it, files stay |
| `Drop`, `Crash` | a call is dropped; the process ends, files stay as far as they were filled |

### Run

`contents`: a large and a small text, two workspaces with a memo each and a memo to be made;
four calls: two that upload or save, one that reuses a hash or takes a revision up, one
that creates, purges or reads. The first two are interchangeable. Two writers of one
file and a third that refers to it are what the hazards take. No fairness is assumed.

* `StoredWhole`: what is referred to is whole in its file, unless a write was cut short
  by a crash or a full disk, which no later `put` repairs because the path is there, or a
  write is under way: a second `put` that looked before the first had created the file
  empties it again, under rows that already refer to it.
* `CountCoversReferrers`: the count is never below the references.
* `OneResource`: an upload of a known file is no second resource, unless the two looked at
  the same time. The resource it answers with may be another memo's.
* `FoundIfReferred`: who is let in to a text finds it, except revisions of texts small
  enough for the memo's row, which have no file and are lost when the memo's text moves on.
* `OwnTexts`: a workspace's memos hold only what it sent, though one file serves all.

### What is proved

`TypeOK` and the five properties (`ContentsProofs`), for any calls, texts and memos. It is assumed
that there is a workspace (`Space # {}`; the server makes one for each account).
`IInv` says of each step of a call what it has made sure of before: that it holds the lock
and its memo is there (`LockIsKept`), that its text has a file (`CallHasFile`), that
its workspace sent the text (`OwnSent`), that its resource is counted before it is inserted
(`Covered`), and that no other call claims the same resource unless both looked together
(`ClaimedTogether`). These facts outlive what others do, because only the holder of the lock
changes memos and because no file is ever removed. A file that is not whole is being
written, or was cut short (`PartIsExplained`), which is `StoredWhole` for all files at
once; the counts need `IsFiniteSet` of what refers, which holds since each step adds one.

### What the model leaves out

Drops between the statements of a save that `MemoStore` has; the log; metadata of
resources; what is left of a text cut short is taken to be small; the count's statement,
whose error is ignored, is taken to succeed inside its transaction; the bytes of a
resource reused as a text are taken to be normalised already. `delete_if_unreferenced`
is called by nobody.

## 8. What follows a save: `SearchIndex` and `HintBus`

`SearchIndex` has `memos` as versions of text and title, `marks` (`search_dirty`, in the order
of `marked_at`), `index` (`memos_fts`) and `loop`, the turn of the background loop. `Change`
is a save or a purge; `Wake`, `ReadMemo`, `DeleteIndexed`, `InsertIndexed`, `Clear` are the
statements of `process_search_dirty`, none under the lock, most with their errors ignored;
`Restart` forgets the turn and keeps the tables.

`HintBus` has the end of the log, per call the hint it is about to make, per device its
websocket and the queue of the channel. `ChangeAndTell` is a route with a hint,
`ChangeSilently` one without (notebooks, batches, restore, merge, a restored revision);
`ReadCursor` and `Publish` are `hint_after_change`; `Greet`, `Subscribe`, `Forward`,
`Disconnect` are `handle_ws`. All of it is gone after `BusRestart`.

The two share no state, so a product of their states would show nothing that each alone
does not. `MCAfterSave` puts both into one run, `after_save`; its initial state says
which of the two runs.

* `StaleIsMarked`, `IsIndexed`: a memo that the index does not show has its mark, across restarts too,
  and is indexed some time. The exceptions are the code's: a save during the loop's turn
  at its memo, whose mark the turn then deletes, and a statement that failed unseen.
  A title saved alone sets no mark and is indexed with the next text.
* `EveryRowIsAnnounced`, `IsTold`: a device on the bus is told of every row that a call announces, or
  of a greater one: hints may overtake each other and a full channel may lose the oldest.
  The exceptions are hints without a cursor, changes announced between the greeting and the
  subscription, calls dropped before their hint, and rows crowded out (`crowded`): a full
  channel has lost the last hint that told of them, because those behind it said less. Such
  a row is told of with the next hint that does not overtake.
* `CrowdingTakesMany`: a row is crowded out only when the calls and the hints without a cursor in
  the channel are together more than its places, 256 in the code. The code puts no bound on
  either, so this is the exception's size and not its absence.

**What is proved.** `StaleIsMarked` (`SearchIndexProofs`), `EveryRowIsAnnounced` and
`CrowdingTakesMany` (`HintBusProofs`), each module with its types, for the module by itself and any values of its constants.

* For the index, `IInv` follows the loop: the memos before it are marked, each once
  (`MarksAreTaken`); what it has read is the memo as it is, unless saved in its turn
  (`ReadIsFresh`); at the last step the index shows it (`ClearedIsShown`). So the mark it
  deletes says nothing new, and that there is one mark for a memo, which `TypeOK` says, makes
  sure that it deletes no second one.
* For the bus it is a matter of counting. A row is crowded out when as many hints are behind
  the last one that tells of it as the channel holds. Behind that one there are only hints
  without a cursor and smaller ones, each of a call that had read the log before the row;
  such a call is in flight or has its hint in the channel, and there is none for the call
  that logs the row, so they are fewer than calls (`FewAreStale`). The rest of the channel is
  hints without a cursor. Of the constants only that `Call` is finite is assumed, and
  that the channel holds something.

`IsIndexed` and `IsTold` are liveness and only model-checked.

**Bounds.** Two memos, `MaxSaves` 3 versions each, one restart, one failing statement,
turns of two marks: a memo marked again while the other is worked on. Two calls, one
device, a channel of 2 hints, `MaxRows` 5 rows, 2 greetings, 1 hint without a cursor: two
hints in flight, a full channel, a row crowded out of it by an older hint and one without a
cursor, a second connection. The bounds end the runs, so deadlock is not checked.

**Fairness.** Weak fairness of the loop, which never ends, and of the steps of handlers and
websockets, which are polled. Nothing is assumed of saves, restarts or devices.

## 9. Not modelled

* Accounts (`users.rs`, `auth/lib.rs`): logins, sessions, tokens and invites are single
  statements or transactions whose conditions the database checks, and times that only
  expire rows. A new account's Inbox is the initial state of `Workspace`.
* Lists and their pages (`list` of memos and todos, the 2,000 todos of an inventory, the
  200 memos of an export): reads, with orders over times and texts that a small instance
  would have to invent. The hazards list names what is wrong with them.
* The partial payloads of `sync_changes`: what a folded page tells of a memo depends on
  how a client merges payloads, and no client is in this repository.
* Markdown, patches, excerpts: pure functions on texts, with unit tests.
* Wire format, configuration, metrics, MCP framing, the archive of an export: no state.
