---------------------------- MODULE SyncCatchup ----------------------------
(***************************************************************************)
(* How a device catches up with a workspace: the change log, the inventory *)
(* and the pull of crates/store/src/sync_repo.rs, the routes that answer   *)
(* them, the greeting of the websocket, and the compaction of the log.     *)
(*                                                                         *)
(* An item is a notebook, a memo or a todo, and its version counts its     *)
(* changes.  Every statement of a handler is a step: none of the readers   *)
(* takes the write lock, and a handler may be dropped between any two.     *)
(*                                                                         *)
(* The device is not part of the server.  It is modelled as                *)
(* docs/client-adapter.md tells it to behave: an inventory first, then     *)
(* pulls; an answer of another epoch sends it back to the inventory.       *)
(***************************************************************************)
EXTENDS Naturals, FiniteSets

CONSTANTS
    Device,
    Nameless,    \* the devices that may leave out their device_id
    Item,
    NoItem,      \* no change is being written
    Section,     \* the statements an inventory reads items with, 1 .. Section
    SectionOf,   \* the one that reads an item: notebooks, memos, todos
    PageLimit,   \* rows in an answer to a pull
    MaxVersion   \* of each item, a bound on its changes

ASSUME SyncAssumption ==
    /\ Nameless \subseteq Device
    /\ NoItem \notin Item
    /\ Section \in Nat \ {0}
    /\ SectionOf \in [Item -> 1 .. Section]
    /\ PageLimit \in Nat \ {0}
    /\ MaxVersion \in [Item -> Nat]

VARIABLES
    version,      \* of each item, committed
    pending,      \* the item whose change is committed and not yet in the log
    log,          \* table sync_changes
    last,         \* the last id AUTOINCREMENT gave
    logged,       \* history: the newest version of each item the log was told
    syncEpoch,    \* sync_meta.sync_epoch
    cursors,      \* table device_cursors: the devices with a row, and its cursor
    compaction,   \* the compaction that holds the write lock
    unannounced,  \* history: rows were deleted since the epoch last changed
    req,          \* the request of each device the server is working on
    client        \* what each device knows

logVars == <<version, pending, log, last, logged>>
compactVars == <<syncEpoch, compaction, unannounced>>
vars == <<logVars, compactVars, cursors, req, client>>

-----------------------------------------------------------------------------
(* Values. *)

Versions == [Item -> Nat]
Row == [id : Nat, item : Item, version : Nat]

Request == [op : {"none", "inventory", "pull", "hello"},
            step : {"section", "page", "epoch", "cursor", "upsert", "reply"},
            section : Nat, view : Versions, page : SUBSET Row,
            cursor : Nat, epoch : Nat, missed : SUBSET Item]

\* Epoch 0 is no epoch: the device has to take an inventory.
Client == [cursor : Nat, epoch : Nat, seen : Versions, missed : SUBSET Item]

Compaction == [step : {"idle", "watermark", "delete", "epoch"}, watermark : Nat]

Nothing == [e \in Item |-> 0]

Ask(op, step, cursor) ==
    [op |-> op, step |-> step, section |-> 1, view |-> Nothing, page |-> {},
     cursor |-> cursor, epoch |-> 0, missed |-> {}]

NoRequest == Ask("none", "reply", 0)
NoCompaction == [step |-> "idle", watermark |-> 0]

\* The greatest id of a set of rows, 0 when there is none.
MaxId(rows) ==
    IF rows = {} THEN 0
    ELSE CHOOSE i \in {r.id : r \in rows} : \A r \in rows : r.id <= i

LockFree == pending = NoItem /\ compaction = NoCompaction

-----------------------------------------------------------------------------
Init ==
    /\ version = Nothing
    /\ pending = NoItem
    /\ log = {}
    /\ last = 0
    /\ logged = Nothing
    /\ syncEpoch = 1
    /\ cursors = [d \in {} |-> 0]
    /\ compaction = NoCompaction
    /\ unannounced = FALSE
    /\ req = [d \in Device |-> NoRequest]
    /\ client = [d \in Device |-> [cursor |-> 0, epoch |-> 0, seen |-> Nothing,
                                   missed |-> {}]]

-----------------------------------------------------------------------------
(* Writers.  The log row is a statement of its own, after the commit; a     *)
(* writer dropped in between leaves a change the log never tells.           *)

Commit(e) ==
    /\ LockFree
    /\ version[e] < MaxVersion[e]
    /\ version' = [version EXCEPT ![e] = @ + 1]
    /\ pending' = e
    /\ UNCHANGED <<log, last, logged, compactVars, cursors, req, client>>

AppendUnlocked ==
    /\ pending # NoItem
    /\ last' = last + 1
    /\ log' = log \union {[id |-> last + 1, item |-> pending,
                           version |-> version[pending]]}
    /\ logged' = [logged EXCEPT ![pending] = version[pending]]
    /\ pending' = NoItem
    /\ UNCHANGED <<version, compactVars, cursors, req, client>>

DropWriter ==
    /\ pending # NoItem
    /\ pending' = NoItem
    /\ UNCHANGED <<version, log, last, logged, compactVars, cursors, req, client>>

-----------------------------------------------------------------------------
(* Requests of a device, one at a time. *)

Send(d, r) ==
    /\ req[d].op = "none"
    /\ req' = [req EXCEPT ![d] = r]
    /\ UNCHANGED <<logVars, compactVars, cursors, client>>

RequestInventory(d) ==
    /\ client[d].epoch = 0
    /\ Send(d, Ask("inventory", "section", 0))

RequestPull(d) ==
    /\ client[d].epoch # 0
    /\ Send(d, Ask("pull", "page", client[d].cursor))

\* The first frame on the websocket.
RequestHello(d) == Send(d, Ask("hello", "epoch", 0))

-----------------------------------------------------------------------------
(* Steps of a handler. *)

At(d, step) == req[d].op # "none" /\ req[d].step = step

\* One of the statements of inventory: notebooks, a page of memos, todos.
ReadSection(d) ==
    LET r == req[d] IN
    /\ At(d, "section")
    /\ req' = [req EXCEPT ![d] =
                [r EXCEPT !.view = [e \in Item |-> IF SectionOf[e] = r.section
                                                   THEN version[e] ELSE r.view[e]],
                          !.section = r.section + 1,
                          !.step = IF r.section = Section THEN "epoch" ELSE "section"]]
    /\ UNCHANGED <<logVars, compactVars, cursors, client>>

\* Mutant of After: the row at the cursor is read again.
AfterOrAt(c) == {r \in log : r.id >= c}

After(c) == {r \in log : r.id > c}

FirstOf(rows) ==
    {r \in rows : Cardinality({s \in rows : s.id <= r.id}) <= PageLimit}

\* Mutant of Fold: the earliest row of an item is kept.
FoldFirst(rows) == {r \in rows : \A s \in rows : s.item = r.item => s.id >= r.id}

\* Of the rows of a page about one item, the latest.
Fold(rows) == {r \in rows : \A s \in rows : s.item = r.item => s.id <= r.id}

ReadPage(d) ==
    LET r == req[d]
        page == FirstOf(After(r.cursor))
    IN
    /\ At(d, "page")
    /\ req' = [req EXCEPT ![d] =
                [r EXCEPT !.page = Fold(page),
                          !.cursor = IF page = {} THEN r.cursor ELSE MaxId(page),
                          !.step = "epoch"]]
    /\ UNCHANGED <<logVars, compactVars, cursors, client>>

\* The greeting does without the tables: epoch 1, when they cannot be read.
ReadEpoch(d) ==
    LET r == req[d] IN
    /\ At(d, "epoch")
    /\ \E epoch \in {syncEpoch} \union (IF r.op = "hello" THEN {1} ELSE {}) :
        req' = [req EXCEPT ![d] =
                [r EXCEPT !.epoch = epoch,
                          !.step = IF r.op = "pull" THEN "upsert" ELSE "cursor"]]
    /\ UNCHANGED <<logVars, compactVars, cursors, client>>

\* MAX(id), read last: changes logged since their section was read are below it.
\* The greeting falls back on the cursor the device said it has.
MaxCursor(d) ==
    LET r == req[d] IN
    /\ At(d, "cursor")
    /\ \E cursor \in {MaxId(log)}
                      \union (IF r.op = "hello" THEN {client[d].cursor} ELSE {}) :
        req' = [req EXCEPT ![d] =
                [r EXCEPT !.cursor = cursor,
                          !.missed = IF r.op = "inventory"
                                     THEN {e \in Item : r.view[e] < logged[e]}
                                     ELSE {},
                          !.step = IF r.op = "hello" THEN "reply" ELSE "upsert"]]
    /\ UNCHANGED <<logVars, compactVars, cursors, client>>

\* The cursor of the answer becomes the device's, before the answer is sent, if the
\* request names the device.  The greeting is sent first, and carries the end of the
\* log.
UpsertDeviceCursor(d) ==
    LET r == req[d] IN
    /\ At(d, "upsert")
    /\ \/ cursors' = [x \in DOMAIN cursors \union {d} |->
                        IF x = d THEN r.cursor ELSE cursors[x]]
       \/ d \in Nameless /\ UNCHANGED cursors
    /\ req' = [req EXCEPT ![d] = IF r.op = "hello" THEN NoRequest
                                 ELSE [r EXCEPT !.step = "reply"]]
    /\ UNCHANGED <<logVars, compactVars, client>>

-----------------------------------------------------------------------------
(* The device receives the answer. *)

\* What an inventory leaves a device with.
Inventoried(r) == [cursor |-> r.cursor, epoch |-> r.epoch, seen |-> r.view,
                   missed |-> r.missed]

DeliverInventory(d) ==
    LET r == req[d] IN
    /\ r.op = "inventory" /\ r.step = "reply"
    /\ client' = [client EXCEPT ![d] = Inventoried(r)]
    /\ req' = [req EXCEPT ![d] = NoRequest]
    /\ UNCHANGED <<logVars, compactVars, cursors>>

Told(rows) == {r.item : r \in rows}

\* What an answer to a pull leaves a device with.
Apply(c, r) ==
    [cursor |-> r.cursor,
     epoch  |-> c.epoch,
     seen   |-> [e \in Item |-> IF e \in Told(r.page)
                                THEN (CHOOSE x \in r.page : x.item = e).version
                                ELSE c.seen[e]],
     missed |-> c.missed \ Told(r.page)]

DeliverPull(d) ==
    LET r == req[d]
        c == client[d]
    IN
    /\ r.op = "pull" /\ r.step = "reply"
    /\ client' = [client EXCEPT ![d] = IF r.epoch = c.epoch THEN Apply(c, r)
                                       ELSE [c EXCEPT !.epoch = 0]]
    /\ req' = [req EXCEPT ![d] = NoRequest]
    /\ UNCHANGED <<logVars, compactVars, cursors>>

\* That the frame could not be sent is ignored.
DeliverHello(d) ==
    LET r == req[d]
        c == client[d]
    IN
    /\ r.op = "hello" /\ r.step = "reply"
    /\ \/ UNCHANGED client
       \/ /\ r.epoch # c.epoch
          /\ client' = [client EXCEPT ![d] = [c EXCEPT !.epoch = 0]]
    /\ req' = [req EXCEPT ![d] = Ask("hello", "upsert", r.cursor)]
    /\ UNCHANGED <<logVars, compactVars, cursors>>

\* The request or its answer is lost, or the handler dropped at some await.
Lose(d) ==
    /\ req[d].op # "none"
    /\ req' = [req EXCEPT ![d] = NoRequest]
    /\ UNCHANGED <<logVars, compactVars, cursors, client>>

-----------------------------------------------------------------------------
(* Compaction, under the write lock, from the background loop or the owner. *)

\* Devices not seen for device_cursor_ttl_days lose their row.
ExpireDevices ==
    /\ LockFree
    /\ \E kept \in SUBSET DOMAIN cursors : cursors' = [d \in kept |-> cursors[d]]
    /\ compaction' = [step |-> "watermark", watermark |-> 0]
    /\ UNCHANGED <<logVars, syncEpoch, unannounced, req, client>>

Watermark ==
    IF DOMAIN cursors = {} THEN 0
    ELSE CHOOSE c \in {cursors[d] : d \in DOMAIN cursors} :
            \A d \in DOMAIN cursors : c <= cursors[d]

ReadWatermark ==
    /\ compaction.step = "watermark"
    /\ compaction' = IF Watermark = 0 THEN NoCompaction
                     ELSE [step |-> "delete", watermark |-> Watermark]
    /\ UNCHANGED <<logVars, syncEpoch, unannounced, cursors, req, client>>

\* Mutant of Compacted: the newest row of the slowest device goes too.
CompactedWhole(w) == {r \in log : r.id <= w}

Compacted(w) == {r \in log : r.id < w}

DeleteRows ==
    LET gone == Compacted(compaction.watermark) IN
    /\ compaction.step = "delete"
    /\ log' = log \ gone
    /\ unannounced' = (unannounced \/ gone # {})
    /\ compaction' = IF gone = {} THEN NoCompaction
                     ELSE [step |-> "epoch", watermark |-> 0]
    /\ UNCHANGED <<version, pending, last, logged, syncEpoch, cursors, req, client>>

\* Mutant of RaiseEpoch: the epoch stays as it was.
RaiseEpochNot ==
    /\ compaction.step = "epoch"
    /\ syncEpoch' = syncEpoch
    /\ unannounced' = FALSE
    /\ compaction' = NoCompaction
    /\ UNCHANGED <<logVars, cursors, req, client>>

RaiseEpoch ==
    /\ compaction.step = "epoch"
    /\ syncEpoch' = syncEpoch + 1
    /\ unannounced' = FALSE
    /\ compaction' = NoCompaction
    /\ UNCHANGED <<logVars, cursors, req, client>>

\* The owner's request is dropped, the process ends, or a statement fails.  The
\* error of the last statement is ignored.
DropCompaction ==
    /\ compaction.step # "idle"
    /\ compaction' = NoCompaction
    /\ UNCHANGED <<logVars, syncEpoch, unannounced, cursors, req, client>>

-----------------------------------------------------------------------------
ServerStep(d) ==
    \/ ReadSection(d)
    \/ ReadPage(d)
    \/ ReadEpoch(d)
    \/ MaxCursor(d)
    \/ UpsertDeviceCursor(d)

Deliver(d) == DeliverInventory(d) \/ DeliverPull(d) \/ DeliverHello(d)

Compact == ReadWatermark \/ DeleteRows \/ RaiseEpoch

Next ==
    \/ \E e \in Item : Commit(e)
    \/ AppendUnlocked
    \/ DropWriter
    \/ \E d \in Device :
        \/ RequestInventory(d)
        \/ RequestPull(d)
        \/ RequestHello(d)
        \/ ServerStep(d)
        \/ Deliver(d)
        \/ Lose(d)
    \/ ExpireDevices
    \/ Compact
    \/ DropCompaction

Spec == Init /\ [][Next]_vars

\* The runtime runs every handler on.  Of the device it is assumed that it goes on
\* asking, and that from some time on its connection holds.  An empty page that
\* arrives changes as little as one that is lost, and does not count as a loss.
FairSpec ==
    /\ Spec
    /\ WF_vars(AppendUnlocked) /\ WF_vars(Compact)
    /\ \A d \in Device :
        /\ WF_vars(ServerStep(d)) /\ WF_vars(Deliver(d))
        /\ SF_vars(RequestInventory(d)) /\ SF_vars(RequestPull(d))
        /\ <>[][Lose(d) => Deliver(d) \/ UpsertDeviceCursor(d)]_vars

-----------------------------------------------------------------------------
(* Properties. *)

\* Every table, request and device has its type.
TypeOK ==
    /\ version \in Versions
    /\ pending \in Item \union {NoItem}
    /\ log \subseteq Row
    /\ last \in Nat
    /\ logged \in Versions
    /\ syncEpoch \in Nat \ {0}
    /\ DOMAIN cursors \subseteq Device
    /\ \A d \in DOMAIN cursors : cursors[d] \in Nat
    /\ compaction \in Compaction
    /\ unannounced \in BOOLEAN
    /\ req \in [Device -> Request]
    /\ client \in [Device -> Client]

Lacks(d, e) == client[d].seen[e] < logged[e]

RowAbove(e, c) == \E r \in log : r.item = e /\ r.id > c

\* What c knows of every item is the newest the log was told, or c will hear of it: a
\* row lies above its cursor, or its epoch is not the current one.  The exceptions
\* are the code's: a change logged while c's inventory was being read, and a
\* compaction that has deleted rows and has not raised the epoch, or never will.
Informed(c) ==
    \A e \in Item :
        c.seen[e] < logged[e] =>
            \/ RowAbove(e, c.cursor)
            \/ c.epoch # syncEpoch
            \/ e \in c.missed
            \/ unannounced

\* Whatever is lost, dropped or compacted, no device silently misses a logged change.
GapAnnounced == \A d \in Device : Informed(client[d])

\* Meant by the comment in SyncRepo::pull, and not so: a device that is at the end of
\* the log, in the current epoch, has not skipped any item.
NothingSkipped ==
    \A d \in Device : \A e \in Item :
        Lacks(d, e) =>
            \/ RowAbove(e, client[d].cursor)
            \/ client[d].epoch # syncEpoch
            \/ compaction.step = "epoch"

\* A device never goes back to an older version of an item: not by a repeated page,
\* not by an inventory taken after pulls, not by a row older than the inventory.
NeverGoesBack ==
    [][\A d \in Device : \A e \in Item : client'[d].seen[e] >= client[d].seen[e]]_vars

\* A device that keeps asking catches up with everything logged, but for the two
\* exceptions above.
CatchesUp ==
    <>[](\A d \in Device : \A e \in Item :
            Lacks(d, e) => e \in client[d].missed \/ unannounced)

\* The end of the log never moves back, so that no cursor is ever beyond it and the
\* greeting always shows a device whether there is something to pull.
CursorsWithinLog ==
    /\ MaxId(log) = last
    /\ \A d \in Device : client[d].cursor <= MaxId(log)
    /\ \A d \in DOMAIN cursors : cursors[d] <= MaxId(log)

-----------------------------------------------------------------------------
(* What is true between any two steps: the inductive invariant behind        *)
(* GapAnnounced and NeverGoesBack.  First the log, then what a device knows, *)
(* then what it would know if the answer in flight arrived.                  *)

\* Rows tell the versions of an item in order, and the last row the newest logged.
LogTells ==
    /\ IsFiniteSet(log)
    /\ \A r \in log : r.id \in 1 .. last
    /\ \A r, s \in log : r.item = s.item /\ r.id <= s.id => r.version <= s.version
    /\ \A r \in log :
        (\A s \in log : s.item = r.item => s.id <= r.id) => r.version = logged[r.item]
    /\ \A r \in log : r.version <= version[r.item]
    /\ \A e \in Item : logged[e] <= version[e]

\* A cursor and an epoch that were given out, and versions that were committed; rows
\* above the cursor tell nothing older.
Forward(c) ==
    /\ c.cursor <= last
    /\ c.epoch <= syncEpoch
    /\ \A e \in Item : c.seen[e] <= version[e]
    /\ \A r \in log : r.id > c.cursor => r.version >= c.seen[r.item]

\* b knows of no item less than a.
KnowsMore(a, b) == \A e \in Item : a.seen[e] <= b.seen[e]

Learned(c) == Informed(c) /\ Forward(c)

\* The sections read so far are newer than what the device knows.
InventoryInv(d) ==
    LET r == req[d] IN
    r.op = "inventory" =>
        /\ r.step # "page"
        /\ r.step # "section" => r.section > Section
        /\ \A e \in Item :
            SectionOf[e] < r.section =>
                client[d].seen[e] <= r.view[e] /\ r.view[e] <= version[e]
        /\ r.step \notin {"section", "epoch"} => r.epoch <= syncEpoch
        /\ r.step \in {"upsert", "reply"} => Learned(Inventoried(r))

PullInv(d) ==
    LET r == req[d]
        c == client[d]
    IN
    r.op = "pull" =>
        /\ r.step \in {"page", "epoch", "upsert", "reply"}
        /\ r.step = "page" => r.cursor = c.cursor
        /\ r.step # "page" => Learned(Apply(c, r)) /\ KnowsMore(c, Apply(c, r))

IInv ==
    /\ TypeOK
    /\ LogTells
    /\ \A d \in Device : Learned(client[d]) /\ InventoryInv(d) /\ PullInv(d)

\* Behind CursorsWithinLog: the last row given out is in the log, and no cursor, in a
\* table, a request or the compaction, is beyond it.
CursorInv ==
    /\ IF log = {} THEN last = 0 ELSE \E r \in log : r.id = last
    /\ \A d \in Device : req[d].cursor <= last
    /\ \A d \in DOMAIN cursors : cursors[d] <= last
    /\ compaction.watermark <= last
=============================================================================
