----------------------------- MODULE Workspace -----------------------------
(***************************************************************************)
(* Where memos live: the notebooks of crates/store/src/notebooks.rs, and   *)
(* the operations of crates/store/src/memos.rs that put memos into them,   *)
(* move, trash, restore and merge them.                                    *)
(*                                                                         *)
(* Some of these look at what they rely on before they take the write      *)
(* lock: create and batch_move look at the notebook, merge at the texts it *)
(* joins.  Others work memo by memo and give the lock back in between.     *)
(*                                                                         *)
(* Of a text only the edits in it are kept, each named by its call; a save *)
(* is one step (MemoStore has its parts).  A notebook is never moved, so   *)
(* its path and depth are its parent's and its own id for ever: they are   *)
(* left out.                                                               *)
(***************************************************************************)
EXTENDS Naturals, Sequences, SequencesExt

CONSTANTS
    Call,       \* requests; also the edits they make
    NoCall,
    Notebook, Memo,
    Root,       \* the parent of a notebook at the top
    NoMemo,
    Given,      \* the notebooks there are at first, the Inbox first
    Kept,       \* the memos there are at first
    OpsOf       \* the operations a call may be of

AllOps == {"insert", "rename", "reorder", "delete",            \* a notebook
           "create", "edit", "file", "move", "trash", "purge", "restore", "merge"}

\* Notebooks and memos are named by UUIDs, of which there are so many.
ASSUME WorkspaceAssumption ==
    /\ NoCall \notin Call /\ Root \notin Notebook /\ NoMemo \notin Memo
    /\ Notebook \intersect Memo = {}
    /\ Given \in Seq(Notebook) /\ Given # << >> /\ IsInjective(Given)
    /\ IsFiniteSet(Notebook) /\ IsFiniteSet(Memo)
    /\ Kept \subseteq Memo
    /\ OpsOf \in [Call -> SUBSET AllOps]

VARIABLES
    notebooks,  \* table notebooks
    memos,      \* table memos, with the edits in the text
    writer,     \* holder of Db.write
    pc, req,
    unlogged,   \* history: what was changed after its last row in sync_changes
    torn,       \* history: what a call dropped before the row had changed
    stranded,   \* history: memos in the trash of a notebook, or on their way
                \*   into it by a call that had seen it, when it was deleted
    merging,    \* history: the memos a merge has read
    late        \* history: edits made to a memo after a merge had read it

ghosts == <<unlogged, torn, stranded, merging, late>>
vars == <<notebooks, memos, writer, pc, req, ghosts>>

-----------------------------------------------------------------------------
(* Values. *)

Inbox == Head(Given)

NotebookRow == [state : {"absent", "live", "deleted"}, parent : Notebook \union {Root},
                order : Nat, name : {"given", "renamed"},
                placed : BOOLEAN]   \* history: its order was given by the client

MemoRow == [state : {"absent", "live", "trashed", "purged"}, notebook : Notebook,
            text : SUBSET Call, into : Memo \union {NoMemo}]

RequestRow == [op : AllOps,
               ids : Seq(Memo),     \* the memos it names
               left : Seq(Memo),    \* those it has still to work on
               memo : Memo \union {NoMemo},        \* the one it makes
               notebook : Notebook \union {Root},
               order : Seq(Notebook), placed : BOOLEAN,
               text : SUBSET Call,  \* what it has read
               rows : Seq(Notebook \union Memo)]   \* changes it has to log

NoRequest == [op |-> "edit", ids |-> << >>, left |-> << >>, memo |-> NoMemo,
              notebook |-> Root, order |-> << >>, placed |-> FALSE, text |-> {},
              rows |-> << >>]

Step == {"idle", "read", "check", "lock", "write", "append", "source", "done"}

Exists(m) == memos[m].state \in {"live", "trashed"}
Siblings(parent) == {n \in Notebook : notebooks[n].state = "live"
                                      /\ notebooks[n].parent = parent}
OneAfter(S) == IF S = {} THEN 0 ELSE 1 + CHOOSE i \in S : \A j \in S : j <= i

-----------------------------------------------------------------------------
\* The notebooks are at the top, in their order, as a new account's Inbox is.
Init ==
    /\ notebooks = [n \in Notebook |->
            [state |-> IF n \in ToSet(Given) THEN "live" ELSE "absent", parent |-> Root,
             order |-> IF n \in ToSet(Given)
                       THEN (CHOOSE i \in DOMAIN Given : Given[i] = n) - 1 ELSE 0,
             name |-> "given", placed |-> FALSE]]
    /\ \E home \in [Kept -> ToSet(Given)] :
            memos = [m \in Memo |->
                [state |-> IF m \in Kept THEN "live" ELSE "absent",
                 notebook |-> IF m \in Kept THEN home[m] ELSE Inbox,
                 text |-> {}, into |-> NoMemo]]
    /\ writer = NoCall
    /\ pc = [c \in Call |-> "idle"]
    /\ req = [c \in Call |-> NoRequest]
    /\ unlogged = {}
    /\ torn = {}
    /\ stranded = {}
    /\ merging = {}
    /\ late = {}

-----------------------------------------------------------------------------
(* Requests arrive. *)

Start(c, op, step, ids, m, n) ==
    /\ op \in OpsOf[c]
    /\ req' = [req EXCEPT ![c] = [@ EXCEPT !.op = op, !.ids = ids, !.left = ids,
                                           !.memo = m, !.notebook = n]]
    /\ pc' = [pc EXCEPT ![c] = step]
    /\ UNCHANGED <<notebooks, memos, writer, ghosts>>

\* Clients name notebooks and memos they have seen, deleted meanwhile or not.
Seen == {n \in Notebook : notebooks[n].state # "absent"}
SeenMemos == {m \in Memo : memos[m].state # "absent"}

\* POST /notebooks, below a notebook or at the top, with or without a place.
RequestInsert(c) ==
    \E parent \in Seen \union {Root}, placed \in BOOLEAN :
        /\ "insert" \in OpsOf[c]
        /\ req' = [req EXCEPT ![c] = [@ EXCEPT !.op = "insert", !.notebook = parent,
                                               !.placed = placed]]
        /\ pc' = [pc EXCEPT ![c] = "lock"]
        /\ UNCHANGED <<notebooks, memos, writer, ghosts>>

\* The client sends the siblings it knows, in the order it wants.
RequestReorder(c) ==
    \E parent \in Seen \union {Root} : \E known \in SUBSET Siblings(parent) :
    \E order \in SetToSeqs(known) :
        /\ "reorder" \in OpsOf[c]
        /\ known # {}
        /\ req' = [req EXCEPT ![c] = [@ EXCEPT !.op = "reorder", !.notebook = parent,
                                               !.order = order]]
        /\ pc' = [pc EXCEPT ![c] = "lock"]
        /\ UNCHANGED <<notebooks, memos, writer, ghosts>>

RequestNotebook(c) ==
    \E op \in {"rename", "delete"}, n \in Seen : Start(c, op, "lock", << >>, NoMemo, n)

\* An id is drawn once.
Drawn(m) == memos[m].state # "absent" \/ \E g \in Call : req[g].memo = m

RequestCreate(c) ==
    \E m \in Memo, n \in Seen : ~Drawn(m) /\ Start(c, "create", "check", << >>, m, n)

\* One memo, or all there were at first, in some order; an empty batch changes nothing.
Batches == (SetToSeqs(Kept) \ {<< >>}) \union {<<m>> : m \in Kept}

\* A save, a batch delete, a restore: of one memo or of several.
RequestMemo(c) ==
    \/ \E op \in {"edit", "restore"}, m \in SeenMemos : Start(c, op, "lock", <<m>>, NoMemo, Root)
    \/ \E m \in SeenMemos, n \in Seen : Start(c, "file", "lock", <<m>>, NoMemo, n)
    \/ \E op \in {"trash", "purge"}, ids \in Batches :
            Start(c, op, "lock", ids, NoMemo, Root)

RequestMove(c) ==
    \E n \in Seen, ids \in Batches : Start(c, "move", "check", ids, NoMemo, n)

\* A merge of fewer than two memos is refused at once.
RequestMerge(c) ==
    \E m \in Memo, n \in Seen, ids \in Batches :
        /\ ~Drawn(m)
        /\ Len(ids) >= 2
        /\ Start(c, "merge", "read", ids, m, n)

-----------------------------------------------------------------------------
(* Before the lock. *)

\* A call goes on, or ends and is forgotten.
Go(c, step, r) ==
    /\ pc' = [pc EXCEPT ![c] = step]
    /\ req' = [req EXCEPT ![c] = IF step = "done" THEN NoRequest ELSE r]

\* Mutant of TextRead: the text of the last source stands for all.
TextReadLast(r, m) == memos[m].text

TextRead(r, m) == r.text \union memos[m].text

\* merge reads its sources one after the other, summary and text.
ReadSource(c) ==
    LET r == req[c]
        m == Head(r.left)
    IN
    /\ pc[c] = "read"
    /\ UNCHANGED <<notebooks, memos, writer, unlogged, torn, stranded, late>>
    /\ \/ ~Exists(m) /\ Go(c, "done", r) /\ UNCHANGED merging
       \/ /\ Exists(m)
          /\ merging' = merging \union {m}
          /\ IF Len(r.left) = 1
             THEN Go(c, "check", [r EXCEPT !.text = TextRead(r, m), !.left = r.ids])
             ELSE Go(c, "read", [r EXCEPT !.text = TextRead(r, m), !.left = Tail(@)])

\* require_notebook, of create, batch_move and merge.
CheckNotebook(c) ==
    /\ pc[c] = "check"
    /\ Go(c, IF notebooks[req[c].notebook].state = "live" THEN "lock" ELSE "done", req[c])
    /\ UNCHANGED <<notebooks, memos, writer, ghosts>>

-----------------------------------------------------------------------------
(* Under the lock.  Each operation reads and writes its rows in one step and *)
(* appends its rows to the log in the next ones.                             *)

Enter(c, op) ==
    /\ pc[c] = "lock"
    /\ req[c].op = op
    /\ writer = NoCall

\* The rows changed, to be logged in this order.
Changed(c, rows) ==
    /\ writer' = c
    /\ Go(c, "append", [req[c] EXCEPT !.rows = rows])
    /\ unlogged' = unlogged \union ToSet(rows)

\* Mutant of LastOrder: the greatest place there is, not the next one.
LastOrderSame(parent) == OneAfter({notebooks[n].order : n \in Siblings(parent)}) - 1

\* COALESCE(MAX(sort_order), -1) + 1 among the live siblings.
LastOrder(parent) == OneAfter({notebooks[n].order : n \in Siblings(parent)})

\* A parent has to be there, deleted or not.
InsertNotebook(c) ==
    LET parent == req[c].notebook IN
    /\ Enter(c, "insert")
    /\ parent \in Seen \union {Root}
    /\ \E n \in Notebook :
        /\ notebooks[n].state = "absent"
        /\ notebooks' = [notebooks EXCEPT ![n] =
                [state |-> "live", parent |-> parent, name |-> "given",
                 order |-> IF req[c].placed THEN 0 ELSE LastOrder(parent),
                 placed |-> req[c].placed]]
        /\ Changed(c, <<n>>)
    /\ UNCHANGED <<memos, torn, stranded, merging, late>>

Rename(c) ==
    LET n == req[c].notebook IN
    /\ Enter(c, "rename")
    /\ notebooks[n].state = "live" /\ n # Inbox
    /\ notebooks' = [notebooks EXCEPT ![n].name = "renamed"]
    /\ Changed(c, <<n>>)
    /\ UNCHANGED <<memos, torn, stranded, merging, late>>

\* Mutant of CompleteOrder: every notebook supplied is a sibling.
CompleteOrderSome(c) == ToSet(req[c].order) \subseteq Siblings(req[c].notebook)

\* Every live sibling, each once.
CompleteOrder(c) == ToSet(req[c].order) = Siblings(req[c].notebook)

Reorder(c) ==
    LET order == req[c].order IN
    /\ Enter(c, "reorder")
    /\ CompleteOrder(c)
    /\ notebooks' = [n \in Notebook |->
            IF n \in ToSet(order)
            THEN [notebooks[n] EXCEPT !.order = (CHOOSE i \in DOMAIN order : order[i] = n) - 1,
                                      !.placed = FALSE]
            ELSE notebooks[n]]
    /\ Changed(c, order)
    /\ UNCHANGED <<memos, torn, stranded, merging, late>>

\* Mutant of Empty: a notebook goes with what is in it.
EmptyAlways(n) == TRUE

\* Live memos keep a notebook; memos in the trash and child notebooks do not.
Empty(n) == \A m \in Memo : ~(memos[m].state = "live" /\ memos[m].notebook = n)

\* The memos calls are about to put into a notebook they saw before the lock.
Arriving(n) ==
    UNION {IF req[g].op = "move" THEN ToSet(req[g].left) ELSE {req[g].memo} :
             g \in {h \in Call : /\ pc[h] = "lock" /\ req[h].notebook = n
                                 /\ req[h].op \in {"create", "move", "merge"}}}

DeleteNotebook(c) ==
    LET n == req[c].notebook IN
    /\ Enter(c, "delete")
    /\ n \in Seen \ {Inbox}
    /\ Empty(n)
    /\ notebooks' = [notebooks EXCEPT ![n].state = "deleted"]
    /\ stranded' = stranded \union Arriving(n)
            \union {m \in Memo : memos[m].state = "trashed" /\ memos[m].notebook = n}
    /\ Changed(c, <<n>>)
    /\ UNCHANGED <<memos, torn, merging, late>>

\* create, and the memo a merge makes of what it read.
InsertMemo(c) ==
    LET m == req[c].memo IN
    /\ \E op \in {"create", "merge"} : Enter(c, op)
    /\ memos' = [memos EXCEPT ![m] = [state |-> "live", notebook |-> req[c].notebook,
                                      text |-> req[c].text, into |-> NoMemo]]
    /\ Changed(c, <<m>>)
    /\ UNCHANGED <<notebooks, torn, stranded, merging, late>>

\* A content save that passes its precondition.
Edit(c) ==
    LET m == Head(req[c].ids) IN
    /\ Enter(c, "edit")
    /\ Exists(m)
    /\ memos' = [memos EXCEPT ![m].text = @ \union {c}]
    /\ late' = IF m \in merging THEN late \union {c} ELSE late
    /\ Changed(c, <<m>>)
    /\ UNCHANGED <<notebooks, torn, stranded, merging>>

\* require_notebook, of save: under the lock.
FiledIn(n) == notebooks[n].state = "live"

\* A save with a notebook_id.
File(c) ==
    LET m == Head(req[c].ids) IN
    /\ Enter(c, "file")
    /\ Exists(m) /\ FiledIn(req[c].notebook)
    /\ memos' = [memos EXCEPT ![m].notebook = req[c].notebook]
    /\ Changed(c, <<m>>)
    /\ UNCHANGED <<notebooks, torn, stranded, merging, late>>

\* Mutant of MoveRows: the memo is moved, its row in the log left out.
MoveRowsNone(m) == << >>

MoveRows(m) == IF Exists(m) THEN <<m>> ELSE << >>

\* batch_move keeps the lock over all its memos, live or in the trash.
Move(c) ==
    LET m == Head(req[c].left) IN
    /\ pc[c] = "write" \/ Enter(c, "move")
    /\ memos' = IF Exists(m) THEN [memos EXCEPT ![m].notebook = req[c].notebook] ELSE memos
    /\ writer' = c
    /\ Go(c, "append", [req[c] EXCEPT !.rows = MoveRows(m), !.left = Tail(@)])
    /\ unlogged' = IF Exists(m) THEN unlogged \union {m} ELSE unlogged
    /\ UNCHANGED <<notebooks, torn, stranded, merging, late>>

\* batch_delete calls soft_delete for each memo; the row is logged, there or not.
SetState(c, op, m, row) ==
    /\ Enter(c, op)
    /\ memos' = IF Exists(m) THEN [memos EXCEPT ![m] = row] ELSE memos
    /\ writer' = c
    /\ Go(c, "append", [req[c] EXCEPT !.rows = <<m>>, !.left = Tail(@)])
    /\ unlogged' = unlogged \union {m}
    /\ UNCHANGED <<notebooks, torn, stranded, merging, late>>

SoftDelete(c) ==
    LET m == Head(req[c].left) IN
    \/ SetState(c, "trash", m, [memos[m] EXCEPT !.state = "trashed"])
    \/ SetState(c, "purge", m, [memos[m] EXCEPT !.state = "purged", !.text = {},
                                                !.into = NoMemo])

\* The memo comes back where it was, whatever became of the notebook.
Restore(c) ==
    LET m == Head(req[c].left) IN
    SetState(c, "restore", m, [memos[m] EXCEPT !.state = "live"])

\* What the checks under the lock turn down; the lock is given back at once.
Refuse(c) ==
    LET r == req[c] IN
    /\ pc[c] = "lock" /\ writer = NoCall
    /\ \/ r.op = "rename" /\ (notebooks[r.notebook].state # "live" \/ r.notebook = Inbox)
       \/ r.op = "reorder" /\ ~CompleteOrder(c)
       \/ /\ r.op = "delete"
          /\ r.notebook = Inbox \/ ~Empty(r.notebook)
       \/ r.op \in {"edit", "file"} /\ ~Exists(Head(r.ids))
       \/ r.op = "file" /\ ~FiledIn(r.notebook)
    /\ Go(c, "done", r)
    /\ UNCHANGED <<notebooks, memos, writer, ghosts>>

\* Where a call goes when a row is logged: to the next row, to the next memo with or
\* without the lock, to the sources of a merge, or to its answer.
AfterRow(r) ==
    IF Len(r.rows) > 1 THEN "append"
    ELSE IF r.op = "move" /\ r.left # << >> THEN "write"
    ELSE IF r.op \in {"trash", "purge"} /\ r.left # << >> THEN "lock"
    ELSE IF r.op = "merge" THEN "source" ELSE "done"

\* append_unlocked, one statement for each row.
AppendUnlocked(c) ==
    LET r == req[c]
        step == AfterRow(r)
    IN
    /\ pc[c] = "append"
    /\ unlogged' = unlogged \ {r.rows[i] : i \in DOMAIN r.rows \intersect {1}}
    /\ Go(c, step, [r EXCEPT !.rows = IF @ = << >> THEN @ ELSE Tail(@)])
    /\ writer' = IF step \in {"append", "write"} THEN c ELSE NoCall
    /\ UNCHANGED <<notebooks, memos, torn, stranded, merging, late>>

\* merge takes the lock for each source, trashes it whatever it has become, ignores an
\* error and appends nothing.
TrashSource(c) ==
    LET m == Head(req[c].left) IN
    /\ pc[c] = "source"
    /\ writer = NoCall
    /\ \/ memos' = IF Exists(m) THEN [memos EXCEPT ![m] =
                [@ EXCEPT !.state = "trashed", !.into = req[c].memo]] ELSE memos
       \/ UNCHANGED memos
    /\ unlogged' = IF memos' # memos THEN unlogged \union {m} ELSE unlogged
    /\ Go(c, IF Len(req[c].left) = 1 THEN "done" ELSE "source", [req[c] EXCEPT !.left = Tail(@)])
    /\ UNCHANGED <<notebooks, writer, torn, stranded, merging, late>>

-----------------------------------------------------------------------------
\* The call is dropped at an await, or one of its statements fails.
Drop(c) ==
    /\ pc[c] \notin {"idle", "done"}
    /\ Go(c, "done", req[c])
    /\ writer' = IF writer = c THEN NoCall ELSE writer
    /\ torn' = IF pc[c] = "append" THEN torn \union ToSet(req[c].rows) ELSE torn
    /\ UNCHANGED <<notebooks, memos, unlogged, stranded, merging, late>>

Request(c) ==
    /\ pc[c] = "idle"
    /\ \/ RequestInsert(c) \/ RequestReorder(c) \/ RequestNotebook(c)
       \/ RequestCreate(c) \/ RequestMemo(c) \/ RequestMove(c) \/ RequestMerge(c)

CallStep(c) ==
    \/ ReadSource(c) \/ CheckNotebook(c)
    \/ InsertNotebook(c) \/ Rename(c) \/ Reorder(c) \/ DeleteNotebook(c)
    \/ InsertMemo(c) \/ Edit(c) \/ File(c) \/ Move(c) \/ SoftDelete(c) \/ Restore(c)
    \/ Refuse(c) \/ AppendUnlocked(c) \/ TrashSource(c)

Quiescent ==
    /\ \A c \in Call : pc[c] \in {"idle", "done"}
    /\ UNCHANGED vars

Next ==
    \/ \E c \in Call : Request(c) \/ CallStep(c) \/ Drop(c)
    \/ Quiescent

Spec == Init /\ [][Next]_vars

-----------------------------------------------------------------------------
(* Properties. *)

\* Every table, and every call's step and request, has its type.
TypeOK ==
    /\ notebooks \in [Notebook -> NotebookRow]
    /\ memos \in [Memo -> MemoRow]
    /\ writer \in Call \union {NoCall}
    /\ pc \in [Call -> Step]
    /\ req \in [Call -> RequestRow]
    /\ unlogged \subseteq Notebook \union Memo /\ torn \subseteq Notebook \union Memo
    /\ stranded \subseteq Memo /\ merging \subseteq Memo /\ late \subseteq Call

\* A live memo is in a live notebook, so that a listing by notebook shows it, unless
\* its notebook was deleted while the memo was in the trash, or while a create, a
\* batch move or a merge that had seen the notebook waited for the lock.
HomeIsKept ==
    \A m \in Memo :
        memos[m].state = "live" /\ m \notin stranded =>
            notebooks[memos[m].notebook].state = "live"

\* Two siblings that are listed never share a place, whatever insertions, deletions and
\* orders of clients that know an old list come in between, unless a client gave one
\* of them its place.
PlacesDiffer ==
    \A n, k \in Notebook :
        /\ n # k
        /\ {n, k} \subseteq Siblings(notebooks[n].parent)
        /\ ~notebooks[n].placed /\ ~notebooks[k].placed
        => notebooks[n].order # notebooks[k].order

\* A merge trashes a source only for a memo that holds its text: an edit that is in the
\* source and not in the merged memo was made after the merge had read it.
MergeKeepsText ==
    \A m \in Memo : memos[m].into # NoMemo =>
        LET merged == memos[memos[m].into] IN
        /\ merged.state # "absent"
        /\ merged.state # "purged" => memos[m].text \ merged.text \subseteq late

\* Other devices hear of every change: what was changed and has no row in the log was
\* left by a call that was dropped, is about to be logged, or is the source of a merge,
\* of which the log is told nothing.
OnlyMergeIsSilent ==
    \A e \in unlogged :
        \/ e \in torn
        \/ \E c \in Call : pc[c] = "append" /\ e \in ToSet(req[c].rows)
        \/ e \in Memo /\ memos[e].into # NoMemo
=============================================================================
