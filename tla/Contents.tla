------------------------------ MODULE Contents ------------------------------
(***************************************************************************)
(* Where texts and attachments are kept: the files of crates/blob, the     *)
(* table content_blobs that counts them, and what refers to them, the      *)
(* texts of memos and the resources (crates/store/src/memos.rs and         *)
(* resources.rs).  A file has the name of its hash, and one file serves    *)
(* all workspaces.                                                         *)
(*                                                                         *)
(* The file is written before the row that refers to it.  A save holds the *)
(* write lock from its first look to its commit, file and all; an upload   *)
(* writes its file, and looks for a resource of the same hash, before it   *)
(* takes the lock.  A file is looked for, created and filled in separate   *)
(* steps, by saves and uploads at once, and a crash or a full disk may     *)
(* leave it half filled under the name of the whole.                       *)
(*                                                                         *)
(* A text is a model value, as is its hash; only texts in Large are long   *)
(* enough to go to a file when they are a memo's.  Drops between the       *)
(* statements of a save, its keys and its log row, are MemoStore's.        *)
(***************************************************************************)
EXTENDS Naturals, FiniteSets

CONSTANTS
    Call, NoCall,
    Text, NoText,
    Cut,        \* what is read from a file that is not whole
    Large,      \* the texts over inline_threshold
    Memo, NoMemo,
    First,      \* the memos there are at first, and the text of each: none is Large
    Space,      \* workspaces
    SpaceOf,    \* of a memo
    OpsOf       \* the operations a call may be of

Ops == {"upload", "create", "save", "reuse", "revert", "purge", "read"}

ASSUME ContentsAssumption ==
    /\ NoCall \notin Call /\ NoMemo \notin Memo
    /\ NoText \notin Text \union {Cut} /\ Cut \notin Text
    /\ Large \subseteq Text
    /\ DOMAIN First \subseteq Memo /\ \A m \in DOMAIN First : First[m] \in Text \ Large
    /\ Space # {} /\ SpaceOf \in [Memo -> Space]
    /\ OpsOf \in [Call -> SUBSET Ops]

VARIABLES
    files,      \* the files of the blob store, by hash
    blobs,      \* table content_blobs: a row or none, and its refcount
    memos,      \* table memos with memo_contents
    revisions,  \* table memo_revisions: the hash of each snapshot
    resources,  \* table resources: the row each call has made
    writer,     \* holder of Db.write
    pc, req,
    reply,
    torn,       \* history: texts a write of whose file was cut short
    together,   \* history: calls that looked for a resource of the same hash before
                \*   the other had made one
    sent        \* history: the texts clients of a workspace have sent

tables == <<blobs, memos, revisions, resources>>
vars == <<files, tables, writer, pc, req, reply, torn, together, sent>>

-----------------------------------------------------------------------------
(* Values. *)

\* The version stands for the etag: every save of a text gives a new one.
MemoRow == [state : {"absent", "live", "purged"}, text : Text \union {NoText, Cut}, version : Nat]
BlobRow == [kept : BOOLEAN, refs : Nat]
ResourceRow == [text : Text \union {NoText}, memo : Memo \union {NoMemo}, space : Space]
RequestRow == [op : Ops, memo : Memo \union {NoMemo}, text : Text \union {NoText, Cut},
               base : Nat]

NoRequest == [op |-> "read", memo |-> NoMemo, text |-> NoText, base |-> 0]

\* Steps under the lock, and the others.
Held == {"meta", "commit", "insert"}
Step == {"idle", "summary", "exists", "write", "flush", "orphan", "dedup", "row", "revision",
         "load", "lock", "done"} \union Held

Live(m) == memos[m].state = "live"
Made(g) == resources[g].text # NoText

\* Mutant of CanAccess: a hash that is there serves whoever names it.
CanAccessAny(space, t) == blobs[t].kept

\* can_access_blob: a text of a memo of the workspace, or a resource.
CanAccess(space, t) ==
    \/ \E m \in Memo : SpaceOf[m] = space /\ memos[m].text = t /\ t \in Large
    \/ \E g \in Call : Made(g) /\ resources[g].space = space /\ resources[g].text = t

-----------------------------------------------------------------------------
Init ==
    /\ files = [t \in Text |-> "none"]
    /\ blobs = [t \in Text |-> [kept |-> FALSE, refs |-> 0]]
    /\ memos = [m \in Memo |->
            [state |-> IF m \in DOMAIN First THEN "live" ELSE "absent",
             text |-> IF m \in DOMAIN First THEN First[m] ELSE NoText, version |-> 1]]
    /\ revisions = [m \in Memo |-> {}]
    /\ resources = [c \in Call |-> [text |-> NoText, memo |-> NoMemo,
                                    space |-> CHOOSE s \in Space : TRUE]]
    /\ writer = NoCall
    /\ pc = [c \in Call |-> "idle"]
    /\ req = [c \in Call |-> NoRequest]
    /\ reply = [c \in Call |-> "none"]
    /\ torn = {}
    /\ together = {}
    /\ sent = {<<SpaceOf[m], First[m]>> : m \in DOMAIN First}

-----------------------------------------------------------------------------
(* Requests. *)

Start(c, op, step, m, t) ==
    /\ op \in OpsOf[c]
    /\ pc' = [pc EXCEPT ![c] = step]
    /\ req' = [req EXCEPT ![c] = [op |-> op, memo |-> m, text |-> t, base |-> 0]]
    /\ UNCHANGED <<files, tables, writer, reply, torn, together>>

\* A client sends a text or a file.
RequestText(c) == \E m \in Memo, t \in Text :
    /\ \/ Start(c, "upload", "summary", m, t)
       \/ memos[m].state # "absent" /\ Start(c, "save", "lock", m, t)
       \/ /\ memos[m].state = "absent" /\ \A g \in Call : req[g].memo # m
          /\ Start(c, "create", "lock", m, t)
    /\ sent' = sent \union {<<SpaceOf[m], t>>}

\* A client names a hash, a revision or a memo.
RequestNamed(c) ==
    /\ \E m \in Memo :
        \/ \E t \in Text : Live(m) /\ Start(c, "reuse", "lock", m, t)
        \/ \E t \in revisions[m] : Start(c, "revert", "revision", m, t)
        \/ Live(m) /\ Start(c, "purge", "lock", m, NoText)
    /\ UNCHANGED sent

\* A download, GET /contents, a memo opened or exported: what refers to the file has
\* been read.
RequestRead(c) ==
    /\ \E space \in Space, t \in Text :
            CanAccess(space, t) /\ Start(c, "read", "load", NoMemo, t)
    /\ UNCHANGED sent

-----------------------------------------------------------------------------
(* How a call goes on and ends. *)

\* Mutant of Freed: a call that ends keeps the lock.
FreedNever(c) == writer

\* A guard that goes out of scope gives the lock back.
Freed(c) == IF writer = c THEN NoCall ELSE writer

\* The request of a call that has ended is forgotten, but for what it was refused.
Answer(c, r) ==
    /\ pc' = [pc EXCEPT ![c] = "done"]
    /\ reply' = [reply EXCEPT ![c] = r]
    /\ req' = IF r = "missing" THEN req ELSE [req EXCEPT ![c] = NoRequest]
    /\ writer' = Freed(c)

Go(c, step) ==
    /\ pc' = [pc EXCEPT ![c] = step]
    /\ UNCHANGED <<req, reply, writer>>

history == <<torn, together, sent>>

-----------------------------------------------------------------------------
(* BlobStore::put. *)

AfterPut(c) == IF req[c].op = "upload" THEN "dedup" ELSE "meta"

\* upload_resource looks for the memo first.
Summary(c) ==
    /\ pc[c] = "summary"
    /\ IF Live(req[c].memo) THEN Go(c, "exists") ELSE Answer(c, "refused")
    /\ UNCHANGED <<files, tables, history>>

Exists(c) ==
    /\ pc[c] = "exists"
    /\ Go(c, IF files[req[c].text] = "none" THEN "write" ELSE AfterPut(c))
    /\ UNCHANGED <<files, tables, history>>

\* fs::write creates the file, or empties the one that came up meanwhile, ...
Write(c) ==
    /\ pc[c] = "write"
    /\ files' = [files EXCEPT ![req[c].text] = "part"]
    /\ Go(c, "flush")
    /\ UNCHANGED <<tables, history>>

\* ... and fills it, unless the disk is full.
Flush(c) ==
    /\ pc[c] = "flush"
    /\ \/ /\ files' = [files EXCEPT ![req[c].text] = "whole"]
          /\ Go(c, AfterPut(c))
          /\ UNCHANGED torn
       \/ /\ torn' = torn \union {req[c].text}
          /\ Answer(c, "error")
          /\ UNCHANGED files
    /\ UNCHANGED <<tables, together, sent>>

\* The write of a call that was dropped goes on in its thread.
Orphan(c) ==
    /\ pc[c] = "orphan"
    /\ files' = [files EXCEPT ![req[c].text] = "whole"]
    /\ Answer(c, "none")
    /\ UNCHANGED <<tables, history>>

\* BlobStore::get: what is in the file, whole or not.  What a cut text left is taken to
\* be short, and has no file.
Loaded(t) ==
    IF t \notin Text \/ files[t] = "none" THEN NoText
    ELSE IF files[t] = "whole" THEN t ELSE Cut

-----------------------------------------------------------------------------
(* ResourceRepo::create. *)

\* Mutant of Duplicate: the same file is another resource for another memo.
DuplicateOfMemo(c, g) == Made(g) /\ resources[g].text = req[c].text
                                 /\ resources[g].memo = req[c].memo

\* find_by_hash, in the workspace.
Duplicate(c, g) == Made(g) /\ resources[g].text = req[c].text
                           /\ resources[g].space = SpaceOf[req[c].memo]

\* The memo has to be there still; a resource of the same hash is the answer, whichever
\* memo it belongs to.
Dedup(c) ==
    /\ pc[c] = "dedup"
    /\ LET found == \E g \in Call : Duplicate(c, g) IN
       \/ ~Live(req[c].memo) /\ Answer(c, "refused") /\ UNCHANGED together
       \/ Live(req[c].memo) /\ found /\ Answer(c, "existing") /\ UNCHANGED together
       \/ /\ Live(req[c].memo) /\ ~found
          /\ Go(c, "row")
          /\ together' = together \union {{c, g} : g \in {h \in Call \ {c} :
                                                    pc[h] \in {"row", "insert"}}}
    /\ UNCHANGED <<files, tables, torn, sent>>

\* The row of content_blobs is made or counted up, ...
CountBlob(c) ==
    /\ pc[c] = "row"
    /\ writer = NoCall
    /\ writer' = c
    /\ blobs' = [blobs EXCEPT ![req[c].text] = [kept |-> TRUE, refs |-> @.refs + 1]]
    /\ pc' = [pc EXCEPT ![c] = "insert"]
    /\ UNCHANGED <<files, memos, revisions, resources, req, reply, history>>

\* ... and the resource inserted, which its memo's foreign key may forbid by now.
InsertResource(c) ==
    LET m == req[c].memo IN
    /\ pc[c] = "insert"
    /\ IF Live(m)
       THEN /\ resources' = [resources EXCEPT ![c] =
                    [text |-> req[c].text, memo |-> m, space |-> SpaceOf[m]]]
            /\ Answer(c, "created")
       ELSE Answer(c, "error") /\ UNCHANGED resources
    /\ UNCHANGED <<files, blobs, memos, revisions, history>>

-----------------------------------------------------------------------------
(* MemoRepo: create, save, restore_revision, soft_delete. *)

\* Mutant of FirstStep: every text is kept in the row, the large ones by their hash.
FirstStepInline(t) == "commit"

\* A large text goes to a file first, a small one is in the row.
FirstStep(t) == IF t \in Large THEN "exists" ELSE "commit"

\* save and create take the lock; a revision is saved with the etag it was loaded at, and
\* a hash is reused where the workspace refers to it.
Enter(c) ==
    LET m == req[c].memo
        t == req[c].text
    IN
    /\ pc[c] = "lock" /\ req[c].op # "purge"
    /\ writer = NoCall
    /\ \/ /\ req[c].op \in {"save", "reuse", "revert"}
          /\ \/ ~Live(m)
             \/ req[c].op = "revert" /\ memos[m].version # req[c].base
             \/ req[c].op = "reuse" /\ ~CanAccess(SpaceOf[m], t)
          /\ Answer(c, "refused")
       \/ /\ req[c].op = "create" \/ Live(m)
          /\ req[c].op = "revert" => memos[m].version = req[c].base
          /\ req[c].op = "reuse" => CanAccess(SpaceOf[m], t)
          /\ writer' = c
          /\ pc' = [pc EXCEPT ![c] = IF req[c].op = "reuse" THEN "load" ELSE FirstStep(t)]
          /\ UNCHANGED <<req, reply>>
    /\ UNCHANGED <<files, tables, history>>

\* restore_revision reads the memo's etag, then the revision.
ReadRevision(c) ==
    LET m == req[c].memo IN
    /\ pc[c] = "revision"
    /\ IF Live(m)
       THEN /\ pc' = [pc EXCEPT ![c] = "load"]
            /\ req' = [req EXCEPT ![c].base = memos[m].version]
            /\ UNCHANGED <<reply, writer>>
       ELSE Answer(c, "refused")
    /\ UNCHANGED <<files, tables, history>>

\* The file is read: a reused hash under the lock, a revision without it.  A revision
\* that has no file is still there when it is the memo's present text, kept in its row.
Load(c) ==
    LET t == Loaded(req[c].text)
        m == req[c].memo
    IN
    /\ pc[c] = "load"
    /\ LET gone  == req[c].op = "revert" /\ ~Live(m)
           inRow == req[c].op = "revert" /\ Live(m) /\ memos[m].text = req[c].text
                                         /\ req[c].text \notin Large
       IN
       \/ t # NoText /\ req[c].op = "read" /\ Answer(c, IF t = Cut THEN "cut" ELSE "whole")
       \/ /\ t # NoText /\ req[c].op # "read"
          /\ req' = [req EXCEPT ![c].text = t]
          /\ pc' = [pc EXCEPT ![c] = IF req[c].op = "reuse" THEN FirstStep(t) ELSE "lock"]
          /\ UNCHANGED <<reply, writer>>
       \/ t = NoText /\ gone /\ Answer(c, "refused")
       \/ t = NoText /\ inRow /\ Go(c, "lock")
       \/ t = NoText /\ ~gone /\ ~inRow /\ Answer(c, "missing")
    /\ UNCHANGED <<files, tables, history>>

\* upsert_blob_meta: a row that is there stays as it is.
UpsertBlobMeta(c) ==
    /\ pc[c] = "meta"
    /\ blobs' = [blobs EXCEPT ![req[c].text].kept = TRUE]
    /\ Go(c, "commit")
    /\ UNCHANGED <<files, memos, revisions, resources, history>>

\* Mutant of Counted: a text is counted where it is new.
CountedNew(t) == [blobs[t] EXCEPT !.refs = IF @ = 0 THEN 1 ELSE @]

\* One more refers to the text; the one before is not counted down.
Counted(t) == [blobs[t] EXCEPT !.refs = @ + 1]

\* The previous text becomes a revision, when the last one is old enough.
Commit(c) ==
    LET m == req[c].memo
        t == req[c].text
    IN
    /\ pc[c] = "commit"
    /\ memos' = [memos EXCEPT ![m] = [state |-> "live", text |-> t, version |-> @.version + 1]]
    /\ blobs' = IF t \in Large THEN [blobs EXCEPT ![t] = Counted(t)] ELSE blobs
    /\ \/ UNCHANGED revisions
       \/ /\ req[c].op # "create"
          /\ revisions' = [revisions EXCEPT ![m] = @ \union {memos[m].text}]
    /\ Answer(c, "saved")
    /\ UNCHANGED <<files, resources, history>>

\* Mutant of FilesLeft: the text of a purged memo goes with it.
FilesLeftWithout(m) ==
    [t \in Text |-> IF t = memos[m].text THEN "none" ELSE files[t]]

\* No file is ever removed.
FilesLeft(m) == files

\* The rows of the memo go, its resources stay without it.
Purge(c) ==
    LET m == req[c].memo IN
    /\ pc[c] = "lock" /\ req[c].op = "purge"
    /\ writer = NoCall
    /\ memos' = [memos EXCEPT ![m] = [@ EXCEPT !.state = "purged", !.text = NoText]]
    /\ revisions' = [revisions EXCEPT ![m] = {}]
    /\ resources' = [g \in Call |-> IF resources[g].memo = m
                                    THEN [resources[g] EXCEPT !.memo = NoMemo]
                                    ELSE resources[g]]
    /\ files' = FilesLeft(m)
    /\ Answer(c, "purged")
    /\ UNCHANGED <<blobs, history>>

-----------------------------------------------------------------------------
\* The call is dropped at an await, or a statement fails.
Drop(c) ==
    /\ pc[c] \notin {"idle", "orphan", "done"}
    /\ IF pc[c] = "flush"
       THEN /\ pc' = [pc EXCEPT ![c] = "orphan"]
            /\ writer' = Freed(c)
            /\ UNCHANGED <<req, reply>>
       ELSE Answer(c, "error")
    /\ UNCHANGED <<files, tables, history>>

\* The server goes down; files stay as far as they were filled.
Crash ==
    /\ \E c \in Call : pc[c] \notin {"idle", "done"}
    /\ torn' = torn \union {req[c].text : c \in {g \in Call : pc[g] \in {"flush", "orphan"}}}
    /\ pc' = [c \in Call |-> IF pc[c] = "idle" THEN "idle" ELSE "done"]
    /\ req' = [c \in Call |-> IF reply[c] = "missing" THEN req[c] ELSE NoRequest]
    /\ writer' = NoCall
    /\ UNCHANGED <<files, tables, reply, together, sent>>

Request(c) == pc[c] = "idle" /\ (RequestText(c) \/ RequestNamed(c) \/ RequestRead(c))

CallStep(c) ==
    \/ Summary(c) \/ Exists(c) \/ Write(c) \/ Flush(c) \/ Orphan(c)
    \/ Dedup(c) \/ CountBlob(c) \/ InsertResource(c)
    \/ Enter(c) \/ ReadRevision(c) \/ Load(c) \/ UpsertBlobMeta(c) \/ Commit(c) \/ Purge(c)

Quiescent ==
    /\ \A c \in Call : pc[c] \in {"idle", "done"}
    /\ UNCHANGED vars

Next ==
    \/ \E c \in Call : Request(c) \/ CallStep(c) \/ Drop(c)
    \/ Crash
    \/ Quiescent

Spec == Init /\ [][Next]_vars

-----------------------------------------------------------------------------
(* Properties. *)

Replies == {"none", "refused", "error", "existing", "created", "saved", "purged", "whole",
            "cut", "missing"}

\* Every table and call has its type, and only a call under way has the lock.
TypeOK ==
    /\ files \in [Text -> {"none", "part", "whole"}]
    /\ blobs \in [Text -> BlobRow]
    /\ memos \in [Memo -> MemoRow]
    /\ revisions \in [Memo -> SUBSET (Text \union {Cut})]
    /\ resources \in [Call -> ResourceRow]
    /\ writer \in Call \union {NoCall}
    /\ pc \in [Call -> Step] /\ req \in [Call -> RequestRow] /\ reply \in [Call -> Replies]
    /\ torn \subseteq Text /\ together \subseteq SUBSET Call /\ sent \subseteq Space \X Text
    /\ writer # NoCall => pc[writer] \in Held \union {"exists", "write", "flush", "load"}

Referrers(t) == {m \in Memo : memos[m].text = t /\ t \in Large}
                    \union {g \in Call : resources[g].text = t}

\* What a memo or a resource refers to is in its file, whole, unless a write of the file
\* was cut short by a crash or a full disk, or one is under way, be it a second one that
\* has emptied the file the first one filled.
StoredWhole ==
    \A t \in Text : Referrers(t) # {} =>
        \/ files[t] = "whole"
        \/ files[t] = "part" /\ (\/ t \in torn
                                 \/ \E c \in Call : pc[c] \in {"flush", "orphan"}
                                                    /\ req[c].text = t)

\* content_blobs never counts fewer than refer to a text, so that a count of 0 would
\* allow its file to be removed.
CountCoversReferrers ==
    \A t \in Text : /\ Cardinality(Referrers(t)) <= blobs[t].refs
                    /\ blobs[t].refs > 0 => blobs[t].kept

\* A file uploaded again, to whichever memo of the workspace, makes no second resource
\* ("Dedup by hash"), unless both uploads looked for it before either had made one.
OneResource ==
    \A c, g \in Call :
        /\ c # g /\ Made(c) /\ Made(g)
        /\ resources[c].text = resources[g].text /\ resources[c].space = resources[g].space
        => {c, g} \in together

\* Who has been let in to a text finds its file.  Only a revision may be refused for want
\* of it: one whose text was small enough to be kept in the memo's row, and is not the
\* memo's text any more.
FoundIfReferred ==
    \A c \in Call : reply[c] = "missing" => req[c].op = "revert" /\ req[c].text \notin Large

\* A memo holds a text that its own workspace has sent, or what a torn file left of one,
\* though one file serves all workspaces.
OwnTexts ==
    \A m \in Memo : Live(m) => memos[m].text = Cut \/ <<SpaceOf[m], memos[m].text>> \in sent
=============================================================================
