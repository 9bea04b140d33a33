-------------------------- MODULE WorkspaceProofs --------------------------
(***************************************************************************)
(* The safety properties of Workspace, for any number of calls, notebooks  *)
(* and memos.                                                              *)
(*                                                                         *)
(* What a call has seen before it takes the lock may be stale by then.     *)
(* The invariant says how stale: a notebook that was checked is live, or   *)
(* the memos on their way into it are known to be stranded; a text that a  *)
(* merge has read lacks only edits that are known to be late.              *)
(***************************************************************************)
EXTENDS Workspace, FiniteSetTheorems, SequenceTheorems, TLAPS

-----------------------------------------------------------------------------
(* The inductive invariant. *)

UnderWay(c) == pc[c] \notin {"idle", "done"}

\* The request of a call fits its operation and the step it is at.
RequestFits(c) ==
    LET r == req[c] IN
    /\ UnderWay(c) =>
        /\ r.op \in {"rename", "delete", "create", "file", "move", "merge"} =>
                r.notebook \in Notebook
        /\ r.op \in {"create", "merge"} => r.memo \in Memo
        /\ r.op \in {"edit", "file", "merge"} => r.ids # << >>
        /\ r.op = "merge" \/ (pc[c] # "append" /\ r.op \in {"move", "trash", "purge", "restore"})
                => r.left # << >>
    /\ pc[c] \in {"read", "source"} => r.op = "merge"
    /\ pc[c] = "check" => r.op \in {"create", "move", "merge"}
    /\ pc[c] = "write" => r.op = "move"

\* The call that has rows to log has the lock.
LockIsKept == \A c \in Call : pc[c] \in {"append", "write"} <=> writer = c

\* A notebook that a call has seen is live, or the memos that are to go there are stranded.
Arrives(c) ==
    LET r == req[c] IN
    /\ pc[c] = "lock" /\ r.op \in {"create", "merge"} =>
            notebooks[r.notebook].state = "live" \/ r.memo \in stranded
    /\ pc[c] \in {"lock", "write", "append"} /\ r.op = "move" =>
            notebooks[r.notebook].state = "live" \/ ToSet(r.left) \subseteq stranded

\* So is the notebook of a memo, in the trash or not.
HomeOrStranded ==
    /\ \A m \in Memo : Exists(m) /\ m \notin stranded => notebooks[memos[m].notebook].state = "live"
    /\ \A c \in Call : Arrives(c)

\* A memo that is to be made is not there yet, and no other call is to make it.
MadeOnce ==
    /\ \A c \in Call : UnderWay(c) /\ req[c].op \in {"create", "merge"}
                       /\ pc[c] \in {"read", "check", "lock"} => memos[req[c].memo].state = "absent"
    /\ \A c, g \in Call : req[c].memo = req[g].memo => c = g \/ req[c].memo = NoMemo

\* What a merge has read of a memo is all but the edits that are late.
HasRead(c, m) == m \in merging /\ memos[m].text \subseteq req[c].text \union late

\* A memo that is made for a merge has what the merge has read, until it is purged.
HoldsText(m, text) ==
    /\ memos[m].state # "absent"
    /\ memos[m].state # "purged" => text \subseteq memos[m].text \union late

MergeReads(c) ==
    LET r == req[c] IN
    req[c].op = "merge" =>
        /\ pc[c] = "read" => \A m \in ToSet(r.ids) : m \in ToSet(r.left) \/ HasRead(c, m)
        /\ pc[c] \in {"check", "lock", "append", "source"} => \A m \in ToSet(r.left) : HasRead(c, m)
        /\ pc[c] \in {"append", "source"} => HoldsText(r.memo, r.text)

MergesHold ==
    /\ \A c \in Call : MergeReads(c)
    /\ \A m \in merging : memos[m].state # "absent"
    /\ \A m \in Memo : memos[m].into # NoMemo =>
            m \in merging /\ HoldsText(memos[m].into, memos[m].text)

IInv ==
    /\ TypeOK
    /\ \A c \in Call : RequestFits(c)
    /\ LockIsKept
    /\ HomeOrStranded
    /\ MadeOnce
    /\ MergesHold
    /\ PlacesDiffer
    /\ OnlyMergeIsSilent

-----------------------------------------------------------------------------
(* Sequences and requests. *)

\* The first element of a sequence and the rest of it.
LEMMA HeadAndTail ==
    ASSUME NEW S, NEW s \in Seq(S), s # << >>
    PROVE  /\ Head(s) \in S /\ Tail(s) \in Seq(S) /\ Len(s) \in Nat \ {0}
           /\ ToSet(s) = {Head(s)} \union ToSet(Tail(s)) /\ ToSet(s) \subseteq S
           /\ Len(s) = 1 <=> Tail(s) = << >>
<1>1. /\ Head(s) \in S /\ Tail(s) \in Seq(S) /\ Len(s) \in Nat \ {0} /\ DOMAIN s = 1 .. Len(s)
      /\ Head(s) = s[1] /\ Len(Tail(s)) = Len(s) - 1 /\ DOMAIN Tail(s) = 1 .. Len(s) - 1
      /\ \A i \in 1 .. Len(s) - 1 : Tail(s)[i] = s[i + 1]
      /\ \A i \in 1 .. Len(s) : s[i] \in S
    OBVIOUS
<1>2. ASSUME NEW x \in ToSet(s)
      PROVE  x = Head(s) \/ x \in ToSet(Tail(s))
    <2>1. PICK i \in 1 .. Len(s) : x = s[i]
        BY <1>1 DEF ToSet
    <2>2. CASE i = 1
        BY <1>1, <2>1, <2>2
    <2>3. CASE i # 1
        <3>1. i - 1 \in 1 .. Len(s) - 1 /\ (i - 1) + 1 = i
            BY <1>1, <2>3
        <3>2. Tail(s)[i - 1] = x
            BY <1>1, <2>1, <3>1
        <3> QED
            BY <1>1, <3>1, <3>2 DEF ToSet
    <2> QED
        BY <2>2, <2>3
<1>3. Head(s) \in ToSet(s)
    BY <1>1 DEF ToSet
<1>4. ASSUME NEW x \in ToSet(Tail(s))
      PROVE  x \in ToSet(s)
    <2>1. PICK i \in 1 .. Len(s) - 1 : x = s[i + 1]
        BY <1>1 DEF ToSet
    <2>2. i + 1 \in 1 .. Len(s)
        BY <1>1
    <2> QED
        BY <1>1, <2>1, <2>2 DEF ToSet
<1>5. ToSet(s) \subseteq S
    BY <1>1 DEF ToSet
<1>6. Len(s) = 1 <=> Tail(s) = << >>
    <2>1. Tail(s) = << >> <=> Len(Tail(s)) = 0
        BY <1>1, EmptySeq
    <2> QED
        BY <1>1, <2>1
<1> QED
    BY <1>1, <1>2, <1>3, <1>4, <1>5, <1>6

\* A call is at a step with the request it had, but for what it has still to do and has read.
Became(c, step, left, rows, text) ==
    LET q == req'[c]
        r == req[c]
    IN
    /\ pc'[c] = step
    /\ q.op = r.op /\ q.ids = r.ids /\ q.memo = r.memo /\ q.notebook = r.notebook
    /\ q.left = left /\ q.rows = rows /\ q.text = text

CallsTyped == pc' \in [Call -> Step] /\ req' \in [Call -> RequestRow]

\* An ended call is forgotten.
Ended(c) == pc'[c] = "done" /\ req'[c] = NoRequest

LEMMA NoRequestType == NoRequest \in RequestRow
BY DEF NoRequest, RequestRow, AllOps

\* What Go does with each kind of new request.
LEMMA GoEnds ==
    ASSUME TypeOK, NEW c \in Call, NEW r, Go(c, "done", r)
    PROVE  CallsTyped /\ Ended(c)
BY NoRequestType DEF Go, TypeOK, CallsTyped, Ended, Step

LEMMA GoSame ==
    ASSUME TypeOK, NEW c \in Call, NEW step \in Step \ {"done"}, Go(c, step, req[c])
    PROVE  CallsTyped /\ Became(c, step, req[c].left, req[c].rows, req[c].text)
BY DEF Go, TypeOK, CallsTyped, Became, Step

LEMMA GoRows ==
    ASSUME TypeOK, NEW c \in Call, NEW step \in Step \ {"done"},
           NEW rows \in Seq(Notebook \union Memo), Go(c, step, [req[c] EXCEPT !.rows = rows])
    PROVE  CallsTyped /\ Became(c, step, req[c].left, rows, req[c].text)
<1> DEFINE q == [req[c] EXCEPT !.rows = rows]
<1>1. req[c] \in RequestRow
    BY DEF TypeOK
<1>2. q \in RequestRow /\ q.op = req[c].op /\ q.ids = req[c].ids /\ q.memo = req[c].memo
      /\ q.notebook = req[c].notebook /\ q.left = req[c].left /\ q.rows = rows
      /\ q.text = req[c].text
    BY <1>1 DEF RequestRow
<1>3. req' = [req EXCEPT ![c] = q] /\ pc' = [pc EXCEPT ![c] = step]
    BY DEF Go
<1> QED
    BY <1>2, <1>3 DEF TypeOK, CallsTyped, Became, Step

LEMMA GoLeft ==
    ASSUME TypeOK, NEW c \in Call, NEW step \in Step \ {"done"}, NEW left \in Seq(Memo),
           Go(c, step, [req[c] EXCEPT !.left = left])
    PROVE  CallsTyped /\ Became(c, step, left, req[c].rows, req[c].text)
<1> DEFINE q == [req[c] EXCEPT !.left = left]
<1>1. req[c] \in RequestRow
    BY DEF TypeOK
<1>2. q \in RequestRow /\ q.op = req[c].op /\ q.ids = req[c].ids /\ q.memo = req[c].memo
      /\ q.notebook = req[c].notebook /\ q.left = left /\ q.rows = req[c].rows
      /\ q.text = req[c].text
    BY <1>1 DEF RequestRow
<1>3. req' = [req EXCEPT ![c] = q] /\ pc' = [pc EXCEPT ![c] = step]
    BY DEF Go
<1> QED
    BY <1>2, <1>3 DEF TypeOK, CallsTyped, Became, Step

LEMMA GoRowsLeft ==
    ASSUME TypeOK, NEW c \in Call, NEW step \in Step \ {"done"},
           NEW rows \in Seq(Notebook \union Memo), NEW left \in Seq(Memo),
           Go(c, step, [req[c] EXCEPT !.rows = rows, !.left = left])
    PROVE  CallsTyped /\ Became(c, step, left, rows, req[c].text)
<1> DEFINE q == [req[c] EXCEPT !.rows = rows, !.left = left]
<1>1. req[c] \in RequestRow
    BY DEF TypeOK
<1>2. q \in RequestRow /\ q.op = req[c].op /\ q.ids = req[c].ids /\ q.memo = req[c].memo
      /\ q.notebook = req[c].notebook /\ q.left = left /\ q.rows = rows /\ q.text = req[c].text
    BY <1>1 DEF RequestRow
<1>3. req' = [req EXCEPT ![c] = q] /\ pc' = [pc EXCEPT ![c] = step]
    BY DEF Go
<1> QED
    BY <1>2, <1>3 DEF TypeOK, CallsTyped, Became, Step

LEMMA GoTextLeft ==
    ASSUME TypeOK, NEW c \in Call, NEW step \in Step \ {"done"},
           NEW text \in SUBSET Call, NEW left \in Seq(Memo),
           Go(c, step, [req[c] EXCEPT !.text = text, !.left = left])
    PROVE  CallsTyped /\ Became(c, step, left, req[c].rows, text)
<1> DEFINE q == [req[c] EXCEPT !.text = text, !.left = left]
<1>1. req[c] \in RequestRow
    BY DEF TypeOK
<1>2. q \in RequestRow /\ q.op = req[c].op /\ q.ids = req[c].ids /\ q.memo = req[c].memo
      /\ q.notebook = req[c].notebook /\ q.left = left /\ q.rows = req[c].rows /\ q.text = text
    BY <1>1 DEF RequestRow
<1>3. req' = [req EXCEPT ![c] = q] /\ pc' = [pc EXCEPT ![c] = step]
    BY DEF Go
<1> QED
    BY <1>2, <1>3 DEF TypeOK, CallsTyped, Became, Step

-----------------------------------------------------------------------------
(* Steps of one call. *)

\* The initial states.
LEMMA InitIInv == Init => IInv
<1> SUFFICES ASSUME Init PROVE IInv
    OBVIOUS
<1> USE WorkspaceAssumption
<1> DEFINE place(n) == CHOOSE i \in DOMAIN Given : Given[i] = n
<1>1. \A n \in ToSet(Given) : place(n) \in DOMAIN Given /\ Given[place(n)] = n
    BY DEF ToSet
<1>2. DOMAIN Given = 1 .. Len(Given) /\ Len(Given) \in Nat /\ Head(Given) \in Notebook
      /\ ToSet(Given) \subseteq Notebook
    <2>1. Given # << >> /\ Given \in Seq(Notebook)
        OBVIOUS
    <2>2. Len(Given) \in Nat /\ DOMAIN Given = 1 .. Len(Given)
        BY <2>1
    <2> QED
        BY <2>1, <2>2, HeadAndTail
<1>3. notebooks \in [Notebook -> NotebookRow]
    <2>1. \A n \in Notebook :
            (IF n \in ToSet(Given) THEN place(n) - 1 ELSE 0) \in Nat
        BY <1>1, <1>2
    <2> HIDE DEF place
    <2> QED
        BY <2>1 DEF Init, NotebookRow, place
<1>4. memos \in [Memo -> MemoRow]
    BY <1>2 DEF Init, MemoRow, Inbox
<1>5. TypeOK
    BY <1>3, <1>4, NoRequestType DEF Init, TypeOK, Step
<1>6. (\A c \in Call : RequestFits(c)) /\ LockIsKept
    BY DEF Init, RequestFits, LockIsKept, UnderWay
<1>7. HomeOrStranded
    <2>1. \A m \in Memo : Exists(m) => memos[m].notebook \in ToSet(Given)
        BY DEF Init, Exists
    <2>2. \A n \in ToSet(Given) : notebooks[n].state = "live"
        BY <1>2 DEF Init
    <2> QED
        BY <2>1, <2>2 DEF HomeOrStranded, Arrives, Init
<1>8. MadeOnce
    BY DEF Init, MadeOnce, NoRequest, UnderWay
<1>9. MergesHold
    BY DEF Init, MergesHold, MergeReads, NoRequest
<1>10. PlacesDiffer
    <2>1. \A n \in Notebook : /\ notebooks[n].state = "live" => n \in ToSet(Given)
                              /\ n \in ToSet(Given) => notebooks[n].order = place(n) - 1
        BY DEF Init
    <2>2. \A n, k \in ToSet(Given) : place(n) - 1 = place(k) - 1 => n = k
        <3> HIDE DEF place
        <3> QED
            BY <1>1, <1>2
    <2> HIDE DEF place
    <2> QED
        BY <2>1, <2>2 DEF PlacesDiffer, Siblings
<1>11. OnlyMergeIsSilent
    BY DEF Init, OnlyMergeIsSilent
<1> QED
    BY <1>5, <1>6, <1>7, <1>8, <1>9, <1>10, <1>11 DEF IInv

\* A step of one call is none of another's.
LEMMA OneCallMoves ==
    ASSUME TypeOK, NEW c \in Call, Request(c) \/ CallStep(c) \/ Drop(c), NEW g \in Call, g # c
    PROVE  pc'[g] = pc[g] /\ req'[g] = req[g]
<1> USE DEF TypeOK, Go
<1>1. CASE Request(c)
    BY <1>1 DEF Request, RequestInsert, RequestReorder, RequestNotebook, RequestCreate, RequestMemo,
                RequestMove, RequestMerge, Start
<1>2. CASE ReadSource(c) \/ CheckNotebook(c) \/ Refuse(c) \/ AppendUnlocked(c) \/ Drop(c)
    BY <1>2 DEF ReadSource, CheckNotebook, Refuse, AppendUnlocked, Drop
<1>3. CASE InsertNotebook(c) \/ Rename(c) \/ Reorder(c) \/ DeleteNotebook(c)
    BY <1>3 DEF InsertNotebook, Rename, Reorder, DeleteNotebook, Changed
<1>4. CASE InsertMemo(c) \/ Edit(c) \/ File(c) \/ Move(c)
    BY <1>4 DEF InsertMemo, Edit, File, Move, Changed
<1>5. CASE SoftDelete(c) \/ Restore(c) \/ TrashSource(c)
    BY <1>5 DEF SoftDelete, Restore, SetState, TrashSource
<1> QED
    BY <1>1, <1>2, <1>3, <1>4, <1>5 DEF CallStep

\* What only some steps change.
LEMMA WhatChanges ==
    ASSUME NEW c \in Call, Request(c) \/ CallStep(c) \/ Drop(c)
    PROVE  /\ ~ (InsertNotebook(c) \/ Rename(c) \/ Reorder(c) \/ DeleteNotebook(c)) =>
                notebooks' = notebooks
           /\ ~ (\/ InsertMemo(c) \/ Edit(c) \/ File(c) \/ Move(c) \/ SoftDelete(c) \/ Restore(c)
                 \/ TrashSource(c)) => memos' = memos
           /\ ~ Drop(c) => torn' = torn
           /\ ~ DeleteNotebook(c) => stranded' = stranded
           /\ ~ ReadSource(c) => merging' = merging
           /\ ~ Edit(c) => late' = late
           /\ Request(c) => writer' = writer /\ unlogged' = unlogged
<1> USE DEF ghosts
<1>1. CASE Request(c)
    BY <1>1 DEF Request, RequestInsert, RequestReorder, RequestNotebook, RequestCreate, RequestMemo,
                RequestMove, RequestMerge, Start
<1>2. CASE ReadSource(c) \/ CheckNotebook(c) \/ Refuse(c) \/ AppendUnlocked(c) \/ Drop(c)
    BY <1>2 DEF ReadSource, CheckNotebook, Refuse, AppendUnlocked, Drop, Request
<1>3. CASE InsertNotebook(c) \/ Rename(c) \/ Reorder(c) \/ DeleteNotebook(c)
    BY <1>3 DEF InsertNotebook, Rename, Reorder, DeleteNotebook, Enter, Request
<1>4. CASE InsertMemo(c) \/ Edit(c) \/ File(c) \/ Move(c)
    BY <1>4 DEF InsertMemo, Edit, File, Move, Enter, Request
<1>5. CASE SoftDelete(c) \/ Restore(c) \/ TrashSource(c)
    BY <1>5 DEF SoftDelete, Restore, SetState, TrashSource, Enter, Request
<1> QED
    BY <1>1, <1>2, <1>3, <1>4, <1>5 DEF CallStep

\* The rows an operation has changed are those it is about to log.
LEMMA ChangedDoes ==
    ASSUME TypeOK, NEW c \in Call, NEW rows \in Seq(Notebook \union Memo), Changed(c, rows)
    PROVE  /\ CallsTyped /\ Became(c, "append", req[c].left, rows, req[c].text)
           /\ writer' = c /\ unlogged' = unlogged \union ToSet(rows)
<1>1. Go(c, "append", [req[c] EXCEPT !.rows = rows])
    BY DEF Changed
<1>2. "append" \in Step \ {"done"}
    BY DEF Step
<1> QED
    BY <1>1, <1>2, GoRows DEF Changed

\* Operations that change rows of notebooks, or of one memo, take the lock and go on to log.
LEMMA ChangesGoOn ==
    ASSUME IInv, NEW c \in Call,
           \/ InsertNotebook(c) \/ Rename(c) \/ Reorder(c) \/ DeleteNotebook(c)
           \/ InsertMemo(c) \/ Edit(c) \/ File(c)
    PROVE  /\ pc[c] = "lock" /\ writer = NoCall
           /\ req[c].op \in {"insert", "rename", "reorder", "delete", "create", "merge", "edit", "file"}
           /\ \E rows \in Seq(Notebook \union Memo) : Changed(c, rows)
<1>0. TypeOK /\ RequestFits(c) /\ req[c] \in RequestRow
    BY DEF IInv, TypeOK
<1> USE DEF Enter
<1>a. \A x \in Notebook \union Memo : <<x>> \in Seq(Notebook \union Memo)
    OBVIOUS
<1>1. CASE InsertNotebook(c)
    <2>1. PICK n \in Notebook : Changed(c, <<n>>)
        BY <1>1 DEF InsertNotebook
    <2> QED
        BY <1>a, <1>1, <2>1 DEF InsertNotebook
<1>2. CASE Rename(c)
    <2>1. pc[c] = "lock" /\ req[c].op = "rename" /\ writer = NoCall /\ Changed(c, <<req[c].notebook>>)
        BY <1>2 DEF Rename
    <2>2. req[c].notebook \in Notebook
        BY <1>0, <2>1 DEF RequestFits, UnderWay
    <2> QED
        BY <1>a, <2>1, <2>2
<1>3. CASE Reorder(c)
    <2>1. req[c].order \in Seq(Notebook \union Memo)
        BY <1>0 DEF RequestRow
    <2> QED
        BY <1>3, <2>1 DEF Reorder
<1>4. CASE DeleteNotebook(c)
    <2>1. pc[c] = "lock" /\ req[c].op = "delete" /\ writer = NoCall /\ Changed(c, <<req[c].notebook>>)
        BY <1>4 DEF DeleteNotebook
    <2>2. req[c].notebook \in Notebook
        BY <1>0, <2>1 DEF RequestFits, UnderWay
    <2> QED
        BY <1>a, <2>1, <2>2
<1>5. CASE InsertMemo(c)
    <2>1. pc[c] = "lock" /\ req[c].op \in {"create", "merge"} /\ writer = NoCall
          /\ Changed(c, <<req[c].memo>>)
        BY <1>5 DEF InsertMemo
    <2>2. req[c].memo \in Memo
        BY <1>0, <2>1 DEF RequestFits, UnderWay
    <2> QED
        BY <1>a, <2>1, <2>2
<1>6. CASE Edit(c) \/ File(c)
    <2>1. pc[c] = "lock" /\ req[c].op \in {"edit", "file"} /\ req[c].ids # << >>
        BY <1>0, <1>6 DEF Edit, File, RequestFits, UnderWay
    <2>2. req[c].ids \in Seq(Memo)
        BY <1>0 DEF RequestRow
    <2>3. Head(req[c].ids) \in Memo
        BY <2>1, <2>2, HeadAndTail
    <2>4. <<Head(req[c].ids)>> \in Seq(Notebook \union Memo)
        BY <2>3
    <2> QED
        BY <1>6, <2>4 DEF Edit, File
<1> QED
    BY <1>1, <1>2, <1>3, <1>4, <1>5, <1>6

\* A merge reads one source, and looks for the notebook when it has read the last one.
LEMMA ReadDoes ==
    ASSUME IInv, NEW c \in Call, ReadSource(c)
    PROVE  LET m == Head(req[c].left) IN
           /\ pc[c] = "read" /\ req[c].op = "merge" /\ req[c].left # << >> /\ m \in Memo
           /\ CallsTyped
           /\ \/ Ended(c) /\ merging' = merging
              \/ /\ Exists(m) /\ merging' = merging \union {m}
                 /\ \/ /\ Tail(req[c].left) = << >>
                       /\ Became(c, "check", req[c].ids, req[c].rows, req[c].text \union memos[m].text)
                    \/ /\ Tail(req[c].left) # << >>
                       /\ Became(c, "read", Tail(req[c].left), req[c].rows,
                                 req[c].text \union memos[m].text)
<1> DEFINE r == req[c]
           m == Head(r.left)
<1>0. TypeOK /\ RequestFits(c) /\ r \in RequestRow
    BY DEF IInv, TypeOK
<1>1. pc[c] = "read" /\ r.op = "merge" /\ r.left # << >>
    BY <1>0 DEF ReadSource, RequestFits, UnderWay
<1>2. r.left \in Seq(Memo) /\ r.ids \in Seq(Memo) /\ r.text \in SUBSET Call
    BY <1>0 DEF RequestRow
<1>3. m \in Memo /\ Tail(r.left) \in Seq(Memo) /\ (Len(r.left) = 1 <=> Tail(r.left) = << >>)
    BY <1>1, <1>2, HeadAndTail
<1>4. memos[m].text \in SUBSET Call
    BY <1>0, <1>3 DEF TypeOK, MemoRow
<1>5. r.text \union memos[m].text \in SUBSET Call
    BY <1>2, <1>4
<1>6. "check" \in Step \ {"done"} /\ "read" \in Step \ {"done"}
    BY DEF Step
<1>7. CASE ~Exists(m)
    BY <1>0, <1>1, <1>3, <1>7, GoEnds DEF ReadSource
<1>8. CASE Exists(m) /\ Len(r.left) = 1
    <2>1. Go(c, "check", [r EXCEPT !.text = r.text \union memos[m].text, !.left = r.ids])
          /\ merging' = merging \union {m}
        BY <1>8 DEF ReadSource, TextRead
    <2> QED
        BY <1>0, <1>1, <1>2, <1>3, <1>5, <1>6, <1>8, <2>1, GoTextLeft
<1>9. CASE Exists(m) /\ Len(r.left) # 1
    <2>1. Go(c, "read", [r EXCEPT !.text = r.text \union memos[m].text, !.left = Tail(r.left)])
          /\ merging' = merging \union {m}
        BY <1>9 DEF ReadSource, TextRead
    <2> QED
        BY <1>0, <1>1, <1>3, <1>5, <1>6, <1>9, <2>1, GoTextLeft
<1> QED
    BY <1>7, <1>8, <1>9

\* What is done to one memo after the other.
LEMMA NextMemoDoes ==
    ASSUME IInv, NEW c \in Call, Move(c) \/ SoftDelete(c) \/ Restore(c)
    PROVE  LET m == Head(req[c].left) IN
           /\ (pc[c] = "lock" /\ writer = NoCall) \/ pc[c] = "write"
           /\ req[c].op \in {"move", "trash", "purge", "restore"}
           /\ req[c].left # << >> /\ m \in Memo /\ writer' = c
           /\ CallsTyped
           /\ \/ /\ ~Exists(m) /\ memos' = memos /\ req[c].op = "move" /\ unlogged' = unlogged
                 /\ Became(c, "append", Tail(req[c].left), << >>, req[c].text)
              \/ /\ unlogged' = unlogged \union {m}
                 /\ ~Exists(m) => memos' = memos
                 /\ Became(c, "append", Tail(req[c].left), <<m>>, req[c].text)
<1> DEFINE r == req[c]
           m == Head(r.left)
<1>0. TypeOK /\ RequestFits(c) /\ r \in RequestRow
    BY DEF IInv, TypeOK
<1>1. ((pc[c] = "lock" /\ writer = NoCall) \/ pc[c] = "write")
      /\ r.op \in {"move", "trash", "purge", "restore"} /\ writer' = c
    <2>1. pc[c] = "write" => r.op = "move"
        BY <1>0 DEF RequestFits
    <2>2. CASE Move(c)
        BY <2>1, <2>2 DEF Move, Enter
    <2>3. CASE SoftDelete(c) \/ Restore(c)
        BY <2>3 DEF SoftDelete, Restore, SetState, Enter
    <2> QED
        BY <2>2, <2>3
<1>2. r.left # << >> /\ r.left \in Seq(Memo)
    BY <1>0, <1>1 DEF RequestFits, UnderWay, RequestRow
<1>3. m \in Memo /\ Tail(r.left) \in Seq(Memo)
    BY <1>2, HeadAndTail
<1>4. << >> \in Seq(Notebook \union Memo) /\ <<m>> \in Seq(Notebook \union Memo)
    BY <1>3
<1>5. "append" \in Step \ {"done"}
    BY DEF Step
<1>6. CASE Move(c)
    <2>1. Go(c, "append", [r EXCEPT !.rows = MoveRows(m), !.left = Tail(r.left)])
        BY <1>6 DEF Move
    <2>2. r.op = "move"
        <3>1. pc[c] = "write" => r.op = "move"
            BY <1>0 DEF RequestFits
        <3> QED
            BY <1>6, <3>1 DEF Move, Enter
    <2>3. CASE Exists(m)
        <3>1. MoveRows(m) = <<m>> /\ unlogged' = unlogged \union {m}
            BY <1>6, <2>3 DEF Move, MoveRows
        <3>2. CallsTyped /\ Became(c, "append", Tail(r.left), <<m>>, r.text)
            BY <1>0, <1>3, <1>4, <1>5, <2>1, <3>1, GoRowsLeft
        <3> QED
            BY <1>1, <1>2, <1>3, <2>3, <3>1, <3>2
    <2>4. CASE ~Exists(m)
        <3>1. MoveRows(m) = << >> /\ unlogged' = unlogged /\ memos' = memos
            BY <1>6, <2>4 DEF Move, MoveRows
        <3>2. CallsTyped /\ Became(c, "append", Tail(r.left), << >>, r.text)
            BY <1>0, <1>3, <1>4, <1>5, <2>1, <3>1, GoRowsLeft
        <3> QED
            BY <1>1, <1>2, <1>3, <2>2, <2>4, <3>1, <3>2
    <2> QED
        BY <2>3, <2>4
<1>7. CASE SoftDelete(c) \/ Restore(c)
    <2>1. /\ Go(c, "append", [r EXCEPT !.rows = <<m>>, !.left = Tail(r.left)])
          /\ unlogged' = unlogged \union {m} /\ (~Exists(m) => memos' = memos)
        BY <1>7 DEF SoftDelete, Restore, SetState
    <2>2. CallsTyped /\ Became(c, "append", Tail(r.left), <<m>>, r.text)
        BY <1>0, <1>3, <1>4, <1>5, <2>1, GoRowsLeft
    <2> QED
        BY <1>1, <1>2, <1>3, <2>1, <2>2
<1> QED
    BY <1>6, <1>7

\* A row is logged; the call goes on to the next, to the next memo, to its sources, or ends.
LEMMA AppendDoes ==
    ASSUME IInv, NEW c \in Call, AppendUnlocked(c)
    PROVE  LET r == req[c]
               logged == IF r.rows = << >> THEN {} ELSE {Head(r.rows)}
               rest == IF r.rows = << >> THEN << >> ELSE Tail(r.rows)
           IN
           /\ pc[c] = "append" /\ CallsTyped
           /\ unlogged' = unlogged \ logged
           /\ writer' = IF pc'[c] \in {"append", "write"} THEN c ELSE NoCall
           /\ \/ Ended(c) /\ rest = << >>
              \/ /\ Became(c, pc'[c], r.left, rest, r.text)
                 /\ \/ pc'[c] = "append"
                    \/ /\ rest = << >> /\ r.left # << >>
                       /\ \/ pc'[c] = "write" /\ r.op = "move"
                          \/ pc'[c] = "lock" /\ r.op \in {"trash", "purge"}
                          \/ pc'[c] = "source" /\ r.op = "merge"
<1> DEFINE r == req[c]
           step == AfterRow(r)
           rest == IF r.rows = << >> THEN << >> ELSE Tail(r.rows)
<1>0. TypeOK /\ RequestFits(c) /\ r \in RequestRow
    BY DEF IInv, TypeOK
<1>1. /\ pc[c] = "append"
      /\ unlogged' = unlogged \ {r.rows[i] : i \in DOMAIN r.rows \intersect {1}}
      /\ Go(c, step, [r EXCEPT !.rows = rest])
      /\ writer' = IF step \in {"append", "write"} THEN c ELSE NoCall
    BY DEF AppendUnlocked
<1>2. r.rows \in Seq(Notebook \union Memo) /\ r.left \in Seq(Memo)
    BY <1>0 DEF RequestRow
<1>3. rest \in Seq(Notebook \union Memo) /\ (Len(r.rows) > 1 <=> rest # << >>)
    <2>1. CASE r.rows = << >>
        <3>1. rest = << >> /\ Len(r.rows) = 0
            BY <2>1
        <3> QED
            BY <3>1
    <2>2. CASE r.rows # << >>
        <3>1. Len(r.rows) \in Nat \ {0} /\ (Len(r.rows) = 1 <=> Tail(r.rows) = << >>)
              /\ Tail(r.rows) \in Seq(Notebook \union Memo)
            BY <1>2, <2>2, HeadAndTail
        <3>2. \A k \in Nat \ {0} : k > 1 <=> k # 1
            OBVIOUS
        <3>3. rest = Tail(r.rows)
            BY <2>2
        <3> HIDE DEF rest
        <3> QED
            BY <3>1, <3>2, <3>3
    <2> QED
        BY <2>1, <2>2
<1>4. unlogged' = unlogged \ (IF r.rows = << >> THEN {} ELSE {Head(r.rows)})
    <2>1. CASE r.rows = << >>
        BY <1>1, <2>1
    <2>2. CASE r.rows # << >>
        <3>1. Len(r.rows) \in Nat \ {0} /\ DOMAIN r.rows = 1 .. Len(r.rows) /\ Head(r.rows) = r.rows[1]
            BY <1>2, <2>2, HeadAndTail
        <3>2. DOMAIN r.rows \intersect {1} = {1}
            BY <3>1
        <3> QED
            BY <1>1, <2>2, <3>1, <3>2
    <2> QED
        BY <2>1, <2>2
<1>5. /\ step \in {"append", "write", "lock", "source", "done"}
      /\ step # "append" => rest = << >>
      /\ step = "write" => r.op = "move" /\ r.left # << >>
      /\ step = "lock" => r.op \in {"trash", "purge"} /\ r.left # << >>
      /\ step = "source" => r.op = "merge"
    BY <1>3 DEF AfterRow
<1>6. r.op = "merge" => r.left # << >>
    BY <1>0, <1>1 DEF RequestFits, UnderWay
<1>7. CASE step = "done"
    <2>1. CallsTyped /\ Ended(c)
        BY <1>0, <1>1, <1>7, GoEnds
    <2> QED
        BY <1>1, <1>4, <1>5, <1>7, <2>1 DEF Ended
<1>8. CASE step # "done"
    <2>1. step \in Step \ {"done"}
        BY <1>5, <1>8 DEF Step
    <2>2. CallsTyped /\ Became(c, step, r.left, rest, r.text)
        BY <1>0, <1>1, <1>3, <2>1, GoRows
    <2>3. pc'[c] = step
        BY <2>2 DEF Became
    <2> QED
        BY <1>1, <1>4, <1>5, <1>6, <1>8, <2>2, <2>3
<1> QED
    BY <1>7, <1>8

\* A source of a merge is trashed, or the error ignored.
LEMMA SourceDoes ==
    ASSUME IInv, NEW c \in Call, TrashSource(c)
    PROVE  LET r == req[c]
               m == Head(r.left)
           IN
           /\ pc[c] = "source" /\ r.op = "merge" /\ r.left # << >> /\ m \in Memo
           /\ writer = NoCall /\ writer' = NoCall
           /\ CallsTyped
           /\ unlogged' = IF memos' # memos THEN unlogged \union {m} ELSE unlogged
           /\ \/ memos' = memos
              \/ Exists(m) /\ memos' = [memos EXCEPT ![m] =
                                    [memos[m] EXCEPT !.state = "trashed", !.into = r.memo]]
           /\ \/ Ended(c)
              \/ Tail(r.left) # << >> /\ Became(c, "source", Tail(r.left), r.rows, r.text)
<1> DEFINE r == req[c]
           m == Head(r.left)
<1>0. TypeOK /\ RequestFits(c) /\ r \in RequestRow
    BY DEF IInv, TypeOK
<1>1. pc[c] = "source" /\ r.op = "merge" /\ r.left # << >> /\ writer = NoCall /\ writer' = NoCall
    BY <1>0 DEF TrashSource, RequestFits, UnderWay
<1>2. r.left \in Seq(Memo)
    BY <1>0 DEF RequestRow
<1>3. m \in Memo /\ Tail(r.left) \in Seq(Memo) /\ (Len(r.left) = 1 <=> Tail(r.left) = << >>)
    BY <1>1, <1>2, HeadAndTail
<1>4. \/ memos' = memos
      \/ Exists(m) /\ memos' = [memos EXCEPT ![m] =
                                    [memos[m] EXCEPT !.state = "trashed", !.into = r.memo]]
    BY DEF TrashSource
<1>5. unlogged' = IF memos' # memos THEN unlogged \union {m} ELSE unlogged
    BY DEF TrashSource
<1>6. "source" \in Step \ {"done"}
    BY DEF Step
<1>7. CASE Len(r.left) = 1
    <2>1. CallsTyped /\ Ended(c)
        BY <1>0, <1>7, GoEnds DEF TrashSource
    <2> QED
        BY <1>1, <1>3, <1>4, <1>5, <2>1
<1>8. CASE Len(r.left) # 1
    <2>1. Go(c, "source", [r EXCEPT !.left = Tail(r.left)])
        BY <1>8 DEF TrashSource
    <2>2. CallsTyped /\ Became(c, "source", Tail(r.left), r.rows, r.text)
        BY <1>0, <1>3, <1>6, <2>1, GoLeft
    <2> QED
        BY <1>1, <1>3, <1>4, <1>5, <1>8, <2>2
<1> QED
    BY <1>7, <1>8

\* The other steps end the call, or take it to the lock.
LEMMA CheckDoes ==
    ASSUME IInv, NEW c \in Call, CheckNotebook(c) \/ Refuse(c) \/ Drop(c)
    PROVE  /\ CallsTyped /\ UnderWay(c)
           /\ \/ Ended(c)
              \/ /\ pc[c] = "check" /\ notebooks[req[c].notebook].state = "live"
                 /\ Became(c, "lock", req[c].left, req[c].rows, req[c].text)
           /\ writer' = IF writer = c THEN NoCall ELSE writer
<1>0. TypeOK /\ (pc[c] \in {"append", "write"} <=> writer = c)
    BY DEF IInv, LockIsKept
<1>1. CASE CheckNotebook(c)
    <2>1. "lock" \in Step \ {"done"}
        BY DEF Step
    <2>2. pc[c] = "check" /\ writer' = writer
        BY <1>1 DEF CheckNotebook
    <2>3. CASE notebooks[req[c].notebook].state = "live"
        BY <1>0, <1>1, <2>1, <2>2, <2>3, GoSame DEF CheckNotebook, UnderWay
    <2>4. CASE notebooks[req[c].notebook].state # "live"
        BY <1>0, <1>1, <2>2, <2>4, GoEnds DEF CheckNotebook, UnderWay
    <2> QED
        BY <2>3, <2>4
<1>2. CASE Refuse(c)
    <2>1. Go(c, "done", req[c]) /\ writer' = writer /\ pc[c] = "lock"
        BY <1>2 DEF Refuse
    <2> QED
        BY <1>0, <2>1, GoEnds DEF UnderWay
<1>3. CASE Drop(c)
    BY <1>0, <1>3, GoEnds DEF Drop, UnderWay
<1> QED
    BY <1>1, <1>2, <1>3

-----------------------------------------------------------------------------
(* Requests. *)

\* An order of a finite set is a sequence of its elements.
LEMMA OrderType ==
    ASSUME NEW S, IsFiniteSet(S), NEW s \in SetToSeqs(S)
    PROVE  s \in Seq(S)
<1>1. Cardinality(S) \in Nat
    BY FS_CardinalityType
<1>2. s \in [1 .. Cardinality(S) -> S]
    BY DEF SetToSeqs
<1> QED
    BY <1>1, <1>2

\* A batch names memos, at least one.
LEMMA BatchType == \A ids \in Batches : ids \in Seq(Memo) /\ ids # << >>
<1>1. Kept \subseteq Memo /\ IsFiniteSet(Kept)
    BY WorkspaceAssumption, FS_Subset
<1>2. ASSUME NEW ids \in SetToSeqs(Kept) \ {<< >>}
      PROVE  ids \in Seq(Memo) /\ ids # << >>
    <2>1. ids \in Seq(Kept)
        BY <1>1, OrderType
    <2> QED
        BY <1>1, <2>1
<1>3. \A m \in Kept : <<m>> \in Seq(Memo) /\ <<m>> # << >>
    BY <1>1
<1> QED
    BY <1>2, <1>3 DEF Batches

\* What every request sets.
LEMMA StartDoes ==
    ASSUME TypeOK, NEW c \in Call, NEW op \in AllOps, NEW step \in Step, NEW ids \in Seq(Memo),
           NEW m \in Memo \union {NoMemo}, NEW n \in Notebook \union {Root},
           Start(c, op, step, ids, m, n)
    PROVE  /\ CallsTyped /\ pc'[c] = step
           /\ req'[c].op = op /\ req'[c].ids = ids /\ req'[c].left = ids
           /\ req'[c].memo = m /\ req'[c].notebook = n
           /\ UNCHANGED <<notebooks, memos, writer, ghosts>>
<1> DEFINE q == [req[c] EXCEPT !.op = op, !.ids = ids, !.left = ids, !.memo = m, !.notebook = n]
<1>1. req[c] \in RequestRow
    BY DEF TypeOK
<1>2. q \in RequestRow /\ q.op = op /\ q.ids = ids /\ q.left = ids /\ q.memo = m /\ q.notebook = n
    BY <1>1 DEF RequestRow
<1>3. req' = [req EXCEPT ![c] = q] /\ pc' = [pc EXCEPT ![c] = step]
      /\ UNCHANGED <<notebooks, memos, writer, ghosts>>
    BY DEF Start
<1> HIDE DEF q
<1> QED
    BY <1>2, <1>3 DEF TypeOK, CallsTyped

\* What a request is when it arrives: a new memo has a new id, and nothing has been read.
NewRequest(c) ==
    LET q == req'[c] IN
    /\ CallsTyped /\ pc'[c] \in {"read", "check", "lock"}
    /\ UNCHANGED <<notebooks, memos, writer, ghosts>>
    /\ q.op \in {"rename", "delete", "create", "file", "move", "merge"} => q.notebook \in Notebook
    /\ q.op \in {"edit", "file"} => q.ids # << >>
    /\ q.op \in {"move", "trash", "purge", "restore", "merge"} => q.left # << >>
    /\ pc'[c] = "read" <=> q.op = "merge"
    /\ pc'[c] = "check" <=> q.op \in {"create", "move"}
    /\ q.op = "merge" => q.left = q.ids
    /\ q.op \in {"create", "merge"} => q.memo \in Memo /\ ~Drawn(q.memo)
    /\ q.memo = req[c].memo \/ q.memo = NoMemo \/ (q.memo \in Memo /\ ~Drawn(q.memo))

LEMMA RequestDoes ==
    ASSUME TypeOK, NEW c \in Call, Request(c)
    PROVE  pc[c] = "idle" /\ NewRequest(c)
<1>0. pc[c] = "idle" /\ req[c] \in RequestRow
    BY DEF Request, TypeOK
<1>a. Seen \subseteq Notebook /\ SeenMemos \subseteq Memo /\ {"lock", "check", "read"} \subseteq Step
      /\ << >> \in Seq(Memo)
    BY DEF Seen, SeenMemos, Step
<1>b. {"insert", "rename", "reorder", "delete", "create", "edit", "file", "move", "trash", "purge",
       "restore", "merge"} \subseteq AllOps
    BY DEF AllOps
<1>1. CASE RequestInsert(c)
    <2>1. PICK parent \in Seen \union {Root} : \E placed \in BOOLEAN :
            /\ req' = [req EXCEPT ![c] = [req[c] EXCEPT !.op = "insert", !.notebook = parent,
                                                        !.placed = placed]]
            /\ pc' = [pc EXCEPT ![c] = "lock"]
            /\ UNCHANGED <<notebooks, memos, writer, ghosts>>
        BY <1>1 DEF RequestInsert
    <2>2. PICK placed \in BOOLEAN :
            /\ req' = [req EXCEPT ![c] = [req[c] EXCEPT !.op = "insert", !.notebook = parent,
                                                        !.placed = placed]]
            /\ pc' = [pc EXCEPT ![c] = "lock"]
            /\ UNCHANGED <<notebooks, memos, writer, ghosts>>
        BY <2>1
    <2> DEFINE q == [req[c] EXCEPT !.op = "insert", !.notebook = parent, !.placed = placed]
    <2>3. q \in RequestRow /\ q.op = "insert" /\ q.memo = req[c].memo
        BY <1>0, <1>a, <1>b DEF RequestRow
    <2>4. req' = [req EXCEPT ![c] = q]
        BY <2>2
    <2> HIDE DEF q
    <2> QED
        BY <1>0, <1>a, <2>2, <2>3, <2>4 DEF NewRequest, CallsTyped, TypeOK
<1>2. CASE RequestReorder(c)
    <2>1. PICK parent \in Seen \union {Root} :
            \E known \in SUBSET Siblings(parent) : \E order \in SetToSeqs(known) :
            /\ req' = [req EXCEPT ![c] = [req[c] EXCEPT !.op = "reorder", !.notebook = parent,
                                                        !.order = order]]
            /\ pc' = [pc EXCEPT ![c] = "lock"]
            /\ UNCHANGED <<notebooks, memos, writer, ghosts>>
        BY <1>2 DEF RequestReorder
    <2>2. PICK known \in SUBSET Siblings(parent) : \E order \in SetToSeqs(known) :
            /\ req' = [req EXCEPT ![c] = [req[c] EXCEPT !.op = "reorder", !.notebook = parent,
                                                        !.order = order]]
            /\ pc' = [pc EXCEPT ![c] = "lock"]
            /\ UNCHANGED <<notebooks, memos, writer, ghosts>>
        BY <2>1
    <2>3. PICK order \in SetToSeqs(known) :
            /\ req' = [req EXCEPT ![c] = [req[c] EXCEPT !.op = "reorder", !.notebook = parent,
                                                        !.order = order]]
            /\ pc' = [pc EXCEPT ![c] = "lock"]
            /\ UNCHANGED <<notebooks, memos, writer, ghosts>>
        BY <2>2
    <2>4. order \in Seq(Notebook)
        <3>1. known \subseteq Notebook
            BY DEF Siblings
        <3>2. IsFiniteSet(known)
            BY <3>1, WorkspaceAssumption, FS_Subset
        <3>3. order \in Seq(known)
            BY <3>2, OrderType
        <3> QED
            BY <3>1, <3>3
    <2> DEFINE q == [req[c] EXCEPT !.op = "reorder", !.notebook = parent, !.order = order]
    <2>5. q \in RequestRow /\ q.op = "reorder" /\ q.memo = req[c].memo
        BY <1>0, <1>a, <1>b, <2>4 DEF RequestRow
    <2>6. req' = [req EXCEPT ![c] = q]
        BY <2>3
    <2> HIDE DEF q
    <2> QED
        BY <1>0, <1>a, <2>3, <2>5, <2>6 DEF NewRequest, CallsTyped, TypeOK
<1>3. CASE RequestNotebook(c)
    <2>1. PICK op \in {"rename", "delete"} :
            \E n \in Seen : Start(c, op, "lock", << >>, NoMemo, n)
        BY <1>3 DEF RequestNotebook
    <2>2. PICK n \in Seen : Start(c, op, "lock", << >>, NoMemo, n)
        BY <2>1
    <2>3. op \in AllOps
        BY DEF AllOps
    <2>4. /\ CallsTyped /\ pc'[c] = "lock" /\ UNCHANGED <<notebooks, memos, writer, ghosts>>
          /\ req'[c].op = op /\ req'[c].memo = NoMemo /\ req'[c].notebook = n
        BY <1>0, <1>a, <2>2, <2>3, StartDoes
    <2> QED
        BY <1>0, <1>a, <2>2, <2>4 DEF NewRequest
<1>4. CASE RequestCreate(c)
    <2>1. PICK m \in Memo, n \in Seen : ~Drawn(m) /\ Start(c, "create", "check", << >>, m, n)
        BY <1>4 DEF RequestCreate
    <2>2. /\ CallsTyped /\ pc'[c] = "check" /\ UNCHANGED <<notebooks, memos, writer, ghosts>>
          /\ req'[c].op = "create" /\ req'[c].ids = << >> /\ req'[c].left = << >>
          /\ req'[c].memo = m /\ req'[c].notebook = n
        BY <1>0, <1>a, <1>b, <2>1, StartDoes
    <2> QED
        BY <1>0, <1>a, <2>1, <2>2 DEF NewRequest
<1>5. CASE RequestMemo(c)
    <2>1. CASE \E op \in {"edit", "restore"}, m \in SeenMemos : Start(c, op, "lock", <<m>>, NoMemo, Root)
        <3>1. PICK op \in {"edit", "restore"}, m \in SeenMemos : Start(c, op, "lock", <<m>>, NoMemo, Root)
            BY <2>1
        <3>2. <<m>> \in Seq(Memo) /\ <<m>> # << >> /\ op \in AllOps
            BY <1>a DEF AllOps
        <3>3. /\ CallsTyped /\ pc'[c] = "lock" /\ UNCHANGED <<notebooks, memos, writer, ghosts>>
              /\ req'[c].op = op /\ req'[c].ids = <<m>> /\ req'[c].left = <<m>>
              /\ req'[c].memo = NoMemo /\ req'[c].notebook = Root
            BY <1>0, <1>a, <1>b, <3>1, <3>2, StartDoes
        <3> QED
            BY <1>0, <1>a, <3>1, <3>2, <3>3 DEF NewRequest
    <2>2. CASE \E m \in SeenMemos, n \in Seen : Start(c, "file", "lock", <<m>>, NoMemo, n)
        <3>1. PICK m \in SeenMemos, n \in Seen : Start(c, "file", "lock", <<m>>, NoMemo, n)
            BY <2>2
        <3>2. <<m>> \in Seq(Memo) /\ <<m>> # << >>
            BY <1>a
        <3>3. /\ CallsTyped /\ pc'[c] = "lock" /\ UNCHANGED <<notebooks, memos, writer, ghosts>>
              /\ req'[c].op = "file" /\ req'[c].ids = <<m>> /\ req'[c].left = <<m>>
              /\ req'[c].memo = NoMemo /\ req'[c].notebook = n
            BY <1>0, <1>a, <1>b, <3>1, <3>2, StartDoes
        <3> QED
            BY <1>0, <1>a, <3>1, <3>2, <3>3 DEF NewRequest
    <2>3. CASE \E op \in {"trash", "purge"}, ids \in Batches : Start(c, op, "lock", ids, NoMemo, Root)
        <3>1. PICK op \in {"trash", "purge"}, ids \in Batches : Start(c, op, "lock", ids, NoMemo, Root)
            BY <2>3
        <3>2. ids \in Seq(Memo) /\ ids # << >> /\ op \in AllOps
            BY BatchType DEF AllOps
        <3>3. /\ CallsTyped /\ pc'[c] = "lock" /\ UNCHANGED <<notebooks, memos, writer, ghosts>>
              /\ req'[c].op = op /\ req'[c].ids = ids /\ req'[c].left = ids
              /\ req'[c].memo = NoMemo /\ req'[c].notebook = Root
            BY <1>0, <1>a, <1>b, <3>1, <3>2, StartDoes
        <3> QED
            BY <1>0, <1>a, <3>1, <3>2, <3>3 DEF NewRequest
    <2> QED
        BY <1>5, <2>1, <2>2, <2>3 DEF RequestMemo
<1>6. CASE RequestMove(c)
    <2>1. PICK n \in Seen, ids \in Batches : Start(c, "move", "check", ids, NoMemo, n)
        BY <1>6 DEF RequestMove
    <2>2. ids \in Seq(Memo) /\ ids # << >>
        BY BatchType
    <2>3. /\ CallsTyped /\ pc'[c] = "check" /\ UNCHANGED <<notebooks, memos, writer, ghosts>>
          /\ req'[c].op = "move" /\ req'[c].ids = ids /\ req'[c].left = ids
          /\ req'[c].memo = NoMemo /\ req'[c].notebook = n
        BY <1>0, <1>a, <1>b, <2>1, <2>2, StartDoes
    <2> QED
        BY <1>0, <1>a, <2>1, <2>2, <2>3 DEF NewRequest
<1>7. CASE RequestMerge(c)
    <2>1. PICK m \in Memo, n \in Seen, ids \in Batches : ~Drawn(m) /\ Start(c, "merge", "read", ids, m, n)
        BY <1>7 DEF RequestMerge
    <2>2. ids \in Seq(Memo) /\ ids # << >>
        BY BatchType
    <2>3. /\ CallsTyped /\ pc'[c] = "read" /\ UNCHANGED <<notebooks, memos, writer, ghosts>>
          /\ req'[c].op = "merge" /\ req'[c].ids = ids /\ req'[c].left = ids
          /\ req'[c].memo = m /\ req'[c].notebook = n
        BY <1>0, <1>a, <1>b, <2>1, <2>2, StartDoes
    <2> QED
        BY <1>0, <1>a, <2>1, <2>2, <2>3 DEF NewRequest
<1> QED
    BY <1>1, <1>2, <1>3, <1>4, <1>5, <1>6, <1>7 DEF Request

-----------------------------------------------------------------------------
(* Requests fit, and the lock is kept. *)

\* The steps there are: the first of a call, those that change rows at once, and the others.
LEMMA StepKinds ==
    ASSUME NEW c \in Call, Request(c) \/ CallStep(c) \/ Drop(c)
    PROVE  \/ Request(c)
           \/ \/ InsertNotebook(c) \/ Rename(c) \/ Reorder(c) \/ DeleteNotebook(c)
              \/ InsertMemo(c) \/ Edit(c) \/ File(c)
           \/ ReadSource(c)
           \/ Move(c) \/ SoftDelete(c) \/ Restore(c)
           \/ AppendUnlocked(c)
           \/ TrashSource(c)
           \/ CheckNotebook(c) \/ Refuse(c) \/ Drop(c)
BY DEF CallStep

\* The call that takes the step has a request that fits, and the lock if it has to log.
LEMMA CallGoesOn ==
    ASSUME IInv, NEW c \in Call, Request(c) \/ CallStep(c) \/ Drop(c)
    PROVE  /\ CallsTyped /\ RequestFits(c)'
           /\ writer' \in {writer, c, NoCall} /\ (writer' # writer => writer \in {c, NoCall})
           /\ writer' = c <=> pc'[c] \in {"append", "write"}
<1> USE DEF RequestFits, UnderWay
<1>0. /\ TypeOK /\ RequestFits(c) /\ (pc[c] \in {"append", "write"} <=> writer = c)
      /\ c # NoCall
    BY WorkspaceAssumption DEF IInv, LockIsKept
<1>1. CASE Request(c)
    <2>1. pc[c] = "idle" /\ NewRequest(c)
        BY <1>0, <1>1, RequestDoes
    <2>2. CallsTyped /\ RequestFits(c)'
        BY <2>1 DEF NewRequest
    <2>3. writer' = writer /\ writer # c /\ pc'[c] \in {"read", "check", "lock"}
        BY <1>0, <2>1 DEF NewRequest
    <2> QED
        BY <2>2, <2>3
<1>2. CASE \/ InsertNotebook(c) \/ Rename(c) \/ Reorder(c) \/ DeleteNotebook(c)
           \/ InsertMemo(c) \/ Edit(c) \/ File(c)
    <2>1. pc[c] = "lock" /\ writer = NoCall /\ req[c].op # "move"
        BY <1>2, ChangesGoOn
    <2>2. PICK rows \in Seq(Notebook \union Memo) : Changed(c, rows)
        BY <1>2, ChangesGoOn
    <2>3. CallsTyped /\ Became(c, "append", req[c].left, rows, req[c].text) /\ writer' = c
        BY <1>0, <2>2, ChangedDoes
    <2>4. RequestFits(c)'
        BY <1>0, <2>1, <2>3 DEF Became
    <2> QED
        BY <2>1, <2>3, <2>4 DEF Became
<1>3. CASE ReadSource(c)
    <2>1. pc[c] = "read" /\ req[c].op = "merge" /\ CallsTyped /\ writer' = writer
        BY <1>3, ReadDoes DEF ReadSource
    <2>2. CASE Ended(c)
        BY <1>0, <2>1, <2>2 DEF Ended
    <2>3. CASE \/ /\ Tail(req[c].left) = << >>
                  /\ Became(c, "check", req[c].ids, req[c].rows,
                            req[c].text \union memos[Head(req[c].left)].text)
               \/ /\ Tail(req[c].left) # << >>
                  /\ Became(c, "read", Tail(req[c].left), req[c].rows,
                            req[c].text \union memos[Head(req[c].left)].text)
        BY <1>0, <2>1, <2>3 DEF Became
    <2> QED
        BY <1>3, <2>2, <2>3, ReadDoes
<1>4. CASE Move(c) \/ SoftDelete(c) \/ Restore(c)
    <2>1. /\ pc[c] \in {"lock", "write"} /\ req[c].op \in {"move", "trash", "purge", "restore"}
          /\ CallsTyped /\ writer' = c /\ writer \in {c, NoCall}
        BY <1>0, <1>4, NextMemoDoes
    <2>2. \/ Became(c, "append", Tail(req[c].left), << >>, req[c].text)
          \/ Became(c, "append", Tail(req[c].left), <<Head(req[c].left)>>, req[c].text)
        BY <1>4, NextMemoDoes
    <2> QED
        BY <1>0, <2>1, <2>2 DEF Became
<1>5. CASE AppendUnlocked(c)
    <2> DEFINE rest == IF req[c].rows = << >> THEN << >> ELSE Tail(req[c].rows)
    <2>1. /\ pc[c] = "append" /\ CallsTyped /\ writer = c
          /\ writer' = IF pc'[c] \in {"append", "write"} THEN c ELSE NoCall
        BY <1>0, <1>5, AppendDoes
    <2>2. CASE Ended(c)
        BY <1>0, <2>1, <2>2 DEF Ended
    <2>3. CASE /\ Became(c, pc'[c], req[c].left, rest, req[c].text)
               /\ \/ pc'[c] = "append"
                  \/ /\ rest = << >> /\ req[c].left # << >>
                     /\ \/ pc'[c] = "write" /\ req[c].op = "move"
                        \/ pc'[c] = "lock" /\ req[c].op \in {"trash", "purge"}
                        \/ pc'[c] = "source" /\ req[c].op = "merge"
        <3> HIDE DEF rest
        <3>1. /\ req'[c].op = req[c].op /\ req'[c].ids = req[c].ids /\ req'[c].memo = req[c].memo
              /\ req'[c].notebook = req[c].notebook /\ req'[c].left = req[c].left
            BY <2>3 DEF Became
        <3>2. RequestFits(c)'
            BY <1>0, <2>1, <2>3, <3>1
        <3> QED
            BY <1>0, <2>1, <3>2
    <2> QED
        BY <1>5, <2>2, <2>3, AppendDoes
<1>6. CASE TrashSource(c)
    <2>1. /\ pc[c] = "source" /\ req[c].op = "merge" /\ writer = NoCall /\ writer' = NoCall
          /\ CallsTyped
        BY <1>6, SourceDoes
    <2>2. CASE Ended(c)
        BY <1>0, <2>1, <2>2 DEF Ended
    <2>3. CASE Tail(req[c].left) # << >>
               /\ Became(c, "source", Tail(req[c].left), req[c].rows, req[c].text)
        BY <1>0, <2>1, <2>3 DEF Became
    <2> QED
        BY <1>6, <2>2, <2>3, SourceDoes
<1>7. CASE CheckNotebook(c) \/ Refuse(c) \/ Drop(c)
    <2>1. CallsTyped /\ UnderWay(c) /\ writer' = IF writer = c THEN NoCall ELSE writer
        BY <1>7, CheckDoes
    <2>2. CASE Ended(c)
        BY <1>0, <2>1, <2>2 DEF Ended
    <2>3. CASE pc[c] = "check" /\ Became(c, "lock", req[c].left, req[c].rows, req[c].text)
        BY <1>0, <2>1, <2>3 DEF Became
    <2> QED
        BY <1>7, <2>2, <2>3, CheckDoes
<1> QED
    BY <1>1, <1>2, <1>3, <1>4, <1>5, <1>6, <1>7, StepKinds

LEMMA FitsStep ==
    ASSUME IInv, NEW c \in Call, Request(c) \/ CallStep(c) \/ Drop(c)
    PROVE  (\A g \in Call : RequestFits(g)) ' /\ LockIsKept'
<1>0. TypeOK /\ LockIsKept /\ (\A g \in Call : RequestFits(g)) /\ c # NoCall /\ NoCall \notin Call
    BY WorkspaceAssumption DEF IInv
<1>1. /\ RequestFits(c)'
      /\ writer' \in {writer, c, NoCall} /\ (writer' # writer => writer \in {c, NoCall})
      /\ writer' = c <=> pc'[c] \in {"append", "write"}
    BY CallGoesOn
<1>2. ASSUME NEW g \in Call
      PROVE  RequestFits(g)' /\ (pc'[g] \in {"append", "write"} <=> writer' = g)
    <2>1. CASE g = c
        BY <1>1, <2>1
    <2>2. CASE g # c
        <3>1. pc'[g] = pc[g] /\ req'[g] = req[g]
            BY <1>0, <2>2, OneCallMoves
        <3>2. RequestFits(g)'
            BY <1>0, <3>1 DEF RequestFits, UnderWay
        <3>3. pc[g] \in {"append", "write"} <=> writer = g
            BY <1>0 DEF LockIsKept
        <3>4. writer' = g <=> writer = g
            <4>1. CASE writer' = writer
                BY <4>1
            <4>2. CASE writer' = c
                BY <1>0, <1>1, <2>2, <4>2
            <4>3. CASE writer' = NoCall
                BY <1>0, <1>1, <2>2, <4>3
            <4> QED
                BY <1>1, <4>1, <4>2, <4>3
        <3>5. pc'[g] \in {"append", "write"} <=> writer' = g
            BY <3>1, <3>3, <3>4
        <3> QED
            BY <3>2, <3>5
    <2> QED
        BY <2>1, <2>2
<1> QED
    BY <1>2 DEF LockIsKept

-----------------------------------------------------------------------------
(* Types. *)

\* In a finite set with an order there is a greatest element.
LEMMA Greatest ==
    ASSUME NEW S, IsFiniteSet(S), S # {}, NEW f, \A x \in S : f[x] \in Nat
    PROVE  \E x \in S : \A y \in S : f[y] <= f[x]
<1> DEFINE Above(x) == {y \in S : f[y] > f[x]}
           T == {Above(x) : x \in S}
<1>1. T \subseteq FiniteSubsetsOf(S) /\ T # {}
    <2>1. \A x \in S : Above(x) \in FiniteSubsetsOf(S)
        BY FS_Subset DEF FiniteSubsetsOf
    <2> QED
        BY <2>1
<1>2. IsWellFoundedOn(StrictSubsetOrdering(S), FiniteSubsetsOf(S))
    BY FS_StrictSubsetOrderingWellFounded
<1>3. PICK U \in T : \A V \in T : ~ (<<V, U>> \in StrictSubsetOrdering(S))
    <2> HIDE DEF T
    <2> QED
        BY <1>1, <1>2, WFMin
<1>4. PICK x \in S : U = Above(x)
    BY <1>3
<1>5. ASSUME NEW y \in S, f[y] > f[x]
      PROVE  FALSE
    <2>1. \A z \in S : f[z] > f[y] => f[z] > f[x]
        <3>1. f[x] \in Nat /\ f[y] \in Nat /\ f[y] > f[x]
            BY <1>5
        <3> QED
            BY <3>1
    <2>2. y \in Above(x) /\ y \notin Above(y) /\ Above(y) \subseteq Above(x)
        BY <1>5, <2>1
    <2>3. Above(y) \in T /\ Above(x) \subseteq S /\ Above(y) \subseteq S
        BY <1>5
    <2>4. <<Above(y), Above(x)>> \in StrictSubsetOrdering(S)
        <3> HIDE DEF Above, T
        <3> QED
            BY <2>2, <2>3 DEF StrictSubsetOrdering
    <2> QED
        BY <1>3, <1>4, <2>3, <2>4
<1> QED
    BY <1>5

\* The place after the last sibling is after all of them.
LEMMA LastOrderIsLast ==
    ASSUME TypeOK, NEW parent
    PROVE  /\ LastOrder(parent) \in Nat
           /\ \A n \in Siblings(parent) : notebooks[n].order < LastOrder(parent)
<1> DEFINE S == Siblings(parent)
           f == [n \in S |-> notebooks[n].order]
           orders == {notebooks[n].order : n \in S}
<1>1. S \subseteq Notebook /\ IsFiniteSet(S)
    BY WorkspaceAssumption, FS_Subset DEF Siblings
<1>2. \A n \in S : f[n] \in Nat /\ f[n] = notebooks[n].order
    BY <1>1 DEF TypeOK, NotebookRow
<1>3. CASE S = {}
    BY <1>3 DEF LastOrder, OneAfter
<1>4. CASE S # {}
    <2>1. PICK x \in S : \A y \in S : f[y] <= f[x]
        <3> HIDE DEF S, f
        <3> QED
            BY <1>1, <1>2, <1>4, Greatest
    <2>2. f[x] \in orders /\ \A j \in orders : j <= f[x]
        BY <1>2, <2>1
    <2>3. PICK i \in orders : i = CHOOSE k \in orders : \A j \in orders : j <= k
        BY <2>2
    <2>4. \A j \in orders : j <= i
        BY <2>2, <2>3
    <2>5. orders \subseteq Nat /\ LastOrder(parent) = 1 + i
        BY <1>2, <1>4, <2>3 DEF LastOrder, OneAfter
    <2>6. \A n \in S : notebooks[n].order \in orders
        OBVIOUS
    <2>7. 1 + i \in Nat /\ \A j \in orders : j < 1 + i
        <3> HIDE DEF orders
        <3> QED
            BY <2>4, <2>5
    <2> QED
        BY <2>5, <2>6, <2>7
<1> QED
    BY <1>3, <1>4

\* The notebooks after a step.
LEMMA NotebooksTyped ==
    ASSUME IInv, NEW c \in Call, Request(c) \/ CallStep(c) \/ Drop(c)
    PROVE  notebooks' \in [Notebook -> NotebookRow]
<1>0. TypeOK /\ RequestFits(c) /\ req[c] \in RequestRow /\ notebooks \in [Notebook -> NotebookRow]
    BY DEF IInv, TypeOK
<1>1. CASE InsertNotebook(c)
    <2> DEFINE row == [state |-> "live", parent |-> req[c].notebook, name |-> "given",
                       order |-> IF req[c].placed THEN 0 ELSE LastOrder(req[c].notebook),
                       placed |-> req[c].placed]
    <2>1. req[c].notebook \in Notebook \union {Root} /\ req[c].placed \in BOOLEAN
        BY <1>0 DEF RequestRow
    <2>2. LastOrder(req[c].notebook) \in Nat
        BY <1>0, LastOrderIsLast
    <2>3. row \in NotebookRow
        BY <2>1, <2>2 DEF NotebookRow
    <2>4. \E n \in Notebook : notebooks' = [notebooks EXCEPT ![n] = row]
        BY <1>1 DEF InsertNotebook
    <2> HIDE DEF row
    <2> QED
        BY <1>0, <2>3, <2>4
<1>2. CASE Rename(c)
    <2>1. /\ notebooks' = [notebooks EXCEPT ![req[c].notebook] =
                            [notebooks[req[c].notebook] EXCEPT !.name = "renamed"]]
          /\ pc[c] = "lock" /\ req[c].op = "rename"
        BY <1>2 DEF Rename, Enter
    <2>2. req[c].notebook \in Notebook
        BY <1>0, <2>1 DEF RequestFits, UnderWay
    <2>3. \A r \in NotebookRow : [r EXCEPT !.name = "renamed"] \in NotebookRow
        BY DEF NotebookRow
    <2>4. [notebooks[req[c].notebook] EXCEPT !.name = "renamed"] \in NotebookRow
        BY <1>0, <2>2, <2>3
    <2> QED
        BY <1>0, <2>1, <2>2, <2>4
<1>3. CASE DeleteNotebook(c)
    <2>1. notebooks' = [notebooks EXCEPT ![req[c].notebook] =
                            [notebooks[req[c].notebook] EXCEPT !.state = "deleted"]]
        BY <1>3 DEF DeleteNotebook
    <2>2. \A r \in NotebookRow : [r EXCEPT !.state = "deleted"] \in NotebookRow
        BY DEF NotebookRow
    <2> QED
        BY <1>0, <2>1, <2>2
<1>4. CASE Reorder(c)
    <2> DEFINE order == req[c].order
               place(n) == CHOOSE i \in DOMAIN order : order[i] = n
    <2>1. order \in Seq(Notebook)
        BY <1>0 DEF RequestRow
    <2>2. \A n \in ToSet(order) : place(n) - 1 \in Nat
        <3>1. DOMAIN order = 1 .. Len(order) /\ Len(order) \in Nat
            BY <2>1
        <3>2. \A n \in ToSet(order) : place(n) \in DOMAIN order
            BY DEF ToSet
        <3> HIDE DEF place
        <3> QED
            BY <3>1, <3>2
    <2>3. \A r \in NotebookRow : \A i \in Nat :
            [r EXCEPT !.order = i, !.placed = FALSE] \in NotebookRow
        BY DEF NotebookRow
    <2>4. notebooks' = [n \in Notebook |->
                            IF n \in ToSet(order)
                            THEN [notebooks[n] EXCEPT !.order = place(n) - 1, !.placed = FALSE]
                            ELSE notebooks[n]]
        BY <1>4 DEF Reorder
    <2> HIDE DEF place, order
    <2> QED
        BY <1>0, <2>2, <2>3, <2>4
<1>5. CASE ~ (InsertNotebook(c) \/ Rename(c) \/ Reorder(c) \/ DeleteNotebook(c))
    BY <1>0, <1>5, WhatChanges
<1> QED
    BY <1>1, <1>2, <1>3, <1>4, <1>5

\* What a step makes of the row of a memo.
RowIs(m, state, notebook, text, into) ==
    LET row == memos'[m] IN
    row.state = state /\ row.notebook = notebook /\ row.text = text /\ row.into = into

\* The call makes it, edits it, puts it elsewhere, trashes it, restores it or purges it.
MadeOf(c, m) ==
    LET r == req[c]
        row == memos[m]
    IN
    \/ memos'[m] = row
    \/ InsertMemo(c) /\ m = r.memo /\ RowIs(m, "live", r.notebook, r.text, NoMemo)
    \/ /\ Exists(m)
       /\ \/ Edit(c) /\ m = Head(r.ids) /\ RowIs(m, row.state, row.notebook, row.text \union {c}, row.into)
          \/ /\ File(c) /\ notebooks[r.notebook].state = "live"
             /\ RowIs(m, row.state, r.notebook, row.text, row.into)
          \/ Move(c) /\ m = Head(r.left) /\ RowIs(m, row.state, r.notebook, row.text, row.into)
          \/ /\ SoftDelete(c) \/ Restore(c)
             /\ \/ \E state \in {"live", "trashed"} :
                        RowIs(m, state, row.notebook, row.text, row.into)
                \/ RowIs(m, "purged", row.notebook, {}, NoMemo)
          \/ /\ TrashSource(c) /\ m = Head(r.left)
             /\ RowIs(m, "trashed", row.notebook, row.text, r.memo)

\* One row changes.
LEMMA OneRow ==
    ASSUME TypeOK, NEW x \in Memo, NEW row \in MemoRow, memos' = [memos EXCEPT ![x] = row]
    PROVE  /\ memos' \in [Memo -> MemoRow] /\ memos'[x] = row
           /\ \A m \in Memo : m # x => memos'[m] = memos[m]
BY DEF TypeOK

LEMMA MemosDo ==
    ASSUME IInv, NEW c \in Call, Request(c) \/ CallStep(c) \/ Drop(c)
    PROVE  memos' \in [Memo -> MemoRow] /\ \A m \in Memo : MadeOf(c, m)
<1> USE DEF MadeOf, RowIs
<1>0. /\ TypeOK /\ RequestFits(c) /\ req[c] \in RequestRow /\ memos \in [Memo -> MemoRow]
      /\ MadeOnce
    BY DEF IInv, TypeOK
<1>1. CASE InsertMemo(c)
    <2> DEFINE x == req[c].memo
               row == [state |-> "live", notebook |-> req[c].notebook, text |-> req[c].text,
                       into |-> NoMemo]
    <2>1. pc[c] = "lock" /\ req[c].op \in {"create", "merge"} /\ memos' = [memos EXCEPT ![x] = row]
        BY <1>1 DEF InsertMemo, Enter
    <2>2. x \in Memo /\ req[c].notebook \in Notebook /\ req[c].text \in SUBSET Call
        BY <1>0, <2>1 DEF RequestFits, UnderWay, RequestRow
    <2>3. row \in MemoRow
        BY <2>2 DEF MemoRow
    <2>4. memos' \in [Memo -> MemoRow] /\ memos'[x] = row
          /\ \A m \in Memo : m # x => memos'[m] = memos[m]
        <3> HIDE DEF x, row
        <3> QED
            BY <1>0, <2>1, <2>2, <2>3, OneRow
    <2> QED
        BY <1>1, <2>4
<1>2. CASE Edit(c)
    <2> DEFINE x == Head(req[c].ids)
               row == [memos[x] EXCEPT !.text = memos[x].text \union {c}]
    <2>1. Exists(x) /\ memos' = [memos EXCEPT ![x] = row] /\ pc[c] = "lock" /\ req[c].op = "edit"
        BY <1>2 DEF Edit, Enter
    <2>2. x \in Memo
        BY <1>0, <2>1, HeadAndTail DEF RequestFits, UnderWay, RequestRow
    <2>3. /\ row \in MemoRow /\ row.state = memos[x].state /\ row.notebook = memos[x].notebook
          /\ row.text = memos[x].text \union {c} /\ row.into = memos[x].into
        BY <1>0, <2>2 DEF MemoRow
    <2>4. memos' \in [Memo -> MemoRow] /\ memos'[x] = row
          /\ \A m \in Memo : m # x => memos'[m] = memos[m]
        <3> HIDE DEF x, row
        <3> QED
            BY <1>0, <2>1, <2>2, <2>3, OneRow
    <2> HIDE DEF row
    <2> QED
        BY <1>2, <2>1, <2>3, <2>4
<1>3. CASE File(c)
    <2> DEFINE x == Head(req[c].ids)
               row == [memos[x] EXCEPT !.notebook = req[c].notebook]
    <2>1. /\ Exists(x) /\ memos' = [memos EXCEPT ![x] = row] /\ pc[c] = "lock" /\ req[c].op = "file"
          /\ notebooks[req[c].notebook].state = "live"
        BY <1>3 DEF File, FiledIn, Enter
    <2>2. x \in Memo /\ req[c].notebook \in Notebook
        BY <1>0, <2>1, HeadAndTail DEF RequestFits, UnderWay, RequestRow
    <2>3. /\ row \in MemoRow /\ row.state = memos[x].state /\ row.notebook = req[c].notebook
          /\ row.text = memos[x].text /\ row.into = memos[x].into
        BY <1>0, <2>2 DEF MemoRow
    <2>4. memos' \in [Memo -> MemoRow] /\ memos'[x] = row
          /\ \A m \in Memo : m # x => memos'[m] = memos[m]
        <3> HIDE DEF x, row
        <3> QED
            BY <1>0, <2>1, <2>2, <2>3, OneRow
    <2> HIDE DEF row
    <2> QED
        BY <1>3, <2>1, <2>3, <2>4
<1>4. CASE Move(c)
    <2> DEFINE x == Head(req[c].left)
               row == [memos[x] EXCEPT !.notebook = req[c].notebook]
    <2>1. /\ memos' = IF Exists(x) THEN [memos EXCEPT ![x] = row] ELSE memos
          /\ pc[c] \in {"lock", "write"} /\ (pc[c] = "lock" => req[c].op = "move")
        BY <1>4 DEF Move, Enter
    <2>2. x \in Memo /\ req[c].notebook \in Notebook
        BY <1>0, <1>4, <2>1, NextMemoDoes DEF RequestFits, UnderWay
    <2>3. /\ row \in MemoRow /\ row.state = memos[x].state /\ row.notebook = req[c].notebook
          /\ row.text = memos[x].text /\ row.into = memos[x].into
        BY <1>0, <2>2 DEF MemoRow
    <2>4. ASSUME Exists(x)
          PROVE  memos' \in [Memo -> MemoRow] /\ memos'[x] = row
                 /\ \A m \in Memo : m # x => memos'[m] = memos[m]
        <3> HIDE DEF x, row
        <3> QED
            BY <1>0, <2>1, <2>2, <2>3, <2>4, OneRow
    <2> HIDE DEF row
    <2> QED
        BY <1>0, <1>4, <2>1, <2>3, <2>4
<1>5. CASE SoftDelete(c) \/ Restore(c)
    <2> DEFINE x == Head(req[c].left)
    <2>1. x \in Memo
        BY <1>5, NextMemoDoes
    <2>2. /\ [memos[x] EXCEPT !.state = "trashed"] \in MemoRow
          /\ [memos[x] EXCEPT !.state = "live"] \in MemoRow
          /\ [memos[x] EXCEPT !.state = "purged", !.text = {}, !.into = NoMemo] \in MemoRow
        BY <1>0, <2>1 DEF MemoRow
    <2>3. PICK row \in {[memos[x] EXCEPT !.state = "trashed"], [memos[x] EXCEPT !.state = "live"],
                        [memos[x] EXCEPT !.state = "purged", !.text = {}, !.into = NoMemo]} :
                memos' = IF Exists(x) THEN [memos EXCEPT ![x] = row] ELSE memos
        BY <1>5 DEF SoftDelete, Restore, SetState
    <2>4. /\ row \in MemoRow /\ row.notebook = memos[x].notebook
          /\ \/ row.state \in {"live", "trashed"} /\ row.text = memos[x].text /\ row.into = memos[x].into
             \/ row.state = "purged" /\ row.text = {} /\ row.into = NoMemo
        BY <1>0, <2>1, <2>2 DEF MemoRow
    <2>5. ASSUME Exists(x)
          PROVE  memos' \in [Memo -> MemoRow] /\ memos'[x] = row
                 /\ \A m \in Memo : m # x => memos'[m] = memos[m]
        <3> HIDE DEF x
        <3> QED
            BY <1>0, <2>1, <2>3, <2>4, <2>5, OneRow
    <2> HIDE DEF x
    <2> QED
        BY <1>0, <1>5, <2>3, <2>4, <2>5
<1>6. CASE TrashSource(c)
    <2> DEFINE x == Head(req[c].left)
               row == [memos[x] EXCEPT !.state = "trashed", !.into = req[c].memo]
    <2>1. /\ x \in Memo /\ req[c].op = "merge" /\ pc[c] = "source"
          /\ memos' = memos \/ (Exists(x) /\ memos' = [memos EXCEPT ![x] = row])
        BY <1>6, SourceDoes
    <2>2. req[c].memo \in Memo
        BY <1>0, <2>1 DEF RequestFits, UnderWay
    <2>3. /\ row \in MemoRow /\ row.state = "trashed" /\ row.notebook = memos[x].notebook
          /\ row.text = memos[x].text /\ row.into = req[c].memo
        BY <1>0, <2>1, <2>2, ZenonT(60) DEF MemoRow
    <2>4. ASSUME memos' # memos
          PROVE  memos' \in [Memo -> MemoRow] /\ memos'[x] = row
                 /\ \A m \in Memo : m # x => memos'[m] = memos[m]
        <3> HIDE DEF x, row
        <3> QED
            BY <1>0, <2>1, <2>3, <2>4, OneRow
    <2> HIDE DEF row
    <2> QED
        BY <1>0, <1>6, <2>1, <2>3, <2>4
<1>7. CASE ~ (\/ InsertMemo(c) \/ Edit(c) \/ File(c) \/ Move(c) \/ SoftDelete(c) \/ Restore(c)
              \/ TrashSource(c))
    BY <1>0, <1>7, WhatChanges
<1> QED
    BY <1>1, <1>2, <1>3, <1>4, <1>5, <1>6, <1>7

\* The elements of a sequence are of its set.
LEMMA Elements == \A S : \A s \in Seq(S) : ToSet(s) \subseteq S
<1> SUFFICES ASSUME NEW S, NEW s \in Seq(S) PROVE ToSet(s) \subseteq S
    OBVIOUS
<1>1. DOMAIN s = 1 .. Len(s) /\ \A i \in 1 .. Len(s) : s[i] \in S
    OBVIOUS
<1> QED
    BY <1>1 DEF ToSet

\* Only memos arrive.
LEMMA ArrivingType ==
    ASSUME IInv, NEW n
    PROVE  Arriving(n) \subseteq Memo
<1>1. ASSUME NEW g \in Call, pc[g] = "lock", req[g].op \in {"create", "move", "merge"}
      PROVE  (IF req[g].op = "move" THEN ToSet(req[g].left) ELSE {req[g].memo}) \subseteq Memo
    <2>1. req[g].left \in Seq(Memo)
        BY DEF IInv, TypeOK, RequestRow
    <2>2. RequestFits(g)
        BY DEF IInv
    <2>3. ToSet(req[g].left) \subseteq Memo
        BY <2>1, Elements
    <2>4. req[g].op # "move" => req[g].memo \in Memo
        BY <1>1, <2>2 DEF RequestFits, UnderWay
    <2> QED
        BY <2>3, <2>4
<1> QED
    BY <1>1 DEF Arriving

LEMMA HistoryTyped ==
    ASSUME IInv, NEW c \in Call, Request(c) \/ CallStep(c) \/ Drop(c)
    PROVE  /\ unlogged' \subseteq Notebook \union Memo /\ torn' \subseteq Notebook \union Memo
           /\ stranded' \subseteq Memo /\ merging' \subseteq Memo /\ late' \subseteq Call
<1>0. TypeOK /\ unlogged \subseteq Notebook \union Memo /\ torn \subseteq Notebook \union Memo
      /\ stranded \subseteq Memo /\ merging \subseteq Memo /\ late \subseteq Call
    BY DEF IInv, TypeOK
<1>1. unlogged' \subseteq Notebook \union Memo
    <2>1. CASE Request(c)
        BY <1>0, <2>1, WhatChanges
    <2>2. CASE \/ InsertNotebook(c) \/ Rename(c) \/ Reorder(c) \/ DeleteNotebook(c)
               \/ InsertMemo(c) \/ Edit(c) \/ File(c)
        <3>1. PICK rows \in Seq(Notebook \union Memo) : Changed(c, rows)
            BY <2>2, ChangesGoOn
        <3>2. ToSet(rows) \subseteq Notebook \union Memo
            BY Elements
        <3> QED
            BY <1>0, <3>1, <3>2 DEF Changed
    <2>3. CASE Move(c) \/ SoftDelete(c) \/ Restore(c)
        <3>1. Head(req[c].left) \in Memo /\ unlogged' \in {unlogged, unlogged \union {Head(req[c].left)}}
            BY <2>3, NextMemoDoes
        <3> QED
            BY <1>0, <3>1
    <2>4. CASE AppendUnlocked(c)
        BY <1>0, <2>4 DEF AppendUnlocked
    <2>5. CASE TrashSource(c)
        BY <1>0, <2>5, SourceDoes
    <2>6. CASE ReadSource(c) \/ CheckNotebook(c) \/ Refuse(c) \/ Drop(c)
        BY <1>0, <2>6 DEF ReadSource, CheckNotebook, Refuse, Drop, ghosts
    <2> QED
        BY <2>1, <2>2, <2>3, <2>4, <2>5, <2>6, StepKinds
<1>2. torn' \subseteq Notebook \union Memo
    <2>1. ToSet(req[c].rows) \subseteq Notebook \union Memo
        <3>1. req[c].rows \in Seq(Notebook \union Memo)
            BY <1>0 DEF TypeOK, RequestRow
        <3> QED
            BY <3>1, Elements
    <2>2. CASE Drop(c)
        BY <1>0, <2>1, <2>2 DEF Drop
    <2>3. CASE ~Drop(c)
        BY <1>0, <2>3, WhatChanges
    <2> QED
        BY <2>2, <2>3
<1>3. stranded' \subseteq Memo
    <2>1. CASE DeleteNotebook(c)
        <3>1. Arriving(req[c].notebook) \subseteq Memo
            BY ArrivingType
        <3> QED
            BY <1>0, <2>1, <3>1 DEF DeleteNotebook
    <2>2. CASE ~DeleteNotebook(c)
        BY <1>0, <2>2, WhatChanges
    <2> QED
        BY <2>1, <2>2
<1>4. merging' \subseteq Memo
    <2>1. CASE ReadSource(c)
        <3>1. Head(req[c].left) \in Memo /\ merging' \in {merging, merging \union {Head(req[c].left)}}
            BY <2>1, ReadDoes
        <3> QED
            BY <1>0, <3>1
    <2>2. CASE ~ReadSource(c)
        BY <1>0, <2>2, WhatChanges
    <2> QED
        BY <2>1, <2>2
<1>5. late' \subseteq Call
    <2>1. CASE Edit(c)
        BY <1>0, <2>1 DEF Edit
    <2>2. CASE ~Edit(c)
        BY <1>0, <2>2, WhatChanges
    <2> QED
        BY <2>1, <2>2
<1> QED
    BY <1>1, <1>2, <1>3, <1>4, <1>5

LEMMA TypeStep ==
    ASSUME IInv, NEW c \in Call, Request(c) \/ CallStep(c) \/ Drop(c)
    PROVE  TypeOK'
<1>1. CallsTyped /\ writer' \in {writer, c, NoCall} /\ writer \in Call \union {NoCall}
    BY CallGoesOn DEF IInv, TypeOK
<1>2. notebooks' \in [Notebook -> NotebookRow] /\ memos' \in [Memo -> MemoRow]
    BY NotebooksTyped, MemosDo
<1> QED
    BY <1>1, <1>2, HistoryTyped DEF TypeOK, CallsTyped

-----------------------------------------------------------------------------
(* Memos are made once. *)

LEMMA MadeOnceStep ==
    ASSUME IInv, NEW c \in Call, Request(c) \/ CallStep(c) \/ Drop(c)
    PROVE  MadeOnce'
<1>0. TypeOK /\ MadeOnce /\ \A g \in Call : RequestFits(g)
    BY DEF IInv
<1>1. \A g \in Call \ {c} : pc'[g] = pc[g] /\ req'[g] = req[g]
    BY <1>0, OneCallMoves
\* The memo of the call's request is as it was, none, or new.
<1>2. /\ req'[c].memo \in {req[c].memo, NoMemo} \/ ~Drawn(req'[c].memo)
      /\ UnderWay(c)' /\ req'[c].op \in {"create", "merge"} /\ pc'[c] \in {"read", "check", "lock"} =>
            memos[req'[c].memo].state = "absent" /\ ~InsertMemo(c)
    <2>1. CASE Request(c)
        <3>1. /\ pc[c] = "idle"
              /\ req'[c].memo \in {req[c].memo, NoMemo} \/ ~Drawn(req'[c].memo)
              /\ req'[c].op \in {"create", "merge"} => req'[c].memo \in Memo /\ ~Drawn(req'[c].memo)
            BY <1>0, <2>1, RequestDoes DEF NewRequest
        <3>2. \A m \in Memo : ~Drawn(m) => memos[m].state = "absent"
            BY DEF Drawn
        <3> QED
            BY <3>1, <3>2 DEF InsertMemo, Enter
    <2>2. CASE \/ InsertNotebook(c) \/ Rename(c) \/ Reorder(c) \/ DeleteNotebook(c)
               \/ InsertMemo(c) \/ Edit(c) \/ File(c)
        <3>1. PICK rows \in Seq(Notebook \union Memo) : Changed(c, rows)
            BY <2>2, ChangesGoOn
        <3>2. Became(c, "append", req[c].left, rows, req[c].text)
            BY <1>0, <3>1, ChangedDoes
        <3> QED
            BY <3>2 DEF Became
    <2>3. CASE ReadSource(c)
        <3>1. CASE Ended(c)
            BY <3>1 DEF Ended, UnderWay, NoRequest
        <3>2. CASE ~Ended(c)
            <4>1. req'[c].memo = req[c].memo /\ req'[c].op = req[c].op
                BY <2>3, <3>2, ReadDoes DEF Became
            <4>2. pc[c] = "read"
                BY <2>3, ReadDoes
            <4> QED
                BY <1>0, <4>1, <4>2 DEF MadeOnce, UnderWay, InsertMemo, Enter
        <3> QED
            BY <3>1, <3>2
    <2>4. CASE Move(c) \/ SoftDelete(c) \/ Restore(c)
        <3>1. pc'[c] = "append" /\ req'[c].memo = req[c].memo
            BY <2>4, NextMemoDoes DEF Became
        <3> QED
            BY <3>1
    <2>5. CASE AppendUnlocked(c)
        <3>1. CASE Ended(c)
            BY <3>1 DEF Ended, UnderWay, NoRequest
        <3>2. CASE ~Ended(c)
            <4>1. req'[c].memo = req[c].memo /\ req'[c].op = req[c].op
                BY <2>5, <3>2, AppendDoes DEF Became
            <4>2. pc'[c] \in {"append", "write", "lock", "source"}
                  /\ (pc'[c] = "lock" => req[c].op \in {"trash", "purge"})
                BY <2>5, <3>2, AppendDoes
            <4> QED
                BY <4>1, <4>2
        <3> QED
            BY <3>1, <3>2
    <2>6. CASE TrashSource(c)
        <3>1. CASE Ended(c)
            BY <3>1 DEF Ended, UnderWay, NoRequest
        <3>2. CASE ~Ended(c)
            BY <2>6, <3>2, SourceDoes DEF Became
        <3> QED
            BY <3>1, <3>2
    <2>7. CASE CheckNotebook(c) \/ Refuse(c) \/ Drop(c)
        <3>1. CASE Ended(c)
            BY <3>1 DEF Ended, UnderWay, NoRequest
        <3>2. CASE ~Ended(c)
            <4>1. pc[c] = "check" /\ req'[c].memo = req[c].memo /\ req'[c].op = req[c].op
                BY <2>7, <3>2, CheckDoes DEF Became
            <4> QED
                BY <1>0, <4>1 DEF MadeOnce, UnderWay, InsertMemo, Enter
        <3> QED
            BY <3>1, <3>2
    <2> QED
        BY <2>1, <2>2, <2>3, <2>4, <2>5, <2>6, <2>7, StepKinds
<1>3. ASSUME NEW g \in Call, NEW h \in Call, req'[g].memo = req'[h].memo
      PROVE  g = h \/ req'[g].memo = NoMemo
    <2>1. \A x, y \in Call : req[x].memo = req[y].memo => x = y \/ req[x].memo = NoMemo
        BY <1>0 DEF MadeOnce
    <2>2. CASE g # c /\ h # c
        BY <1>1, <1>3, <2>1, <2>2
    <2>3. CASE req'[c].memo \in {req[c].memo, NoMemo}
        BY <1>1, <1>3, <2>1, <2>2, <2>3
    <2>4. CASE ~Drawn(req'[c].memo)
        <3>1. \A x \in Call : req[x].memo # req'[c].memo
            BY <2>4 DEF Drawn
        <3> QED
            BY <1>1, <1>3, <2>2, <3>1
    <2> QED
        BY <1>2, <2>2, <2>3, <2>4
\* A memo that is absent is made only by the call that is to make it.
<1>4. \A m \in Memo : memos[m].state = "absent" =>
            memos'[m].state = "absent" \/ (InsertMemo(c) /\ m = req[c].memo)
    <2>1. \A m \in Memo : MadeOf(c, m)
        BY MemosDo
    <2> QED
        BY <2>1 DEF MadeOf, Exists
<1>5. ASSUME NEW g \in Call, UnderWay(g)', req'[g].op \in {"create", "merge"},
             pc'[g] \in {"read", "check", "lock"}
      PROVE  memos'[req'[g].memo].state = "absent"
    <2>1. RequestFits(g)'
        BY FitsStep
    <2>2. req'[g].memo \in Memo
        BY <1>5, <2>1 DEF RequestFits
    <2>3. CASE g = c
        BY <1>2, <1>4, <1>5, <2>2, <2>3
    <2>4. CASE g # c
        <3>1. pc'[g] = pc[g] /\ req'[g] = req[g]
            BY <1>1, <2>4
        <3>2. memos[req[g].memo].state = "absent"
            BY <1>0, <1>5, <3>1 DEF MadeOnce, UnderWay
        <3>3. ~ (InsertMemo(c) /\ req[g].memo = req[c].memo)
            <4>1. req[g].memo # NoMemo
                BY <2>2, <3>1, WorkspaceAssumption
            <4> QED
                BY <1>0, <2>4, <4>1 DEF MadeOnce
        <3> QED
            BY <1>4, <2>2, <3>1, <3>2, <3>3
    <2> QED
        BY <2>3, <2>4
<1> QED
    BY <1>3, <1>5 DEF MadeOnce, UnderWay

-----------------------------------------------------------------------------
(* Memos have a home, or are known to be stranded. *)

\* Only a deletion makes a notebook not live.
LEMMA NotebookLives ==
    ASSUME IInv, NEW c \in Call, Request(c) \/ CallStep(c) \/ Drop(c),
           NEW n \in Notebook, notebooks[n].state = "live"
    PROVE  notebooks'[n].state = "live" \/ (DeleteNotebook(c) /\ n = req[c].notebook)
<1>0. notebooks \in [Notebook -> NotebookRow]
    BY DEF IInv, TypeOK
<1>1. CASE InsertNotebook(c)
    BY <1>0, <1>1 DEF InsertNotebook
<1>2. CASE Rename(c)
    <2>1. notebooks' = [notebooks EXCEPT ![req[c].notebook] =
                            [notebooks[req[c].notebook] EXCEPT !.name = "renamed"]]
        BY <1>2 DEF Rename
    <2>2. \A r \in NotebookRow : [r EXCEPT !.name = "renamed"].state = r.state
        BY DEF NotebookRow
    <2> QED
        BY <1>0, <2>1, <2>2
<1>3. CASE DeleteNotebook(c)
    BY <1>0, <1>3 DEF DeleteNotebook
<1>4. CASE Reorder(c)
    <2> DEFINE order == req[c].order
               place(k) == CHOOSE i \in DOMAIN order : order[i] = k
    <2>1. \A r \in NotebookRow : \A i : [r EXCEPT !.order = i, !.placed = FALSE].state = r.state
        BY DEF NotebookRow
    <2>2. notebooks' = [k \in Notebook |->
                            IF k \in ToSet(order)
                            THEN [notebooks[k] EXCEPT !.order = place(k) - 1, !.placed = FALSE]
                            ELSE notebooks[k]]
        BY <1>4 DEF Reorder
    <2> HIDE DEF place, order
    <2> QED
        BY <1>0, <2>1, <2>2
<1>5. CASE ~ (InsertNotebook(c) \/ Rename(c) \/ Reorder(c) \/ DeleteNotebook(c))
    BY <1>5, WhatChanges
<1> QED
    BY <1>1, <1>2, <1>3, <1>4, <1>5

\* A notebook is deleted when no call has the lock, no live memo is in it, and those that are
\* in its trash or on their way are stranded.
LEMMA DeleteDoes ==
    ASSUME IInv, NEW c \in Call, DeleteNotebook(c)
    PROVE  LET n == req[c].notebook IN
           /\ writer = NoCall /\ memos' = memos
           /\ stranded \subseteq stranded'
           /\ \A m \in Memo : Exists(m) /\ memos[m].notebook = n => m \in stranded'
           /\ \A g \in Call : pc[g] = "lock" /\ req[g].notebook = n =>
                /\ req[g].op \in {"create", "merge"} => req[g].memo \in stranded'
                /\ req[g].op = "move" => ToSet(req[g].left) \subseteq stranded'
<1> DEFINE n == req[c].notebook
<1>1. /\ writer = NoCall /\ memos' = memos /\ Empty(n)
      /\ stranded' = stranded \union Arriving(n)
            \union {m \in Memo : memos[m].state = "trashed" /\ memos[m].notebook = n}
    BY DEF DeleteNotebook, Enter
<1>2. \A m \in Memo : Exists(m) /\ memos[m].notebook = n => m \in stranded'
    BY <1>1 DEF Empty, Exists
<1>3. ASSUME NEW g \in Call, pc[g] = "lock", req[g].notebook = n,
             req[g].op \in {"create", "move", "merge"}
      PROVE  (IF req[g].op = "move" THEN ToSet(req[g].left) ELSE {req[g].memo}) \subseteq Arriving(n)
    BY <1>3 DEF Arriving
<1> QED
    BY <1>1, <1>2, <1>3

LEMMA HomeStep ==
    ASSUME IInv, NEW c \in Call, Request(c) \/ CallStep(c) \/ Drop(c)
    PROVE  HomeOrStranded'
<1>0. /\ TypeOK /\ HomeOrStranded /\ LockIsKept /\ c # NoCall /\ NoCall \notin Call
      /\ \A g \in Call : RequestFits(g)
    BY WorkspaceAssumption DEF IInv
<1>1. stranded \subseteq stranded'
    <2>1. CASE DeleteNotebook(c)
        BY <2>1, DeleteDoes
    <2>2. CASE ~DeleteNotebook(c)
        BY <2>2, WhatChanges
    <2> QED
        BY <2>1, <2>2
<1>2. ASSUME NEW m \in Memo, Exists(m)', m \notin stranded'
      PROVE  notebooks'[memos'[m].notebook].state = "live"
    <2>1. MadeOf(c, m) /\ memos'[m].notebook \in Notebook
        BY MemosDo DEF MemoRow
    <2>2. memos'[m].state \in {"live", "trashed"} /\ m \notin stranded
        BY <1>1, <1>2 DEF Exists
    <2>3. Exists(m) => notebooks[memos[m].notebook].state = "live"
        BY <1>0, <2>2 DEF HomeOrStranded
    <2>4. CASE DeleteNotebook(c)
        <3>1. memos' = memos /\ Exists(m)
            BY <1>2, <2>4, DeleteDoes DEF Exists
        <3>2. memos[m].notebook # req[c].notebook
            BY <1>2, <2>4, <3>1, DeleteDoes
        <3> QED
            BY <2>1, <2>3, <2>4, <3>1, <3>2, NotebookLives
    <2>5. CASE ~DeleteNotebook(c)
        <3>1. notebooks[memos'[m].notebook].state = "live"
            <4>1. CASE InsertMemo(c) /\ m = req[c].memo /\ memos'[m].notebook = req[c].notebook
                <5>1. pc[c] = "lock" /\ req[c].op \in {"create", "merge"}
                    BY <4>1 DEF InsertMemo, Enter
                <5> QED
                    BY <1>0, <2>2, <4>1, <5>1 DEF HomeOrStranded, Arrives
            <4>2. CASE File(c) /\ notebooks[req[c].notebook].state = "live"
                       /\ memos'[m].notebook = req[c].notebook
                BY <4>2
            <4>3. CASE Move(c) /\ m = Head(req[c].left) /\ memos'[m].notebook = req[c].notebook
                <5>1. pc[c] \in {"lock", "write"} /\ req[c].left # << >>
                    BY <4>3, NextMemoDoes
                <5>2. req[c].op = "move"
                    BY <1>0, <4>3, <5>1 DEF Move, Enter, RequestFits
                <5>3. m \in ToSet(req[c].left)
                    <6>1. req[c].left \in Seq(Memo)
                        BY <1>0 DEF TypeOK, RequestRow
                    <6> QED
                        BY <4>3, <5>1, <6>1, HeadAndTail
                <5> QED
                    BY <1>0, <2>2, <4>3, <5>1, <5>2, <5>3 DEF HomeOrStranded, Arrives
            <4>4. CASE memos'[m] = memos[m] \/ (Exists(m) /\ memos'[m].notebook = memos[m].notebook)
                BY <1>2, <2>2, <2>3, <4>4 DEF Exists
            <4> QED
                BY <2>1, <2>2, <4>1, <4>2, <4>3, <4>4 DEF MadeOf, RowIs
        <3> QED
            BY <2>1, <2>5, <3>1, NotebookLives
    <2> QED
        BY <2>4, <2>5
\* A notebook that a call has seen.
<1>3. ASSUME NEW g \in Call, NEW S, notebooks[req[g].notebook].state = "live" \/ S \subseteq stranded,
             req[g].notebook \in Notebook,
             DeleteNotebook(c) /\ req[g].notebook = req[c].notebook => S \subseteq stranded'
      PROVE  notebooks'[req[g].notebook].state = "live" \/ S \subseteq stranded'
    BY <1>1, <1>3, NotebookLives
<1>4. ASSUME NEW g \in Call, g # c
      PROVE  Arrives(g)'
    <2>1. pc'[g] = pc[g] /\ req'[g] = req[g]
        BY <1>0, <1>4, OneCallMoves
    <2>2. Arrives(g) /\ RequestFits(g) /\ (pc[g] \in {"append", "write"} => writer = g)
        BY <1>0 DEF HomeOrStranded, LockIsKept
    <2>3. CASE pc[g] = "lock" /\ req[g].op \in {"create", "merge"}
        <3>1. notebooks[req[g].notebook].state = "live" \/ {req[g].memo} \subseteq stranded
            BY <2>2, <2>3 DEF Arrives
        <3>2. req[g].notebook \in Notebook
            BY <2>2, <2>3 DEF RequestFits, UnderWay
        <3>3. DeleteNotebook(c) /\ req[g].notebook = req[c].notebook => {req[g].memo} \subseteq stranded'
            BY <2>3, DeleteDoes
        <3>4. notebooks'[req[g].notebook].state = "live" \/ {req[g].memo} \subseteq stranded'
            BY <1>3, <3>1, <3>2, <3>3
        <3> QED
            BY <2>1, <2>3, <3>4 DEF Arrives
    <2>4. CASE pc[g] \in {"lock", "write", "append"} /\ req[g].op = "move"
        <3>1. notebooks[req[g].notebook].state = "live" \/ ToSet(req[g].left) \subseteq stranded
            BY <2>2, <2>4 DEF Arrives
        <3>2. req[g].notebook \in Notebook
            BY <2>2, <2>4 DEF RequestFits, UnderWay
        <3>3. DeleteNotebook(c) /\ req[g].notebook = req[c].notebook =>
                    ToSet(req[g].left) \subseteq stranded'
            <4>1. DeleteNotebook(c) => pc[g] = "lock"
                BY <1>0, <2>2, <2>4, DeleteDoes
            <4> QED
                BY <2>4, <4>1, DeleteDoes
        <3>4. notebooks'[req[g].notebook].state = "live" \/ ToSet(req[g].left) \subseteq stranded'
            BY <1>3, <3>1, <3>2, <3>3
        <3> QED
            BY <2>1, <2>4, <3>4 DEF Arrives
    <2>5. CASE ~ (pc[g] = "lock" /\ req[g].op \in {"create", "merge"})
               /\ ~ (pc[g] \in {"lock", "write", "append"} /\ req[g].op = "move")
        BY <2>1, <2>5 DEF Arrives
    <2> QED
        BY <2>3, <2>4, <2>5
<1>5. Arrives(c)'
    <2>0. Arrives(c) /\ RequestFits(c)
        BY <1>0 DEF HomeOrStranded
    <2>1. CASE Request(c)
        <3>1. pc'[c] \in {"read", "check", "lock"} /\ (pc'[c] = "check" <=> req'[c].op \in {"create", "move"})
              /\ (pc'[c] = "read" <=> req'[c].op = "merge")
            BY <1>0, <2>1, RequestDoes DEF NewRequest
        <3> QED
            BY <3>1 DEF Arrives
    <2>2. CASE \/ InsertNotebook(c) \/ Rename(c) \/ Reorder(c) \/ DeleteNotebook(c)
               \/ InsertMemo(c) \/ Edit(c) \/ File(c)
        <3>1. PICK rows \in Seq(Notebook \union Memo) : Changed(c, rows)
            BY <2>2, ChangesGoOn
        <3>2. Became(c, "append", req[c].left, rows, req[c].text)
            BY <1>0, <3>1, ChangedDoes
        <3>3. req[c].op # "move"
            BY <2>2, ChangesGoOn
        <3> QED
            BY <3>2, <3>3 DEF Became, Arrives
    <2>3. CASE ReadSource(c)
        <3>1. pc'[c] \in {"read", "check", "done"}
            BY <2>3, ReadDoes DEF Became, Ended
        <3> QED
            BY <3>1 DEF Arrives
    <2>4. CASE Move(c) \/ SoftDelete(c) \/ Restore(c)
        <3>1. /\ pc'[c] = "append" /\ req'[c].op = req[c].op /\ req'[c].notebook = req[c].notebook
              /\ req'[c].left = Tail(req[c].left) /\ req[c].left # << >> /\ pc[c] \in {"lock", "write"}
            BY <2>4, NextMemoDoes DEF Became
        <3>2. ToSet(Tail(req[c].left)) \subseteq ToSet(req[c].left)
            <4>1. req[c].left \in Seq(Memo)
                BY <1>0 DEF TypeOK, RequestRow
            <4> QED
                BY <3>1, <4>1, HeadAndTail
        <3>3. stranded' = stranded /\ notebooks' = notebooks
            BY <2>4 DEF Move, SoftDelete, Restore, SetState
        <3> QED
            BY <2>0, <3>1, <3>2, <3>3 DEF Arrives
    <2>5. CASE AppendUnlocked(c)
        <3>1. CASE Ended(c)
            BY <3>1 DEF Ended, Arrives
        <3>2. CASE ~Ended(c)
            <4>1. /\ req'[c].op = req[c].op /\ req'[c].notebook = req[c].notebook
                  /\ req'[c].left = req[c].left
                BY <2>5, <3>2, AppendDoes DEF Became
            <4>2. pc'[c] \in {"append", "write", "lock", "source"} /\ pc[c] = "append"
                  /\ (pc'[c] = "lock" => req[c].op \in {"trash", "purge"})
                BY <2>5, <3>2, AppendDoes
            <4>3. stranded' = stranded /\ notebooks' = notebooks
                BY <2>5 DEF AppendUnlocked
            <4> QED
                BY <2>0, <4>1, <4>2, <4>3 DEF Arrives
        <3> QED
            BY <3>1, <3>2
    <2>6. CASE TrashSource(c)
        <3>1. pc'[c] \in {"source", "done"}
            BY <2>6, SourceDoes DEF Became, Ended
        <3> QED
            BY <3>1 DEF Arrives
    <2>7. CASE CheckNotebook(c) \/ Refuse(c) \/ Drop(c)
        <3>1. CASE Ended(c)
            BY <3>1 DEF Ended, Arrives
        <3>2. CASE ~Ended(c)
            <4>1. pc[c] = "check" /\ notebooks[req[c].notebook].state = "live"
                  /\ req'[c].notebook = req[c].notebook
                BY <2>7, <3>2, CheckDoes DEF Became
            <4>2. notebooks' = notebooks
                BY <2>7 DEF CheckNotebook, Refuse, Drop
            <4> QED
                BY <4>1, <4>2 DEF Arrives
        <3> QED
            BY <3>1, <3>2
    <2> QED
        BY <2>1, <2>2, <2>3, <2>4, <2>5, <2>6, <2>7, StepKinds
<1> QED
    BY <1>2, <1>4, <1>5 DEF HomeOrStranded

-----------------------------------------------------------------------------
(* Merges hold what they have read. *)

\* What a step leaves of the texts: a source grows by late edits only, and what a memo holds it
\* keeps until it is purged.
LEMMA TextsKeep ==
    ASSUME IInv, NEW c \in Call, Request(c) \/ CallStep(c) \/ Drop(c)
    PROVE  /\ merging \subseteq merging' /\ late \subseteq late'
           /\ \A m \in merging : memos'[m].text \subseteq memos[m].text \union late'
           /\ \A m \in Memo : memos[m].state # "absent" => memos'[m].state # "absent"
           /\ \A m \in Memo : \A text :
                HoldsText(m, text) /\ memos'[m].state # "purged" => text \subseteq memos'[m].text \union late'
<1>0. /\ MadeOnce /\ MergesHold /\ merging \subseteq Memo /\ RequestFits(c) /\ memos \in [Memo -> MemoRow]
    BY DEF IInv, TypeOK
<1>1. merging \subseteq merging'
    <2>1. CASE ReadSource(c)
        BY <2>1, ReadDoes
    <2>2. CASE ~ReadSource(c)
        BY <2>2, WhatChanges
    <2> QED
        BY <2>1, <2>2
<1>2. late \subseteq late'
    <2>1. CASE Edit(c)
        BY <2>1 DEF Edit
    <2>2. CASE ~Edit(c)
        BY <2>2, WhatChanges
    <2> QED
        BY <2>1, <2>2
<1>3. InsertMemo(c) => memos[req[c].memo].state = "absent"
    <2>1. InsertMemo(c) => pc[c] = "lock" /\ req[c].op \in {"create", "merge"}
        BY DEF InsertMemo, Enter
    <2> QED
        BY <1>0, <2>1 DEF MadeOnce, UnderWay
<1>4. ASSUME NEW m \in Memo, memos[m].state # "absent"
      PROVE  /\ memos'[m].state # "absent"
             /\ memos'[m].state # "purged" =>
                    memos[m].state # "purged" /\ memos[m].text \subseteq memos'[m].text
             /\ m \in merging => memos'[m].text \subseteq memos[m].text \union late'
    <2>1. MadeOf(c, m) /\ ~ (InsertMemo(c) /\ m = req[c].memo)
        BY <1>3, <1>4, MemosDo
    <2>2. CASE memos'[m] = memos[m]
        BY <1>4, <2>2
    <2>3. CASE Edit(c) /\ m = Head(req[c].ids) /\ Exists(m)
               /\ RowIs(m, memos[m].state, memos[m].notebook, memos[m].text \union {c}, memos[m].into)
        <3>1. m \in merging => c \in late'
            BY <2>3 DEF Edit
        <3> QED
            BY <2>3, <3>1 DEF RowIs, Exists
    <2>4. CASE Exists(m) /\ memos'[m].text = memos[m].text /\ memos'[m].state \in {"live", "trashed"}
        BY <2>4 DEF Exists
    <2>5. CASE memos'[m].state = "purged" /\ memos'[m].text = {}
        BY <2>5
    <2> QED
        BY <2>1, <2>2, <2>3, <2>4, <2>5 DEF MadeOf, RowIs, Exists
<1>5. \A m \in merging : memos[m].state # "absent"
    BY <1>0 DEF MergesHold
<1>6. ASSUME NEW m \in Memo, NEW text, HoldsText(m, text), memos'[m].state # "purged"
      PROVE  text \subseteq memos'[m].text \union late'
    BY <1>2, <1>4, <1>6 DEF HoldsText
<1> QED
    BY <1>0, <1>1, <1>2, <1>4, <1>5, <1>6

\* What a merge has read and made stays so, as long as what it has read grows.
LEMMA ReadsKeep ==
    ASSUME IInv, NEW c \in Call, Request(c) \/ CallStep(c) \/ Drop(c), NEW g \in Call,
           req[g].text \subseteq req'[g].text
    PROVE  \A m \in Memo : HasRead(g, m) => HasRead(g, m)'
<1>1. ASSUME NEW m \in Memo, HasRead(g, m)
      PROVE  m \in merging' /\ memos'[m].text \subseteq req'[g].text \union late'
    BY <1>1, TextsKeep DEF HasRead
<1> QED
    BY <1>1 DEF HasRead

LEMMA HoldsKeep ==
    ASSUME IInv, NEW c \in Call, Request(c) \/ CallStep(c) \/ Drop(c), NEW g \in Call,
           req'[g].text = req[g].text, req'[g].memo = req[g].memo, req[g].memo \in Memo,
           HoldsText(req[g].memo, req[g].text)
    PROVE  HoldsText(req[g].memo, req[g].text)'
<1> DEFINE m == req[g].memo
<1>1. memos'[m].state # "absent"
    BY TextsKeep DEF HoldsText
<1>2. memos'[m].state # "purged" => req[g].text \subseteq memos'[m].text \union late'
    BY TextsKeep
<1> QED
    BY <1>1, <1>2 DEF HoldsText

\* The calls that merge.
LEMMA MergeReadsStep ==
    ASSUME IInv, NEW c \in Call, Request(c) \/ CallStep(c) \/ Drop(c)
    PROVE  MergeReads(c)'
<1>0. /\ TypeOK /\ MergeReads(c) /\ RequestFits(c) /\ RequestFits(c)' /\ req[c] \in RequestRow
      /\ req[c].left \in Seq(Memo) /\ req[c].ids \in Seq(Memo)
    BY CallGoesOn DEF IInv, MergesHold, TypeOK, RequestRow
<1>1. ToSet(req[c].left) \subseteq Memo /\ ToSet(req[c].ids) \subseteq Memo
    BY <1>0, Elements
<1>2. UnderWay(c) /\ req[c].op = "merge" => req[c].memo \in Memo
    BY <1>0 DEF RequestFits
\* A step that leaves what has been read, and what is left.
<1>3. ASSUME NEW left \in SUBSET Memo, left = ToSet(req'[c].left),
             \A m \in left : HasRead(c, m), req'[c].text = req[c].text, req'[c].op = "merge",
             pc'[c] \in {"check", "lock", "append", "source"},
             pc'[c] \in {"append", "source"} =>
                req[c].memo \in Memo /\ HoldsText(req[c].memo, req[c].text) /\ req'[c].memo = req[c].memo
      PROVE  MergeReads(c)'
    <2>1. \A m \in left : HasRead(c, m)'
        BY <1>3, ReadsKeep
    <2>2. pc'[c] \in {"append", "source"} => HoldsText(req[c].memo, req[c].text)'
        BY <1>3, HoldsKeep
    <2> QED
        BY <1>3, <2>1, <2>2 DEF MergeReads
<1>4. Ended(c) => MergeReads(c)'
    BY DEF Ended, MergeReads
<1>5. CASE Request(c)
    <2>1. /\ pc'[c] \in {"read", "check", "lock"} /\ (pc'[c] = "read" <=> req'[c].op = "merge")
          /\ req'[c].op = "merge" => req'[c].left = req'[c].ids
        BY <1>0, <1>5, RequestDoes DEF NewRequest
    <2> QED
        BY <2>1 DEF MergeReads
<1>6. CASE \/ InsertNotebook(c) \/ Rename(c) \/ Reorder(c) \/ DeleteNotebook(c)
           \/ InsertMemo(c) \/ Edit(c) \/ File(c)
    <2>1. PICK rows \in Seq(Notebook \union Memo) : Changed(c, rows)
        BY <1>6, ChangesGoOn
    <2>2. Became(c, "append", req[c].left, rows, req[c].text) /\ pc[c] = "lock"
        BY <1>0, <1>6, <2>1, ChangedDoes, ChangesGoOn
    <2>3. req'[c].op = "merge" => InsertMemo(c)
        BY <1>6, <2>2 DEF Became, InsertNotebook, Rename, Reorder, DeleteNotebook, Edit, File, Enter
    <2>4. ASSUME req'[c].op = "merge"
          PROVE  MergeReads(c)'
        <3>1. InsertMemo(c) /\ req[c].op = "merge" /\ req[c].memo \in Memo
            BY <1>2, <2>2, <2>3, <2>4 DEF Became, UnderWay
        <3>2. memos'[req[c].memo].state = "live" /\ memos'[req[c].memo].text = req[c].text
            BY <1>0, <3>1 DEF InsertMemo, TypeOK
        <3>3. HoldsText(req[c].memo, req[c].text)'
            BY <2>2, <3>2 DEF HoldsText, Became
        <3>4. \A m \in ToSet(req[c].left) : HasRead(c, m)'
            <4>1. \A m \in ToSet(req[c].left) : HasRead(c, m)
                BY <1>0, <2>2, <3>1 DEF MergeReads
            <4>2. req'[c].text = req[c].text
                BY <2>2 DEF Became
            <4> QED
                BY <1>1, <4>1, <4>2, ReadsKeep
        <3> QED
            BY <2>2, <3>3, <3>4 DEF MergeReads, Became
    <2> QED
        BY <2>4 DEF MergeReads
<1>7. CASE ReadSource(c)
    <2> DEFINE x == Head(req[c].left)
    <2>1. /\ pc[c] = "read" /\ req[c].op = "merge" /\ req[c].left # << >> /\ x \in Memo
          /\ memos' = memos /\ late' = late
        BY <1>7, ReadDoes DEF ReadSource
    <2>2. CASE ~Ended(c)
        <3>1. /\ merging' = merging \union {x} /\ req'[c].text = req[c].text \union memos[x].text
              /\ req'[c].op = "merge" /\ req'[c].ids = req[c].ids
              /\ \/ Tail(req[c].left) = << >> /\ pc'[c] = "check" /\ req'[c].left = req[c].ids
                 \/ pc'[c] = "read" /\ req'[c].left = Tail(req[c].left)
            BY <1>7, <2>1, <2>2, ReadDoes DEF Became
        <3>2. \A m \in ToSet(req[c].ids) : m \in ToSet(req[c].left) \/ HasRead(c, m)
            BY <1>0, <2>1 DEF MergeReads
        <3>3. ToSet(req[c].left) = {x} \union ToSet(Tail(req[c].left))
            BY <1>0, <2>1, HeadAndTail
        <3>4. \A m \in Memo : m = x => HasRead(c, m)'
            BY <2>1, <3>1 DEF HasRead
        <3>5. \A m \in ToSet(req[c].ids) : HasRead(c, m) => HasRead(c, m)'
            BY <1>1, <3>1, ReadsKeep
        <3>6. \A m \in ToSet(req[c].ids) : m \in ToSet(Tail(req[c].left)) \/ HasRead(c, m)'
            BY <1>1, <3>2, <3>3, <3>4, <3>5
        <3>7. CASE pc'[c] = "read" /\ req'[c].left = Tail(req[c].left)
            BY <3>1, <3>6, <3>7 DEF MergeReads
        <3>8. CASE Tail(req[c].left) = << >> /\ pc'[c] = "check" /\ req'[c].left = req[c].ids
            <4>1. ToSet(Tail(req[c].left)) = {}
                BY <3>8 DEF ToSet
            <4> QED
                BY <3>1, <3>6, <3>8, <4>1 DEF MergeReads
        <3> QED
            BY <3>1, <3>7, <3>8
    <2> QED
        BY <1>4, <2>2
<1>8. CASE Move(c) \/ SoftDelete(c) \/ Restore(c)
    <2>1. req'[c].op # "merge"
        BY <1>8, NextMemoDoes DEF Became
    <2> QED
        BY <2>1 DEF MergeReads
<1>9. CASE AppendUnlocked(c)
    <2>1. CASE ~Ended(c) /\ req'[c].op = "merge"
        <3>1. /\ req'[c].left = req[c].left /\ req'[c].text = req[c].text /\ req'[c].memo = req[c].memo
              /\ req[c].op = "merge"
            BY <1>9, <2>1, AppendDoes DEF Became
        <3>2. pc[c] = "append" /\ pc'[c] \in {"append", "source"}
            BY <1>9, <2>1, <3>1, AppendDoes
        <3> QED
            BY <1>0, <1>1, <1>2, <1>3, <2>1, <3>1, <3>2 DEF MergeReads, UnderWay
    <2> QED
        BY <1>4, <2>1 DEF MergeReads
<1>10. CASE TrashSource(c)
    <2>1. CASE ~Ended(c)
        <3>1. /\ req'[c].left = Tail(req[c].left) /\ req'[c].text = req[c].text
              /\ req'[c].memo = req[c].memo /\ req[c].op = "merge" /\ req'[c].op = "merge"
              /\ pc[c] = "source" /\ pc'[c] = "source" /\ req[c].left # << >>
            BY <1>10, <2>1, SourceDoes DEF Became
        <3>2. ToSet(Tail(req[c].left)) \subseteq ToSet(req[c].left)
            BY <1>0, <3>1, HeadAndTail
        <3> QED
            BY <1>0, <1>1, <1>2, <1>3, <3>1, <3>2 DEF MergeReads, UnderWay
    <2> QED
        BY <1>4, <2>1
<1>11. CASE CheckNotebook(c) \/ Refuse(c) \/ Drop(c)
    <2>1. CASE ~Ended(c) /\ req'[c].op = "merge"
        <3>1. /\ pc[c] = "check" /\ pc'[c] = "lock" /\ req'[c].left = req[c].left
              /\ req'[c].text = req[c].text /\ req[c].op = "merge"
            BY <1>11, <2>1, CheckDoes DEF Became
        <3> QED
            BY <1>0, <1>1, <1>3, <2>1, <3>1 DEF MergeReads
    <2> QED
        BY <1>4, <2>1 DEF MergeReads
<1> QED
    BY <1>5, <1>6, <1>7, <1>8, <1>9, <1>10, <1>11, StepKinds

LEMMA MergesStep ==
    ASSUME IInv, NEW c \in Call, Request(c) \/ CallStep(c) \/ Drop(c)
    PROVE  MergesHold'
<1>0. /\ TypeOK /\ MergesHold /\ merging \subseteq Memo /\ memos \in [Memo -> MemoRow]
      /\ \A g \in Call : RequestFits(g)
    BY DEF IInv, TypeOK
<1>1. ASSUME NEW g \in Call, g # c
      PROVE  MergeReads(g)'
    <2>1. pc'[g] = pc[g] /\ req'[g] = req[g]
        BY <1>0, <1>1, OneCallMoves
    <2>2. MergeReads(g) /\ (UnderWay(g) /\ req[g].op = "merge" => req[g].memo \in Memo)
        BY <1>0 DEF MergesHold, RequestFits
    <2>3. ToSet(req[g].left) \subseteq Memo /\ ToSet(req[g].ids) \subseteq Memo
        BY <1>0, Elements DEF TypeOK, RequestRow
    <2>4. \A m \in Memo : HasRead(g, m) => HasRead(g, m)'
        BY <2>1, ReadsKeep
    <2>5. ASSUME req[g].op = "merge", pc[g] \in {"append", "source"}
          PROVE  HoldsText(req[g].memo, req[g].text)'
        <3>1. HoldsText(req[g].memo, req[g].text) /\ req[g].memo \in Memo
            BY <2>2, <2>5 DEF MergeReads, UnderWay
        <3> QED
            BY <2>1, <3>1, HoldsKeep
    <2> QED
        BY <2>1, <2>2, <2>3, <2>4, <2>5 DEF MergeReads
<1>2. ASSUME NEW m \in merging'
      PROVE  memos'[m].state # "absent"
    <2>1. CASE m \in merging
        BY <1>0, <2>1, TextsKeep DEF MergesHold
    <2>2. CASE m \notin merging
        <3>1. ReadSource(c)
            BY <2>2, WhatChanges
        <3>2. m = Head(req[c].left) /\ Exists(m) /\ memos' = memos
            BY <2>2, <3>1, ReadDoes DEF ReadSource
        <3> QED
            BY <3>2 DEF Exists
    <2> QED
        BY <2>1, <2>2
<1>3. ASSUME NEW m \in Memo, memos'[m].into # NoMemo
      PROVE  m \in merging' /\ HoldsText(memos[m].into, memos[m].text)'
    <2>1. MadeOf(c, m) /\ memos'[m].into \in Memo
        BY <1>3, MemosDo DEF MemoRow
    <2>2. CASE memos'[m].into = memos[m].into
        <3>1. m \in merging /\ HoldsText(memos[m].into, memos[m].text)
            BY <1>0, <1>3, <2>2 DEF MergesHold
        <3>2. memos'[m].text \subseteq memos[m].text \union late' /\ m \in merging'
            BY <3>1, TextsKeep
        <3>3. /\ memos'[memos[m].into].state # "absent"
              /\ memos'[memos[m].into].state # "purged" =>
                    memos[m].text \subseteq memos'[memos[m].into].text \union late'
            <4>1. memos[m].into \in Memo
                BY <2>1, <2>2
            <4>2. memos[memos[m].into].state # "absent"
                BY <3>1 DEF HoldsText
            <4> QED
                BY <3>1, <4>1, <4>2, TextsKeep
        <3>4. memos'[m].text \subseteq memos[m].text \union late'
            BY <3>2
        <3> QED
            BY <2>2, <3>2, <3>3, <3>4 DEF HoldsText
    <2>3. CASE memos'[m].into # memos[m].into
        <3>1. TrashSource(c) /\ m = Head(req[c].left) /\ memos'[m].text = memos[m].text
              /\ memos'[m].into = req[c].memo
            BY <1>3, <2>1, <2>3 DEF MadeOf, RowIs
        <3>2. /\ pc[c] = "source" /\ req[c].op = "merge" /\ req[c].left # << >>
              /\ req[c].left \in Seq(Memo)
            BY <1>0, <3>1, SourceDoes DEF TypeOK, RequestRow
        <3>3. HasRead(c, m) /\ HoldsText(req[c].memo, req[c].text)
            <4>1. m \in ToSet(req[c].left)
                BY <3>1, <3>2, HeadAndTail
            <4> QED
                BY <1>0, <3>2, <4>1 DEF MergesHold, MergeReads
        <3>4. m \in merging' /\ memos[m].text \subseteq req[c].text \union late /\ late \subseteq late'
            BY <3>3, TextsKeep DEF HasRead
        <3>5. /\ memos'[req[c].memo].state # "absent"
              /\ memos'[req[c].memo].state # "purged" =>
                    req[c].text \subseteq memos'[req[c].memo].text \union late'
            BY <2>1, <3>1, <3>3, TextsKeep DEF HoldsText
        <3> QED
            BY <3>1, <3>4, <3>5 DEF HoldsText
    <2> QED
        BY <2>2, <2>3
<1>4. MergeReads(c)'
    BY MergeReadsStep
<1> QED
    BY <1>1, <1>2, <1>3, <1>4 DEF MergesHold

-----------------------------------------------------------------------------
(* Places differ. *)

\* Two listed siblings whose places were not given.
Sisters(n, k) ==
    /\ n # k
    /\ notebooks[n].state = "live" /\ notebooks[k].state = "live"
    /\ notebooks[n].parent = notebooks[k].parent
    /\ ~notebooks[n].placed /\ ~notebooks[k].placed

LEMMA PlacesBySisters ==
    PlacesDiffer <=> \A n, k \in Notebook : Sisters(n, k) => notebooks[n].order # notebooks[k].order
BY DEF PlacesDiffer, Sisters, Siblings

\* Rows that differ neither in state nor in place.
SamePlace(n) ==
    LET a == notebooks'[n]
        b == notebooks[n]
    IN a.state = b.state /\ a.parent = b.parent /\ a.order = b.order /\ a.placed = b.placed

LEMMA PlacesStep ==
    ASSUME IInv, NEW c \in Call, Request(c) \/ CallStep(c) \/ Drop(c)
    PROVE  PlacesDiffer'
<1>0. /\ TypeOK /\ notebooks \in [Notebook -> NotebookRow] /\ RequestFits(c) /\ req[c] \in RequestRow
      /\ \A n, k \in Notebook : Sisters(n, k) => notebooks[n].order # notebooks[k].order
    BY PlacesBySisters DEF IInv, TypeOK
<1>1. SUFFICES ASSUME NEW n \in Notebook, NEW k \in Notebook, Sisters(n, k)'
               PROVE  notebooks'[n].order # notebooks'[k].order
    <2>1. \A n, k \in Notebook : Sisters(n, k)' => notebooks'[n].order # notebooks'[k].order
        BY <1>1
    <2> QED
        BY <2>1 DEF PlacesDiffer, Sisters, Siblings
<1>2. CASE SamePlace(n) /\ SamePlace(k)
    <2>1. Sisters(n, k)
        BY <1>1, <1>2 DEF Sisters, SamePlace
    <2> QED
        BY <1>0, <1>2, <2>1 DEF SamePlace
<1>3. CASE InsertNotebook(c)
    <2> DEFINE parent == req[c].notebook
               row == [state |-> "live", parent |-> parent, name |-> "given",
                       order |-> IF req[c].placed THEN 0 ELSE LastOrder(parent),
                       placed |-> req[c].placed]
    <2>1. PICK x \in Notebook : notebooks' = [notebooks EXCEPT ![x] = row]
        BY <1>3 DEF InsertNotebook
    <2>2. /\ notebooks'[x].state = "live" /\ notebooks'[x].parent = parent
          /\ notebooks'[x].placed = req[c].placed
          /\ ~notebooks'[x].placed => notebooks'[x].order = LastOrder(parent)
        BY <1>0, <2>1
    <2>3. \A y \in Notebook : y # x => notebooks'[y] = notebooks[y]
        BY <1>0, <2>1
    <2>4. \A y \in Notebook : y # x /\ notebooks'[y].state = "live" /\ notebooks'[y].parent = parent =>
                notebooks'[y].order < LastOrder(parent)
        BY <1>0, <2>3, LastOrderIsLast DEF Siblings
    <2>5. LastOrder(parent) \in Nat
        BY <1>0, LastOrderIsLast
    <2>6. \A i \in Nat : ~ (i < i)
        OBVIOUS
    <2> HIDE DEF parent
    <2>7. CASE n = x
        BY <1>1, <2>2, <2>4, <2>5, <2>6, <2>7 DEF Sisters
    <2>8. CASE k = x
        BY <1>1, <2>2, <2>4, <2>5, <2>6, <2>8 DEF Sisters
    <2>9. CASE n # x /\ k # x
        BY <1>2, <2>3, <2>9 DEF SamePlace
    <2> QED
        BY <2>7, <2>8, <2>9
<1>4. CASE Rename(c)
    <2>1. notebooks' = [notebooks EXCEPT ![req[c].notebook] =
                            [notebooks[req[c].notebook] EXCEPT !.name = "renamed"]]
        BY <1>4 DEF Rename
    <2>2. \A r \in NotebookRow : LET q == [r EXCEPT !.name = "renamed"] IN
                q.state = r.state /\ q.parent = r.parent /\ q.order = r.order /\ q.placed = r.placed
        BY DEF NotebookRow
    <2>3. \A x \in Notebook : SamePlace(x)
        BY <1>0, <2>1, <2>2 DEF SamePlace
    <2> QED
        BY <1>2, <2>3
<1>5. CASE DeleteNotebook(c)
    <2>1. notebooks' = [notebooks EXCEPT ![req[c].notebook] =
                            [notebooks[req[c].notebook] EXCEPT !.state = "deleted"]]
        BY <1>5 DEF DeleteNotebook
    <2>2. \A r \in NotebookRow : [r EXCEPT !.state = "deleted"].state = "deleted"
        BY DEF NotebookRow
    <2>3. \A x \in Notebook : x # req[c].notebook => notebooks'[x] = notebooks[x]
        BY <1>0, <2>1
    <2>4. \A x \in Notebook : x = req[c].notebook => notebooks'[x].state = "deleted"
        BY <1>0, <2>1, <2>2
    <2>5. SamePlace(n) /\ SamePlace(k)
        BY <1>1, <2>3, <2>4 DEF SamePlace, Sisters
    <2> QED
        BY <1>2, <2>5
<1>6. CASE Reorder(c)
    <2> DEFINE order == req[c].order
               place(x) == CHOOSE i \in DOMAIN order : order[i] = x
    <2>1. ToSet(order) = Siblings(req[c].notebook) /\ order \in Seq(Notebook)
        BY <1>0, <1>6 DEF Reorder, CompleteOrder, RequestRow
    <2>2. notebooks' = [x \in Notebook |->
                            IF x \in ToSet(order)
                            THEN [notebooks[x] EXCEPT !.order = place(x) - 1, !.placed = FALSE]
                            ELSE notebooks[x]]
        BY <1>6 DEF Reorder
    <2>3. \A x \in ToSet(order) : place(x) \in Nat /\ order[place(x)] = x
        <3>1. DOMAIN order = 1 .. Len(order) /\ Len(order) \in Nat
            BY <2>1
        <3>2. \A x \in ToSet(order) : place(x) \in DOMAIN order /\ order[place(x)] = x
            BY DEF ToSet
        <3> HIDE DEF place, order
        <3> QED
            BY <3>1, <3>2
    <2>4. \A r \in NotebookRow : \A i : LET q == [r EXCEPT !.order = i, !.placed = FALSE] IN
                q.state = r.state /\ q.parent = r.parent /\ q.order = i
        BY DEF NotebookRow
    <2> HIDE DEF place
    <2>5. ASSUME NEW x \in Notebook
          PROVE  /\ notebooks'[x].state = notebooks[x].state
                 /\ notebooks'[x].parent = notebooks[x].parent
                 /\ x \in ToSet(order) => notebooks'[x].order = place(x) - 1
                 /\ x \notin ToSet(order) => notebooks'[x] = notebooks[x]
        <3> HIDE DEF order
        <3> QED
            BY <1>0, <2>2, <2>4, ZenonT(60)
    <2>6. n \in ToSet(order) <=> k \in ToSet(order)
        BY <1>1, <2>1, <2>5 DEF Sisters, Siblings
    <2>7. CASE n \in ToSet(order) /\ k \in ToSet(order)
        <3>1. place(n) \in Nat /\ place(k) \in Nat /\ place(n) # place(k)
            BY <1>1, <2>3, <2>7 DEF Sisters
        <3>2. place(n) - 1 # place(k) - 1
            BY <3>1
        <3> QED
            BY <2>5, <2>7, <3>2
    <2>8. CASE n \notin ToSet(order) /\ k \notin ToSet(order)
        BY <1>2, <2>5, <2>8 DEF SamePlace
    <2> QED
        BY <2>6, <2>7, <2>8
<1>7. CASE ~ (InsertNotebook(c) \/ Rename(c) \/ Reorder(c) \/ DeleteNotebook(c))
    BY <1>2, <1>7, WhatChanges DEF SamePlace
<1> QED
    BY <1>3, <1>4, <1>5, <1>6, <1>7

-----------------------------------------------------------------------------
(* Only a merge is silent. *)

\* What the log has still to be told of.
Told(e) ==
    \/ e \in torn
    \/ \E c \in Call : pc[c] = "append" /\ e \in ToSet(req[c].rows)
    \/ e \in Memo /\ memos[e].into # NoMemo

LEMMA SilentStep ==
    ASSUME IInv, NEW c \in Call, Request(c) \/ CallStep(c) \/ Drop(c)
    PROVE  OnlyMergeIsSilent'
<1>0. /\ TypeOK /\ MergesHold /\ \A e \in unlogged : Told(e)
      /\ RequestFits(c) /\ req[c].rows \in Seq(Notebook \union Memo)
    BY DEF IInv, OnlyMergeIsSilent, Told, TypeOK, RequestRow
<1>1. \A g \in Call \ {c} : pc'[g] = pc[g] /\ req'[g] = req[g]
    BY <1>0, OneCallMoves
<1>2. torn \subseteq torn'
    BY WhatChanges DEF Drop
\* A row the call changes itself is about to be logged.
<1>3. ASSUME NEW rows \in Seq(Notebook \union Memo), NEW left, Became(c, "append", left, rows, req[c].text)
      PROVE  \A e \in ToSet(rows) : Told(e)'
    BY <1>3 DEF Became, Told
\* What was changed before stays told of.
<1>4. ASSUME NEW e \in unlogged, e \in unlogged'
      PROVE  Told(e)'
    <2>1. CASE e \in torn
        BY <1>2, <2>1 DEF Told
    <2>2. CASE \E g \in Call \ {c} : pc[g] = "append" /\ e \in ToSet(req[g].rows)
        BY <1>1, <2>2 DEF Told
    <2>3. CASE pc[c] = "append" /\ e \in ToSet(req[c].rows)
        <3>1. CASE Drop(c)
            BY <2>3, <3>1 DEF Drop, Told
        <3>2. CASE AppendUnlocked(c)
            <4>1. req[c].rows # << >>
                BY <2>3 DEF ToSet
            <4>2. ToSet(req[c].rows) = {Head(req[c].rows)} \union ToSet(Tail(req[c].rows))
                BY <1>0, <4>1, HeadAndTail
            <4>3. e \in ToSet(Tail(req[c].rows))
                BY <1>4, <2>3, <3>2, <4>1, <4>2, AppendDoes
            <4>4. Tail(req[c].rows) # << >>
                BY <4>3 DEF ToSet
            <4>5. pc'[c] = "append" /\ req'[c].rows = Tail(req[c].rows)
                BY <3>2, <4>1, <4>4, AppendDoes DEF Became
            <4> QED
                BY <4>3, <4>5 DEF Told
        <3>3. ~ (\/ Request(c) \/ ReadSource(c) \/ CheckNotebook(c) \/ Refuse(c) \/ TrashSource(c)
                 \/ InsertNotebook(c) \/ Rename(c) \/ Reorder(c) \/ DeleteNotebook(c)
                 \/ InsertMemo(c) \/ Edit(c) \/ File(c) \/ Move(c) \/ SoftDelete(c) \/ Restore(c))
            BY <2>3, ChangesGoOn, NextMemoDoes DEF Request, ReadSource, CheckNotebook, Refuse, TrashSource
        <3> QED
            BY <3>1, <3>2, <3>3, StepKinds
    <2>4. CASE e \in Memo /\ memos[e].into # NoMemo
        <3>1. memos[e].state # "absent" /\ memos[e].into # NoMemo
            BY <1>0, <2>4 DEF MergesHold
        <3>2. CASE memos'[e].into # NoMemo
            BY <2>4, <3>2 DEF Told
        <3>3. CASE memos'[e].into = NoMemo
            <4>1. MadeOf(c, e)
                BY <2>4, MemosDo
            <4>2. ~InsertMemo(c) \/ e # req[c].memo
                <5>1. InsertMemo(c) => pc[c] = "lock" /\ req[c].op \in {"create", "merge"}
                    BY DEF InsertMemo, Enter
                <5>2. MadeOnce
                    BY DEF IInv
                <5> QED
                    BY <3>1, <5>1, <5>2 DEF MadeOnce, UnderWay
            <4>3. TrashSource(c) => req[c].memo # NoMemo
                <5>1. TrashSource(c) => pc[c] = "source" /\ req[c].op = "merge"
                    BY SourceDoes
                <5> QED
                    BY <1>0, <5>1, WorkspaceAssumption DEF RequestFits, UnderWay
            <4>4. SoftDelete(c) \/ Restore(c)
                BY <3>1, <3>3, <4>1, <4>2, <4>3 DEF MadeOf, RowIs
            <4>5. e = Head(req[c].left)
                <5>1. \E row : memos' \in {memos, [memos EXCEPT ![Head(req[c].left)] = row]}
                    BY <4>4 DEF SoftDelete, Restore, SetState
                <5>2. memos'[e] # memos[e]
                    BY <3>1, <3>3
                <5> QED
                    BY <1>0, <2>4, <5>1, <5>2 DEF TypeOK
            <4>6. /\ Became(c, "append", Tail(req[c].left), <<e>>, req[c].text)
                  /\ e \in ToSet(<<e>>) /\ <<e>> \in Seq(Notebook \union Memo)
                <5>1. Exists(e)
                    BY <3>1, <3>3, <4>1, <4>2, <4>3 DEF MadeOf, RowIs
                <5> QED
                    BY <2>4, <4>4, <4>5, <5>1, NextMemoDoes DEF ToSet
            <4> QED
                BY <1>3, <4>6
        <3> QED
            BY <3>2, <3>3
    <2> QED
        BY <1>0, <2>1, <2>2, <2>3, <2>4 DEF Told
<1>5. ASSUME NEW e \in unlogged', e \notin unlogged
      PROVE  Told(e)'
    <2>1. CASE \/ InsertNotebook(c) \/ Rename(c) \/ Reorder(c) \/ DeleteNotebook(c)
               \/ InsertMemo(c) \/ Edit(c) \/ File(c)
        <3>1. PICK rows \in Seq(Notebook \union Memo) : Changed(c, rows)
            BY <2>1, ChangesGoOn
        <3>2. /\ Became(c, "append", req[c].left, rows, req[c].text)
              /\ unlogged' = unlogged \union ToSet(rows)
            BY <1>0, <3>1, ChangedDoes
        <3> QED
            BY <1>3, <1>5, <3>2
    <2>2. CASE Move(c) \/ SoftDelete(c) \/ Restore(c)
        <3>1. /\ e = Head(req[c].left) /\ e \in Memo
              /\ Became(c, "append", Tail(req[c].left), <<e>>, req[c].text)
            BY <1>5, <2>2, NextMemoDoes
        <3>2. <<e>> \in Seq(Notebook \union Memo) /\ e \in ToSet(<<e>>)
            BY <3>1 DEF ToSet
        <3> QED
            BY <1>3, <3>1, <3>2
    <2>3. CASE TrashSource(c)
        <3>1. /\ e = Head(req[c].left) /\ e \in Memo /\ pc[c] = "source" /\ req[c].op = "merge"
              /\ memos' = [memos EXCEPT ![e] = [memos[e] EXCEPT !.state = "trashed", !.into = req[c].memo]]
            BY <1>5, <2>3, SourceDoes, ZenonT(60)
        <3>2. req[c].memo \in Memo
            BY <1>0, <3>1 DEF RequestFits, UnderWay
        <3>3. memos'[e].into = req[c].memo
            BY <1>0, <3>1 DEF TypeOK, MemoRow
        <3> QED
            BY <3>1, <3>2, <3>3, WorkspaceAssumption DEF Told
    <2>4. ~ (Request(c) \/ ReadSource(c) \/ CheckNotebook(c) \/ Refuse(c) \/ AppendUnlocked(c) \/ Drop(c))
        <3>1. ~ (ReadSource(c) \/ CheckNotebook(c) \/ Refuse(c) \/ Drop(c))
            BY <1>5 DEF ReadSource, CheckNotebook, Refuse, Drop, ghosts
        <3>2. ~AppendUnlocked(c)
            BY <1>5 DEF AppendUnlocked
        <3>3. ~Request(c)
            BY <1>5, WhatChanges
        <3> QED
            BY <3>1, <3>2, <3>3
    <2> QED
        BY <2>1, <2>2, <2>3, <2>4, StepKinds
<1> QED
    BY <1>4, <1>5 DEF OnlyMergeIsSilent, Told

-----------------------------------------------------------------------------
(* The invariant, and what follows. *)

LEMMA NextIInv == IInv /\ [Next]_vars => IInv'
<1> SUFFICES ASSUME IInv, [Next]_vars PROVE IInv'
    OBVIOUS
<1>1. ASSUME NEW c \in Call, Request(c) \/ CallStep(c) \/ Drop(c)
      PROVE  IInv'
    BY <1>1, TypeStep, FitsStep, HomeStep, MadeOnceStep, MergesStep, PlacesStep, SilentStep DEF IInv
<1>2. CASE UNCHANGED vars
    BY <1>2 DEF IInv, TypeOK, RequestFits, UnderWay, LockIsKept, HomeOrStranded, Exists, Arrives, MadeOnce,
                MergesHold, MergeReads, HasRead, HoldsText, PlacesDiffer, Siblings, OnlyMergeIsSilent,
                vars, ghosts
<1> QED
    BY <1>1, <1>2 DEF Next, Quiescent

\* The invariant of all that follows: what a call has seen before it took the lock is still
\* so, or it is known how it is stale (memos.rs, create, batch_move and merge).
THEOREM AlwaysIInv == Spec => []IInv
<1>1. Init => IInv
    BY InitIInv
<1>2. IInv /\ [Next]_vars => IInv'
    BY NextIInv
<1> QED
    BY <1>1, <1>2, PTL DEF Spec

\* Every table and every request has its type.
THEOREM WorkspaceTyped == Spec => []TypeOK
<1>1. IInv => TypeOK
    BY DEF IInv
<1> QED
    BY <1>1, AlwaysIInv, PTL

\* A live memo is in a live notebook, unless the notebook was deleted while the memo was in its
\* trash or on its way: soft_delete of notebooks.rs counts live memos only, and create,
\* batch_move and merge look at the notebook before they take the lock.
THEOREM MemosHaveAHome == Spec => []HomeIsKept
<1>1. IInv => HomeIsKept
    BY DEF IInv, HomeOrStranded, HomeIsKept, Exists
<1> QED
    BY <1>1, AlwaysIInv, PTL

\* Siblings never share a place that insert or reorder of notebooks.rs has given them.
THEOREM SiblingsAreOrdered == Spec => []PlacesDiffer
<1>1. IInv => PlacesDiffer
    BY DEF IInv
<1> QED
    BY <1>1, AlwaysIInv, PTL

\* merge of memos.rs trashes a source only when the text it read is in the new memo: what
\* is missing there was saved after the merge had read it.
THEOREM MergesLoseOnlyLateEdits == Spec => []MergeKeepsText
<1>1. ASSUME IInv
      PROVE  MergeKeepsText
    <2>1. ASSUME NEW m \in Memo, memos[m].into # NoMemo
          PROVE  HoldsText(memos[m].into, memos[m].text)
        BY <1>1, <2>1 DEF IInv, MergesHold
    <2> QED
        BY <2>1 DEF MergeKeepsText, HoldsText
<1>2. IInv => MergeKeepsText
    BY <1>1
<1> QED
    BY <1>2, AlwaysIInv, PTL

\* What was changed without a row in the log was left by a call that was dropped, is about to
\* be logged, or is the source of a merge.
THEOREM EveryOtherChangeIsLogged == Spec => []OnlyMergeIsSilent
<1>1. IInv => OnlyMergeIsSilent
    BY DEF IInv
<1> QED
    BY <1>1, AlwaysIInv, PTL

=============================================================================
