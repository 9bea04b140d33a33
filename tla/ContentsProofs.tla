--------------------------- MODULE ContentsProofs ---------------------------
(***************************************************************************)
(* The safety properties of Contents, for any number of calls, texts,      *)
(* memos and workspaces.                                                   *)
(*                                                                         *)
(* All of them rest on what a call has made sure of by the step it is at:  *)
(* whether it has the lock, whether the memo is still there, whether there *)
(* is a file for its text, and whether its workspace sent the text.  None  *)
(* of this is lost while other calls go on, because only a call with the   *)
(* lock changes a memo and because no file is ever removed.                *)
(***************************************************************************)
EXTENDS Contents, FiniteSetTheorems, TLAPS

-----------------------------------------------------------------------------
(* The inductive invariant. *)

Saving == {"create", "save", "reuse", "revert"}

\* The request of a call fits the step it is at.
RequestFits(c) ==
    LET r == req[c] IN
    /\ pc[c] \in {"summary", "dedup", "row", "insert"} =>
            r.op = "upload" /\ r.memo \in Memo /\ r.text \in Text
    /\ pc[c] \in {"exists", "write", "flush"} =>
            /\ r.op \in Saving \union {"upload"} /\ r.memo \in Memo /\ r.text \in Text
            /\ r.op # "upload" => r.text \in Large
    /\ pc[c] = "orphan" => r.text \in Text
    /\ pc[c] = "meta" => r.op \in Saving /\ r.memo \in Memo /\ r.text \in Large
    /\ pc[c] = "commit" => r.op \in Saving /\ r.memo \in Memo /\ r.text \in Text \union {Cut}
    /\ pc[c] = "lock" =>
            /\ r.op \in Saving \union {"purge"} /\ r.memo \in Memo
            /\ r.op # "purge" => r.text \in Text \union {Cut}
    /\ pc[c] = "revision" => r.op = "revert" /\ r.memo \in Memo /\ r.text \in Text \union {Cut}
    /\ pc[c] = "load" =>
            /\ r.op \in {"read", "reuse", "revert"} /\ r.text \in Text \union {Cut}
            /\ r.op # "read" => r.memo \in Memo

\* A call has the lock by the step it is at.
Locked(c) ==
    \/ pc[c] \in Held
    \/ pc[c] \in {"exists", "write", "flush"} /\ req[c].op # "upload"
    \/ pc[c] = "load" /\ req[c].op = "reuse"

\* It is the one call that has it, and the memo it found is there while it has it.
LockIsKept ==
    \A c \in Call :
        /\ Locked(c) <=> writer = c
        /\ Locked(c) /\ req[c].op \in {"save", "reuse", "revert"} => Live(req[c].memo)

\* A memo has a text as long as it is there.
TextIfLive == \A m \in Memo : Live(m) <=> memos[m].text # NoText

\* A file that is not whole is being written, or was cut short.
PartIsExplained ==
    \A t \in Text : files[t] = "part" =>
        \/ t \in torn
        \/ \E c \in Call : pc[c] \in {"flush", "orphan"} /\ req[c].text = t

HasFile(t) == t \in Text /\ files[t] # "none"

\* What a call has put, or been let in to, has a file.
CallHasFile(c) ==
    LET t == req[c].text IN
    /\ pc[c] \in {"flush", "orphan", "dedup", "row", "insert", "meta"} => HasFile(t)
    /\ pc[c] = "commit" /\ t \in Large => HasFile(t) /\ blobs[t].kept
    /\ pc[c] = "load" => IF req[c].op = "revert" THEN t \in Large => HasFile(t) ELSE HasFile(t)
    /\ pc[c] = "revision" /\ t \in Large => HasFile(t)

\* So has what a memo, a resource or a revision refers to.
ReferredHasFile ==
    /\ \A t \in Text : Referrers(t) # {} => HasFile(t)
    /\ \A m \in Memo : \A t \in revisions[m] \intersect Large : HasFile(t)
    /\ \A c \in Call : CallHasFile(c)

Sent(m, t) == t = Cut \/ <<SpaceOf[m], t>> \in sent

\* Memos, revisions, resources and the calls that make them hold what their own workspace
\* has sent.
OwnSent ==
    /\ \A m \in Memo : Live(m) => Sent(m, memos[m].text)
    /\ \A m \in Memo : \A t \in revisions[m] : Sent(m, t)
    /\ \A g \in Call : Made(g) => <<resources[g].space, resources[g].text>> \in sent
    /\ \A c \in Call :
            /\ pc[c] \notin {"idle", "orphan", "done"} /\ req[c].op \in Saving \union {"upload"}
            /\ ~ (pc[c] = "lock" /\ req[c].op = "reuse")
            => Sent(req[c].memo, req[c].text)

\* Whom the count of a text has to cover: a resource is counted before it is inserted.
Covered(t) == Referrers(t) \union {c \in Call : pc[c] = "insert" /\ req[c].text = t}

CountCovers ==
    \A t \in Text : /\ IsFiniteSet(Covered(t)) /\ Cardinality(Covered(t)) <= blobs[t].refs
                    /\ blobs[t].refs > 0 => blobs[t].kept

\* A resource of the text in the workspace, made or decided on.
Claims(c, t, space) ==
    \/ Made(c) /\ resources[c].text = t /\ resources[c].space = space
    \/ pc[c] \in {"row", "insert"} /\ req[c].text = t /\ SpaceOf[req[c].memo] = space

ClaimedTogether ==
    \A c, g \in Call : \A t \in Text, space \in Space :
        c # g /\ Claims(c, t, space) /\ Claims(g, t, space) => {c, g} \in together

\* A call that was refused for want of a file has ended.
RefusedIsDone == \A c \in Call : reply[c] = "missing" => pc[c] = "done"

IInv ==
    /\ TypeOK
    /\ \A c \in Call : RequestFits(c)
    /\ LockIsKept
    /\ TextIfLive
    /\ PartIsExplained
    /\ ReferredHasFile
    /\ OwnSent
    /\ CountCovers
    /\ ClaimedTogether
    /\ RefusedIsDone /\ FoundIfReferred

-----------------------------------------------------------------------------
(* Steps of one call. *)

\* A step of one call says nothing of another's step, request and answer.
LEMMA OneCallMoves ==
    ASSUME TypeOK, NEW c \in Call, Request(c) \/ CallStep(c) \/ Drop(c),
           NEW g \in Call, g # c
    PROVE  pc'[g] = pc[g] /\ req'[g] = req[g] /\ reply'[g] = reply[g]
<1> USE DEF TypeOK, Answer, Go, BlobRow, RequestRow, MemoRow
<1>1. CASE Request(c)
    BY <1>1 DEF Request, RequestText, RequestNamed, RequestRead, Start
<1>2. CASE Summary(c) \/ Exists(c) \/ Write(c) \/ Flush(c) \/ Orphan(c)
    BY <1>2 DEF Summary, Exists, Write, Flush, Orphan
<1>3. CASE Dedup(c) \/ CountBlob(c) \/ InsertResource(c)
    BY <1>3 DEF Dedup, CountBlob, InsertResource
<1>4. CASE Enter(c) \/ ReadRevision(c) \/ Load(c)
    <2>1. CASE Enter(c)
        BY <2>1 DEF Enter
    <2>2. CASE ReadRevision(c)
        BY <2>2 DEF ReadRevision
    <2>3. CASE Load(c)
        BY <2>3 DEF Load
    <2> QED
        BY <1>4, <2>1, <2>2, <2>3
<1>5. CASE UpsertBlobMeta(c) \/ Commit(c) \/ Purge(c)
    BY <1>5 DEF UpsertBlobMeta, Commit, Purge
<1>6. CASE Drop(c)
    BY <1>6 DEF Drop
<1> QED
    BY <1>1, <1>2, <1>3, <1>4, <1>5, <1>6 DEF CallStep

\* The initial states.
LEMMA InitIInv == Init => IInv
<1> SUFFICES ASSUME Init PROVE IInv
    OBVIOUS
<1> USE ContentsAssumption
<1>1. TypeOK
    BY DEF Init, TypeOK, BlobRow, MemoRow, ResourceRow, RequestRow, NoRequest, Ops, Step, Replies
<1>2. \A t \in Text : Referrers(t) = {} /\ Covered(t) = {}
    <2>1. \A m \in Memo : memos[m].text \notin Large
        BY DEF Init
    <2>2. \A g \in Call : resources[g].text = NoText /\ pc[g] = "idle"
        BY DEF Init
    <2> QED
        BY <2>1, <2>2 DEF Referrers, Covered
<1>3. (\A c \in Call : RequestFits(c)) /\ LockIsKept
    BY DEF Init, RequestFits, LockIsKept, Locked, Held
<1>4. TextIfLive
    BY DEF Init, TextIfLive, Live
<1>5. PartIsExplained /\ ReferredHasFile
    BY <1>2 DEF Init, PartIsExplained, ReferredHasFile, CallHasFile
<1>6. OwnSent
    BY DEF Init, OwnSent, Live, Made, Sent
<1>7. CountCovers
    <2>1. \A t \in Text : blobs[t].refs = 0
        BY DEF Init
    <2>2. IsFiniteSet({}) /\ Cardinality({}) = 0
        BY FS_EmptySet
    <2> QED
        <3>1. ASSUME NEW t \in Text
              PROVE  /\ IsFiniteSet(Covered(t)) /\ Cardinality(Covered(t)) <= blobs[t].refs
                     /\ ~ (blobs[t].refs > 0)
            <4>1. Covered(t) = {}
                BY <1>2
            <4>2. blobs[t].refs = 0
                BY <2>1
            <4>3. IsFiniteSet(Covered(t)) /\ Cardinality(Covered(t)) = 0
                BY <2>2, <4>1
            <4> QED
                BY <4>2, <4>3
        <3> QED
            BY <3>1 DEF CountCovers
<1>8. ClaimedTogether
    BY DEF Init, ClaimedTogether, Claims, Made
<1>9. RefusedIsDone /\ FoundIfReferred
    BY DEF Init, RefusedIsDone, FoundIfReferred
<1> QED
    BY <1>1, <1>3, <1>4, <1>5, <1>6, <1>7, <1>8, <1>9 DEF IInv

\* A call that ends has the answer and, unless it found no file, no request any more.
LEMMA AnswerMoves ==
    ASSUME TypeOK, NEW c \in Call, NEW r \in Replies, Answer(c, r)
    PROVE  /\ pc' \in [Call -> Step] /\ req' \in [Call -> RequestRow]
           /\ reply' \in [Call -> Replies] /\ writer' \in Call \union {NoCall}
           /\ pc'[c] = "done" /\ reply'[c] = r
           /\ req'[c] = IF r = "missing" THEN req[c] ELSE NoRequest
           /\ writer' = Freed(c) /\ writer' # c
<1>1. NoRequest \in RequestRow
    BY DEF NoRequest, RequestRow, Ops
<1>2. c # NoCall /\ "done" \in Step
    BY ContentsAssumption DEF Step
<1> QED
    BY <1>1, <1>2 DEF TypeOK, Answer, Freed

\* A call that goes on keeps its request and has no answer yet.
LEMMA GoMoves ==
    ASSUME TypeOK, NEW c \in Call, NEW s \in Step, Go(c, s)
    PROVE  /\ pc' \in [Call -> Step] /\ req' \in [Call -> RequestRow]
           /\ reply' \in [Call -> Replies] /\ writer' \in Call \union {NoCall}
           /\ pc'[c] = s /\ req' = req /\ reply' = reply /\ writer' = writer
BY DEF TypeOK, Go

\* The calls keep their types.
LEMMA CallTypes ==
    ASSUME IInv, NEW c \in Call, Request(c) \/ CallStep(c) \/ Drop(c)
    PROVE  /\ pc' \in [Call -> Step] /\ req' \in [Call -> RequestRow]
           /\ reply' \in [Call -> Replies] /\ writer' \in Call \union {NoCall}
<1>0. TypeOK /\ RequestFits(c)
    BY DEF IInv
<1> USE <1>0, AnswerMoves, GoMoves DEF Replies, Step, Held
<1>1. CASE Request(c)
    <2>1. PICK op \in Ops, s \in Step, m \in Memo \union {NoMemo},
               t \in Text \union {NoText, Cut} : Start(c, op, s, m, t)
        <3>1. Ops = {"upload", "create", "save", "reuse", "revert", "purge", "read"}
              /\ "summary" \in Step /\ "lock" \in Step /\ "revision" \in Step /\ "load" \in Step
            BY DEF Ops
        <3>2. CASE RequestText(c)
            BY <3>1, <3>2 DEF RequestText
        <3>3. CASE RequestNamed(c)
            <4>1. \A m \in Memo : revisions[m] \subseteq Text \union {Cut}
                BY DEF TypeOK
            <4> QED
                BY <3>1, <3>3, <4>1 DEF RequestNamed
        <3>4. CASE RequestRead(c)
            BY <3>1, <3>4 DEF RequestRead
        <3> QED
            BY <1>1, <3>2, <3>3, <3>4 DEF Request
    <2>2. [op |-> op, memo |-> m, text |-> t, base |-> 0] \in RequestRow
        BY DEF RequestRow
    <2> QED
        BY <2>1, <2>2 DEF Start, TypeOK
<1>2. CASE Summary(c) \/ Exists(c) \/ Write(c) \/ Flush(c) \/ Orphan(c) \/ Dedup(c)
    BY <1>2 DEF Summary, Exists, Write, Flush, Orphan, Dedup, AfterPut
<1>3. CASE CountBlob(c)
    BY <1>3 DEF CountBlob, TypeOK
<1>4. CASE InsertResource(c)
    BY <1>4 DEF InsertResource
<1>5. CASE Enter(c)
    BY <1>5 DEF Enter, TypeOK, FirstStep
<1>6. CASE ReadRevision(c)
    <2>1. CASE Live(req[c].memo)
        <3>1. req[c].memo \in Memo
            BY <1>6 DEF ReadRevision, RequestFits
        <3>2. req[c] \in RequestRow /\ memos[req[c].memo].version \in Nat
            BY <3>1 DEF TypeOK, MemoRow
        <3>3. [req[c] EXCEPT !.base = memos[req[c].memo].version] \in RequestRow
            BY <3>2 DEF RequestRow
        <3> QED
            BY <1>6, <2>1, <3>3 DEF ReadRevision, TypeOK
    <2>2. CASE ~Live(req[c].memo)
        BY <1>6, <2>2 DEF ReadRevision
    <2> QED
        BY <2>1, <2>2
<1>7. CASE Load(c)
    <2>1. Loaded(req[c].text) \in Text \union {NoText, Cut}
        BY DEF Loaded
    <2>2. [req[c] EXCEPT !.text = Loaded(req[c].text)] \in RequestRow
        BY <2>1, SMTT(30) DEF TypeOK, RequestRow
    <2> QED
        BY <1>7, <2>2 DEF Load, TypeOK, FirstStep
<1>8. CASE UpsertBlobMeta(c) \/ Commit(c) \/ Purge(c)
    BY <1>8 DEF UpsertBlobMeta, Commit, Purge
<1>9. CASE Drop(c)
    BY <1>9 DEF Drop, TypeOK, Freed
<1> QED
    BY <1>1, <1>2, <1>3, <1>4, <1>5, <1>6, <1>7, <1>8, <1>9 DEF CallStep

\* What only some steps change.
LEMMA WhatChanges ==
    ASSUME NEW c \in Call, Request(c) \/ CallStep(c) \/ Drop(c)
    PROVE  /\ ~ (Write(c) \/ Flush(c) \/ Orphan(c)) => files' = files
           /\ ~ (CountBlob(c) \/ UpsertBlobMeta(c) \/ Commit(c)) => blobs' = blobs
           /\ ~ (Commit(c) \/ Purge(c)) => memos' = memos /\ revisions' = revisions
           /\ ~ (InsertResource(c) \/ Purge(c)) => resources' = resources
           /\ ~ Flush(c) => torn' = torn
           /\ ~ Dedup(c) => together' = together
           /\ ~ (Request(c) /\ RequestText(c)) => sent' = sent
<1> USE DEF tables, history
<1>1. CASE Request(c)
    BY <1>1 DEF Request, RequestText, RequestNamed, RequestRead, Start
<1>2. CASE Summary(c) \/ Exists(c) \/ Write(c) \/ Flush(c) \/ Orphan(c)
    BY <1>2 DEF Summary, Exists, Write, Flush, Orphan
<1>3. CASE Dedup(c) \/ CountBlob(c) \/ InsertResource(c)
    BY <1>3 DEF Dedup, CountBlob, InsertResource
<1>4. CASE Enter(c) \/ ReadRevision(c)
    BY <1>4 DEF Enter, ReadRevision
<1>5. CASE Load(c)
    BY <1>5 DEF Load
<1>6. CASE UpsertBlobMeta(c) \/ Commit(c) \/ Purge(c) \/ Drop(c)
    BY <1>6 DEF UpsertBlobMeta, Commit, Purge, FilesLeft, Drop
<1> QED
    BY <1>1, <1>2, <1>3, <1>4, <1>5, <1>6 DEF CallStep

\* The request of a call fits the step it has come to.
LEMMA FitsStep ==
    ASSUME IInv, NEW c \in Call, Request(c) \/ CallStep(c) \/ Drop(c)
    PROVE  \A g \in Call : RequestFits(g)'
<1>0. TypeOK /\ RequestFits(c)
    BY DEF IInv
<1>1. ASSUME NEW g \in Call, g # c
      PROVE  RequestFits(g)'
    BY <1>0, <1>1, OneCallMoves DEF RequestFits, IInv
<1>2. RequestFits(c)'
    <2> USE <1>0, AnswerMoves, GoMoves, ContentsAssumption DEF Replies, Step, Held
    <2>0. pc'[c] \in {"idle", "done"} => RequestFits(c)'
        BY DEF RequestFits
    <2>1. CASE Request(c)
        BY <2>1 DEF Request, RequestText, RequestNamed, RequestRead, Start, RequestFits, TypeOK,
                    Saving, CanAccess
    <2>2. CASE Summary(c) \/ Exists(c) \/ Write(c)
        BY <2>2, <2>0 DEF Summary, Exists, Write, AfterPut, RequestFits, Saving
    <2>3. CASE Flush(c) \/ Orphan(c) \/ Dedup(c)
        BY <2>3, <2>0 DEF Flush, Orphan, Dedup, AfterPut, RequestFits, Saving
    <2>4. CASE CountBlob(c) \/ InsertResource(c)
        BY <2>4, <2>0 DEF CountBlob, InsertResource, RequestFits, TypeOK
    <2>5. CASE Enter(c)
        BY <2>5, <2>0 DEF Enter, FirstStep, RequestFits, TypeOK, Saving
    <2>6. CASE ReadRevision(c)
        <3>1. CASE pc'[c] = "load"
            <4>1. req'[c] = [req[c] EXCEPT !.base = memos[req[c].memo].version]
                BY <2>6, <3>1 DEF ReadRevision, TypeOK
            <4>2. req'[c].op = "revert" /\ req'[c].memo \in Memo
                  /\ req'[c].text \in Text \union {Cut}
                BY <2>6, <4>1 DEF ReadRevision, RequestFits, TypeOK, RequestRow
            <4> QED
                BY <3>1, <4>2 DEF RequestFits
        <3> QED
            BY <2>6, <2>0, <3>1 DEF ReadRevision, TypeOK
    <2>7. CASE Load(c)
        <3>1. CASE req' = [req EXCEPT ![c].text = Loaded(req[c].text)]
                   /\ Loaded(req[c].text) # NoText /\ req[c].op # "read"
                   /\ pc'[c] = IF req[c].op = "reuse" THEN FirstStep(Loaded(req[c].text)) ELSE "lock"
            <4>1. req'[c] = [req[c] EXCEPT !.text = Loaded(req[c].text)]
                BY <3>1 DEF TypeOK
            <4>2. Loaded(req[c].text) \in Text \union {Cut}
                BY <3>1 DEF Loaded
            <4>3. req'[c].op = req[c].op /\ req'[c].memo \in Memo
                  /\ req'[c].text = Loaded(req[c].text) /\ req[c].op \in {"reuse", "revert"}
                <5>1. pc[c] = "load" /\ req[c] \in RequestRow
                    BY <2>7 DEF Load, TypeOK
                <5>2. req[c].op \in {"read", "reuse", "revert"}
                      /\ (req[c].op # "read" => req[c].memo \in Memo)
                    BY <5>1 DEF RequestFits
                <5>3. req'[c].op = req[c].op /\ req'[c].memo = req[c].memo
                      /\ req'[c].text = Loaded(req[c].text)
                    BY <4>1, <5>1 DEF RequestRow
                <5> QED
                    BY <3>1, <5>2, <5>3
            <4> QED
                BY <3>1, <4>2, <4>3 DEF RequestFits, FirstStep, Saving
        <3> QED
            BY <2>7, <2>0, <3>1 DEF Load, TypeOK, RequestFits, Saving
    <2>8. CASE UpsertBlobMeta(c) \/ Commit(c) \/ Purge(c)
        <3>1. CASE UpsertBlobMeta(c)
            BY <3>1 DEF UpsertBlobMeta, RequestFits
        <3>2. CASE Commit(c) \/ Purge(c)
            BY <3>2, <2>0 DEF Commit, Purge
        <3> QED
            BY <2>8, <3>1, <3>2
    <2>9. CASE Drop(c)
        BY <2>9, <2>0 DEF Drop, RequestFits, TypeOK
    <2> QED
        BY <2>1, <2>2, <2>3, <2>4, <2>5, <2>6, <2>7, <2>8, <2>9 DEF CallStep
<1> QED
    BY <1>1, <1>2

\* The lock stays with the one call whose step needs it, and its memo stays there.
LEMMA LockStep ==
    ASSUME IInv, NEW c \in Call, Request(c) \/ CallStep(c) \/ Drop(c)
    PROVE  LockIsKept'
<1>0. TypeOK /\ RequestFits(c) /\ LockIsKept
    BY DEF IInv
<1>1. /\ Locked(c) <=> writer = c
      /\ Locked(c) /\ req[c].op \in {"save", "reuse", "revert"} => Live(req[c].memo)
    BY <1>0 DEF LockIsKept
<1>2. \/ /\ writer' = writer /\ (Locked(c)' <=> Locked(c))
         /\ Locked(c) => req'[c].op = req[c].op /\ req'[c].memo = req[c].memo
      \/ /\ writer' = c /\ writer = NoCall /\ Locked(c)' /\ memos' = memos
         /\ req'[c].op \in {"save", "reuse", "revert"} => Live(req'[c].memo)
      \/ writer' = Freed(c) /\ ~Locked(c)'
    <2> USE <1>0, <1>1, AnswerMoves, GoMoves, ContentsAssumption DEF Replies, Step, Held, Locked
    <2>0. pc'[c] = "done" => ~Locked(c)'
        OBVIOUS
    <2>1. CASE Request(c)
        BY <2>1 DEF Request, RequestText, RequestNamed, RequestRead, Start, TypeOK
    <2>2. CASE Summary(c) \/ Exists(c) \/ Write(c)
        BY <2>2, <2>0 DEF Summary, Exists, Write, AfterPut, RequestFits, Saving
    <2>3. CASE Flush(c) \/ Orphan(c) \/ Dedup(c)
        BY <2>3, <2>0 DEF Flush, Orphan, Dedup, AfterPut, RequestFits, Saving
    <2>4. CASE CountBlob(c) \/ InsertResource(c)
        BY <2>4, <2>0 DEF CountBlob, InsertResource, TypeOK, RequestFits
    <2>5. CASE Enter(c)
        BY <2>5, <2>0 DEF Enter, FirstStep, RequestFits, TypeOK, Saving, tables
    <2>6. CASE ReadRevision(c)
        <3>1. CASE Live(req[c].memo)
            <4>1. req'[c].op = req[c].op /\ pc'[c] = "load" /\ writer' = writer
                BY <2>6, <3>1 DEF ReadRevision, TypeOK, RequestRow
            <4> QED
                BY <2>6, <4>1 DEF ReadRevision, RequestFits
        <3> QED
            BY <2>6, <2>0, <3>1 DEF ReadRevision
    <2>7. CASE Load(c)
        <3>1. CASE req' = [req EXCEPT ![c].text = Loaded(req[c].text)]
                   /\ req[c].op # "read" /\ writer' = writer
                   /\ pc'[c] = IF req[c].op = "reuse" THEN FirstStep(Loaded(req[c].text)) ELSE "lock"
            <4>1. req'[c].op = req[c].op /\ req'[c].memo = req[c].memo
                BY <3>1 DEF TypeOK, RequestRow
            <4> QED
                BY <2>7, <3>1, <4>1 DEF Load, FirstStep
        <3> QED
            BY <2>7, <2>0, <3>1 DEF Load, TypeOK
    <2>8. CASE UpsertBlobMeta(c) \/ Commit(c) \/ Purge(c)
        BY <2>8, <2>0 DEF UpsertBlobMeta, Commit, Purge, RequestFits
    <2>9. CASE Drop(c)
        BY <2>9, <2>0 DEF Drop, TypeOK
    <2> QED
        BY <2>1, <2>2, <2>3, <2>4, <2>5, <2>6, <2>7, <2>8, <2>9 DEF CallStep
<1>3. \A g \in Call \ {c} : (Locked(g)' <=> Locked(g)) /\ req'[g] = req[g]
    BY <1>0, OneCallMoves DEF Locked
<1>4. \A g \in Call : Locked(g)' <=> writer' = g
    BY <1>0, <1>1, <1>2, <1>3, ContentsAssumption DEF LockIsKept, Freed
<1>5. ASSUME NEW g \in Call, Locked(g)'
      PROVE  memos' = memos
    <2>1. CASE Commit(c)
        <3>1. Locked(c) /\ pc'[c] = "done"
            BY <1>0, <2>1, AnswerMoves DEF Commit, Locked, Held, Replies
        <3> QED
            BY <1>0, <1>1, <1>3, <1>5, <3>1 DEF LockIsKept, Locked, Held
    <2>2. CASE Purge(c)
        <3>1. writer = NoCall /\ pc'[c] = "done"
            BY <1>0, <2>2, AnswerMoves DEF Purge, Replies
        <3> QED
            BY <1>0, <1>3, <1>5, <3>1, ContentsAssumption DEF LockIsKept, Locked, Held
    <2> QED
        BY <2>1, <2>2, WhatChanges
<1>6. ASSUME NEW g \in Call, Locked(g)', req'[g].op \in {"save", "reuse", "revert"}
      PROVE  Live(req[g].memo)'
    <2>1. Live(req'[g].memo)
        <3>1. CASE g = c
            BY <1>1, <1>2, <1>6, <3>1
        <3>2. CASE g # c
            BY <1>0, <1>3, <1>6, <3>2 DEF LockIsKept
        <3> QED
            BY <3>1, <3>2
    <2> QED
        BY <1>5, <1>6, <2>1 DEF Live
<1> QED
    BY <1>4, <1>6 DEF LockIsKept

\* The tables keep their types.
LEMMA TypeStep ==
    ASSUME IInv, NEW c \in Call, Request(c) \/ CallStep(c) \/ Drop(c)
    PROVE  TypeOK'
<1> DEFINE r == req[c]
<1>0. TypeOK /\ RequestFits(c) /\ LockIsKept /\ TextIfLive
    BY DEF IInv
<1>1. files' \in [Text -> {"none", "part", "whole"}]
    <2>1. CASE Write(c) \/ Flush(c) \/ Orphan(c)
        BY <1>0, <2>1 DEF TypeOK, Write, Flush, Orphan
    <2> QED
        BY <1>0, <2>1, WhatChanges DEF TypeOK
<1>2. blobs' \in [Text -> BlobRow]
    <2>1. \A t \in Text : blobs[t] \in BlobRow /\ blobs[t].refs \in Nat /\ blobs[t].kept \in BOOLEAN
        BY <1>0 DEF TypeOK, BlobRow
    <2>2. CASE CountBlob(c)
        <3>1. r.text \in Text
            BY <1>0, <2>2 DEF CountBlob, RequestFits
        <3>2. [kept |-> TRUE, refs |-> blobs[r.text].refs + 1] \in BlobRow
            BY <2>1, <3>1 DEF BlobRow
        <3> QED
            BY <1>0, <2>2, <3>2 DEF TypeOK, CountBlob
    <2>3. CASE UpsertBlobMeta(c)
        <3>1. r.text \in Text
            BY <1>0, <2>3, ContentsAssumption DEF UpsertBlobMeta, RequestFits
        <3>2. [blobs[r.text] EXCEPT !.kept = TRUE] \in BlobRow
            BY <2>1, <3>1 DEF BlobRow
        <3> QED
            BY <1>0, <2>3, <3>2 DEF TypeOK, UpsertBlobMeta
    <2>4. CASE Commit(c)
        <3>1. ASSUME r.text \in Large
              PROVE  Counted(r.text) \in BlobRow
            BY <2>1, <3>1, ContentsAssumption DEF Counted, BlobRow
        <3> QED
            BY <1>0, <2>4, <3>1 DEF TypeOK, Commit
    <2> QED
        BY <1>0, <2>2, <2>3, <2>4, WhatChanges DEF TypeOK
<1>3. memos' \in [Memo -> MemoRow] /\ revisions' \in [Memo -> SUBSET (Text \union {Cut})]
    <2>1. CASE Commit(c)
        <3>1. r.op \in Saving /\ r.memo \in Memo /\ r.text \in Text \union {Cut}
            BY <1>0, <2>1 DEF Commit, RequestFits
        <3>2. memos[r.memo].version + 1 \in Nat
            BY <1>0, <3>1 DEF TypeOK, MemoRow
        <3>3. [state |-> "live", text |-> r.text, version |-> memos[r.memo].version + 1] \in MemoRow
            BY <3>1, <3>2 DEF MemoRow
        <3>4. memos' \in [Memo -> MemoRow]
            BY <1>0, <2>1, <3>3 DEF TypeOK, Commit
        <3>5. r.op # "create" => memos[r.memo].text \in Text \union {Cut}
            <4>1. r.op # "create" => Live(r.memo)
                BY <1>0, <2>1, <3>1 DEF Commit, LockIsKept, Locked, Held, Saving
            <4> QED
                BY <1>0, <3>1, <4>1 DEF TextIfLive, TypeOK, MemoRow
        <3>6. revisions' \in [Memo -> SUBSET (Text \union {Cut})]
            BY <1>0, <2>1, <3>5 DEF TypeOK, Commit
        <3> QED
            BY <3>4, <3>6
    <2>2. CASE Purge(c)
        <3>1. r.memo \in Memo
            BY <1>0, <2>2 DEF Purge, RequestFits
        <3>2. memos[r.memo] \in MemoRow
            BY <1>0, <3>1 DEF TypeOK
        <3>3. [memos[r.memo] EXCEPT !.state = "purged", !.text = NoText] \in MemoRow
            BY <3>2 DEF MemoRow
        <3> QED
            BY <1>0, <2>2, <3>3 DEF TypeOK, Purge
    <2> QED
        BY <1>0, <2>1, <2>2, WhatChanges DEF TypeOK
<1>4. resources' \in [Call -> ResourceRow]
    <2>1. CASE InsertResource(c)
        <3>1. r.memo \in Memo /\ r.text \in Text
            BY <1>0, <2>1 DEF InsertResource, RequestFits
        <3>2. [text |-> r.text, memo |-> r.memo, space |-> SpaceOf[r.memo]] \in ResourceRow
            BY <3>1, ContentsAssumption DEF ResourceRow
        <3> QED
            BY <1>0, <2>1, <3>2 DEF TypeOK, InsertResource
    <2>2. CASE Purge(c)
        <3>1. \A g \in Call : [resources[g] EXCEPT !.memo = NoMemo] \in ResourceRow
            BY <1>0 DEF TypeOK, ResourceRow
        <3> QED
            BY <1>0, <2>2, <3>1 DEF TypeOK, Purge
    <2> QED
        BY <1>0, <2>1, <2>2, WhatChanges DEF TypeOK
<1>5. torn' \subseteq Text /\ together' \subseteq SUBSET Call /\ sent' \subseteq Space \X Text
    <2>1. torn' \subseteq Text
        <3>1. CASE Flush(c)
            BY <1>0, <3>1 DEF TypeOK, Flush, RequestFits
        <3> QED
            BY <1>0, <3>1, WhatChanges DEF TypeOK
    <2>2. together' \subseteq SUBSET Call
        <3>1. CASE Dedup(c)
            BY <1>0, <3>1 DEF TypeOK, Dedup
        <3> QED
            BY <1>0, <3>1, WhatChanges DEF TypeOK
    <2>3. sent' \subseteq Space \X Text
        <3>1. CASE RequestText(c)
            <4>1. \A m \in Memo, t \in Text : <<SpaceOf[m], t>> \in Space \X Text
                BY ContentsAssumption
            <4> QED
                BY <1>0, <3>1, <4>1 DEF TypeOK, RequestText
        <3> QED
            BY <1>0, <3>1, WhatChanges DEF TypeOK
    <2> QED
        BY <2>1, <2>2, <2>3
<1>6. writer' # NoCall => pc'[writer'] \in Held \union {"exists", "write", "flush", "load"}
    BY CallTypes, LockStep DEF LockIsKept, Locked
<1> QED
    BY <1>1, <1>2, <1>3, <1>4, <1>5, <1>6, CallTypes DEF TypeOK

\* A call that has not ended keeps its request, but for the text it finds in a torn file.
LEMMA RequestStays ==
    ASSUME IInv, NEW c \in Call, CallStep(c) \/ Drop(c), pc'[c] # "done"
    PROVE  /\ pc[c] \notin {"idle", "orphan", "done"} /\ reply'[c] = reply[c]
           /\ req'[c].op = req[c].op /\ req'[c].memo = req[c].memo
           /\ \/ req'[c].text = req[c].text
              \/ pc[c] = "load" /\ req[c].op # "read" /\ req'[c].text = Cut
           /\ pc[c] = "load" /\ pc'[c] # "lock" => HasFile(req[c].text) /\ req[c].op = "reuse"
<1>0. TypeOK
    BY DEF IInv
<1> USE <1>0, AnswerMoves, GoMoves DEF Replies, Step, Held
<1>1. CASE Load(c)
    <2>1. CASE /\ req' = [req EXCEPT ![c].text = Loaded(req[c].text)]
               /\ Loaded(req[c].text) # NoText /\ req[c].op # "read"
        <3>1. req'[c] = [req[c] EXCEPT !.text = Loaded(req[c].text)]
            BY <2>1 DEF TypeOK
        <3>2. /\ req'[c].op = req[c].op /\ req'[c].memo = req[c].memo
              /\ req'[c].text = Loaded(req[c].text)
            BY <3>1 DEF TypeOK, RequestRow
        <3> QED
            <4>1. pc[c] = "load" /\ reply'[c] = reply[c]
                BY <1>1, <2>1 DEF Load
            <4>2. pc'[c] # "lock" => req[c].op = "reuse"
                BY <1>1, <2>1 DEF Load, TypeOK
            <4>3. HasFile(req[c].text) /\ Loaded(req[c].text) \in {req[c].text, Cut}
                BY <2>1 DEF Loaded, HasFile
            <4> QED
                BY <2>1, <3>2, <4>1, <4>2, <4>3
    <2>2. CASE ~(/\ req' = [req EXCEPT ![c].text = Loaded(req[c].text)]
                 /\ Loaded(req[c].text) # NoText /\ req[c].op # "read")
        <3>1. Go(c, "lock")
            BY <1>1, <2>2 DEF Load
        <3> QED
            BY <1>1, <3>1 DEF Load
    <2> QED
        BY <2>1, <2>2
<1>2. CASE ReadRevision(c)
    <2>1. CASE Live(req[c].memo)
        <3>1. req'[c] = [req[c] EXCEPT !.base = memos[req[c].memo].version]
            BY <1>2, <2>1 DEF ReadRevision, TypeOK
        <3> QED
            BY <1>2, <2>1, <3>1 DEF ReadRevision, TypeOK, RequestRow
    <2> QED
        BY <1>2, <2>1 DEF ReadRevision
<1>3. CASE Summary(c) \/ Exists(c) \/ Write(c) \/ Flush(c) \/ Orphan(c) \/ Dedup(c)
    BY <1>3 DEF Summary, Exists, Write, Flush, Orphan, Dedup, AfterPut
<1>4. CASE CountBlob(c) \/ InsertResource(c) \/ Enter(c)
    BY <1>4 DEF CountBlob, InsertResource, Enter, TypeOK
<1>5. CASE UpsertBlobMeta(c) \/ Commit(c) \/ Purge(c) \/ Drop(c)
    BY <1>5 DEF UpsertBlobMeta, Commit, Purge, Drop
<1> QED
    BY <1>1, <1>2, <1>3, <1>4, <1>5 DEF CallStep

\* A memo that is there has a text.
LEMMA TextStep ==
    ASSUME IInv, NEW c \in Call, Request(c) \/ CallStep(c) \/ Drop(c)
    PROVE  TextIfLive'
<1>0. TypeOK /\ RequestFits(c) /\ TextIfLive
    BY DEF IInv
<1>1. CASE Commit(c)
    BY <1>0, <1>1, ContentsAssumption DEF Commit, RequestFits, TextIfLive, Live, TypeOK
<1>2. CASE Purge(c)
    <2>1. req[c].memo \in Memo
        BY <1>0, <1>2 DEF Purge, RequestFits
    <2>2. memos[req[c].memo] \in MemoRow
        BY <1>0, <2>1 DEF TypeOK
    <2> DEFINE gone == [memos[req[c].memo] EXCEPT !.state = "purged", !.text = NoText]
    <2>4. gone.state = "purged" /\ gone.text = NoText
        BY <2>2 DEF MemoRow
    <2>5. memos' = [memos EXCEPT ![req[c].memo] = gone]
        BY <1>2 DEF Purge
    <2> QED
        BY <1>0, <2>1, <2>4, <2>5 DEF TextIfLive, Live, TypeOK
<1>3. CASE ~Commit(c) /\ ~Purge(c)
    BY <1>0, <1>3, WhatChanges DEF TextIfLive, Live
<1> QED
    BY <1>1, <1>2, <1>3

\* No file is lost.
LEMMA FilesGrow ==
    ASSUME IInv, NEW c \in Call, Request(c) \/ CallStep(c) \/ Drop(c), NEW t, HasFile(t)
    PROVE  HasFile(t)'
<1>0. TypeOK
    BY DEF IInv
<1>1. CASE Write(c) \/ Flush(c) \/ Orphan(c)
    BY <1>0, <1>1 DEF Write, Flush, Orphan, HasFile, TypeOK
<1> QED
    BY <1>1, WhatChanges DEF HasFile

\* A file that is not whole is being written or was cut short.
LEMMA PartStep ==
    ASSUME IInv, NEW c \in Call, Request(c) \/ CallStep(c) \/ Drop(c)
    PROVE  PartIsExplained'
<1>0. TypeOK /\ RequestFits(c) /\ PartIsExplained
    BY DEF IInv
<1> SUFFICES ASSUME NEW t \in Text, files'[t] = "part"
             PROVE  \/ t \in torn'
                    \/ \E g \in Call : pc'[g] \in {"flush", "orphan"} /\ req'[g].text = t
    BY DEF PartIsExplained
<1> USE <1>0, AnswerMoves, GoMoves DEF Replies, Step
<1>1. CASE Write(c) /\ req[c].text = t
    BY <1>1 DEF Write
<1>2. CASE ~(Write(c) /\ req[c].text = t)
    <2>1. files[t] = "part"
        <3>1. CASE Write(c) \/ Flush(c) \/ Orphan(c)
            BY <1>2, <3>1 DEF Write, Flush, Orphan, TypeOK
        <3> QED
            BY <3>1, WhatChanges
    <2>2. torn \subseteq torn'
        <3>1. CASE Flush(c)
            BY <3>1 DEF Flush
        <3> QED
            BY <3>1, WhatChanges
    <2>3. CASE t \in torn
        BY <2>2, <2>3
    <2>4. ASSUME NEW g \in Call, pc[g] \in {"flush", "orphan"}, req[g].text = t, g # c
          PROVE  pc'[g] \in {"flush", "orphan"} /\ req'[g].text = t
        BY <2>4, OneCallMoves
    <2>5. ASSUME pc[c] \in {"flush", "orphan"}, req[c].text = t
          PROVE  t \in torn' \/ (pc'[c] \in {"flush", "orphan"} /\ req'[c].text = t)
        <3>1. Flush(c) \/ Orphan(c) \/ Drop(c)
            BY <2>5 DEF Request, CallStep, Summary, Exists, Write, Dedup, CountBlob, InsertResource,
                        Enter, ReadRevision, Load, UpsertBlobMeta, Commit, Purge
        <3>2. CASE Flush(c)
            BY <2>5, <3>2 DEF Flush, TypeOK
        <3>3. CASE Orphan(c)
            BY <2>5, <3>3 DEF Orphan, TypeOK
        <3>4. CASE Drop(c)
            BY <2>5, <3>4 DEF Drop, TypeOK
        <3> QED
            BY <3>1, <3>2, <3>3, <3>4
    <2> QED
        BY <2>1, <2>3, <2>4, <2>5 DEF PartIsExplained
<1> QED
    BY <1>1, <1>2

\* A hash that may be accessed has a file, and the workspace has sent its text.
LEMMA AccessHasFile ==
    ASSUME IInv, NEW space \in Space, NEW t \in Text \union {NoText, Cut}, CanAccess(space, t)
    PROVE  HasFile(t) /\ <<space, t>> \in sent
<1>0. TypeOK /\ TextIfLive /\ ReferredHasFile /\ OwnSent
    BY DEF IInv
<1>1. CASE \E m \in Memo : SpaceOf[m] = space /\ memos[m].text = t /\ t \in Large
    <2>1. PICK m \in Memo : SpaceOf[m] = space /\ memos[m].text = t /\ t \in Large
        BY <1>1
    <2>2. t \in Text /\ t # Cut /\ t # NoText /\ Referrers(t) # {}
        BY <2>1, ContentsAssumption DEF Referrers
    <2>3. Live(m) /\ Sent(m, t)
        BY <1>0, <2>1, <2>2 DEF TextIfLive, OwnSent
    <2> QED
        BY <1>0, <2>1, <2>2, <2>3 DEF ReferredHasFile, Sent
<1>2. CASE \E g \in Call : Made(g) /\ resources[g].space = space /\ resources[g].text = t
    <2>1. PICK g \in Call : Made(g) /\ resources[g].space = space /\ resources[g].text = t
        BY <1>2
    <2>2. t \in Text /\ Referrers(t) # {}
        BY <1>0, <2>1 DEF Made, TypeOK, ResourceRow, Referrers
    <2> QED
        BY <1>0, <2>1, <2>2 DEF ReferredHasFile, OwnSent
<1> QED
    BY <1>1, <1>2 DEF CanAccess

\* A purge makes nothing refer to a text.
LEMMA PurgeRefers ==
    ASSUME IInv, NEW c \in Call, Purge(c)
    PROVE  /\ \A t \in Text : Referrers(t)' \subseteq Referrers(t)
           /\ \A m \in Memo : Live(m)' => memos'[m] = memos[m]
           /\ \A g \in Call : /\ resources'[g].text = resources[g].text
                              /\ resources'[g].space = resources[g].space
<1>0. TypeOK /\ RequestFits(c)
    BY DEF IInv
<1> DEFINE m == req[c].memo
           gone == [memos[m] EXCEPT !.state = "purged", !.text = NoText]
<1>1. m \in Memo /\ memos[m] \in MemoRow
    BY <1>0 DEF Purge, RequestFits, TypeOK
<1>2. gone.state = "purged" /\ gone.text = NoText
    BY <1>1 DEF MemoRow
<1>3. memos' = [memos EXCEPT ![m] = gone]
    BY DEF Purge
<1>4. \A n \in Memo : memos'[n] = IF n = m THEN gone ELSE memos[n]
    BY <1>0, <1>1, <1>3 DEF TypeOK
<1>5. \A n \in Memo : Live(n)' => memos'[n] = memos[n]
    BY <1>2, <1>4 DEF Live
<1>6. \A g \in Call : /\ resources'[g].text = resources[g].text
                      /\ resources'[g].space = resources[g].space
    <2>1. ASSUME NEW g \in Call
          PROVE  LET r == [resources[g] EXCEPT !.memo = NoMemo] IN
                 r.text = resources[g].text /\ r.space = resources[g].space
        BY <1>0 DEF TypeOK, ResourceRow
    <2> QED
        BY <2>1 DEF Purge
<1>7. \A t \in Text : Referrers(t)' \subseteq Referrers(t)
    BY <1>2, <1>4, <1>6, ContentsAssumption, ZenonT(60) DEF Referrers
<1> QED
    BY <1>5, <1>6, <1>7

\* A row of content_blobs stays, and counts what is inserted and what is saved.
LEMMA BlobsGrow ==
    ASSUME IInv, NEW c \in Call, Request(c) \/ CallStep(c) \/ Drop(c), NEW t \in Text
    PROVE  /\ blobs[t].kept => blobs'[t].kept
           /\ CountBlob(c) /\ req[c].text = t => blobs'[t].kept
           /\ blobs'[t].refs = IF /\ req[c].text = t
                                  /\ CountBlob(c) \/ (Commit(c) /\ t \in Large)
                               THEN blobs[t].refs + 1 ELSE blobs[t].refs
<1>0. TypeOK /\ blobs[t] \in BlobRow
    BY DEF IInv, TypeOK
<1>1. CASE CountBlob(c)
    <2>1. blobs' = [blobs EXCEPT ![req[c].text] =
                        [kept |-> TRUE, refs |-> blobs[req[c].text].refs + 1]]
        BY <1>1 DEF CountBlob
    <2> QED
        BY <1>0, <1>1, <2>1 DEF TypeOK
<1>2. CASE UpsertBlobMeta(c)
    <2>1. blobs' = [blobs EXCEPT ![req[c].text] = [blobs[req[c].text] EXCEPT !.kept = TRUE]]
          /\ pc[c] = "meta"
        BY <1>2 DEF UpsertBlobMeta
    <2>2. LET b == [blobs[t] EXCEPT !.kept = TRUE] IN b.kept /\ b.refs = blobs[t].refs
        BY <1>0 DEF BlobRow
    <2>3. ~CountBlob(c) /\ ~Commit(c)
        BY <2>1 DEF CountBlob, Commit
    <2> QED
        BY <1>0, <2>1, <2>2, <2>3 DEF TypeOK
<1>3. CASE Commit(c)
    <2>1. LET b == Counted(t) IN b.kept = blobs[t].kept /\ b.refs = blobs[t].refs + 1
        BY <1>0 DEF BlobRow, Counted
    <2>2. ~CountBlob(c)
        BY <1>3 DEF Commit, CountBlob
    <2> QED
        BY <1>0, <1>3, <2>1, <2>2 DEF Commit, TypeOK
<1>4. CASE ~CountBlob(c) /\ ~UpsertBlobMeta(c) /\ ~Commit(c)
    BY <1>4, WhatChanges
<1> QED
    BY <1>1, <1>2, <1>3, <1>4

\* What a call has put or been let in to has a file by the step after, too.
LEMMA CallFileStep ==
    ASSUME IInv, NEW c \in Call, Request(c) \/ CallStep(c) \/ Drop(c)
    PROVE  \A g \in Call : CallHasFile(g)'
<1>0. TypeOK /\ RequestFits(c) /\ ReferredHasFile /\ CallHasFile(c)
    BY DEF IInv, ReferredHasFile
<1>1. ASSUME NEW g \in Call, g # c
      PROVE  CallHasFile(g)'
    <2>1. pc'[g] = pc[g] /\ req'[g] = req[g] /\ CallHasFile(g)
        BY <1>0, <1>1, OneCallMoves DEF ReferredHasFile
    <2>2. \A t : HasFile(t) => t \in Text /\ files'[t] # "none"
        BY FilesGrow DEF HasFile
    <2>3. \A t \in Text : blobs[t].kept => blobs'[t].kept
        BY BlobsGrow
    <2> QED
        BY <2>1, <2>2, <2>3 DEF CallHasFile, HasFile
<1>2. CallHasFile(c)'
    <2> USE <1>0, AnswerMoves, GoMoves, ContentsAssumption DEF Replies, Step, Held
    <2>0. pc'[c] \in {"idle", "done", "summary", "exists", "write", "lock"} => CallHasFile(c)'
        BY DEF CallHasFile
    <2>1. CASE Request(c)
        <3>1. CASE RequestText(c)
            BY <2>0, <3>1 DEF RequestText, Start, TypeOK
        <3>2. CASE RequestRead(c)
            <4>1. PICK space \in Space, t \in Text :
                        CanAccess(space, t) /\ Start(c, "read", "load", NoMemo, t)
                BY <3>2 DEF RequestRead
            <4>2. files' = files /\ pc'[c] = "load" /\ req'[c].text = t /\ req'[c].op = "read"
                BY <4>1 DEF Start, TypeOK
            <4>3. HasFile(t)
                BY <4>1, AccessHasFile
            <4> QED
                BY <4>2, <4>3 DEF CallHasFile, HasFile
        <3>3. CASE RequestNamed(c)
            <4>1. CASE \E m \in Memo : \E t \in revisions[m] : Start(c, "revert", "revision", m, t)
                <5>1. PICK m \in Memo : \E t \in revisions[m] : Start(c, "revert", "revision", m, t)
                    BY <4>1
                <5>2. PICK t \in revisions[m] : Start(c, "revert", "revision", m, t)
                    BY <5>1
                <5>3. files' = files /\ pc'[c] = "revision" /\ req'[c].text = t
                    BY <5>2 DEF Start, TypeOK
                <5> QED
                    BY <5>3 DEF CallHasFile, HasFile, ReferredHasFile
            <4> QED
                BY <2>0, <3>3, <4>1 DEF RequestNamed, Start, TypeOK
        <3> QED
            BY <2>1, <3>1, <3>2, <3>3 DEF Request
    <2>2. CASE Summary(c) \/ Write(c) \/ Orphan(c)
        BY <2>0, <2>2 DEF Summary, Write, Orphan, CallHasFile, HasFile, RequestFits, TypeOK
    <2>3. CASE Exists(c)
        BY <2>0, <2>3 DEF Exists, AfterPut, CallHasFile, HasFile, RequestFits
    <2>4. CASE Flush(c)
        BY <2>0, <2>4 DEF Flush, AfterPut, CallHasFile, HasFile, RequestFits, TypeOK
    <2>5. CASE Dedup(c) \/ CountBlob(c) \/ InsertResource(c)
        BY <2>0, <2>5 DEF Dedup, CountBlob, InsertResource, CallHasFile, HasFile, TypeOK
    <2>6. CASE Enter(c)
        <3>1. CASE pc'[c] = "load"
            <4>1. req[c].op = "reuse" /\ req' = req /\ files' = files
                  /\ CanAccess(SpaceOf[req[c].memo], req[c].text)
                BY <2>6, <3>1 DEF Enter, FirstStep, TypeOK
            <4>2. HasFile(req[c].text)
                BY <2>6, <4>1, AccessHasFile DEF Enter, RequestFits
            <4> QED
                BY <3>1, <4>1, <4>2 DEF CallHasFile, HasFile
        <3>2. CASE pc'[c] # "load"
            BY <2>0, <2>6, <3>2 DEF Enter, FirstStep, CallHasFile, TypeOK
        <3> QED
            BY <3>1, <3>2
    <2>7. CASE ReadRevision(c)
        <3>1. CASE pc'[c] = "load"
            <4>1. pc[c] = "revision" /\ files' = files
                BY <2>7 DEF ReadRevision
            <4>2. req'[c].op = "revert" /\ req'[c].text = req[c].text
                BY <2>7, <3>1, <4>1, RequestStays DEF CallStep, RequestFits
            <4> QED
                BY <3>1, <4>1, <4>2 DEF CallHasFile, HasFile
        <3> QED
            BY <2>0, <2>7, <3>1 DEF ReadRevision, TypeOK
    <2>8. CASE Load(c)
        <3>1. pc'[c] \in {"done", "lock", "exists"} \/ (pc'[c] = "commit" /\ req'[c].text \notin Large)
            <4>1. CASE pc'[c] \in {"done", "lock"}
                BY <4>1
            <4>2. CASE pc'[c] \notin {"done", "lock"}
                <5>1. req' = [req EXCEPT ![c].text = Loaded(req[c].text)]
                      /\ pc'[c] = FirstStep(Loaded(req[c].text))
                    BY <2>8, <4>2 DEF Load, TypeOK
                <5>2. req'[c] = [req[c] EXCEPT !.text = Loaded(req[c].text)]
                    BY <5>1 DEF TypeOK
                <5>3. req'[c].text = Loaded(req[c].text)
                    BY <5>2 DEF TypeOK, RequestRow
                <5> QED
                    BY <5>1, <5>3 DEF FirstStep
            <4> QED
                BY <4>1, <4>2
        <3> QED
            BY <2>0, <3>1 DEF CallHasFile
    <2>9. CASE UpsertBlobMeta(c)
        <3>1. pc'[c] = "commit" /\ req' = req /\ files' = files /\ req[c].text \in Text
              /\ HasFile(req[c].text)
            BY <2>9 DEF UpsertBlobMeta, RequestFits, CallHasFile
        <3>2. blobs[req[c].text] \in BlobRow
            BY <3>1 DEF TypeOK
        <3>3. blobs' = [blobs EXCEPT ![req[c].text] = [blobs[req[c].text] EXCEPT !.kept = TRUE]]
            BY <2>9 DEF UpsertBlobMeta
        <3>4. blobs'[req[c].text].kept
            BY <3>1, <3>2, <3>3 DEF TypeOK, BlobRow
        <3> QED
            BY <3>1, <3>4 DEF CallHasFile, HasFile
    <2>10. CASE Commit(c) \/ Purge(c)
        BY <2>0, <2>10 DEF Commit, Purge
    <2>11. CASE Drop(c)
        BY <2>0, <2>11 DEF Drop, CallHasFile, HasFile, TypeOK
    <2> QED
        BY <2>1, <2>2, <2>3, <2>4, <2>5, <2>6, <2>7, <2>8, <2>9, <2>10, <2>11 DEF CallStep
<1> QED
    BY <1>1, <1>2

\* What is referred to has a file: it was put, or reused, before it came to be referred to.
LEMMA FileStep ==
    ASSUME IInv, NEW c \in Call, Request(c) \/ CallStep(c) \/ Drop(c)
    PROVE  ReferredHasFile'
<1>0. TypeOK /\ RequestFits(c) /\ ReferredHasFile /\ CallHasFile(c)
    BY DEF IInv, ReferredHasFile
<1>1. ASSUME NEW t \in Text, Referrers(t)' # {}
      PROVE  HasFile(t)
    <2>1. CASE Commit(c)
        <3>1. Referrers(t)' \subseteq Referrers(t) \union {m \in {req[c].memo} : t = req[c].text /\ t \in Large}
            BY <1>0, <2>1 DEF Commit, Referrers, RequestFits, TypeOK
        <3> QED
            BY <1>0, <1>1, <2>1, <3>1 DEF Commit, CallHasFile, ReferredHasFile
    <2>2. CASE InsertResource(c)
        <3>1. Referrers(t)' \subseteq Referrers(t) \union {g \in {c} : t = req[c].text}
            BY <1>0, <2>2 DEF InsertResource, Referrers, TypeOK
        <3> QED
            BY <1>0, <1>1, <2>2, <3>1 DEF InsertResource, CallHasFile, ReferredHasFile
    <2>3. CASE Purge(c)
        BY <1>0, <1>1, <2>3, PurgeRefers DEF ReferredHasFile
    <2>4. CASE ~Commit(c) /\ ~InsertResource(c) /\ ~Purge(c)
        BY <1>0, <1>1, <2>4, WhatChanges DEF ReferredHasFile, Referrers
    <2> QED
        BY <2>1, <2>2, <2>3, <2>4
<1>2. ASSUME NEW m \in Memo, NEW t \in revisions'[m] \intersect Large
      PROVE  HasFile(t)
    <2>1. CASE Commit(c)
        <3>1. t \in revisions[m] \/ t = memos[m].text
            BY <1>0, <1>2, <2>1 DEF Commit, RequestFits, TypeOK
        <3> QED
            BY <1>0, <1>2, <3>1, ContentsAssumption DEF ReferredHasFile, Referrers
    <2>2. CASE Purge(c)
        BY <1>0, <1>2, <2>2 DEF Purge, RequestFits, TypeOK, ReferredHasFile
    <2> QED
        BY <1>0, <1>2, <2>1, <2>2, WhatChanges DEF ReferredHasFile
<1> QED
    BY <1>1, <1>2, CallFileStep, FilesGrow DEF ReferredHasFile

\* A call comes to make a resource by Dedup, and to insert it by CountBlob.
LEMMA ComesFrom ==
    ASSUME IInv, NEW c \in Call, Request(c) \/ CallStep(c) \/ Drop(c)
    PROVE  /\ pc'[c] = "row" => Dedup(c)
           /\ pc'[c] = "insert" => CountBlob(c)
<1>0. TypeOK
    BY DEF IInv
<1> USE <1>0, AnswerMoves, GoMoves DEF Replies, Step, Held
<1>1. CASE Request(c)
    BY <1>1 DEF Request, RequestText, RequestNamed, RequestRead, Start, TypeOK
<1>2. CASE Summary(c) \/ Exists(c) \/ Write(c) \/ Flush(c) \/ Orphan(c)
    BY <1>2 DEF Summary, Exists, Write, Flush, Orphan, AfterPut
<1>3. CASE Dedup(c)
    BY <1>3 DEF Dedup
<1>4. CASE CountBlob(c)
    BY <1>4 DEF CountBlob, TypeOK
<1>5. CASE InsertResource(c) \/ UpsertBlobMeta(c) \/ Commit(c) \/ Purge(c)
    <2>1. CASE InsertResource(c) \/ UpsertBlobMeta(c)
        BY <2>1 DEF InsertResource, UpsertBlobMeta
    <2>2. CASE Commit(c) \/ Purge(c)
        BY <2>2 DEF Commit, Purge
    <2> QED
        BY <1>5, <2>1, <2>2
<1>6. CASE Enter(c) \/ ReadRevision(c) \/ Load(c)
    <2>1. CASE Enter(c)
        BY <2>1 DEF Enter, FirstStep, TypeOK
    <2>2. CASE ReadRevision(c)
        BY <2>2 DEF ReadRevision, TypeOK
    <2>3. CASE Load(c)
        BY <2>3 DEF Load, FirstStep, TypeOK
    <2> QED
        BY <1>6, <2>1, <2>2, <2>3
<1>7. CASE Drop(c)
    BY <1>7 DEF Drop, TypeOK
<1> QED
    BY <1>1, <1>2, <1>3, <1>4, <1>5, <1>6, <1>7 DEF CallStep

\* What the clients of a workspace have sent is all its memos and resources come to hold.
LEMMA OwnStep ==
    ASSUME IInv, NEW c \in Call, Request(c) \/ CallStep(c) \/ Drop(c)
    PROVE  OwnSent'
<1> DEFINE r == req[c]
<1>0. TypeOK /\ RequestFits(c) /\ OwnSent
    BY DEF IInv
<1>1. sent \subseteq sent'
    <2>1. CASE RequestText(c)
        BY <2>1 DEF RequestText
    <2> QED
        BY <2>1, WhatChanges
<1>2. \A m, t : Sent(m, t) => t = Cut \/ <<SpaceOf[m], t>> \in sent'
    BY <1>1 DEF Sent
<1>3. pc[c] \notin {"idle", "orphan", "done"} /\ r.op \in Saving \union {"upload"}
      /\ ~ (pc[c] = "lock" /\ r.op = "reuse")
      => Sent(r.memo, r.text)
    BY <1>0 DEF OwnSent
<1>4. ASSUME Commit(c)
      PROVE  /\ r.memo \in Memo /\ Sent(r.memo, r.text)
             /\ r.op # "create" => Sent(r.memo, memos[r.memo].text)
    <2>1. pc[c] = "commit" /\ r.op \in Saving /\ r.memo \in Memo
        BY <1>0, <1>4 DEF Commit, RequestFits
    <2>2. r.op # "create" => Live(r.memo)
        BY <2>1 DEF IInv, LockIsKept, Locked, Held, Saving
    <2> QED
        BY <1>0, <1>3, <2>1, <2>2 DEF OwnSent
<1>5. ASSUME NEW m \in Memo, Live(m)'
      PROVE  Sent(m, memos[m].text)'
    <2>1. Sent(m, memos'[m].text)
        <3>1. CASE Commit(c)
            BY <1>0, <1>4, <1>5, <3>1 DEF Commit, OwnSent, Live, TypeOK
        <3>2. CASE Purge(c)
            BY <1>0, <1>5, <3>2, PurgeRefers DEF OwnSent, Live
        <3> QED
            BY <1>0, <1>5, <3>1, <3>2, WhatChanges DEF OwnSent, Live
    <2> QED
        BY <1>2, <2>1 DEF Sent
<1>6. ASSUME NEW m \in Memo, NEW t \in revisions'[m]
      PROVE  Sent(m, t)'
    <2>1. Sent(m, t)
        <3>1. CASE Commit(c)
            BY <1>0, <1>4, <1>6, <3>1 DEF Commit, OwnSent, TypeOK
        <3>2. CASE Purge(c)
            BY <1>0, <1>6, <3>2 DEF Purge, RequestFits, OwnSent, TypeOK
        <3> QED
            BY <1>0, <1>6, <3>1, <3>2, WhatChanges DEF OwnSent
    <2> QED
        BY <1>2, <2>1 DEF Sent
<1>7. ASSUME NEW g \in Call, Made(g)'
      PROVE  <<resources'[g].space, resources'[g].text>> \in sent'
    <2>1. <<resources'[g].space, resources'[g].text>> \in sent
        <3>1. CASE InsertResource(c) /\ g = c
            <4>1. pc[c] = "insert" /\ r.op = "upload" /\ r.text \in Text
                BY <1>0, <3>1 DEF InsertResource, RequestFits
            <4>2. <<SpaceOf[r.memo], r.text>> \in sent
                BY <1>3, <4>1, ContentsAssumption DEF Sent
            <4>3. CASE Live(r.memo)
                BY <1>0, <3>1, <4>2, <4>3 DEF InsertResource, TypeOK
            <4>4. CASE ~Live(r.memo)
                BY <1>0, <1>7, <3>1, <4>4 DEF InsertResource, OwnSent, Made
            <4> QED
                BY <4>3, <4>4
        <3>2. CASE InsertResource(c) /\ g # c
            BY <1>0, <1>7, <3>2 DEF InsertResource, OwnSent, Made, TypeOK
        <3>3. CASE Purge(c)
            BY <1>0, <1>7, <3>3, PurgeRefers DEF OwnSent, Made
        <3> QED
            BY <1>0, <1>7, <3>1, <3>2, <3>3, WhatChanges DEF OwnSent, Made
    <2> QED
        BY <1>1, <2>1
<1>8. ASSUME NEW g \in Call, pc'[g] \notin {"idle", "orphan", "done"},
             req'[g].op \in Saving \union {"upload"}, ~ (pc'[g] = "lock" /\ req'[g].op = "reuse")
      PROVE  req'[g].text = Cut \/ <<SpaceOf[req'[g].memo], req'[g].text>> \in sent'
    <2>1. CASE g # c
        BY <1>0, <1>2, <1>8, <2>1, OneCallMoves DEF OwnSent
    <2>2. CASE g = c /\ Request(c)
        <3>1. CASE RequestText(c)
            BY <1>0, <1>8, <2>2, <3>1 DEF RequestText, Start, TypeOK
        <3>2. CASE RequestRead(c)
            BY <1>0, <1>8, <2>2, <3>2 DEF RequestRead, Start, TypeOK, Saving
        <3>3. CASE RequestNamed(c)
            <4>1. CASE \E m \in Memo : \E t \in revisions[m] : Start(c, "revert", "revision", m, t)
                <5>1. PICK m \in Memo : \E t \in revisions[m] : Start(c, "revert", "revision", m, t)
                    BY <4>1
                <5>2. PICK t \in revisions[m] : Start(c, "revert", "revision", m, t)
                    BY <5>1
                <5>3. req'[c].memo = m /\ req'[c].text = t
                    BY <1>0, <5>2 DEF Start, TypeOK
                <5> QED
                    BY <1>0, <1>2, <2>2, <5>3 DEF OwnSent
            <4> QED
                BY <1>0, <1>8, <2>2, <3>3, <4>1 DEF RequestNamed, Start, TypeOK, Saving
        <3> QED
            BY <2>2, <3>1, <3>2, <3>3 DEF Request
    <2>3. CASE g = c /\ (CallStep(c) \/ Drop(c))
        <3>1. /\ pc[c] \notin {"idle", "orphan", "done"} /\ req'[c].op = r.op
              /\ req'[c].memo = r.memo /\ req'[c].text \in {r.text, Cut}
            BY <1>8, <2>3, RequestStays
        <3>2. CASE ~ (pc[c] = "lock" /\ r.op = "reuse")
            BY <1>2, <1>3, <1>8, <2>3, <3>1, <3>2
        <3>3. CASE pc[c] = "lock" /\ r.op = "reuse"
            <4>1. Enter(c) \/ Drop(c)
                BY <2>3, <3>3 DEF CallStep, Summary, Exists, Write, Flush, Orphan, Dedup, CountBlob,
                        InsertResource, ReadRevision, Load, UpsertBlobMeta, Commit, Purge
            <4>2. CASE Enter(c)
                <5>1. CanAccess(SpaceOf[r.memo], r.text)
                    BY <1>0, <1>8, <2>3, <3>3, <4>2, AnswerMoves DEF Enter, Replies
                <5>2. <<SpaceOf[r.memo], r.text>> \in sent
                    BY <1>0, <3>3, <5>1, AccessHasFile, ContentsAssumption DEF RequestFits
                <5> QED
                    BY <1>1, <2>3, <3>1, <5>2
            <4>3. CASE Drop(c)
                BY <1>0, <1>8, <2>3, <3>3, <4>3, AnswerMoves DEF Drop, Replies
            <4> QED
                BY <4>1, <4>2, <4>3
        <3> QED
            BY <3>2, <3>3
    <2> QED
        BY <2>1, <2>2, <2>3
<1> QED
    BY <1>5, <1>6, <1>7, <1>8 DEF OwnSent, Sent

\* A text is counted before, or as, one more refers to it.
LEMMA CountStep ==
    ASSUME IInv, NEW c \in Call, Request(c) \/ CallStep(c) \/ Drop(c)
    PROVE  CountCovers'
<1>0. TypeOK /\ RequestFits(c) /\ CountCovers /\ CallHasFile(c)
    BY DEF IInv, ReferredHasFile
<1> SUFFICES ASSUME NEW t \in Text
             PROVE  /\ IsFiniteSet(Covered(t)') /\ Cardinality(Covered(t)') <= blobs'[t].refs
                    /\ blobs'[t].refs > 0 => blobs'[t].kept
    BY DEF CountCovers
<1> DEFINE counts == req[c].text = t /\ (CountBlob(c) \/ (Commit(c) /\ t \in Large))
           one    == IF CountBlob(c) THEN c ELSE req[c].memo
<1>1. blobs[t].refs \in Nat /\ IsFiniteSet(Covered(t)) /\ Cardinality(Covered(t)) <= blobs[t].refs
      /\ (blobs[t].refs > 0 => blobs[t].kept)
    BY <1>0 DEF CountCovers, TypeOK, BlobRow
<1>2. blobs'[t].refs = IF counts THEN blobs[t].refs + 1 ELSE blobs[t].refs
    BY BlobsGrow
<1>3. Covered(t)' \subseteq Covered(t) \union {x \in {one} : counts}
    <2>1. ASSUME NEW g \in Call, pc'[g] = "insert", req'[g].text = t
          PROVE  g \in Covered(t) \union {x \in {one} : counts}
        <3>1. CASE g # c
            BY <1>0, <2>1, <3>1, OneCallMoves DEF Covered
        <3>2. CASE g = c
            <4>1. CountBlob(c)
                BY <2>1, <3>2, ComesFrom
            <4> QED
                BY <2>1, <3>2, <4>1 DEF CountBlob
        <3> QED
            BY <3>1, <3>2
    <2>2. Referrers(t)' \subseteq Covered(t) \union {x \in {one} : counts}
        <3>1. CASE Commit(c)
            <4>1. Referrers(t)' \subseteq
                      Referrers(t) \union {m \in {req[c].memo} : t = req[c].text /\ t \in Large}
                BY <1>0, <3>1 DEF Commit, Referrers, RequestFits, TypeOK
            <4>2. ~CountBlob(c)
                BY <3>1 DEF Commit, CountBlob
            <4> QED
                BY <3>1, <4>1, <4>2 DEF Covered
        <3>2. CASE InsertResource(c)
            BY <1>0, <3>2 DEF InsertResource, Referrers, Covered, TypeOK
        <3>3. CASE Purge(c)
            BY <3>3, PurgeRefers DEF Covered
        <3>4. CASE ~Commit(c) /\ ~InsertResource(c) /\ ~Purge(c)
            BY <3>4, WhatChanges DEF Referrers, Covered
        <3> QED
            BY <3>1, <3>2, <3>3, <3>4
    <2> QED
        BY <2>1, <2>2 DEF Covered
<1>4. IsFiniteSet(Covered(t)') /\ Cardinality(Covered(t)') <= blobs'[t].refs
    <2>1. CASE counts
        <3>1. Covered(t)' \subseteq Covered(t) \union {one}
            BY <1>3
        <3>2. IsFiniteSet(Covered(t) \union {one})
              /\ Cardinality(Covered(t) \union {one}) <= blobs[t].refs + 1
            <4> HIDE DEF one
            <4>1. Cardinality(Covered(t)) \in Nat
                BY <1>1, FS_CardinalityType
            <4>2. /\ IsFiniteSet(Covered(t) \union {one})
                  /\ Cardinality(Covered(t) \union {one})
                        \in {Cardinality(Covered(t)), Cardinality(Covered(t)) + 1}
                BY <1>1, FS_AddElement
            <4> QED
                BY <1>1, <4>1, <4>2
        <3>3. IsFiniteSet(Covered(t)')
              /\ Cardinality(Covered(t)') <= Cardinality(Covered(t) \union {one})
            BY <3>1, <3>2, FS_Subset
        <3> QED
            BY <1>1, <1>2, <2>1, <3>2, <3>3, FS_CardinalityType
    <2>2. CASE ~counts
        <3>1. Covered(t)' \subseteq Covered(t)
            BY <1>3, <2>2
        <3>2. IsFiniteSet(Covered(t)') /\ Cardinality(Covered(t)') <= Cardinality(Covered(t))
            BY <1>1, <3>1, FS_Subset
        <3> QED
            BY <1>1, <1>2, <2>2, <3>2, FS_CardinalityType
    <2> QED
        BY <2>1, <2>2
<1>5. blobs'[t].refs > 0 => blobs'[t].kept
    <2>1. CASE counts
        BY <1>0, <2>1, BlobsGrow DEF Commit, CallHasFile
    <2>2. CASE ~counts
        BY <1>1, <1>2, <2>2, BlobsGrow
    <2> QED
        BY <2>1, <2>2
<1> QED
    BY <1>4, <1>5

\* Of two calls that claim a text for a workspace, the later has seen the earlier one decided
\* and not yet made.
LEMMA ClaimStep ==
    ASSUME IInv, NEW c \in Call, Request(c) \/ CallStep(c) \/ Drop(c)
    PROVE  ClaimedTogether'
<1>0. TypeOK /\ RequestFits(c) /\ ClaimedTogether
    BY DEF IInv
<1> DEFINE New(t, space) == /\ Dedup(c) /\ pc'[c] = "row" /\ req[c].text = t
                            /\ SpaceOf[req[c].memo] = space
<1>1. together \subseteq together'
    <2>1. CASE Dedup(c)
        BY <2>1 DEF Dedup
    <2> QED
        BY <2>1, WhatChanges
<1>2. ASSUME NEW g \in Call, NEW t \in Text, NEW space \in Space, Claims(g, t, space)'
      PROVE  Claims(g, t, space) \/ (g = c /\ New(t, space))
    <2>1. CASE Made(g)' /\ resources'[g].text = t /\ resources'[g].space = space
        <3>1. CASE InsertResource(c)
            BY <1>0, <2>1, <3>1 DEF InsertResource, Claims, Made, TypeOK
        <3>2. CASE Purge(c)
            BY <2>1, <3>2, PurgeRefers DEF Claims, Made
        <3> QED
            BY <2>1, <3>1, <3>2, WhatChanges DEF Claims, Made
    <2>2. CASE pc'[g] \in {"row", "insert"} /\ req'[g].text = t /\ SpaceOf[req'[g].memo] = space
        <3>1. CASE g # c
            BY <1>0, <2>2, <3>1, OneCallMoves DEF Claims
        <3>2. CASE g = c
            <4>1. Dedup(c) \/ CountBlob(c)
                BY <2>2, <3>2, ComesFrom
            <4>2. CASE Dedup(c)
                <5>1. pc'[c] = "row" /\ req' = req
                    BY <1>0, <2>2, <3>2, <4>2, AnswerMoves, GoMoves DEF Dedup, Replies, Step
                <5> QED
                    BY <2>2, <3>2, <4>2, <5>1
            <4>3. CASE CountBlob(c)
                BY <2>2, <3>2, <4>3 DEF CountBlob, Claims
            <4> QED
                BY <4>1, <4>2, <4>3
        <3> QED
            BY <3>1, <3>2
    <2> QED
        BY <1>2, <2>1, <2>2 DEF Claims
<1>3. ASSUME NEW g \in Call \ {c}, NEW t \in Text, NEW space \in Space,
             New(t, space), Claims(g, t, space)
      PROVE  {c, g} \in together'
    <2>1. /\ ~ \E h \in Call : Duplicate(c, h)
          /\ together' = together \union {{c, h} : h \in {h \in Call \ {c} :
                                                      pc[h] \in {"row", "insert"}}}
        BY <1>0, <1>3, AnswerMoves DEF Dedup, Replies
    <2>2. pc[g] \in {"row", "insert"}
        BY <1>3, <2>1 DEF Claims, Duplicate
    <2> QED
        BY <2>1, <2>2
<1>4. ASSUME NEW f \in Call, NEW g \in Call, NEW t \in Text, NEW space \in Space,
             f # g, Claims(f, t, space)', Claims(g, t, space)'
      PROVE  {f, g} \in together'
    <2>1. CASE Claims(f, t, space) /\ Claims(g, t, space)
        BY <1>0, <1>1, <1>4, <2>1 DEF ClaimedTogether
    <2>2. CASE f = c /\ New(t, space)
        BY <1>2, <1>3, <1>4, <2>2
    <2>3. CASE g = c /\ New(t, space)
        <3>1. {c, f} \in together'
            BY <1>2, <1>3, <1>4, <2>3
        <3>2. {f, g} = {c, f}
            BY <2>3
        <3> QED
            BY <3>1, <3>2
    <2> QED
        BY <1>2, <1>4, <2>1, <2>2, <2>3
<1> QED
    BY <1>4 DEF ClaimedTogether

\* Only a revision that was small is ever refused for want of its file.
LEMMA RefusedStep ==
    ASSUME IInv, NEW c \in Call, Request(c) \/ CallStep(c) \/ Drop(c)
    PROVE  RefusedIsDone' /\ FoundIfReferred'
<1>0. TypeOK /\ RequestFits(c) /\ CallHasFile(c) /\ RefusedIsDone /\ FoundIfReferred
    BY DEF IInv, ReferredHasFile
<1>1. \A g \in Call \ {c} : pc'[g] = pc[g] /\ req'[g] = req[g] /\ reply'[g] = reply[g]
    BY <1>0, OneCallMoves
<1>2. reply[c] # "missing"
    BY <1>0 DEF RefusedIsDone, Request, CallStep, Summary, Exists, Write, Flush, Orphan, Dedup,
                CountBlob, InsertResource, Enter, ReadRevision, Load, UpsertBlobMeta, Commit, Purge,
                Drop
<1>3. ASSUME reply'[c] = "missing"
      PROVE  pc'[c] = "done" /\ req'[c].op = "revert" /\ req'[c].text \notin Large
    <2> USE <1>0, <1>2, <1>3, AnswerMoves, GoMoves DEF Replies, Step, Held
    <2>1. Load(c)
        <3>1. CASE Request(c)
            BY <3>1 DEF Request, RequestText, RequestNamed, RequestRead, Start
        <3>2. CASE Summary(c) \/ Exists(c) \/ Write(c) \/ Flush(c) \/ Orphan(c) \/ Dedup(c)
            BY <3>2 DEF Summary, Exists, Write, Flush, Orphan, Dedup, AfterPut
        <3>3. CASE CountBlob(c) \/ InsertResource(c) \/ Enter(c) \/ ReadRevision(c)
            BY <3>3 DEF CountBlob, InsertResource, Enter, ReadRevision
        <3>4. CASE UpsertBlobMeta(c) \/ Commit(c) \/ Purge(c) \/ Drop(c)
            BY <3>4 DEF UpsertBlobMeta, Commit, Purge, Drop
        <3> QED
            BY <3>1, <3>2, <3>3, <3>4 DEF CallStep
    <2>2. Answer(c, "missing") /\ Loaded(req[c].text) = NoText
        BY <2>1 DEF Load
    <2>3. ~HasFile(req[c].text)
        BY <2>2, ContentsAssumption DEF Loaded, HasFile
    <2> QED
        BY <2>1, <2>2, <2>3 DEF Load, CallHasFile
<1> QED
    BY <1>0, <1>1, <1>3 DEF RefusedIsDone, FoundIfReferred

-----------------------------------------------------------------------------
(* The theorems. *)

\* A crash takes the calls and leaves the tables and the files.
LEMMA CrashIInv == IInv /\ Crash => IInv'
<1> SUFFICES ASSUME IInv, Crash PROVE IInv'
    OBVIOUS
<1>0. TypeOK
    BY DEF IInv
<1>1. NoRequest \in RequestRow
    BY DEF NoRequest, RequestRow, Ops
<1>2. /\ UNCHANGED <<files, blobs, memos, revisions, resources, reply, together, sent>>
      /\ torn' = torn \union {req[c].text : c \in {g \in Call : pc[g] \in {"flush", "orphan"}}}
      /\ writer' = NoCall
      /\ \A c \in Call : pc'[c] \in {"idle", "done"} /\ (pc[c] = "done" => pc'[c] = "done")
                         /\ (reply[c] = "missing" => req'[c] = req[c])
    BY <1>0 DEF Crash, tables, TypeOK
<1>3. TypeOK'
    <2>1. torn' \subseteq Text
        BY <1>0, <1>2 DEF IInv, RequestFits, TypeOK
    <2>2. pc' \in [Call -> Step] /\ req' \in [Call -> RequestRow]
        BY <1>0, <1>1 DEF Crash, TypeOK, Step
    <2> QED
        BY <1>0, <1>2, <2>1, <2>2 DEF TypeOK
<1>4. (\A c \in Call : RequestFits(c)') /\ LockIsKept'
    BY <1>2, ContentsAssumption DEF RequestFits, LockIsKept, Locked, Held
<1>5. TextIfLive' /\ OwnSent'
    BY <1>2 DEF IInv, TextIfLive, OwnSent, Live, Made, Sent
<1>6. PartIsExplained'
    BY <1>2 DEF IInv, PartIsExplained
<1>7. ReferredHasFile'
    BY <1>2 DEF IInv, ReferredHasFile, Referrers, HasFile, CallHasFile
<1>8. CountCovers'
    <2> SUFFICES ASSUME NEW t \in Text
                 PROVE  /\ IsFiniteSet(Covered(t)') /\ Cardinality(Covered(t)') <= blobs[t].refs
                        /\ blobs[t].refs > 0 => blobs[t].kept
        BY <1>2 DEF CountCovers
    <2>1. Covered(t)' \subseteq Covered(t)
        BY <1>2 DEF Covered, Referrers
    <2>2. IsFiniteSet(Covered(t)) /\ Cardinality(Covered(t)) <= blobs[t].refs
          /\ (blobs[t].refs > 0 => blobs[t].kept) /\ blobs[t].refs \in Nat
        BY <1>0 DEF IInv, CountCovers, TypeOK, BlobRow
    <2>3. IsFiniteSet(Covered(t)') /\ Cardinality(Covered(t)') <= Cardinality(Covered(t))
        BY <2>1, <2>2, FS_Subset
    <2> QED
        BY <2>2, <2>3, FS_CardinalityType
<1>9. ClaimedTogether'
    <2>1. \A c \in Call : \A t, space : Claims(c, t, space)' => Claims(c, t, space)
        BY <1>2 DEF Claims, Made
    <2> QED
        BY <1>2, <2>1 DEF IInv, ClaimedTogether
<1>10. RefusedIsDone' /\ FoundIfReferred'
    BY <1>2 DEF IInv, RefusedIsDone, FoundIfReferred
<1> QED
    BY <1>3, <1>4, <1>5, <1>6, <1>7, <1>8, <1>9, <1>10 DEF IInv

\* The invariant is kept by every step.
LEMMA NextIInv == IInv /\ [Next]_vars => IInv'
<1> SUFFICES ASSUME IInv, [Next]_vars PROVE IInv'
    OBVIOUS
<1>1. ASSUME NEW c \in Call, Request(c) \/ CallStep(c) \/ Drop(c)
      PROVE  IInv'
    BY <1>1, TypeStep, FitsStep, LockStep, TextStep, PartStep, FileStep, OwnStep, CountStep,
       ClaimStep, RefusedStep DEF IInv
<1>2. CASE Crash
    BY <1>2, CrashIInv
<1>3. CASE UNCHANGED vars
    <2> USE <1>3 DEF vars, tables
    <2>1. TypeOK' /\ (\A c \in Call : RequestFits(c)') /\ LockIsKept' /\ TextIfLive'
        <3>1. TypeOK'
            BY DEF IInv, TypeOK
        <3>2. \A c \in Call : RequestFits(c)'
            BY DEF IInv, RequestFits
        <3>3. LockIsKept' /\ TextIfLive'
            BY DEF IInv, LockIsKept, Locked, TextIfLive, Live
        <3> QED
            BY <3>1, <3>2, <3>3
    <2>2. PartIsExplained' /\ ReferredHasFile' /\ OwnSent'
        BY DEF IInv, PartIsExplained, ReferredHasFile, Referrers, HasFile, CallHasFile, OwnSent,
               Live, Made, Sent
    <2>3. CountCovers' /\ ClaimedTogether' /\ RefusedIsDone' /\ FoundIfReferred'
        <3>1. \A t : Covered(t)' = Covered(t)
            BY DEF Covered, Referrers
        <3>2. CountCovers'
            BY <3>1 DEF IInv, CountCovers
        <3>3. ClaimedTogether'
            BY DEF IInv, ClaimedTogether, Claims, Made
        <3>4. RefusedIsDone' /\ FoundIfReferred'
            BY DEF IInv, RefusedIsDone, FoundIfReferred
        <3> QED
            BY <3>2, <3>3, <3>4
    <2> QED
        BY <2>1, <2>2, <2>3 DEF IInv
<1> QED
    BY <1>1, <1>2, <1>3 DEF Next, Quiescent

\* What the invariant says is always so.
THEOREM AlwaysIInv == Spec => []IInv
<1>1. Init => IInv
    BY InitIInv
<1>2. IInv /\ [Next]_vars => IInv'
    BY NextIInv
<1> QED
    BY <1>1, <1>2, PTL DEF Spec

\* Every table, call and file has its type, and the lock is held only at steps that need it.
THEOREM ContentsTyped == Spec => []TypeOK
<1>1. IInv => TypeOK
    BY DEF IInv
<1> QED
    BY <1>1, AlwaysIInv, PTL

\* What is referred to is in its file, whole, unless a write of the file is under way or was
\* cut short: texts and attachments reach the blob store before the row that names them.
THEOREM WholeFilesReferred == Spec => []StoredWhole
<1>1. IInv => StoredWhole
    <2> SUFFICES ASSUME IInv, NEW t \in Text, Referrers(t) # {}
                 PROVE  \/ files[t] = "whole"
                        \/ files[t] = "part" /\ (\/ t \in torn
                                                 \/ \E c \in Call : pc[c] \in {"flush", "orphan"}
                                                                    /\ req[c].text = t)
        BY DEF StoredWhole
    <2>1. HasFile(t) /\ files[t] \in {"none", "part", "whole"}
        BY DEF IInv, ReferredHasFile, TypeOK
    <2> QED
        BY <2>1 DEF IInv, PartIsExplained, HasFile
<1> QED
    BY <1>1, AlwaysIInv, PTL

\* The refcount of content_blobs never says fewer than refer to the text, so a collector of
\* unreferenced files could go by it.
THEOREM CountsCover == Spec => []CountCoversReferrers
<1>1. IInv => CountCoversReferrers
    <2> SUFFICES ASSUME IInv, NEW t \in Text
                 PROVE  /\ Cardinality(Referrers(t)) <= blobs[t].refs
                        /\ blobs[t].refs > 0 => blobs[t].kept
        BY DEF CountCoversReferrers
    <2>1. IsFiniteSet(Covered(t)) /\ Cardinality(Covered(t)) <= blobs[t].refs
          /\ (blobs[t].refs > 0 => blobs[t].kept) /\ blobs[t].refs \in Nat
        BY DEF IInv, CountCovers, TypeOK, BlobRow
    <2>2. Referrers(t) \subseteq Covered(t)
        BY DEF Covered
    <2>3. IsFiniteSet(Referrers(t)) /\ Cardinality(Referrers(t)) <= Cardinality(Covered(t))
        BY <2>1, <2>2, FS_Subset
    <2> QED
        BY <2>1, <2>3, FS_CardinalityType
<1> QED
    BY <1>1, AlwaysIInv, PTL

\* Two uploads of a file to a workspace make one resource, unless each looked for the
\* other's before it was there.
THEOREM DedupByHash == Spec => []OneResource
<1>1. IInv => OneResource
    <2> SUFFICES ASSUME IInv, NEW c \in Call, NEW g \in Call,
                        c # g, Made(c), Made(g), resources[c].text = resources[g].text,
                        resources[c].space = resources[g].space
                 PROVE  {c, g} \in together
        BY DEF OneResource
    <2> DEFINE t == resources[c].text
               space == resources[c].space
    <2>1. t \in Text /\ space \in Space
        BY DEF IInv, TypeOK, ResourceRow, Made
    <2>2. Claims(c, t, space) /\ Claims(g, t, space)
        BY DEF Claims
    <2> QED
        BY <2>1, <2>2 DEF IInv, ClaimedTogether
<1> QED
    BY <1>1, AlwaysIInv, PTL

\* Whoever the server lets in to a text finds its file, but for a small revision.
THEOREM AccessFindsFile == Spec => []FoundIfReferred
<1>1. IInv => FoundIfReferred
    BY DEF IInv
<1> QED
    BY <1>1, AlwaysIInv, PTL

\* A memo never shows what only another workspace has sent.
THEOREM WorkspacesApart == Spec => []OwnTexts
<1>1. IInv => OwnTexts
    BY DEF IInv, OwnSent, OwnTexts, Sent
<1> QED
    BY <1>1, AlwaysIInv, PTL

=============================================================================
