-------------------------- MODULE MemoStoreTypeProofs ----------------------
(***************************************************************************)
(* Type correctness of MemoStore, for any sets of handlers, memos, keys.   *)
(***************************************************************************)
EXTENDS MemoStore, TLAPS

LEMMA EmptyValues == /\ << >> \in Doc
                     /\ NoEtag \in Etag
                     /\ NoAnswer \in Answer
BY DEF Doc, NoEtag, Etag, NoAnswer, Answer, Code

\* The text a memo is created with is a document that no key has marked.
LEMMA InitialDocsAreDocs == InitialDocs \subseteq Seq({NoKey}) /\ InitialDocs \subseteq Doc
<1>1. \A n \in Nat : [i \in 1 .. n |-> NoKey] \in Seq({NoKey})
    OBVIOUS
<1>2. InitialDocs \subseteq Seq({NoKey})
    BY <1>1, MemoStoreAssumption DEF InitialDocs
<1> QED
    BY <1>2 DEF Doc, Mark

\* A request is well formed whichever operation it asks for.
LEMMA AskIsRequest ==
    ASSUME NEW op \in AllOps, NEW m \in Memo, NEW k \in Mark, NEW d \in Doc
    PROVE  Ask(op, m, k, d) \in RequestRow
BY EmptyValues DEF Ask, RequestRow

LEMMA InitTypeOK == Init => TypeOK
<1> SUFFICES ASSUME Init PROVE TypeOK
    OBVIOUS
<1> USE MemoStoreAssumption, EmptyValues DEF Init
<1>1. memos \in [Memo -> MemoRow]
    BY DEF MemoRow, Mark
<1>2. contents \in [Memo -> ContentRow]
    BY DEF ContentRow
<1>3. keys \in [Key -> KeyRow]
    BY DEF KeyRow
<1>4. req \in [Handler -> RequestRow]
    <2>1. (CHOOSE m \in Memo : TRUE) \in Memo
        OBVIOUS
    <2> QED
        BY <2>1 DEF RequestRow, AllOps, Mark
<1>5. pc \in [Handler -> Step] /\ answer \in [Handler -> Answer]
    BY DEF Step
<1>6. log \in Seq(LogRow) /\ DOMAIN blobs = {}
    OBVIOUS
<1>7. snapshots \in [Memo -> SUBSET ContentRow]
    OBVIOUS
<1> QED
    BY <1>1, <1>2, <1>3, <1>4, <1>5, <1>6, <1>7 DEF TypeOK

\* A request that arrives changes the handler's request and step only.
LEMMA RequestTypeOK ==
    ASSUME TypeOK, NEW h \in Handler, Request(h)
    PROVE  TypeOK'
<1> USE MemoStoreAssumption, EmptyValues, AskIsRequest
<1>1. ASSUME NEW r \in RequestRow, NEW s \in Step, Start(h, r, s)
      PROVE  TypeOK'
    BY <1>1 DEF Start, TypeOK, durable
<1>2. CASE RequestCreate(h)
    BY <1>1, <1>2, InitialDocsAreDocs DEF RequestCreate, AllOps, Mark, Step
<1>3. CASE RequestEdit(h)
    BY <1>1, <1>3 DEF RequestEdit, AllOps, Mark, Step
<1>4. CASE RequestBlindEdit(h)
    <2>1. \A k \in Key : <<k>> \in Doc
        BY DEF Doc, Mark
    <2> QED
        BY <1>1, <1>4, <2>1 DEF RequestBlindEdit, AllOps, Mark, Step
<1>5. CASE RequestTag(h)
    BY <1>1, <1>5 DEF RequestTag, AllOps, Mark, Step
<1>6. CASE RequestRetry(h)
    <2>1. \A g \in Handler : req[g] \in RequestRow
        BY DEF TypeOK
    <2> QED
        BY <1>1, <1>6, <2>1 DEF RequestRetry, Step
<1>7. CASE RequestLifecycle(h)
    BY <1>1, <1>7 DEF RequestLifecycle, AllOps, Mark, Step
<1> QED
    BY <1>2, <1>3, <1>4, <1>5, <1>6, <1>7 DEF Request

\* What an answer, and the note of a commit, do to the handler's own state.
LEMMA ReplyType ==
    ASSUME TypeOK, NEW h \in Handler, NEW code \in Code, NEW etag \in Etag,
           Reply(h, code, etag)
    PROVE  pc' \in [Handler -> Step] /\ answer' \in [Handler -> Answer]
BY DEF Reply, TypeOK, Step, Answer

LEMMA CommittedType ==
    ASSUME TypeOK, NEW h \in Handler, NEW etag \in Etag, Committed(h, etag)
    PROVE  pc' \in [Handler -> Step] /\ answer' \in [Handler -> Answer]
<1>1. [answer[h] EXCEPT !.etag = etag] \in Answer
    BY DEF TypeOK, Answer
<1> QED
    BY <1>1 DEF Committed, TypeOK, Step

LEMMA KeyStoredType ==
    ASSUME TypeOK, NEW k, NEW etag \in Etag
    PROVE  KeyStored(k, etag) \in [Key -> KeyRow]
BY DEF KeyStored, TypeOK, KeyRow

LEMMA ReferencedType ==
    ASSUME TypeOK, NEW d \in Doc
    PROVE  /\ DOMAIN Referenced(d) = DOMAIN blobs
           /\ \A x \in DOMAIN blobs : Referenced(d)[x] \in Nat
BY DEF Referenced, TypeOK

\* The fields of a request and of the row it names.
LEMMA FieldTypes ==
    ASSUME TypeOK
    PROVE  /\ \A h \in Handler : /\ req[h] \in RequestRow
                                 /\ req[h].memo \in Memo
                                 /\ req[h].key \in Mark
                                 /\ req[h].doc \in Doc
                                 /\ answer[h].etag \in Etag
           /\ \A m \in Memo : /\ EtagOf(m) \in Etag
                              /\ memos[m].revision \in Nat
                              /\ memos[m].hash \in Doc
                              /\ contents[m].doc \in Doc
           /\ \A k \in Key : keys[k].etag \in Etag
BY DEF TypeOK, RequestRow, EtagOf, MemoRow, ContentRow, KeyRow, Etag, Answer

\* A step of a handler keeps every type, whichever step it is.
LEMMA HandlerTypeOK ==
    ASSUME TypeOK, NEW h \in Handler, HandlerStep(h)
    PROVE  TypeOK'
<1> DEFINE m == req[h].memo
           d == req[h].doc
<1>f. /\ req[h] \in RequestRow /\ m \in Memo /\ d \in Doc /\ req[h].key \in Mark
      /\ EtagOf(m) \in Etag /\ contents[m].doc \in Doc
      /\ memos[m].revision \in Nat /\ memos[m].hash \in Doc
      /\ answer[h].etag \in Etag
      /\ Remembered(req[h].key) => keys[req[h].key].etag \in Etag
    BY FieldTypes DEF Remembered
<1>1. CASE GetSummary(h)
    <2>1. [req[h] EXCEPT !.base = EtagOf(m)] \in RequestRow
        BY <1>f DEF RequestRow
    <2>2. CASE ~Exists(m)
        BY <1>1, <2>2, ReplyType, EmptyValues DEF GetSummary, Code, TypeOK, durable
    <2>3. CASE Exists(m)
        <3>1. req' \in [Handler -> RequestRow] /\ pc' \in [Handler -> Step]
            BY <1>1, <1>f, <2>1, <2>3, ZenonT(60) DEF GetSummary, Step, TypeOK
        <3> QED
            BY <1>1, <2>3, <3>1 DEF GetSummary, TypeOK, durable
    <2> QED
        BY <2>2, <2>3
<1>2. CASE ReadMarkdown(h)
    <2>1. Append(contents[m].doc, req[h].key) \in Doc
        BY <1>f DEF Doc
    <2>2. [req[h] EXCEPT !.doc = Append(contents[m].doc, req[h].key)] \in RequestRow
        BY <1>f, <2>1 DEF RequestRow
    <2>3. CASE ~Exists(m)
        <3>1. Reply(h, "not_found", NoEtag) /\ UNCHANGED <<durable, writer, req>>
            BY <1>2, <2>3 DEF ReadMarkdown
        <3> QED
            BY <3>1, ReplyType, EmptyValues DEF Code, TypeOK, durable
    <2>4. CASE Exists(m)
        <3>1. req' \in [Handler -> RequestRow] /\ pc' \in [Handler -> Step]
            BY <1>2, <2>2, <2>4, ZenonT(60) DEF ReadMarkdown, Step, TypeOK
        <3> QED
            BY <1>2, <2>4, <3>1 DEF ReadMarkdown, TypeOK, durable
    <2> QED
        BY <2>3, <2>4
<1>3. CASE CreateLease(h)
    <2>1. [req[h] EXCEPT !.lease = h] \in RequestRow
        BY <1>f DEF RequestRow
    <2>2. CASE ~Exists(m)
        BY <1>3, <2>2, ReplyType, EmptyValues DEF CreateLease, Code, TypeOK, durable
    <2>3. CASE Exists(m)
        <3>1. req' \in [Handler -> RequestRow] /\ pc' \in [Handler -> Step]
            BY <1>3, <2>1, <2>3, ZenonT(60) DEF CreateLease, Step, TypeOK
        <3> QED
            BY <1>3, <2>3, <3>1 DEF CreateLease, TypeOK
    <2> QED
        BY <2>2, <2>3
<1>4. CASE GetIdempotency(h)
    <2>1. CASE Remembered(req[h].key)
        BY <1>4, <1>f, <2>1, ReplyType DEF GetIdempotency, Remembered, Code, TypeOK, durable
    <2>2. CASE ~Remembered(req[h].key)
        BY <1>4, <2>2 DEF GetIdempotency, Step, TypeOK, durable
    <2> QED
        BY <2>1, <2>2
<1>5. CASE SaveTurnedDown(h)
    <2> DEFINE code == SaveVerdict(req[h])
    <2>1. code \in Code /\ (code = "ok" => Remembered(req[h].key))
        BY DEF SaveVerdict, Code
    <2>2. PICK etag \in Etag : Reply(h, code, etag)
        BY <1>5, <1>f, <2>1, EmptyValues DEF SaveTurnedDown, Remembered
    <2> QED
        BY <1>5, <2>1, <2>2, ReplyType DEF SaveTurnedDown, TypeOK, durable
<1>6. CASE SaveAdmitted(h)
    BY <1>6 DEF SaveAdmitted, Step, TypeOK, durable
<1>7. CASE CreateAdmitted(h)
    BY <1>7 DEF CreateAdmitted, Step, TypeOK, durable
<1>8. CASE StoreBlob(h)
    BY <1>8, <1>f DEF StoreBlob, Step, TypeOK
<1>9. CASE MaybeSnapshot(h)
    <2>1. SnapshotRow(m) \in ContentRow
        BY <1>f DEF SnapshotRow, ContentRow
    <2>2. CASE m \in fresh
        BY <1>9, <2>2 DEF MaybeSnapshot, Step, TypeOK
    <2>3. CASE m \notin fresh /\ ~SnapshotTaken(m)
        <3>1. snapshots' \in [Memo -> SUBSET ContentRow] /\ fresh' \subseteq Memo
            BY <1>9, <1>f, <2>1, <2>3 DEF MaybeSnapshot, TypeOK
        <3> QED
            BY <1>9, <2>3, <3>1 DEF MaybeSnapshot, Step, TypeOK
    <2>4. CASE m \notin fresh /\ SnapshotTaken(m)
        BY <1>9, <2>4, ReplyType, EmptyValues, MemoStoreAssumption DEF MaybeSnapshot, Code, TypeOK
    <2> QED
        BY <2>2, <2>3, <2>4
<1>10. CASE CommitCreate(h)
    <2>1. memos' \in [Memo -> MemoRow] /\ contents' \in [Memo -> ContentRow]
        BY <1>10, <1>f DEF CommitCreate, MemoRow, ContentRow, Mark, TypeOK
    <2>2. pc' \in [Handler -> Step] /\ answer' \in [Handler -> Answer]
        BY <1>10, <1>f, CommittedType DEF CommitCreate, Etag
    <2> QED
        BY <1>10, <1>f, <2>1, <2>2, ReferencedType DEF CommitCreate, TypeOK
<1>11. CASE CommitContent(h)
    <2> DEFINE etag == [revision |-> memos[m].revision + 1, hash |-> d]
    <2>1. etag \in Etag
        BY <1>f DEF Etag
    <2>2. [memos[m] EXCEPT !.revision = etag.revision, !.hash = d] \in MemoRow
        <3>1. memos[m] \in MemoRow /\ etag.revision \in Nat
            BY <1>f DEF TypeOK
        <3> HIDE DEF etag
        <3> QED
            BY <1>f, <3>1 DEF MemoRow
    <2>3. memos' \in [Memo -> MemoRow]
        BY <1>11, <1>f, <2>2 DEF CommitContent, TypeOK
    <2>4. contents' \in [Memo -> ContentRow]
        BY <1>11, <1>f DEF CommitContent, ContentRow, TypeOK
    <2>5. pc' \in [Handler -> Step] /\ answer' \in [Handler -> Answer]
        BY <1>11, <2>1, CommittedType DEF CommitContent
    <2>6. keys' \in [Key -> KeyRow]
        BY <1>11, <2>1, KeyStoredType DEF CommitContent
    <2> QED
        BY <1>11, <1>f, <2>3, <2>4, <2>5, <2>6, ReferencedType DEF CommitContent, TypeOK
<1>12. CASE CommitMeta(h)
    <2>1. [memos[m] EXCEPT !.meta = req[h].key] \in MemoRow
        BY <1>f, ZenonT(60) DEF MemoRow, TypeOK
    <2>2. memos' \in [Memo -> MemoRow]
        BY <1>12, <1>f, <2>1 DEF CommitMeta, TypeOK
    <2>3. pc' \in [Handler -> Step] /\ answer' \in [Handler -> Answer]
        BY <1>12, <1>f, CommittedType DEF CommitMeta
    <2>4. keys' \in [Key -> KeyRow]
        BY <1>12, <1>f, KeyStoredType DEF CommitMeta
    <2> QED
        BY <1>12, <2>2, <2>3, <2>4 DEF CommitMeta, TypeOK
<1>13. ASSUME NEW op, NEW state \in {"live", "trashed"}, SetTrashed(h, op, state)
       PROVE  TypeOK'
    <2>1. [memos[m] EXCEPT !.state = state] \in MemoRow
        BY <1>f, ZenonT(60) DEF MemoRow, TypeOK
    <2>2. memos' \in [Memo -> MemoRow]
        BY <1>13, <1>f, <2>1 DEF SetTrashed, TypeOK
    <2> QED
        BY <1>13, <2>2 DEF SetTrashed, Step, TypeOK
<1>14. CASE SoftDelete(h)
    BY <1>13, <1>14 DEF SoftDelete
<1>15. CASE Restore(h)
    BY <1>13, <1>15 DEF Restore
<1>16. CASE Purge(h)
    <2>1. [state |-> "purged", revision |-> 0, hash |-> << >>, meta |-> NoKey] \in MemoRow
        BY EmptyValues DEF MemoRow, Mark
    <2>2. [revision |-> 0, doc |-> << >>] \in ContentRow
        BY EmptyValues DEF ContentRow
    <2>3. memos' \in [Memo -> MemoRow] /\ contents' \in [Memo -> ContentRow]
        <3>1. memos \in [Memo -> MemoRow] /\ contents \in [Memo -> ContentRow]
            BY DEF TypeOK
        <3>2. \/ UNCHANGED <<memos, contents>>
              \/ /\ memos' = [memos EXCEPT ![m] = [state |-> "purged", revision |-> 0,
                                                  hash |-> << >>, meta |-> NoKey]]
                 /\ contents' = [contents EXCEPT ![m] = [revision |-> 0, doc |-> << >>]]
            BY <1>16 DEF Purge
        <3> QED
            BY <2>1, <2>2, <3>1, <3>2
    <2>4. snapshots' \in [Memo -> SUBSET ContentRow] /\ fresh' \subseteq Memo
        <3>1. snapshots \in [Memo -> SUBSET ContentRow] /\ fresh \subseteq Memo
            BY DEF TypeOK
        <3>2. \/ UNCHANGED <<snapshots, fresh>>
              \/ snapshots' = [snapshots EXCEPT ![m] = {}] /\ fresh' = fresh \ {m}
            BY <1>16 DEF Purge
        <3> QED
            BY <3>1, <3>2
    <2>5. leases' \in [Handler -> {"none", "live", "expired"}]
        BY <1>16 DEF Purge, TypeOK
    <2> QED
        BY <1>16, <2>3, <2>4, <2>5 DEF Purge, Step, TypeOK
<1>17. CASE AppendUnlocked(h)
    <2>1. answer[h].etag.revision \in Nat
        BY <1>f DEF Etag
    <2>2. [memo |-> m, kind |-> LogKind(req[h].op),
           revision |-> answer[h].etag.revision] \in LogRow
        BY <1>f, <2>1 DEF LogRow, LogKind
    <2>3. log' \in Seq(LogRow)
        BY <1>17, <2>2 DEF AppendUnlocked, TypeOK
    <2> QED
        BY <1>17, <1>f, <2>3, ReplyType DEF AppendUnlocked, Code, TypeOK
<1> QED
    BY <1>1, <1>2, <1>3, <1>4, <1>5, <1>6, <1>7, <1>8, <1>9, <1>10, <1>11,
       <1>12, <1>14, <1>15, <1>16, <1>17 DEF HandlerStep

\* The environment's steps: a dropped future and the passing of time.
LEMMA EnvironmentTypeOK ==
    ASSUME TypeOK
    PROVE  /\ \A h \in Handler : Drop(h) \/ ExpireLease(h) => TypeOK'
           /\ \A k \in Key : ExpireKey(k) => TypeOK'
           /\ \A m \in Memo : AgeSnapshot(m) => TypeOK'
<1>1. ASSUME NEW h \in Handler, Drop(h) PROVE TypeOK'
    BY <1>1 DEF Drop, Step, TypeOK, durable
<1>2. ASSUME NEW h \in Handler, ExpireLease(h) PROVE TypeOK'
    BY <1>2 DEF ExpireLease, TypeOK
<1>3. ASSUME NEW k \in Key, ExpireKey(k) PROVE TypeOK'
    <2>1. [keys[k] EXCEPT !.state = "expired"] \in KeyRow
        BY DEF KeyRow, TypeOK
    <2> QED
        BY <1>3, <2>1 DEF ExpireKey, TypeOK
<1>4. ASSUME NEW m \in Memo, AgeSnapshot(m) PROVE TypeOK'
    BY <1>4 DEF AgeSnapshot, TypeOK
<1> QED
    BY <1>1, <1>2, <1>3, <1>4

\* Every reachable state has the types of TypeOK.
THEOREM TypeCorrect == Spec => []TypeOK
<1>1. TypeOK /\ [Next]_vars => TypeOK'
    <2> SUFFICES ASSUME TypeOK, [Next]_vars PROVE TypeOK'
        OBVIOUS
    <2>1. CASE UNCHANGED vars
        BY <2>1 DEF vars, durable, TypeOK
    <2>2. CASE Quiescent
        BY <2>2 DEF Quiescent, vars, durable, TypeOK
    <2> QED
        BY <2>1, <2>2, RequestTypeOK, HandlerTypeOK, EnvironmentTypeOK DEF Next
<1> QED
    BY <1>1, InitTypeOK, PTL DEF Spec
=============================================================================
