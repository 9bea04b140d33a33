-------------------------- MODULE MemoStoreProofs --------------------------
(***************************************************************************)
(* The inductive invariant of MemoStore and what follows from it, for any  *)
(* sets of handlers, memos and keys.                                       *)
(***************************************************************************)
EXTENDS MemoStoreTypeProofs, FiniteSetTheorems

\* The invariant over the tables alone.
Tables == RowsAgree /\ MarksFollowKeys /\ AppliedOnce

LEMMA TablesFrame ==
    ASSUME Tables, UNCHANGED <<memos, contents, keys>>
    PROVE  Tables'
BY DEF Tables, RowsAgree, MarksFollowKeys, AppliedOnce, Exists, In

LEMMA InitIInv == Init => IInv
<1> SUFFICES ASSUME Init PROVE IInv
    OBVIOUS
<1>1. TypeOK
    BY InitTypeOK
<1>2. Tables
    BY DEF Init, Tables, RowsAgree, MarksFollowKeys, AppliedOnce, Exists, In
<1>3. ASSUME NEW h \in Handler PROVE HandlerInv(h)
    <2>1. LockOf(h) /\ Named(h) /\ AckFollowsEffect(h)
        BY MemoStoreAssumption DEF Init, LockOf, Named, AckFollowsEffect, LockedStep, NoAnswer
    <2>2. BasedOnVersion(h) /\ ExtendsBase(h) /\ Admitted(h)
        BY DEF Init, BasedOnVersion, ExtendsBase, Admitted, LockedStep
    <2> QED
        BY <2>1, <2>2 DEF HandlerInv
<1> QED
    BY <1>1, <1>2, <1>3 DEF IInv, Tables

\* What a handler relies on: the rows of memos, memo_contents and keys, and its own
\* state.  A step of another handler that leaves those alone, and takes or returns
\* the lock only for itself, leaves the handler's invariant alone.
LEMMA OtherHandlers ==
    ASSUME NEW h \in Handler, NEW g \in Handler, g # h,
           HandlerInv(g),
           UNCHANGED <<memos, contents, keys>>,
           pc'[g] = pc[g], req'[g] = req[g], answer'[g] = answer[g],
           writer' = writer \/ (writer \in {h, NoHandler} /\ writer' \in {h, NoHandler})
    PROVE  HandlerInv(g)'
<1>1. (writer' = g) <=> (writer = g)
    BY MemoStoreAssumption
<1>2. \A m \in Memo : Exists(m)' = Exists(m) /\ EtagOf(m)' = EtagOf(m)
    BY DEF Exists, EtagOf
<1>3. LockOf(g)' /\ Named(g)' /\ AckFollowsEffect(g)'
    BY <1>1 DEF HandlerInv, LockOf, Named, AckFollowsEffect
<1>4. BasedOnVersion(g)' /\ ExtendsBase(g)'
    BY DEF HandlerInv, BasedOnVersion, ExtendsBase, Exists, EtagOf
<1>5. Admitted(g)'
    BY DEF HandlerInv, Admitted, Exists, EtagOf, Remembered
<1> QED
    BY <1>3, <1>4, <1>5 DEF HandlerInv

\* So a step that touches none of those tables is judged by its own handler alone.
LEMMA LocalStep ==
    ASSUME IInv, TypeOK', NEW h \in Handler,
           UNCHANGED <<memos, contents, keys>>,
           \A g \in Handler \ {h} :
                pc'[g] = pc[g] /\ req'[g] = req[g] /\ answer'[g] = answer[g],
           writer' = writer \/ (writer \in {h, NoHandler} /\ writer' \in {h, NoHandler}),
           HandlerInv(h)'
    PROVE  IInv'
<1>1. Tables'
    BY TablesFrame DEF IInv, Tables
<1>2. ASSUME NEW g \in Handler \ {h} PROVE HandlerInv(g)'
    BY OtherHandlers DEF IInv
<1> QED
    BY <1>1, <1>2 DEF IInv, Tables

-----------------------------------------------------------------------------
(* Steps that leave the tables alone. *)

\* A new request names its operation, and is based on nothing yet or on what the
\* request it repeats was based on.
LEMMA RequestIInv ==
    ASSUME IInv, NEW h \in Handler, Request(h)
    PROVE  IInv'
<1>t. TypeOK /\ TypeOK' /\ HandlerInv(h)
    BY RequestTypeOK DEF IInv
<1>1. ASSUME NEW r, NEW step \in {"summary", "check", "lock"}, Start(h, r, step)
      PROVE  /\ pc'[h] = step /\ req'[h] = r
             /\ pc[h] = "idle" /\ UNCHANGED <<durable, writer, answer>>
             /\ LockOf(h)' /\ AckFollowsEffect(h)'
             /\ HandlerInv(h)' => IInv'
    <2>1. /\ pc'[h] = step /\ req'[h] = r
          /\ pc[h] = "idle" /\ UNCHANGED <<durable, writer, answer>>
          /\ \A g \in Handler \ {h} : pc'[g] = pc[g] /\ req'[g] = req[g]
        BY <1>1, <1>t DEF Start, TypeOK
    <2>2. LockOf(h)' /\ AckFollowsEffect(h)'
        BY <2>1, <1>t DEF HandlerInv, LockOf, AckFollowsEffect, LockedStep
    <2> QED
        BY <2>1, <2>2, <1>t, LocalStep DEF durable
<1>2. ASSUME NEW op \in Ops, NEW m \in Memo, NEW k \in Mark, NEW d \in Doc,
             NEW step \in {"summary", "check", "lock"},
             Start(h, Ask(op, m, k, d), step),
             IF op \in SaveOps
             THEN k \in Key /\ m = MemoOf[k] /\ (op = "edit" <=> k \in EditKey)
             ELSE k = NoKey,
             step = "summary" => d = << >>,
             step # "summary" /\ op = "edit" => d # << >>,
             op = "create" => d \in InitialDocs
      PROVE  IInv'
    <2> DEFINE r == Ask(op, m, k, d)
    <2>1. /\ r.op = op /\ r.memo = m /\ r.key = k /\ r.doc = d /\ r.base = NoEtag
          /\ pc'[h] = step /\ req'[h] = r
        BY <1>1, <1>2 DEF Ask
    <2> HIDE DEF r
    <2>2. Named(h)' /\ BasedOnVersion(h)' /\ ExtendsBase(h)' /\ Admitted(h)'
        BY <1>2, <2>1 DEF Named, BasedOnVersion, ExtendsBase, Admitted, LockedStep
    <2> QED
        BY <1>1, <1>2, <2>2 DEF HandlerInv
<1>3. CASE RequestCreate(h)
    <2>1. PICK m \in Memo, d \in InitialDocs : Start(h, Ask("create", m, NoKey, d), "lock")
        BY <1>3 DEF RequestCreate
    <2>2. "create" \in Ops /\ d \in Doc
        BY <1>3, InitialDocsAreDocs DEF RequestCreate
    <2> QED
        BY <1>2, <2>1, <2>2 DEF SaveOps, Mark
<1>4. CASE RequestEdit(h)
    <2>1. PICK k \in EditKey : Start(h, Ask("edit", MemoOf[k], k, << >>), "summary")
        BY <1>4 DEF RequestEdit
    <2>2. "edit" \in Ops /\ k \in Key /\ MemoOf[k] \in Memo
        BY <1>4, MemoStoreAssumption DEF RequestEdit
    <2> QED
        BY <1>2, <2>1, <2>2, EmptyValues DEF SaveOps, Mark
<1>5. CASE RequestBlindEdit(h)
    <2>1. PICK k \in EditKey : Start(h, Ask("edit", MemoOf[k], k, <<k>>), "check")
        BY <1>5 DEF RequestBlindEdit
    <2>2. "edit" \in Ops /\ k \in Key /\ MemoOf[k] \in Memo
        BY <1>5, MemoStoreAssumption DEF RequestBlindEdit
    <2>3. <<k>> \in Doc /\ <<k>> # << >>
        BY <2>2 DEF Doc, Mark
    <2> QED
        BY <1>2, <2>1, <2>2, <2>3 DEF SaveOps, Mark
<1>6. CASE RequestTag(h)
    <2>1. PICK k \in Key \ EditKey, step \in {"summary", "check"} :
                Start(h, Ask("tag", MemoOf[k], k, << >>), step)
        BY <1>6 DEF RequestTag
    <2>2. "tag" \in Ops /\ MemoOf[k] \in Memo
        BY <1>6, MemoStoreAssumption DEF RequestTag
    <2> QED
        BY <1>2, <2>1, <2>2, EmptyValues DEF SaveOps, Mark
<1>7. CASE RequestRetry(h)
    <2>1. PICK g \in Handler :
                /\ req[g].op \in SaveOps
                /\ pc[g] # "idle"
                /\ req[g].op = "edit" => req[g].doc # << >>
                /\ Start(h, req[g], "check")
        BY <1>7 DEF RequestRetry, LockedStep
    <2>2. HandlerInv(g) /\ pc'[h] = "check" /\ req'[h] = req[g] /\ UNCHANGED durable
        BY <1>1, <2>1 DEF IInv
    <2>3. Named(h)' /\ BasedOnVersion(h)'
        BY <2>1, <2>2 DEF HandlerInv, Named, BasedOnVersion, durable, Exists, EtagOf
    <2>4. ExtendsBase(h)' /\ Admitted(h)'
        BY <2>1, <2>2 DEF HandlerInv, ExtendsBase, Admitted, SaveOps, durable, Exists, EtagOf
    <2> QED
        BY <1>1, <2>1, <2>3, <2>4 DEF HandlerInv
<1>8. CASE RequestLifecycle(h)
    <2>1. PICK op \in Ops \intersect {"trash", "purge", "restore"}, m \in Memo :
                Start(h, Ask(op, m, NoKey, << >>), "lock")
        BY <1>8 DEF RequestLifecycle
    <2> QED
        BY <1>2, <2>1, EmptyValues DEF SaveOps, Mark
<1> QED
    BY <1>3, <1>4, <1>5, <1>6, <1>7, <1>8 DEF Request

\* Before the lock: the two reads, the lease and the first look at the key.
LEMMA ReadIInv ==
    ASSUME IInv, NEW h \in Handler,
           GetSummary(h) \/ ReadMarkdown(h) \/ CreateLease(h) \/ GetIdempotency(h)
    PROVE  IInv'
<1> DEFINE r == req[h]
           m == req[h].memo
<1>t. /\ TypeOK /\ TypeOK' /\ HandlerInv(h) /\ RowsAgree
      /\ r \in RequestRow /\ m \in Memo /\ EtagOf(m) \in Etag
    BY HandlerTypeOK, FieldTypes DEF IInv, HandlerStep
<1>p. ASSUME UNCHANGED <<memos, contents, keys>>,
             \E step \in Step : pc' = [pc EXCEPT ![h] = step],
             \/ req' = req
             \/ \E x : req' = [req EXCEPT ![h].base = x]
             \/ \E x : req' = [req EXCEPT ![h].doc = x]
             \/ \E x : req' = [req EXCEPT ![h].lease = x],
             answer' = answer \/ \E x : answer' = [answer EXCEPT ![h] = x],
             writer' = writer, HandlerInv(h)'
      PROVE  IInv'
    <2>1. \A g \in Handler \ {h} :
                pc'[g] = pc[g] /\ req'[g] = req[g] /\ answer'[g] = answer[g]
        BY <1>p, <1>t DEF TypeOK
    <2> QED
        BY <1>p, <1>t, <2>1, LocalStep
<1>1. ASSUME NEW code \in Code, NEW etag, Reply(h, code, etag), pc[h] \notin LockedStep,
             pc[h] \notin {"idle", "done"},
             UNCHANGED <<durable, writer, req>>,
             code = "ok" /\ r.op \in SaveOps => keys[r.key].state # "unused"
      PROVE  IInv'
    <2>1. pc'[h] = "done" /\ answer'[h] = [code |-> code, etag |-> etag]
        BY <1>1, <1>t DEF Reply, TypeOK
    <2>2. LockOf(h)' /\ Named(h)' /\ AckFollowsEffect(h)'
        BY <1>1, <1>t, <2>1 DEF HandlerInv, LockOf, Named, AckFollowsEffect, LockedStep, durable
    <2>3. BasedOnVersion(h)' /\ ExtendsBase(h)' /\ Admitted(h)'
        BY <1>1, <1>t, <2>1 DEF HandlerInv, BasedOnVersion, ExtendsBase, Admitted,
           LockedStep, durable, Exists, EtagOf
    <2>4. HandlerInv(h)'
        BY <2>2, <2>3 DEF HandlerInv
    <2> QED
        BY <1>1, <1>p, <2>4 DEF Reply, durable, Step
<1>2. ASSUME GetSummary(h), Exists(m) PROVE IInv'
    <2>1. /\ pc[h] = "summary" /\ UNCHANGED <<durable, writer, answer>>
          /\ req' = [req EXCEPT ![h].base = EtagOf(m)]
          /\ pc' = [pc EXCEPT ![h] = IF r.op = "edit" THEN "content" ELSE "check"]
        BY <1>2 DEF GetSummary
    <2>2. /\ pc'[h] = IF r.op = "edit" THEN "content" ELSE "check"
          /\ req'[h] = [r EXCEPT !.base = EtagOf(m)]
        BY <2>1, <1>t DEF TypeOK
    <2>3. /\ req'[h].op = r.op /\ req'[h].key = r.key /\ req'[h].memo = m
          /\ req'[h].base = EtagOf(m) /\ req'[h].doc = r.doc /\ r.doc = << >>
        BY <1>t, <2>1, <2>2 DEF RequestRow, HandlerInv, ExtendsBase
    <2>4. LockOf(h)' /\ Named(h)' /\ AckFollowsEffect(h)'
        BY <1>t, <2>1, <2>2, <2>3
           DEF HandlerInv, LockOf, Named, AckFollowsEffect, LockedStep, durable
    <2>5. BasedOnVersion(h)'
        BY <1>2, <1>t, <2>1, <2>3 DEF BasedOnVersion, Exists, EtagOf, durable, TypeOK, MemoRow
    <2>6. ExtendsBase(h)' /\ Admitted(h)'
        BY <1>t, <2>1, <2>2, <2>3 DEF ExtendsBase, Admitted, LockedStep, HandlerInv
    <2>7. HandlerInv(h)'
        BY <2>4, <2>5, <2>6 DEF HandlerInv
    <2> QED
        BY <1>p, <2>1, <2>7 DEF durable, Step
<1>3. ASSUME ReadMarkdown(h), Exists(m) PROVE IInv'
    <2>1. PICK step \in {"check", "lease"} :
          /\ pc[h] = "content" /\ UNCHANGED <<durable, writer, answer>>
          /\ req' = [req EXCEPT ![h].doc = Append(contents[m].doc, r.key)]
          /\ pc' = [pc EXCEPT ![h] = step]
        BY <1>3 DEF ReadMarkdown
    <2>2. pc'[h] = step /\ req'[h] = [r EXCEPT !.doc = Append(contents[m].doc, r.key)]
        BY <2>1, <1>t DEF TypeOK
    <2>3. /\ req'[h].op = r.op /\ req'[h].key = r.key /\ req'[h].memo = m
          /\ req'[h].base = r.base /\ req'[h].doc = Append(contents[m].doc, r.key)
        BY <1>t, <2>2 DEF RequestRow
    <2>4. req'[h].doc # << >>
        <3>1. PICK doc \in Seq(Mark) : doc = contents[m].doc
            BY <1>t, FieldTypes DEF Doc
        <3>2. Append(doc, r.key) # << >>
            OBVIOUS
        <3> QED
            BY <2>3, <3>1, <3>2
    <2>5. LockOf(h)' /\ Named(h)' /\ AckFollowsEffect(h)'
        BY <1>t, <2>1, <2>2, <2>3
           DEF HandlerInv, LockOf, Named, AckFollowsEffect, LockedStep, durable
    <2>6. BasedOnVersion(h)'
        BY <1>t, <2>1, <2>3 DEF HandlerInv, BasedOnVersion, Exists, EtagOf, durable
    <2>7. ExtendsBase(h)'
        BY <1>t, <2>1, <2>2, <2>3, <2>4 DEF ExtendsBase, Exists, EtagOf, durable
    <2>8. Admitted(h)'
        BY <1>t, <2>1, <2>2, <2>3 DEF Admitted, HandlerInv, ExtendsBase
    <2>9. HandlerInv(h)'
        BY <2>5, <2>6, <2>7, <2>8 DEF HandlerInv
    <2> QED
        BY <1>p, <2>1, <2>9 DEF durable, Step
<1>4. ASSUME CreateLease(h), Exists(m) PROVE IInv'
    <2>1. /\ pc[h] = "lease"
          /\ UNCHANGED <<memos, contents, keys, writer, answer>>
          /\ req' = [req EXCEPT ![h].lease = h]
          /\ pc' = [pc EXCEPT ![h] = "check"]
        BY <1>4 DEF CreateLease
    <2>2. pc'[h] = "check" /\ req'[h] = [r EXCEPT !.lease = h]
        BY <2>1, <1>t DEF TypeOK
    <2>3. /\ req'[h].op = r.op /\ req'[h].key = r.key /\ req'[h].memo = m
          /\ req'[h].base = r.base /\ req'[h].doc = r.doc
        BY <1>t, <2>2 DEF RequestRow
    <2>4. LockOf(h)' /\ Named(h)' /\ AckFollowsEffect(h)'
        BY <1>t, <2>1, <2>2, <2>3
           DEF HandlerInv, LockOf, Named, AckFollowsEffect, LockedStep
    <2>5. BasedOnVersion(h)' /\ ExtendsBase(h)' /\ Admitted(h)'
        BY <1>t, <2>1, <2>2, <2>3
           DEF HandlerInv, BasedOnVersion, ExtendsBase, Admitted, Exists, EtagOf, LockedStep
    <2>6. HandlerInv(h)'
        BY <2>4, <2>5 DEF HandlerInv
    <2> QED
        BY <1>p, <2>1, <2>6 DEF Step
<1>5. ASSUME GetIdempotency(h), ~Remembered(r.key) PROVE IInv'
    <2>1. /\ pc[h] = "check" /\ UNCHANGED <<durable, writer, req, answer>>
          /\ pc' = [pc EXCEPT ![h] = "lock"]
        BY <1>5 DEF GetIdempotency
    <2>2. pc'[h] = "lock"
        BY <2>1, <1>t DEF TypeOK
    <2>3. LockOf(h)' /\ Named(h)' /\ AckFollowsEffect(h)'
        BY <1>t, <2>1, <2>2
           DEF HandlerInv, LockOf, Named, AckFollowsEffect, LockedStep, durable
    <2>4. BasedOnVersion(h)' /\ ExtendsBase(h)' /\ Admitted(h)'
        BY <1>t, <2>1, <2>2
           DEF HandlerInv, BasedOnVersion, ExtendsBase, Admitted, Exists, EtagOf,
               LockedStep, durable
    <2>5. HandlerInv(h)'
        BY <2>3, <2>4 DEF HandlerInv
    <2> QED
        BY <1>p, <2>1, <2>5 DEF durable, Step
<1>6. CASE GetSummary(h) /\ ~Exists(m)
    BY <1>1, <1>6 DEF GetSummary, Code, LockedStep
<1>7. CASE ReadMarkdown(h) /\ ~Exists(m)
    BY <1>1, <1>7 DEF ReadMarkdown, Code, LockedStep
<1>8. CASE CreateLease(h) /\ ~Exists(m)
    BY <1>1, <1>8 DEF CreateLease, Code, LockedStep
<1>9. CASE GetIdempotency(h) /\ Remembered(r.key)
    BY <1>1, <1>9 DEF GetIdempotency, Remembered, Code, LockedStep
<1> QED
    BY <1>2, <1>3, <1>4, <1>5, <1>6, <1>7, <1>8, <1>9

\* A handler that moves on with the same request: the version it is based on and
\* the text it carries stay what they were.
LEMMA SameRequest ==
    ASSUME IInv, NEW h \in Handler,
           UNCHANGED <<memos, contents, keys, req>>,
           pc[h] # "idle",
           \/ pc'[h] = "done"
           \/ /\ pc'[h] \in LockedStep
              /\ pc[h] \in {"lock"} \union LockedStep,
           LockOf(h)', AckFollowsEffect(h)', Admitted(h)'
    PROVE  HandlerInv(h)'
<1>1. HandlerInv(h)
    BY DEF IInv
<1>2. Named(h)' /\ BasedOnVersion(h)'
    BY <1>1 DEF HandlerInv, Named, BasedOnVersion, Exists, EtagOf
<1>3. ExtendsBase(h)'
    BY <1>1 DEF HandlerInv, ExtendsBase, LockedStep, Exists, EtagOf
<1> QED
    BY <1>2, <1>3 DEF HandlerInv

\* With the lock, or as it is given back: everything a handler does that is not its
\* own commit.
LEMMA LockIInv ==
    ASSUME IInv, NEW h \in Handler,
           \/ SaveTurnedDown(h) \/ SaveAdmitted(h) \/ CreateAdmitted(h)
           \/ StoreBlob(h) \/ MaybeSnapshot(h) \/ AppendUnlocked(h) \/ Drop(h)
    PROVE  IInv'
<1> DEFINE r == req[h]
           m == req[h].memo
<1>t. /\ TypeOK /\ TypeOK' /\ HandlerInv(h)
      /\ r \in RequestRow /\ m \in Memo /\ r.key \in Mark
    BY HandlerTypeOK, EnvironmentTypeOK, FieldTypes DEF IInv, HandlerStep
<1>p. ASSUME UNCHANGED <<memos, contents, keys, req>>,
             \E step \in Step : pc' = [pc EXCEPT ![h] = step],
             \/ answer' = answer
             \/ \E x : answer' = [answer EXCEPT ![h] = x],
             writer' = writer \/ (writer \in {h, NoHandler} /\ writer' \in {h, NoHandler}),
             HandlerInv(h)'
      PROVE  IInv'
    <2>1. \A g \in Handler \ {h} :
                pc'[g] = pc[g] /\ req'[g] = req[g] /\ answer'[g] = answer[g]
        BY <1>p, <1>t DEF TypeOK
    <2> QED
        BY <1>p, <1>t, <2>1, LocalStep
<1>d. ASSUME UNCHANGED <<memos, contents, keys, req>>, pc[h] # "idle",
             pc'[h] = "done", writer' # h,
             answer'[h].code = "ok" /\ r.op \in SaveOps => keys[r.key].state # "unused"
      PROVE  HandlerInv(h)'
    <2>1. LockOf(h)' /\ AckFollowsEffect(h)'
        BY <1>d DEF LockOf, AckFollowsEffect, LockedStep
    <2>2. Admitted(h)'
        BY <1>d, <1>t DEF HandlerInv, Admitted
    <2> QED
        BY <1>d, <2>1, <2>2, SameRequest
<1>1. CASE SaveTurnedDown(h)
    <2>1. PICK code, etag :
            /\ code \in Code \ {"none"}
            /\ pc[h] = "lock" /\ writer = NoHandler
            /\ code = "ok" => Remembered(r.key)
            /\ Reply(h, code, etag) /\ UNCHANGED <<durable, writer, req>>
        BY <1>1 DEF SaveTurnedDown, SaveVerdict, Code
    <2>2. pc'[h] = "done" /\ answer'[h] = [code |-> code, etag |-> etag]
        BY <2>1, <1>t DEF Reply, TypeOK
    <2>3. writer' # h
        BY <2>1, MemoStoreAssumption
    <2>4. HandlerInv(h)'
        BY <1>d, <2>1, <2>2, <2>3 DEF Remembered, durable
    <2> QED
        BY <1>p, <2>1, <2>4 DEF Reply, durable, Step
<1>2. CASE SaveAdmitted(h)
    <2>1. PICK step \in {"blob", "snapshot", "commit"} :
            /\ pc[h] = "lock" /\ writer = NoHandler /\ r.op \in SaveOps
            /\ SaveVerdict(r) = "none"
            /\ writer' = h /\ UNCHANGED <<durable, req, answer>>
            /\ pc' = [pc EXCEPT ![h] = step]
            /\ step \in {"blob", "snapshot"} => r.op = "edit"
        BY <1>2 DEF SaveAdmitted, SaveOps
    <2>2. pc'[h] = step
        BY <2>1, <1>t DEF TypeOK
    <2>3. /\ ~Remembered(r.key) /\ Exists(m)
          /\ r.base = NoEtag \/ r.base = EtagOf(m)
          /\ r.op = "edit" => r.base # NoEtag
        BY <2>1 DEF SaveVerdict
    <2>4. Admitted(h)'
        BY <2>1, <2>2, <2>3
           DEF Admitted, SaveOps, durable, Exists, EtagOf, Remembered
    <2>5. LockOf(h)' /\ AckFollowsEffect(h)'
        BY <1>t, <2>1, <2>2 DEF HandlerInv, LockOf, AckFollowsEffect, LockedStep
    <2>6. HandlerInv(h)'
        BY <2>1, <2>2, <2>4, <2>5, SameRequest DEF LockedStep, durable
    <2> QED
        BY <1>p, <2>1, <2>6 DEF durable, Step
<1>3. CASE CreateAdmitted(h)
    <2>1. PICK step \in {"blob", "commit"} :
            /\ pc[h] = "lock" /\ writer = NoHandler /\ r.op = "create"
            /\ memos[m].state = "absent"
            /\ writer' = h /\ UNCHANGED <<durable, req, answer>>
            /\ pc' = [pc EXCEPT ![h] = step]
        BY <1>3 DEF CreateAdmitted
    <2>2. pc'[h] = step
        BY <2>1, <1>t DEF TypeOK
    <2>3. Admitted(h)'
        BY <1>t, <2>1, <2>2 DEF HandlerInv, Admitted, SaveOps, durable
    <2>4. LockOf(h)' /\ AckFollowsEffect(h)'
        BY <1>t, <2>1, <2>2 DEF HandlerInv, LockOf, AckFollowsEffect, LockedStep
    <2>5. HandlerInv(h)'
        BY <2>1, <2>2, <2>3, <2>4, SameRequest DEF LockedStep, durable
    <2> QED
        BY <1>p, <2>1, <2>5 DEF durable, Step
<1>4. ASSUME NEW step \in {"snapshot", "commit"}, pc[h] \in {"blob", "snapshot"},
             step = "snapshot" => r.op = "edit",
             pc' = [pc EXCEPT ![h] = step],
             UNCHANGED <<memos, contents, keys, writer, req, answer>>
      PROVE  IInv'
    <2>1. pc'[h] = step
        BY <1>4, <1>t DEF TypeOK
    <2>2. Admitted(h)'
        BY <1>t, <1>4, <2>1 DEF HandlerInv, Admitted, Exists, EtagOf, Remembered
    <2>3. LockOf(h)' /\ AckFollowsEffect(h)'
        BY <1>t, <1>4, <2>1 DEF HandlerInv, LockOf, AckFollowsEffect, LockedStep
    <2>4. HandlerInv(h)'
        BY <1>4, <2>1, <2>2, <2>3, SameRequest DEF LockedStep
    <2> QED
        BY <1>p, <1>4, <2>4 DEF Step
<1>5. CASE StoreBlob(h)
    BY <1>4, <1>5, <1>t DEF StoreBlob, HandlerInv, Admitted
<1>6. CASE MaybeSnapshot(h) /\ ~(m \notin fresh /\ SnapshotTaken(m))
    BY <1>4, <1>6 DEF MaybeSnapshot
<1>7. CASE MaybeSnapshot(h) /\ m \notin fresh /\ SnapshotTaken(m)
    <2>1. /\ pc[h] = "snapshot" /\ Reply(h, "internal", NoEtag) /\ writer' = NoHandler
          /\ UNCHANGED <<memos, contents, keys, req>>
        BY <1>7 DEF MaybeSnapshot
    <2>2. pc'[h] = "done" /\ answer'[h].code = "internal" /\ writer = h /\ writer' # h
        BY <1>t, <2>1, MemoStoreAssumption
           DEF Reply, TypeOK, HandlerInv, LockOf, LockedStep
    <2>3. HandlerInv(h)'
        BY <1>d, <2>1, <2>2
    <2> QED
        BY <1>p, <2>1, <2>2, <2>3 DEF Reply, Step
<1>8. CASE AppendUnlocked(h)
    <2>1. /\ pc[h] = "append" /\ Reply(h, "ok", answer[h].etag) /\ writer' = NoHandler
          /\ UNCHANGED <<memos, contents, keys, req>>
        BY <1>8 DEF AppendUnlocked
    <2>2. pc'[h] = "done" /\ writer = h /\ writer' # h
        BY <1>t, <2>1, MemoStoreAssumption
           DEF Reply, TypeOK, HandlerInv, LockOf, LockedStep
    <2>3. r.op \in SaveOps => keys[r.key].state # "unused"
        BY <1>t, <2>1 DEF HandlerInv, AckFollowsEffect
    <2>4. HandlerInv(h)'
        BY <1>d, <2>1, <2>2, <2>3
    <2> QED
        BY <1>p, <2>1, <2>2, <2>4 DEF Reply, Step
<1>9. CASE Drop(h)
    <2>1. /\ pc[h] \notin {"idle", "done"} /\ pc' = [pc EXCEPT ![h] = "done"]
          /\ writer' = IF writer = h THEN NoHandler ELSE writer
          /\ UNCHANGED <<memos, contents, keys, req, answer>>
        BY <1>9 DEF Drop, durable
    <2>2. /\ pc'[h] = "done" /\ writer' # h
          /\ answer[h].code = "none" /\ answer' = answer
        BY <1>t, <2>1, MemoStoreAssumption DEF TypeOK, HandlerInv, AckFollowsEffect
    <2>3. HandlerInv(h)'
        BY <1>d, <2>1, <2>2
    <2> QED
        BY <1>p, <2>1, <2>3 DEF Step
<1> QED
    BY <1>1, <1>2, <1>3, <1>5, <1>6, <1>7, <1>8, <1>9

\* A lease or a snapshot that grows old is nothing the invariant speaks of.
LEMMA AgeingIInv ==
    ASSUME IInv, (\E h \in Handler : ExpireLease(h)) \/ (\E m \in Memo : AgeSnapshot(m))
    PROVE  IInv'
<1>1. TypeOK' /\ UNCHANGED <<memos, contents, keys, writer, pc, req, answer>>
    BY EnvironmentTypeOK DEF IInv, ExpireLease, AgeSnapshot
<1>2. Tables'
    BY <1>1, TablesFrame DEF IInv, Tables
<1>3. ASSUME NEW h \in Handler PROVE HandlerInv(h)'
    <2>1. HandlerInv(h)
        BY DEF IInv
    <2>2. LockOf(h)' /\ Named(h)' /\ AckFollowsEffect(h)'
        BY <1>1, <2>1 DEF HandlerInv, LockOf, Named, AckFollowsEffect
    <2>3. BasedOnVersion(h)' /\ ExtendsBase(h)' /\ Admitted(h)'
        BY <1>1, <2>1
           DEF HandlerInv, BasedOnVersion, ExtendsBase, Admitted, Exists, EtagOf, Remembered
    <2> QED
        BY <2>2, <2>3 DEF HandlerInv
<1> QED
    BY <1>1, <1>2, <1>3 DEF IInv, Tables

-----------------------------------------------------------------------------
(* Commits: steps that change a memo under the lock. *)

\* The marks of a text with one more mark.
LEMMA InAppend ==
    ASSUME NEW d \in Doc, NEW k \in Mark
    PROVE  /\ Append(d, k) \in Doc /\ Append(d, k) # << >>
           /\ Len(d) \in Nat /\ DOMAIN d = 1 .. Len(d)
           /\ DOMAIN Append(d, k) = 1 .. Len(d) + 1
           /\ \A i \in 1 .. Len(d) : Append(d, k)[i] = d[i]
           /\ Append(d, k)[Len(d) + 1] = k
           /\ \A x : In(x, Append(d, k)) <=> In(x, d) \/ x = k
<1>1. /\ Append(d, k) \in Doc /\ Append(d, k) # << >>
      /\ DOMAIN Append(d, k) = 1 .. Len(d) + 1 /\ DOMAIN d = 1 .. Len(d)
      /\ \A i \in 1 .. Len(d) : Append(d, k)[i] = d[i]
      /\ Append(d, k)[Len(d) + 1] = k
      /\ Len(d) \in Nat
    BY DEF Doc
<1>2. ASSUME NEW x PROVE In(x, Append(d, k)) <=> In(x, d) \/ x = k
    <2>1. ASSUME In(x, d) PROVE In(x, Append(d, k))
        BY <1>1, <2>1 DEF In
    <2>2. ASSUME x = k PROVE In(x, Append(d, k))
        BY <1>1, <2>2 DEF In
    <2>3. ASSUME In(x, Append(d, k)), x # k PROVE In(x, d)
        <3>1. PICK i \in 1 .. Len(d) + 1 : Append(d, k)[i] = x
            BY <1>1, <2>3 DEF In
        <3>2. i \in 1 .. Len(d)
            BY <1>1, <2>3, <3>1
        <3> QED
            BY <1>1, <3>1, <3>2 DEF In
    <2> QED
        BY <2>1, <2>2, <2>3
<1> QED
    BY <1>1, <1>2

\* A handler without the lock is not hurt by the holder's commit: what it read is
\* either still the memo's version or an older one, which the memo never has again.
LEMMA WaitersUnhurt ==
    ASSUME TypeOK, TypeOK', RowsAgree,
           NEW h \in Handler, NEW g \in Handler, g # h, HandlerInv(g),
           writer \in {h, NoHandler}, writer' \in {h, NoHandler},
           pc'[g] = pc[g], req'[g] = req[g], answer'[g] = answer[g],
           \A m \in Memo :
              \/ memos[m].state = "absent"
              \/ memos'[m].state = "purged"
              \/ Exists(m) /\ Exists(m)' /\ memos'[m].revision > memos[m].revision
              \/ /\ memos'[m].state # "absent" /\ Exists(m)' = Exists(m)
                 /\ EtagOf(m)' = EtagOf(m) /\ contents'[m].doc = contents[m].doc,
           \A m \in Memo : Exists(m)' => memos'[m].state # "absent",
           \A k \in Key : keys[k].state # "unused" => keys'[k].state # "unused"
    PROVE  HandlerInv(g)'
<1> DEFINE m == req[g].memo
           b == req[g].base
<1>1. writer # g /\ writer' # g /\ pc[g] \notin LockedStep
    BY MemoStoreAssumption DEF HandlerInv, LockOf
<1>2. /\ m \in Memo /\ b.revision \in Nat
      /\ memos[m].revision \in Nat /\ memos'[m].revision \in Nat
    BY DEF TypeOK, RequestRow, MemoRow, Etag
<1>3. LockOf(g)' /\ Named(g)'
    BY <1>1 DEF HandlerInv, LockOf, Named
<1>4. AckFollowsEffect(g)'
    <2>1. pc[g] # "idle" /\ req[g].op \in SaveOps => req[g].key \in Key
        BY DEF HandlerInv, Named
    <2>2. pc[g] = "idle" => answer[g].code # "ok"
        BY DEF HandlerInv, AckFollowsEffect
    <2> QED
        BY <1>1, <2>1, <2>2 DEF HandlerInv, AckFollowsEffect, LockedStep
<1>5. Admitted(g)'
    BY <1>1 DEF HandlerInv, Admitted, LockedStep
<1>6. BasedOnVersion(g)'
    <2> SUFFICES ASSUME b # NoEtag
                 PROVE  /\ memos'[m].state # "absent"
                        /\ Exists(m)' =>
                              /\ b.revision <= memos'[m].revision
                              /\ b.revision = memos'[m].revision => b = EtagOf(m)'
        BY DEF BasedOnVersion
    <2>1. /\ memos[m].state # "absent"
          /\ Exists(m) => /\ b.revision <= memos[m].revision
                          /\ b.revision = memos[m].revision => b = EtagOf(m)
        BY DEF HandlerInv, BasedOnVersion
    <2>2. CASE memos'[m].state = "purged"
        BY <2>2 DEF Exists
    <2>3. CASE Exists(m) /\ Exists(m)' /\ memos'[m].revision > memos[m].revision
        BY <1>2, <2>1, <2>3
    <2>4. CASE /\ memos'[m].state # "absent" /\ Exists(m)' = Exists(m)
               /\ EtagOf(m)' = EtagOf(m)
        BY <1>2, <2>1, <2>4 DEF EtagOf
    <2> QED
        BY <1>2, <2>1, <2>2, <2>3, <2>4
<1>7. ExtendsBase(g)'
    <2>1. ASSUME req[g].op = "edit", req[g].doc # << >>, b # NoEtag,
                 Exists(m)', b = EtagOf(m)'
          PROVE  req[g].doc = Append(contents'[m].doc, req[g].key)
        <3>1. /\ memos[m].state # "absent" /\ b.revision = memos'[m].revision
              /\ Exists(m) => b.revision <= memos[m].revision
            BY <2>1 DEF HandlerInv, BasedOnVersion, EtagOf
        <3>2. memos'[m].state # "purged"
            BY <2>1 DEF Exists
        <3>3. Exists(m) /\ EtagOf(m)' = EtagOf(m) /\ contents'[m].doc = contents[m].doc
            BY <1>2, <2>1, <3>1, <3>2
        <3> QED
            BY <2>1, <3>3 DEF HandlerInv, ExtendsBase
    <2> QED
        BY <2>1 DEF HandlerInv, ExtendsBase
<1> QED
    BY <1>3, <1>4, <1>5, <1>6, <1>7 DEF HandlerInv

LEMMA CreateIInv ==
    ASSUME IInv, NEW h \in Handler, CommitCreate(h)
    PROVE  IInv'
<1> DEFINE m == req[h].memo
           d == req[h].doc
<1>t. /\ TypeOK /\ TypeOK' /\ HandlerInv(h) /\ Tables
      /\ m \in Memo /\ d \in InitialDocs
      /\ pc[h] = "commit" /\ req[h].op = "create" /\ writer = h
      /\ memos[m].state = "absent" /\ req[h].base = NoEtag
    <2>1. TypeOK /\ TypeOK' /\ HandlerInv(h) /\ Tables /\ m \in Memo
        BY HandlerTypeOK, FieldTypes DEF IInv, Tables, HandlerStep
    <2> QED
        BY <2>1 DEF CommitCreate, HandlerInv, Admitted, LockOf, LockedStep, BasedOnVersion
<1>1. /\ memos' = [memos EXCEPT ![m] = [state |-> "live", revision |-> 1,
                                        hash |-> d, meta |-> NoKey]]
      /\ contents' = [contents EXCEPT ![m] = [revision |-> 1, doc |-> d]]
      /\ UNCHANGED <<keys, writer, req>>
      /\ pc' = [pc EXCEPT ![h] = "append"]
      /\ \E e : answer' = [answer EXCEPT ![h].etag = e]
    BY DEF CommitCreate, Committed
<1>2. /\ memos'[m].state = "live" /\ memos'[m].revision = 1 /\ memos'[m].hash = d
      /\ contents'[m].revision = 1 /\ contents'[m].doc = d
      /\ \A n \in Memo \ {m} : memos'[n] = memos[n] /\ contents'[n] = contents[n]
    BY <1>1, <1>t DEF TypeOK
<1>3. \A k \in Key : ~In(k, d)
    BY <1>t, MemoStoreAssumption DEF InitialDocs, In
<1>4. Tables'
    <2>1. RowsAgree'
        BY <1>2, <1>t DEF Tables, RowsAgree, Exists
    <2>2. MarksFollowKeys'
        BY <1>1, <1>2, <1>3, <1>t, MemoStoreAssumption
           DEF Tables, MarksFollowKeys, Exists
    <2>3. AppliedOnce'
        BY <1>1, <1>2, <1>3, <1>t DEF Tables, AppliedOnce, In
    <2> QED
        BY <2>1, <2>2, <2>3 DEF Tables
<1>5. ASSUME NEW g \in Handler \ {h} PROVE HandlerInv(g)'
    <2>1. pc'[g] = pc[g] /\ req'[g] = req[g] /\ answer'[g] = answer[g] /\ HandlerInv(g)
        BY <1>1, <1>t DEF TypeOK, IInv
    <2>2. ASSUME NEW n \in Memo \ {m}, memos[n].state # "absent"
          PROVE  /\ memos'[n].state # "absent" /\ Exists(n)' = Exists(n)
                 /\ EtagOf(n)' = EtagOf(n) /\ contents'[n].doc = contents[n].doc
        BY <1>2, <2>2 DEF Exists, EtagOf
    <2>3. \A n \in Memo : Exists(n)' => memos'[n].state # "absent"
        BY DEF Exists
    <2> QED
        BY <1>1, <1>t, <2>1, <2>2, <2>3, WaitersUnhurt DEF Tables
<1>6. HandlerInv(h)'
    <2>1. pc'[h] = "append" /\ answer'[h].code = answer[h].code
        BY <1>1, <1>t DEF TypeOK, Answer
    <2> QED
        BY <1>1, <1>t, <2>1
           DEF HandlerInv, LockOf, Named, BasedOnVersion, ExtendsBase, Admitted,
               AckFollowsEffect, SaveOps, LockedStep
<1> QED
    BY <1>t, <1>4, <1>5, <1>6 DEF IInv, Tables

LEMMA ContentIInv ==
    ASSUME IInv, NEW h \in Handler, CommitContent(h)
    PROVE  IInv'
<1> DEFINE m == req[h].memo
           d == req[h].doc
           k == req[h].key
           old == contents[m].doc
<1>t. /\ TypeOK /\ TypeOK' /\ HandlerInv(h) /\ Tables
      /\ m \in Memo /\ old \in Doc /\ memos[m].revision \in Nat
    BY HandlerTypeOK, FieldTypes DEF IInv, Tables, HandlerStep
<1>a. /\ pc[h] = "commit" /\ req[h].op = "edit" /\ writer = h
      /\ Exists(m) /\ ~Remembered(k)
      /\ k \in EditKey /\ k \in Key /\ m = MemoOf[k]
      /\ req[h].base = EtagOf(m) /\ req[h].base # NoEtag /\ d = Append(old, k)
    <2>1. /\ pc[h] = "commit" /\ req[h].op = "edit" /\ writer = h
          /\ Exists(m) /\ ~Remembered(k)
          /\ req[h].base = EtagOf(m) /\ req[h].base # NoEtag
        BY <1>t DEF CommitContent, HandlerInv, Admitted, LockOf, LockedStep, SaveOps
    <2>2. k \in EditKey /\ k \in Key /\ m = MemoOf[k]
        BY <1>t, <2>1 DEF HandlerInv, Named, SaveOps
    <2> QED
        BY <1>t, <2>1, <2>2 DEF HandlerInv, ExtendsBase, LockedStep
<1>v. Exists(m) /\ req[h].base = EtagOf(m) /\ memos[m].revision \in Nat /\ req' = req
    BY <1>t, <1>a DEF CommitContent
<1>1. /\ memos' = [memos EXCEPT ![m].revision = memos[m].revision + 1, ![m].hash = d]
      /\ contents' = [contents EXCEPT ![m] = [revision |-> memos[m].revision + 1, doc |-> d]]
      /\ \E e : keys' = KeyStored(k, e) /\ answer' = [answer EXCEPT ![h].etag = e]
      /\ UNCHANGED <<writer, req>>
      /\ pc' = [pc EXCEPT ![h] = "append"]
    BY DEF CommitContent, Committed
<1>2. /\ memos'[m].state = memos[m].state
      /\ memos'[m].revision = memos[m].revision + 1 /\ memos'[m].hash = d
      /\ contents'[m].revision = memos[m].revision + 1 /\ contents'[m].doc = d
      /\ \A n \in Memo \ {m} : memos'[n] = memos[n] /\ contents'[n] = contents[n]
    <2>1. /\ memos \in [Memo -> MemoRow] /\ DOMAIN contents = Memo
          /\ m \in Memo
        BY <1>t DEF TypeOK
    <2>2. /\ contents'[m].revision = memos[m].revision + 1 /\ contents'[m].doc = d
          /\ \A n \in Memo \ {m} : memos'[n] = memos[n] /\ contents'[n] = contents[n]
        BY <1>1, <2>1
    <2>3. memos'[m] = [memos[m] EXCEPT !.revision = memos[m].revision + 1, !.hash = d]
        BY <1>1, <2>1
    <2>4. /\ memos'[m].state = memos[m].state
          /\ memos'[m].revision = memos[m].revision + 1 /\ memos'[m].hash = d
        BY <2>1, <2>3 DEF MemoRow
    <2> QED
        BY <2>2, <2>4
<1>3. /\ keys'[k].state = IF keys[k].state = "unused" THEN "live" ELSE keys[k].state
      /\ \A x \in Key \ {k} : keys'[x] = keys[x]
      /\ keys[k].state \in {"unused", "expired"}
    <2>1. PICK e : keys' = KeyStored(k, e)
        BY <1>1
    <2>2. /\ keys[k].state \in {"unused", "expired"}
          /\ k \in DOMAIN keys /\ DOMAIN keys = Key
        BY <1>t, <1>a DEF TypeOK, KeyRow, Remembered
    <2> QED
        BY <2>1, <2>2 DEF KeyStored
<1>4. /\ d # << >>
      /\ Len(old) \in Nat
      /\ DOMAIN d = 1 .. Len(old) + 1 /\ DOMAIN old = 1 .. Len(old)
      /\ \A i \in 1 .. Len(old) : d[i] = old[i]
      /\ d[Len(old) + 1] = k
      /\ \A x : In(x, d) <=> In(x, old) \/ x = k
    <2>1. old \in Doc /\ k \in Mark /\ d = Append(old, k)
        BY <1>t, <1>a DEF Mark
    <2> HIDE DEF old, k, d
    <2> QED
        BY <2>1, InAppend
<1>5. Tables'
    <2>1. RowsAgree'
        BY <1>2, <1>t, <1>a DEF Tables, RowsAgree, Exists
    <2>2. MarksFollowKeys'
        <3>1. ASSUME NEW x \in Key, keys'[x].state = "unused", NEW n \in Memo
              PROVE  ~In(x, contents'[n].doc)
            <4>1. x # k /\ keys[x].state = "unused"
                BY <1>3, <3>1
            <4>2. ~In(x, contents[n].doc) /\ ~In(x, old)
                BY <1>t, <4>1 DEF Tables, MarksFollowKeys
            <4> QED
                BY <1>2, <1>4, <4>1, <4>2
        <3>2. ASSUME NEW x \in Key, x \in EditKey, keys'[x].state # "unused"
              PROVE  /\ memos'[MemoOf[x]].state # "absent"
                     /\ Exists(MemoOf[x])' => In(x, contents'[MemoOf[x]].doc)
            <4>1. MemoOf[x] \in Memo
                BY MemoStoreAssumption
            <4>2. CASE x = k
                BY <1>2, <1>4, <1>a, <4>2 DEF Exists
            <4>3. CASE x # k
                <5>1. /\ memos[MemoOf[x]].state # "absent"
                      /\ Exists(MemoOf[x]) => In(x, contents[MemoOf[x]].doc)
                    BY <1>t, <1>3, <3>2, <4>3 DEF Tables, MarksFollowKeys
                <5> QED
                    BY <1>2, <1>4, <4>1, <5>1 DEF Exists
            <4> QED
                BY <4>2, <4>3
        <3> QED
            BY <3>1, <3>2 DEF MarksFollowKeys
    <2>3. AppliedOnce'
        <3>2. keys'[k].state # "expired" => ~In(k, old)
            BY <1>3, <1>t, <1>a DEF Tables, MarksFollowKeys
        <3>3. ASSUME NEW i \in DOMAIN d, NEW j \in DOMAIN d, d[i] \in Key, d[i] = d[j],
                     keys'[d[i]].state # "expired"
              PROVE  i = j
            <4>1. CASE d[i] = k
                <5>1. ~In(k, old)
                    BY <3>2, <3>3, <4>1
                <5>2. i \in 1 .. Len(old) + 1 /\ j \in 1 .. Len(old) + 1
                    BY <1>4, <3>3
                <5>3. i \notin 1 .. Len(old) /\ j \notin 1 .. Len(old)
                    BY <1>4, <3>3, <4>1, <5>1 DEF In
                <5> QED
                    BY <1>4, <5>2, <5>3
            <4>2. CASE d[i] # k
                <5>1. i \in DOMAIN old /\ j \in DOMAIN old /\ old[i] = d[i] /\ old[j] = d[j]
                    <6>1. i \in 1 .. Len(old) + 1 /\ j \in 1 .. Len(old) + 1
                        BY <1>4, <3>3
                    <6>2. i # Len(old) + 1 /\ j # Len(old) + 1
                        BY <1>4, <3>3, <4>2
                    <6>3. i \in 1 .. Len(old) /\ j \in 1 .. Len(old)
                        BY <1>4, <6>1, <6>2
                    <6> QED
                        BY <1>4, <6>3
                <5>2. keys[old[i]].state # "expired"
                    BY <1>3, <3>3, <4>2, <5>1
                <5> QED
                    BY <1>t, <3>3, <5>1, <5>2 DEF Tables, AppliedOnce
            <4> QED
                BY <4>1, <4>2
        <3>4. ASSUME NEW n \in Memo \ {m},
                     NEW i \in DOMAIN contents[n].doc, NEW j \in DOMAIN contents[n].doc,
                     contents[n].doc[i] \in Key, contents[n].doc[i] = contents[n].doc[j],
                     keys'[contents[n].doc[i]].state # "expired"
              PROVE  i = j
            <4>1. CASE contents[n].doc[i] = k
                <5>1. keys[k].state # "unused"
                    BY <1>t, <3>4, <4>1 DEF Tables, MarksFollowKeys, In
                <5> QED
                    BY <1>3, <3>4, <4>1, <5>1
            <4>2. CASE contents[n].doc[i] # k
                BY <1>3, <1>t, <3>4, <4>2 DEF Tables, AppliedOnce
            <4> QED
                BY <4>1, <4>2
        <3> QED
            BY <1>2, <3>3, <3>4 DEF AppliedOnce
    <2> QED
        BY <2>1, <2>2, <2>3 DEF Tables
<1>6. ASSUME NEW g \in Handler \ {h} PROVE HandlerInv(g)'
    <2>1. pc'[g] = pc[g] /\ req'[g] = req[g] /\ answer'[g] = answer[g] /\ HandlerInv(g)
        BY <1>1, <1>t DEF TypeOK, IInv
    <2>2. ASSUME NEW n \in Memo \ {m}, memos[n].state # "absent"
          PROVE  /\ memos'[n].state # "absent" /\ Exists(n)' = Exists(n)
                 /\ EtagOf(n)' = EtagOf(n) /\ contents'[n].doc = contents[n].doc
        BY <1>2, <2>2 DEF Exists, EtagOf
    <2>3. Exists(m) /\ Exists(m)' /\ memos'[m].revision > memos[m].revision
        BY <1>2, <1>v DEF Exists
    <2>4. /\ \A n \in Memo : Exists(n)' => memos'[n].state # "absent"
          /\ \A x \in Key : keys[x].state # "unused" => keys'[x].state # "unused"
        BY <1>3 DEF Exists
    <2> QED
        BY <1>1, <1>t, <1>a, <2>1, <2>2, <2>3, <2>4, WaitersUnhurt DEF Tables
<1>7. HandlerInv(h)'
    <2>1. pc'[h] = "append" /\ answer'[h].code = answer[h].code /\ keys'[k].state # "unused"
        BY <1>1, <1>3, <1>t DEF TypeOK, Answer
    <2>2. LockOf(h)' /\ Named(h)' /\ Admitted(h)' /\ AckFollowsEffect(h)'
        BY <1>1, <1>t, <1>a, <2>1
           DEF HandlerInv, LockOf, Named, Admitted, AckFollowsEffect, LockedStep
    <2>3. BasedOnVersion(h)'
        <3>1. memos'[m].state # "absent"
            BY <1>2, <1>v DEF Exists
        <3>2. /\ req'[h] = req[h] /\ req[h].base.revision = memos[m].revision
              /\ memos'[m].revision = memos[m].revision + 1
            BY <1>2, <1>v DEF EtagOf
        <3>3. /\ req[h].base.revision <= memos'[m].revision
              /\ req[h].base.revision # memos'[m].revision
            BY <1>v, <3>2
        <3> QED
            BY <3>1, <3>2, <3>3 DEF BasedOnVersion
    <2>4. d # << >> /\ req[h].base # EtagOf(m)'
        <3>1. req[h].base.revision = memos[m].revision /\ memos[m].revision \in Nat
            BY <1>v DEF EtagOf
        <3>2. EtagOf(m)'.revision = memos'[m].revision
            BY <1>v DEF EtagOf
        <3>3. req[h].base.revision # EtagOf(m)'.revision
            BY <1>2, <3>1, <3>2
        <3> QED
            BY <1>4, <3>3
    <2>5. ExtendsBase(h)'
        BY <1>1, <2>1, <2>4 DEF ExtendsBase
    <2> QED
        BY <2>2, <2>3, <2>5 DEF HandlerInv
<1> QED
    BY <1>t, <1>5, <1>6, <1>7 DEF IInv, Tables

\* A change of a memo's state or metadata that leaves its version alone.
LEMMA SameVersion ==
    ASSUME Tables, TypeOK, TypeOK',
           \A n \in Memo : /\ memos'[n].revision = memos[n].revision
                           /\ memos'[n].hash = memos[n].hash
                           /\ (memos'[n].state = "absent") <=> (memos[n].state = "absent")
                           /\ Exists(n)' = Exists(n),
           contents' = contents,
           \A k \in Key :
                /\ (keys'[k].state = "unused") => (keys[k].state = "unused")
                /\ (keys'[k].state # "unused") /\ k \in EditKey => keys[k].state # "unused"
                /\ (keys[k].state = "expired") => (keys'[k].state = "expired")
    PROVE  Tables'
<1>1. RowsAgree'
    BY DEF Tables, RowsAgree
<1>2. MarksFollowKeys'
    BY MemoStoreAssumption DEF Tables, MarksFollowKeys, In
<1>3. AppliedOnce'
    BY DEF Tables, AppliedOnce
<1> QED
    BY <1>1, <1>2, <1>3 DEF Tables

LEMMA MetaIInv ==
    ASSUME IInv, NEW h \in Handler, CommitMeta(h)
    PROVE  IInv'
<1> DEFINE m == req[h].memo
           k == req[h].key
<1>t. /\ TypeOK /\ TypeOK' /\ HandlerInv(h) /\ Tables /\ m \in Memo
    BY HandlerTypeOK, FieldTypes DEF IInv, Tables, HandlerStep
<1>a. /\ pc[h] = "commit" /\ req[h].op = "tag" /\ writer = h
      /\ Exists(m) /\ ~Remembered(k) /\ k \in Key /\ k \notin EditKey
      /\ req[h].base = NoEtag \/ req[h].base = EtagOf(m)
    <2>1. /\ pc[h] = "commit" /\ req[h].op = "tag" /\ writer = h
          /\ Exists(m) /\ ~Remembered(k)
          /\ req[h].base = NoEtag \/ req[h].base = EtagOf(m)
        BY <1>t DEF CommitMeta, HandlerInv, Admitted, LockOf, LockedStep, SaveOps
    <2>2. k \in Key /\ k \notin EditKey
        BY <1>t, <2>1 DEF HandlerInv, Named, SaveOps
    <2> QED
        BY <2>1, <2>2
<1>1. /\ memos' = [memos EXCEPT ![m].meta = k]
      /\ \E e : keys' = KeyStored(k, e) /\ answer' = [answer EXCEPT ![h].etag = e]
      /\ UNCHANGED <<contents, writer, req>>
      /\ pc' = [pc EXCEPT ![h] = "append"]
    BY DEF CommitMeta, Committed
<1>2. \A n \in Memo : /\ memos'[n].revision = memos[n].revision
                      /\ memos'[n].hash = memos[n].hash
                      /\ memos'[n].state = memos[n].state
    BY <1>1, <1>t DEF TypeOK, MemoRow
<1>3. /\ keys'[k].state = IF keys[k].state = "unused" THEN "live" ELSE keys[k].state
      /\ \A x \in Key \ {k} : keys'[x] = keys[x]
    <2>1. PICK e : keys' = KeyStored(k, e)
        BY <1>1
    <2>2. k \in DOMAIN keys /\ DOMAIN keys = Key
        BY <1>t, <1>a DEF TypeOK
    <2> QED
        BY <2>1, <2>2 DEF KeyStored
<1>4. \A n \in Memo : /\ Exists(n)' = Exists(n) /\ EtagOf(n)' = EtagOf(n)
                      /\ contents'[n].doc = contents[n].doc
    BY <1>1, <1>2 DEF Exists, EtagOf
<1>5. Tables'
    <2>1. \A x \in Key :
            /\ (keys'[x].state = "unused") => (keys[x].state = "unused")
            /\ (keys'[x].state # "unused") /\ x \in EditKey => keys[x].state # "unused"
            /\ (keys[x].state = "expired") => (keys'[x].state = "expired")
        BY <1>3, <1>a
    <2> QED
        BY <1>1, <1>2, <1>4, <1>t, <2>1, SameVersion
<1>6. ASSUME NEW g \in Handler \ {h} PROVE HandlerInv(g)'
    <2>1. pc'[g] = pc[g] /\ req'[g] = req[g] /\ answer'[g] = answer[g] /\ HandlerInv(g)
        BY <1>1, <1>t DEF TypeOK, IInv
    <2>2. /\ \A n \in Memo : Exists(n)' => memos'[n].state # "absent"
          /\ \A x \in Key : keys[x].state # "unused" => keys'[x].state # "unused"
        BY <1>3 DEF Exists
    <2> QED
        BY <1>1, <1>2, <1>4, <1>t, <1>a, <2>1, <2>2, WaitersUnhurt DEF Tables
<1>7. HandlerInv(h)'
    <2>1. pc'[h] = "append" /\ answer'[h].code = answer[h].code /\ keys'[k].state # "unused"
        BY <1>1, <1>3, <1>t DEF TypeOK, Answer
    <2>2. LockOf(h)' /\ Named(h)' /\ Admitted(h)' /\ AckFollowsEffect(h)'
        BY <1>1, <1>t, <1>a, <2>1
           DEF HandlerInv, LockOf, Named, Admitted, AckFollowsEffect, LockedStep
    <2>3. BasedOnVersion(h)' /\ ExtendsBase(h)'
        BY <1>1, <1>2, <1>4, <1>t, <1>a, <2>1
           DEF HandlerInv, BasedOnVersion, ExtendsBase, LockedStep
    <2> QED
        BY <2>2, <2>3 DEF HandlerInv
<1> QED
    BY <1>t, <1>5, <1>6, <1>7 DEF IInv, Tables

\* Trash, restore and purge hold the lock from the change of the row on.
LEMMA LifecycleIInv ==
    ASSUME IInv, NEW h \in Handler, SoftDelete(h) \/ Restore(h) \/ Purge(h)
    PROVE  IInv'
<1> DEFINE m == req[h].memo
<1>t. /\ TypeOK /\ TypeOK' /\ HandlerInv(h) /\ Tables /\ m \in Memo
    BY HandlerTypeOK, FieldTypes DEF IInv, Tables, HandlerStep
<1>1. /\ pc[h] = "lock" /\ req[h].op \in {"trash", "restore", "purge"}
      /\ writer = NoHandler /\ writer' = h
      /\ UNCHANGED <<keys, req, answer>>
      /\ pc' = [pc EXCEPT ![h] = "append"]
    BY DEF SoftDelete, Restore, Purge, SetTrashed
<1>2. CASE SoftDelete(h) \/ Restore(h) \/ (Purge(h) /\ ~Exists(m))
    <2>1. /\ contents' = contents
          /\ \/ memos' = memos
             \/ \E s \in {"live", "trashed"} :
                    Exists(m) /\ memos' = [memos EXCEPT ![m].state = s]
        BY <1>2 DEF SoftDelete, Restore, Purge, SetTrashed
    <2>2. \A n \in Memo : /\ memos'[n].revision = memos[n].revision
                          /\ memos'[n].hash = memos[n].hash
                          /\ (memos'[n].state = "absent") <=> (memos[n].state = "absent")
                          /\ Exists(n)' = Exists(n)
        <3>1. CASE memos' = memos
            BY <3>1 DEF Exists
        <3>2. ASSUME NEW s \in {"live", "trashed"}, Exists(m),
                     memos' = [memos EXCEPT ![m].state = s]
              PROVE  \A n \in Memo : /\ memos'[n].revision = memos[n].revision
                                     /\ memos'[n].hash = memos[n].hash
                                     /\ \/ memos'[n].state = memos[n].state
                                        \/ /\ memos'[n].state \in {"live", "trashed"}
                                           /\ memos[n].state \in {"live", "trashed"}
            BY <3>2, <1>t DEF TypeOK, MemoRow, Exists
        <3> QED
            BY <2>1, <3>1, <3>2 DEF Exists
    <2>3. \A n \in Memo : EtagOf(n)' = EtagOf(n) /\ contents'[n].doc = contents[n].doc
        BY <2>1, <2>2 DEF EtagOf
    <2>4. Tables'
        BY <1>1, <1>t, <2>1, <2>2, SameVersion
    <2>5. ASSUME NEW g \in Handler \ {h} PROVE HandlerInv(g)'
        <3>1. pc'[g] = pc[g] /\ req'[g] = req[g] /\ answer'[g] = answer[g] /\ HandlerInv(g)
            BY <1>1, <1>t DEF TypeOK, IInv
        <3>2. \A n \in Memo : Exists(n)' => memos'[n].state # "absent"
            BY DEF Exists
        <3> QED
            BY <1>1, <1>t, <2>2, <2>3, <3>1, <3>2, WaitersUnhurt DEF Tables
    <2>6. HandlerInv(h)'
        <3>1. pc'[h] = "append"
            BY <1>1, <1>t DEF TypeOK
        <3>2. LockOf(h)' /\ Named(h)' /\ Admitted(h)' /\ AckFollowsEffect(h)'
            BY <1>1, <1>t, <3>1
               DEF HandlerInv, LockOf, Named, Admitted, AckFollowsEffect, LockedStep, SaveOps
        <3>3. BasedOnVersion(h)' /\ ExtendsBase(h)'
            BY <1>1, <1>t, <2>1, <2>2, <2>3, <3>1
               DEF HandlerInv, BasedOnVersion, ExtendsBase, LockedStep
        <3> QED
            BY <3>2, <3>3 DEF HandlerInv
    <2> QED
        BY <1>t, <2>4, <2>5, <2>6 DEF IInv, Tables
<1>3. CASE Purge(h) /\ Exists(m)
    <2>1. /\ memos' = [memos EXCEPT ![m] = [state |-> "purged", revision |-> 0,
                                            hash |-> << >>, meta |-> NoKey]]
          /\ contents' = [contents EXCEPT ![m] = [revision |-> 0, doc |-> << >>]]
        BY <1>3 DEF Purge
    <2>2. /\ memos'[m].state = "purged" /\ memos'[m].revision = 0 /\ memos'[m].hash = << >>
          /\ contents'[m].revision = 0 /\ contents'[m].doc = << >>
          /\ \A n \in Memo \ {m} : memos'[n] = memos[n] /\ contents'[n] = contents[n]
        BY <2>1, <1>t DEF TypeOK
    <2>3. Tables'
        <3>1. RowsAgree'
            BY <2>2, <1>t DEF Tables, RowsAgree, Exists
        <3>2. MarksFollowKeys'
            <4>1. \A x : ~In(x, << >>)
                BY DEF In
            <4>2. ASSUME NEW x \in Key, keys'[x].state = "unused", NEW n \in Memo
                  PROVE  ~In(x, contents'[n].doc)
                BY <1>1, <1>t, <2>2, <4>1, <4>2 DEF Tables, MarksFollowKeys
            <4>3. ASSUME NEW x \in Key, x \in EditKey, keys'[x].state # "unused"
                  PROVE  /\ memos'[MemoOf[x]].state # "absent"
                         /\ Exists(MemoOf[x])' => In(x, contents'[MemoOf[x]].doc)
                <5>1. MemoOf[x] \in Memo
                    BY MemoStoreAssumption
                <5>2. /\ memos[MemoOf[x]].state # "absent"
                      /\ Exists(MemoOf[x]) => In(x, contents[MemoOf[x]].doc)
                    BY <1>1, <1>t, <4>3 DEF Tables, MarksFollowKeys
                <5> QED
                    BY <2>2, <5>1, <5>2 DEF Exists
            <4> QED
                BY <4>2, <4>3 DEF MarksFollowKeys
        <3>3. AppliedOnce'
            BY <1>1, <1>t, <2>2 DEF Tables, AppliedOnce
        <3> QED
            BY <3>1, <3>2, <3>3 DEF Tables
    <2>4. ASSUME NEW g \in Handler \ {h} PROVE HandlerInv(g)'
        <3>1. pc'[g] = pc[g] /\ req'[g] = req[g] /\ answer'[g] = answer[g] /\ HandlerInv(g)
            BY <1>1, <1>t DEF TypeOK, IInv
        <3>2. ASSUME NEW n \in Memo \ {m}, memos[n].state # "absent"
              PROVE  /\ memos'[n].state # "absent" /\ Exists(n)' = Exists(n)
                     /\ EtagOf(n)' = EtagOf(n) /\ contents'[n].doc = contents[n].doc
            BY <2>2, <3>2 DEF Exists, EtagOf
        <3>3. \A n \in Memo : Exists(n)' => memos'[n].state # "absent"
            BY DEF Exists
        <3> QED
            BY <1>1, <1>t, <2>2, <3>1, <3>2, <3>3, WaitersUnhurt DEF Tables
    <2>5. HandlerInv(h)'
        <3>1. pc'[h] = "append"
            BY <1>1, <1>t DEF TypeOK
        <3>2. LockOf(h)' /\ Named(h)' /\ Admitted(h)' /\ AckFollowsEffect(h)'
            BY <1>1, <1>t, <3>1
               DEF HandlerInv, LockOf, Named, Admitted, AckFollowsEffect, LockedStep, SaveOps
        <3>3. BasedOnVersion(h)' /\ ExtendsBase(h)'
            BY <1>1, <2>2, <3>1
               DEF HandlerInv, BasedOnVersion, ExtendsBase, Exists
        <3> QED
            BY <3>2, <3>3 DEF HandlerInv
    <2> QED
        BY <1>t, <2>3, <2>4, <2>5 DEF IInv, Tables
<1> QED
    BY <1>2, <1>3

LEMMA ExpireKeyIInv ==
    ASSUME IInv, NEW k \in Key, ExpireKey(k)
    PROVE  IInv'
<1>1. /\ TypeOK /\ TypeOK' /\ Tables
      /\ UNCHANGED <<memos, contents, writer, pc, req, answer>>
    BY EnvironmentTypeOK DEF IInv, Tables, ExpireKey
<1>2. /\ keys[k].state = "live" /\ keys'[k].state = "expired"
      /\ \A x \in Key \ {k} : keys'[x] = keys[x]
    BY <1>1 DEF ExpireKey, TypeOK, KeyRow
<1>3. Tables'
    <2>1. \A x \in Key :
            /\ (keys'[x].state = "unused") => (keys[x].state = "unused")
            /\ (keys'[x].state # "unused") /\ x \in EditKey => keys[x].state # "unused"
            /\ (keys[x].state = "expired") => (keys'[x].state = "expired")
        BY <1>2
    <2> QED
        BY <1>1, <2>1, SameVersion DEF Exists
<1>4. ASSUME NEW h \in Handler PROVE HandlerInv(h)'
    <2>1. HandlerInv(h)
        BY DEF IInv
    <2>2. LockOf(h)' /\ Named(h)' /\ BasedOnVersion(h)' /\ ExtendsBase(h)'
        BY <1>1, <2>1
           DEF HandlerInv, LockOf, Named, BasedOnVersion, ExtendsBase, Exists, EtagOf
    <2>3. Admitted(h)'
        BY <1>1, <1>2, <2>1 DEF HandlerInv, Admitted, Exists, EtagOf, Remembered
    <2>4. AckFollowsEffect(h)'
        <3>1. pc[h] # "idle" /\ req[h].op \in SaveOps => req[h].key \in Key
            BY <2>1 DEF HandlerInv, Named
        <3>2. pc[h] = "idle" => answer[h].code # "ok"
            BY <2>1 DEF HandlerInv, AckFollowsEffect
        <3>3. \A x \in Key : keys[x].state # "unused" => keys'[x].state # "unused"
            BY <1>2
        <3> QED
            BY <1>1, <2>1, <3>1, <3>2, <3>3 DEF HandlerInv, AckFollowsEffect
    <2> QED
        BY <2>2, <2>3, <2>4 DEF HandlerInv
<1> QED
    BY <1>1, <1>3, <1>4 DEF IInv, Tables

-----------------------------------------------------------------------------
(* The theorems. *)

\* The inductive invariant holds in every reachable state.
THEOREM Invariance == Spec => []IInv
<1>1. IInv /\ [Next]_vars => IInv'
    <2> SUFFICES ASSUME IInv, [Next]_vars PROVE IInv'
        OBVIOUS
    <2>1. ASSUME UNCHANGED vars PROVE IInv'
        <3>1. /\ UNCHANGED <<memos, contents, keys, snapshots, fresh, blobs, leases, log>>
              /\ UNCHANGED <<writer, pc, req, answer>>
            BY <2>1 DEF vars, durable
        <3>t. TypeOK'
            BY <3>1 DEF IInv, TypeOK
        <3>2. RowsAgree' /\ MarksFollowKeys' /\ AppliedOnce'
            BY <3>1, TablesFrame DEF IInv, Tables
        <3>3. ASSUME NEW h \in Handler PROVE HandlerInv(h)'
            BY <3>1 DEF IInv, HandlerInv, LockOf, Named, BasedOnVersion, ExtendsBase, Admitted,
               AckFollowsEffect, Exists, EtagOf, Remembered
        <3> QED
            BY <3>t, <3>2, <3>3 DEF IInv
    <2>2. ASSUME NEW h \in Handler, HandlerStep(h) PROVE IInv'
        BY <2>2, ReadIInv, LockIInv, CreateIInv, ContentIInv, MetaIInv, LifecycleIInv
           DEF HandlerStep
    <2> QED
        BY <2>1, <2>2, RequestIInv, LockIInv, AgeingIInv, ExpireKeyIInv DEF Next, Quiescent
<1> QED
    BY <1>1, InitIInv, PTL DEF Spec

\* No acknowledged edit is ever missing from a memo that still exists.
THEOREM NoEditIsLost == Spec => []NoLostEdit
<1>1. IInv => NoLostEdit
    <2> SUFFICES ASSUME IInv, NEW h \in Handler, answer[h].code = "ok",
                        req[h].op = "edit", Exists(req[h].memo)
                 PROVE  In(req[h].key, contents[req[h].memo].doc)
        BY DEF NoLostEdit
    <2>1. /\ HandlerInv(h) /\ MarksFollowKeys
          /\ answer[h].code # "none"
        BY DEF IInv
    <2>2. keys[req[h].key].state # "unused" /\ pc[h] = "done"
        BY <2>1 DEF HandlerInv, AckFollowsEffect, SaveOps
    <2>3. req[h].key \in EditKey /\ req[h].key \in Key /\ req[h].memo = MemoOf[req[h].key]
        BY <2>1, <2>2 DEF HandlerInv, Named, SaveOps
    <2> QED
        BY <2>1, <2>2, <2>3 DEF MarksFollowKeys
<1> QED
    BY <1>1, Invariance, PTL

\* A keyed edit is in its memo at most once while its key is kept.
THEOREM EditsAreAppliedOnce == Spec => []AppliedOnce
<1>1. IInv => AppliedOnce
    BY DEF IInv
<1> QED
    BY <1>1, Invariance, PTL
-----------------------------------------------------------------------------
(* The history a memo leaves: its log rows, snapshots, blobs and refusals.   *)
(* Most steps are quiet: they change none of these tables, and a handler     *)
(* that has committed or ended keeps its request and its answer.             *)

\* A handler whose commit gives the memo a new version.
Writes(h) == req[h].op \in {"create", "edit"}

\* Of a handler past its commit nothing changes but that it may end.
Settled(g) ==
    /\ pc[g] \in {"append", "done"} =>
          req'[g] = req[g] /\ answer'[g] = answer[g] /\ pc'[g] \in {pc[g], "done"}
    /\ pc'[g] = "append" => pc[g] = "append"

\* A conflict is told under the lock, of the version the memo has.
Refused(g) ==
    answer'[g].code = "conflict" =>
        /\ req'[g] = req[g]
        /\ \/ answer'[g] = answer[g]
           \/ ~Remembered(req[g].key) /\ answer'[g].etag = EtagOf(req[g].memo)

\* A handler that comes to commit a large text has its blob stored.
Stored(g) ==
    /\ pc'[g] \in {"snapshot", "commit"} /\ req'[g].op \in {"create", "edit"}
    /\ Oversized(req'[g].doc)
    => /\ req'[g] = req[g]
       /\ pc[g] \in {"snapshot", "commit"} \/ req[g].doc \in DOMAIN blobs'

BlobsGrow ==
    /\ DOMAIN blobs \subseteq DOMAIN blobs'
    /\ \A d \in DOMAIN blobs : blobs'[d] = blobs[d]
    /\ \A d \in DOMAIN blobs' \ DOMAIN blobs : blobs'[d] = 0

KeysAge ==
    \A k \in Key : \/ keys'[k].state = keys[k].state
                   \/ keys[k].state = "live" /\ keys'[k].state = "expired"

Quiet ==
    /\ UNCHANGED <<memos, contents, snapshots, log>>
    /\ BlobsGrow /\ KeysAge
    /\ \A g \in Handler : Settled(g) /\ Refused(g) /\ Stored(g)

\* A step of one handler that sets none of the tables is quiet when that handler's
\* own state says so.
LEMMA QuietStep ==
    ASSUME IInv, NEW h \in Handler,
           UNCHANGED <<memos, contents, snapshots, log, keys>>, BlobsGrow,
           pc[h] # "done",
           \A g \in Handler \ {h} :
                pc'[g] = pc[g] /\ req'[g] = req[g] /\ answer'[g] = answer[g],
           Settled(h), Refused(h), Stored(h)
    PROVE  Quiet
BY DEF Quiet, KeysAge, Settled, Refused, Stored

LEMMA RequestIsQuiet ==
    ASSUME IInv, NEW h \in Handler, Request(h)
    PROVE  Quiet
<1>t. TypeOK /\ HandlerInv(h)
    BY DEF IInv
<1>1. PICK step \in {"summary", "check", "lock"} : \E r : Start(h, r, step)
    <2>1. CASE RequestCreate(h)
        BY <2>1 DEF RequestCreate
    <2>2. CASE RequestEdit(h)
        BY <2>2 DEF RequestEdit
    <2>3. CASE RequestBlindEdit(h)
        BY <2>3 DEF RequestBlindEdit
    <2>4. CASE RequestTag(h)
        BY <2>4 DEF RequestTag
    <2>5. CASE RequestRetry(h)
        BY <2>5 DEF RequestRetry
    <2>6. CASE RequestLifecycle(h)
        BY <2>6 DEF RequestLifecycle
    <2> QED
        BY <2>1, <2>2, <2>3, <2>4, <2>5, <2>6 DEF Request
<1>2. /\ pc[h] = "idle" /\ pc'[h] = step /\ UNCHANGED <<durable, answer>>
      /\ \A g \in Handler \ {h} :
            pc'[g] = pc[g] /\ req'[g] = req[g] /\ answer'[g] = answer[g]
    BY <1>1, <1>t DEF Start, TypeOK
<1>3. answer[h].code = "none"
    BY <1>2, <1>t DEF HandlerInv, AckFollowsEffect
<1>4. Settled(h) /\ Refused(h) /\ Stored(h)
    BY <1>2, <1>3 DEF Settled, Refused, Stored
<1>5. BlobsGrow
    BY <1>2 DEF BlobsGrow, durable
<1> QED
    BY <1>2, <1>4, <1>5, QuietStep DEF durable

\* Before the lock nothing is written but a lease.
LEMMA ReadIsQuiet ==
    ASSUME IInv, NEW h \in Handler,
           GetSummary(h) \/ ReadMarkdown(h) \/ CreateLease(h) \/ GetIdempotency(h)
    PROVE  Quiet
<1>t. TypeOK /\ HandlerInv(h)
    BY DEF IInv
<1>1. pc[h] \in {"summary", "content", "lease", "check"} /\ answer[h].code = "none"
    BY <1>t DEF GetSummary, ReadMarkdown, CreateLease, GetIdempotency, HandlerInv, AckFollowsEffect
<1>2. /\ UNCHANGED <<memos, contents, snapshots, log, keys, blobs>>
      /\ \E step \in {"content", "lease", "check", "lock", "done"} : pc' = [pc EXCEPT ![h] = step]
      /\ \/ answer' = answer
         \/ \E code \in {"not_found", "internal", "ok"} : \E etag :
                answer' = [answer EXCEPT ![h] = [code |-> code, etag |-> etag]]
      /\ \/ req' = req
         \/ \E x : req' = [req EXCEPT ![h].base = x]
         \/ \E x : req' = [req EXCEPT ![h].doc = x]
         \/ \E x : req' = [req EXCEPT ![h].lease = x]
    <2>1. CASE GetSummary(h)
        BY <2>1 DEF GetSummary, Reply, durable
    <2>2. CASE ReadMarkdown(h)
        BY <2>2 DEF ReadMarkdown, Reply, durable
    <2>3. CASE CreateLease(h)
        BY <2>3 DEF CreateLease, Reply, durable
    <2>4. CASE GetIdempotency(h)
        BY <2>4 DEF GetIdempotency, Reply, durable
    <2> QED
        BY <2>1, <2>2, <2>3, <2>4
<1>3. /\ pc'[h] \in {"content", "lease", "check", "lock", "done"}
      /\ answer'[h].code # "conflict"
      /\ \A g \in Handler \ {h} :
            pc'[g] = pc[g] /\ req'[g] = req[g] /\ answer'[g] = answer[g]
    BY <1>1, <1>2, <1>t DEF TypeOK
<1>4. Settled(h) /\ Refused(h) /\ Stored(h)
    BY <1>1, <1>3 DEF Settled, Refused, Stored
<1>5. BlobsGrow
    BY <1>2 DEF BlobsGrow
<1> QED
    BY <1>1, <1>2, <1>3, <1>4, <1>5, QuietStep

\* Nor with the lock, until the snapshot and the commit.
LEMMA LockIsQuiet ==
    ASSUME IInv, NEW h \in Handler,
           \/ SaveTurnedDown(h) \/ SaveAdmitted(h) \/ CreateAdmitted(h) \/ StoreBlob(h)
           \/ MaybeSnapshot(h) /\ UNCHANGED snapshots
           \/ Drop(h)
    PROVE  Quiet
<1> DEFINE r == req[h]
<1>t. TypeOK /\ HandlerInv(h) /\ r \in RequestRow
    BY FieldTypes DEF IInv
<1>p. ASSUME NEW step \in Step, pc' = [pc EXCEPT ![h] = step],
             UNCHANGED <<memos, contents, snapshots, log, keys, req>>, BlobsGrow,
             pc[h] \notin {"idle", "done"}, step # "append",
             pc[h] = "append" => step = "done" /\ answer' = answer,
             \/ answer' = answer
             \/ \E code \in Code : \E etag :
                    /\ answer' = [answer EXCEPT ![h] = [code |-> code, etag |-> etag]]
                    /\ code = "conflict" =>
                            ~Remembered(r.key) /\ etag = EtagOf(r.memo),
             step \in {"snapshot", "commit"} /\ Writes(h) /\ Oversized(r.doc) =>
                pc[h] \in {"snapshot", "commit"} \/ r.doc \in DOMAIN blobs'
      PROVE  Quiet
    <2>1. /\ pc'[h] = step
          /\ \A g \in Handler \ {h} :
                pc'[g] = pc[g] /\ req'[g] = req[g] /\ answer'[g] = answer[g]
        BY <1>p, <1>t DEF TypeOK
    <2>2. Settled(h) /\ Stored(h)
        BY <1>p, <2>1 DEF Settled, Stored, Writes
    <2>3. Refused(h)
        <3>1. CASE answer' = answer
            BY <1>p, <3>1 DEF Refused
        <3>2. ASSUME NEW code \in Code, NEW etag,
                     answer' = [answer EXCEPT ![h] = [code |-> code, etag |-> etag]],
                     code = "conflict" => ~Remembered(r.key) /\ etag = EtagOf(r.memo)
              PROVE  Refused(h)
            <4>1. answer'[h].code = code /\ answer'[h].etag = etag
                BY <1>t, <3>2 DEF TypeOK
            <4> QED
                BY <1>p, <3>2, <4>1 DEF Refused
        <3> QED
            BY <1>p, <3>1, <3>2
    <2> QED
        BY <1>p, <2>1, <2>2, <2>3, QuietStep
<1>b. UNCHANGED blobs => BlobsGrow
    BY DEF BlobsGrow
<1>1. CASE SaveTurnedDown(h)
    <2>1. PICK etag :
            /\ pc[h] = "lock" /\ UNCHANGED <<durable, req>>
            /\ Reply(h, SaveVerdict(r), etag)
            /\ SaveVerdict(r) = "conflict" => etag = EtagOf(r.memo)
        BY <1>1 DEF SaveTurnedDown
    <2>2. /\ SaveVerdict(r) \in Code
          /\ SaveVerdict(r) = "conflict" => ~Remembered(r.key)
        BY DEF SaveVerdict, Code
    <2> QED
        <3> DEFINE code == SaveVerdict(r)
        <3>1. /\ pc' = [pc EXCEPT ![h] = "done"]
              /\ answer' = [answer EXCEPT ![h] = [code |-> code, etag |-> etag]]
              /\ code \in Code
              /\ code = "conflict" => ~Remembered(r.key) /\ etag = EtagOf(r.memo)
              /\ UNCHANGED <<memos, contents, snapshots, log, keys, blobs, req>>
            BY <2>1, <2>2 DEF Reply, durable
        <3> HIDE DEF code
        <3> QED
            BY <1>p, <1>b, <2>1, <3>1 DEF Step
<1>2. CASE SaveAdmitted(h)
    <2>1. PICK step \in {"blob", "snapshot", "commit"} :
            /\ pc[h] = "lock" /\ r.op \in SaveOps
            /\ UNCHANGED <<durable, req, answer>>
            /\ pc' = [pc EXCEPT ![h] = step]
            /\ step = "commit" => r.op = "tag" \/ ~(r.op = "edit" /\ Oversized(r.doc))
            /\ step = "snapshot" => ~(r.op = "edit" /\ Oversized(r.doc))
        BY <1>2 DEF SaveAdmitted, SaveOps
    <2> QED
        BY <1>p, <1>b, <2>1 DEF durable, Step, SaveOps, Writes
<1>3. CASE CreateAdmitted(h)
    <2>1. PICK step \in {"blob", "commit"} :
            /\ pc[h] = "lock" /\ r.op = "create"
            /\ UNCHANGED <<durable, req, answer>>
            /\ pc' = [pc EXCEPT ![h] = step]
            /\ step = "commit" => ~Oversized(r.doc)
        BY <1>3 DEF CreateAdmitted
    <2> QED
        BY <1>p, <1>b, <2>1 DEF durable, Step
<1>4. CASE StoreBlob(h)
    <2>1. PICK step \in {"snapshot", "commit"} :
            /\ pc[h] = "blob" /\ pc' = [pc EXCEPT ![h] = step]
            /\ UNCHANGED <<memos, contents, keys, snapshots, log, req, answer>>
            /\ blobs' = [x \in DOMAIN blobs \union {r.doc} |->
                            IF x \in DOMAIN blobs THEN blobs[x] ELSE 0]
        BY <1>4 DEF StoreBlob
    <2>2. BlobsGrow /\ r.doc \in DOMAIN blobs'
        BY <2>1 DEF BlobsGrow
    <2> QED
        BY <1>p, <2>1, <2>2 DEF Step
<1>5. CASE MaybeSnapshot(h) /\ UNCHANGED snapshots
    <2>1. /\ pc[h] = "snapshot"
          /\ UNCHANGED <<memos, contents, keys, snapshots, blobs, log, req>>
          /\ \/ pc' = [pc EXCEPT ![h] = "commit"] /\ answer' = answer
             \/ Reply(h, "internal", NoEtag)
        BY <1>5 DEF MaybeSnapshot
    <2> QED
        BY <1>p, <1>b, <2>1 DEF Step, Reply, Code
<1>6. CASE Drop(h)
    BY <1>p, <1>b, <1>6 DEF Drop, durable, Step
<1> QED
    BY <1>1, <1>2, <1>3, <1>4, <1>5, <1>6

\* The steps that are not quiet, each of one handler that holds the lock.
Tells(h) ==
    \/ MaybeSnapshot(h) /\ ~UNCHANGED snapshots
    \/ CommitCreate(h) \/ CommitContent(h) \/ CommitMeta(h)
    \/ SoftDelete(h) \/ Restore(h) \/ Purge(h)
    \/ AppendUnlocked(h)

LEMMA KindsOfSteps ==
    ASSUME IInv, [Next]_vars
    PROVE  Quiet \/ \E h \in Handler : Tells(h)
<1>t. TypeOK /\ \A h \in Handler : HandlerInv(h)
    BY DEF IInv
<1>1. ASSUME NEW h \in Handler, HandlerStep(h) PROVE Quiet \/ Tells(h)
    BY <1>1, ReadIsQuiet, LockIsQuiet DEF HandlerStep, Tells
<1>2. ASSUME UNCHANGED <<memos, contents, snapshots, log, blobs, pc, req, answer>>, KeysAge
      PROVE  Quiet
    <2>1. \A g \in Handler : Refused(g) /\ Settled(g) /\ Stored(g)
        BY <1>2 DEF Settled, Refused, Stored
    <2>2. BlobsGrow
        BY <1>2 DEF BlobsGrow
    <2> QED
        BY <1>2, <2>1, <2>2 DEF Quiet
<1>3. ASSUME NEW h \in Handler, ExpireLease(h) PROVE Quiet
    BY <1>2, <1>3 DEF ExpireLease, KeysAge
<1>4. ASSUME NEW m \in Memo, AgeSnapshot(m) PROVE Quiet
    BY <1>2, <1>4 DEF AgeSnapshot, KeysAge
<1>5. ASSUME NEW k \in Key, ExpireKey(k) PROVE Quiet
    <2>1. \A x \in Key : \/ keys'[x].state = keys[x].state
                         \/ keys[x].state = "live" /\ keys'[x].state = "expired"
        BY <1>5, <1>t DEF ExpireKey, TypeOK, KeyRow
    <2> QED
        BY <1>2, <1>5, <2>1 DEF ExpireKey, KeysAge
<1>6. CASE UNCHANGED vars
    BY <1>2, <1>6 DEF vars, durable, KeysAge
<1>7. ASSUME NEW h \in Handler, Request(h) \/ Drop(h) PROVE Quiet
    BY <1>7, RequestIsQuiet, LockIsQuiet
<1> QED
    BY <1>1, <1>3, <1>4, <1>5, <1>6, <1>7 DEF Next, Quiescent

\* What every such step leaves alone: the requests, the other handlers, and the keys
\* whose time is over.
LEMMA TellingStep ==
    ASSUME IInv, NEW h \in Handler, Tells(h)
    PROVE  /\ req' = req
           /\ \A g \in Handler \ {h} : pc'[g] = pc[g] /\ answer'[g] = answer[g]
           /\ pc[h] \in {"lock", "snapshot", "commit", "append"}
           /\ pc[h] = "lock" => writer = NoHandler
           /\ pc[h] # "lock" => writer = h
           /\ answer[h].code = "none" /\ answer'[h].code \in {"none", "ok"}
           /\ \A k \in Key : keys[k].state = "expired" => keys'[k].state = "expired"
<1>t. TypeOK /\ HandlerInv(h)
    BY DEF IInv
<1>1. /\ req' = req
      /\ pc[h] \in {"lock", "snapshot", "commit", "append"}
      /\ pc[h] = "lock" => writer = NoHandler
      /\ \E step : pc' = [pc EXCEPT ![h] = step]
      /\ \/ answer' = answer
         \/ \E e : answer' = [answer EXCEPT ![h].etag = e]
         \/ \E e : answer' = [answer EXCEPT ![h] = [code |-> "ok", etag |-> e]]
      /\ keys' = keys \/ \E e : keys' = KeyStored(req[h].key, e)
    <2>1. CASE MaybeSnapshot(h) /\ ~UNCHANGED snapshots
        BY <2>1 DEF MaybeSnapshot
    <2>2. CASE CommitCreate(h) \/ CommitContent(h) \/ CommitMeta(h)
        BY <2>2 DEF CommitCreate, CommitContent, CommitMeta, Committed
    <2>3. CASE SoftDelete(h) \/ Restore(h) \/ Purge(h)
        BY <2>3 DEF SoftDelete, Restore, Purge, SetTrashed
    <2>4. CASE AppendUnlocked(h)
        BY <2>4 DEF AppendUnlocked, Reply
    <2> QED
        BY <2>1, <2>2, <2>3, <2>4 DEF Tells
<1>2. \A g \in Handler \ {h} : pc'[g] = pc[g] /\ answer'[g] = answer[g]
    BY <1>1, <1>t DEF TypeOK
<1>3. answer[h].code = "none" /\ (pc[h] # "lock" => writer = h)
    BY <1>1, <1>t DEF HandlerInv, AckFollowsEffect, LockOf, LockedStep
<1>4. answer'[h].code \in {"none", "ok"}
    <2>1. ASSUME NEW e, answer' = [answer EXCEPT ![h].etag = e]
          PROVE  answer'[h].code = answer[h].code
        BY <1>t, <2>1 DEF TypeOK, Answer
    <2>2. ASSUME NEW e, answer' = [answer EXCEPT ![h] = [code |-> "ok", etag |-> e]]
          PROVE  answer'[h].code = "ok"
        BY <1>t, <2>2 DEF TypeOK
    <2> QED
        BY <1>1, <1>3, <2>1, <2>2
<1>5. ASSUME NEW k \in Key, keys[k].state = "expired" PROVE keys'[k].state = "expired"
    <2>1. ASSUME NEW x, NEW e, keys' = KeyStored(x, e) PROVE keys'[k].state = "expired"
        BY <1>5, <1>t, <2>1 DEF KeyStored, TypeOK
    <2> QED
        BY <1>1, <1>5, <2>1
<1> QED
    BY <1>1, <1>2, <1>3, <1>4, <1>5

\* A save that was refused for its etag does not find itself in the version it is told
\* of: before the refusal the key was looked up under the same lock.
THEOREM ConflictsAreWithOthers == Spec => []ConflictIsWithOthers
<1>1. Init => ConflictIsWithOthers
    BY DEF Init, ConflictIsWithOthers, NoAnswer
<1>2. ASSUME IInv, IInv', ConflictIsWithOthers, [Next]_vars
      PROVE  ConflictIsWithOthers'
    <2> SUFFICES ASSUME NEW g \in Handler, answer'[g].code = "conflict", req'[g].op = "edit",
                        keys'[req'[g].key].state # "expired"
                 PROVE  ~In(req'[g].key, answer'[g].etag.hash)
        BY DEF ConflictIsWithOthers
    <2>1. /\ TypeOK /\ RowsAgree /\ MarksFollowKeys
          /\ HandlerInv(g) /\ HandlerInv(g)' /\ req[g].memo \in Memo
        BY <1>2, FieldTypes DEF IInv
    <2>2. req'[g].key \in Key
        BY <2>1 DEF HandlerInv, Named, AckFollowsEffect, SaveOps
    <2>3. /\ req'[g] = req[g]
          /\ \/ answer'[g] = answer[g]
             \/ ~Remembered(req[g].key) /\ answer'[g].etag = EtagOf(req[g].memo)
          /\ keys[req[g].key].state # "expired"
        <3>1. CASE Quiet
            BY <2>2, <3>1 DEF Quiet, Refused, KeysAge
        <3>2. CASE \E h \in Handler : Tells(h)
            <4>1. PICK h \in Handler : Tells(h)
                BY <3>2
            <4> QED
                BY <1>2, <2>2, <4>1, TellingStep
        <3> QED
            BY <1>2, <3>1, <3>2, KindsOfSteps
    <2>4. CASE answer'[g] = answer[g]
        BY <1>2, <2>3, <2>4 DEF ConflictIsWithOthers
    <2>5. CASE ~Remembered(req[g].key) /\ answer'[g].etag = EtagOf(req[g].memo)
        <3>1. keys[req[g].key].state = "unused"
            BY <2>1, <2>2, <2>3, <2>5 DEF Remembered, TypeOK, KeyRow
        <3>2. ~In(req[g].key, memos[req[g].memo].hash)
            BY <2>1, <2>2, <2>3, <3>1 DEF MarksFollowKeys, RowsAgree
        <3> QED
            BY <2>3, <2>5, <3>2 DEF EtagOf
    <2> QED
        BY <2>3, <2>4, <2>5
<1> QED
    BY <1>1, <1>2, Invariance, PTL DEF Spec, vars

-----------------------------------------------------------------------------
(* What each of those steps does to the memo it is about, and to no other.   *)

\* The commit of a save: the text grows by the key's mark, the revision by one.
LEMMA ContentCommitted ==
    ASSUME IInv, NEW h \in Handler, CommitContent(h)
    PROVE  LET m == req[h].memo
               k == req[h].key
           IN
           /\ m \in Memo /\ k \in Key /\ k \in EditKey /\ m = MemoOf[k]
           /\ pc[h] = "commit" /\ Writes(h)
           /\ Exists(m) /\ memos'[m].state = memos[m].state
           /\ req[h].doc = Append(contents[m].doc, k) /\ contents'[m].doc = req[h].doc
           /\ memos'[m].revision = memos[m].revision + 1
           /\ \A n \in Memo \ {m} : memos'[n] = memos[n] /\ contents'[n] = contents[n]
           /\ keys[k].state \in {"unused", "expired"}
           /\ keys'[k].state = IF keys[k].state = "unused" THEN "live" ELSE keys[k].state
           /\ \A x \in Key \ {k} : keys'[x] = keys[x]
           /\ pc'[h] = "append" /\ answer'[h].code = answer[h].code
           /\ answer'[h].etag.revision = memos'[m].revision
           /\ UNCHANGED <<snapshots, log>> /\ blobs' = Referenced(req[h].doc)
<1> DEFINE m == req[h].memo
           d == req[h].doc
           k == req[h].key
           e == [revision |-> memos[m].revision + 1, hash |-> d]
<1>t. TypeOK /\ HandlerInv(h) /\ m \in Memo
    BY FieldTypes DEF IInv
<1>1. /\ pc[h] = "commit" /\ req[h].op = "edit"
      /\ memos' = [memos EXCEPT ![m].revision = memos[m].revision + 1, ![m].hash = d]
      /\ contents' = [contents EXCEPT ![m] = [revision |-> memos[m].revision + 1, doc |-> d]]
      /\ keys' = KeyStored(k, e) /\ answer' = [answer EXCEPT ![h].etag = e]
      /\ pc' = [pc EXCEPT ![h] = "append"]
      /\ UNCHANGED <<snapshots, log>> /\ blobs' = Referenced(d)
    BY DEF CommitContent, Committed
<1>2. /\ Exists(m) /\ ~Remembered(k) /\ req[h].base = EtagOf(m) /\ req[h].base # NoEtag
      /\ k \in EditKey /\ k \in Key /\ m = MemoOf[k]
    BY <1>t, <1>1 DEF HandlerInv, Admitted, Named, SaveOps
<1>3. d = Append(contents[m].doc, k)
    BY <1>t, <1>1, <1>2 DEF HandlerInv, ExtendsBase, LockedStep
<1>4. /\ memos'[m].state = memos[m].state /\ memos'[m].revision = memos[m].revision + 1
      /\ contents'[m].doc = d
      /\ \A n \in Memo \ {m} : memos'[n] = memos[n] /\ contents'[n] = contents[n]
    BY <1>t, <1>1 DEF TypeOK, MemoRow
<1>5. /\ keys[k].state \in {"unused", "expired"}
      /\ keys'[k].state = IF keys[k].state = "unused" THEN "live" ELSE keys[k].state
      /\ \A x \in Key \ {k} : keys'[x] = keys[x]
    <2>1. keys[k].state \in {"unused", "expired"} /\ DOMAIN keys = Key
        BY <1>t, <1>2 DEF TypeOK, KeyRow, Remembered
    <2> QED
        BY <1>1, <1>2, <2>1 DEF KeyStored
<1>6. /\ pc'[h] = "append" /\ answer'[h].code = answer[h].code
      /\ answer'[h].etag.revision = memos[m].revision + 1
    BY <1>t, <1>1 DEF TypeOK, Answer
<1> QED
    BY <1>t, <1>1, <1>2, <1>3, <1>4, <1>5, <1>6 DEF Writes

\* The commit of a create: the first version of a memo that was not there.
LEMMA CreateCommitted ==
    ASSUME IInv, NEW h \in Handler, CommitCreate(h)
    PROVE  LET m == req[h].memo IN
           /\ m \in Memo /\ memos[m].state = "absent"
           /\ pc[h] = "commit" /\ Writes(h)
           /\ memos'[m].state = "live" /\ memos'[m].revision = 1
           /\ contents'[m].doc = req[h].doc /\ req[h].doc \in InitialDocs
           /\ \A n \in Memo \ {m} : memos'[n] = memos[n] /\ contents'[n] = contents[n]
           /\ pc'[h] = "append" /\ answer'[h].code = answer[h].code
           /\ answer'[h].etag.revision = 1
           /\ UNCHANGED <<snapshots, log, keys>> /\ blobs' = Referenced(req[h].doc)
<1> DEFINE m == req[h].memo
           d == req[h].doc
<1>t. TypeOK /\ HandlerInv(h) /\ m \in Memo
    BY FieldTypes DEF IInv
<1>1. /\ pc[h] = "commit" /\ req[h].op = "create"
      /\ memos' = [memos EXCEPT ![m] = [state |-> "live", revision |-> 1,
                                        hash |-> d, meta |-> NoKey]]
      /\ contents' = [contents EXCEPT ![m] = [revision |-> 1, doc |-> d]]
      /\ answer' = [answer EXCEPT ![h].etag = [revision |-> 1, hash |-> d]]
      /\ pc' = [pc EXCEPT ![h] = "append"]
      /\ UNCHANGED <<snapshots, log, keys>> /\ blobs' = Referenced(d)
    BY DEF CommitCreate, Committed
<1>2. memos[m].state = "absent" /\ d \in InitialDocs
    BY <1>t, <1>1 DEF HandlerInv, Admitted
<1>3. /\ memos'[m].state = "live" /\ memos'[m].revision = 1 /\ contents'[m].doc = d
      /\ \A n \in Memo \ {m} : memos'[n] = memos[n] /\ contents'[n] = contents[n]
    BY <1>t, <1>1 DEF TypeOK
<1>4. /\ pc'[h] = "append" /\ answer'[h].code = answer[h].code
      /\ answer'[h].etag.revision = 1
    BY <1>t, <1>1 DEF TypeOK, Answer
<1> QED
    BY <1>t, <1>1, <1>2, <1>3, <1>4 DEF Writes

\* A snapshot is of the memo's version and text, and of a memo that is there.
LEMMA SnapshotAdded ==
    ASSUME IInv, NEW h \in Handler, MaybeSnapshot(h), ~UNCHANGED snapshots
    PROVE  LET m == req[h].memo IN
           /\ m \in Memo /\ Exists(m)
           /\ snapshots'[m] = snapshots[m]
                \union {[revision |-> memos[m].revision, doc |-> contents[m].doc]}
           /\ \A n \in Memo \ {m} : snapshots'[n] = snapshots[n]
           /\ pc[h] = "snapshot" /\ pc'[h] = "commit"
           /\ UNCHANGED <<memos, contents, keys, log, blobs, answer>>
<1>t. TypeOK /\ HandlerInv(h) /\ RowsAgree /\ req[h].memo \in Memo
    BY FieldTypes DEF IInv
<1>1. /\ pc[h] = "snapshot" /\ pc' = [pc EXCEPT ![h] = "commit"]
      /\ snapshots' = [snapshots EXCEPT ![req[h].memo] = @ \union {SnapshotRow(req[h].memo)}]
      /\ UNCHANGED <<memos, contents, keys, log, blobs, answer>>
    BY DEF MaybeSnapshot
<1>2. Exists(req[h].memo) /\ pc'[h] = "commit"
    BY <1>t, <1>1 DEF HandlerInv, Admitted, SaveOps, TypeOK
<1> QED
    BY <1>t, <1>1, <1>2 DEF SnapshotRow, RowsAgree, TypeOK

\* Metadata, trash and restore change neither a memo's version nor whether it is there.
LEMMA VersionsKept ==
    ASSUME IInv, NEW h \in Handler,
           CommitMeta(h) \/ SoftDelete(h) \/ Restore(h) \/ (Purge(h) /\ ~Exists(req[h].memo))
    PROVE  /\ \A n \in Memo : /\ memos'[n].revision = memos[n].revision
                              /\ Presence(n)' = Presence(n) /\ Exists(n)' = Exists(n)
                              /\ (memos'[n].state = "absent") <=> (memos[n].state = "absent")
                              /\ (memos'[n].state = "purged") <=> (memos[n].state = "purged")
           /\ pc'[h] = "append" /\ ~Writes(h)
           /\ UNCHANGED <<contents, snapshots, log, blobs>>
<1> DEFINE m == req[h].memo
<1>t. TypeOK /\ m \in Memo
    BY FieldTypes DEF IInv
<1>1. /\ pc' = [pc EXCEPT ![h] = "append"] /\ ~Writes(h)
      /\ UNCHANGED <<contents, snapshots, log, blobs>>
      /\ \/ memos' = memos
         \/ memos' = [memos EXCEPT ![m].meta = req[h].key]
         \/ \E s \in {"live", "trashed"} : Exists(m) /\ memos' = [memos EXCEPT ![m].state = s]
    <2>1. CASE CommitMeta(h)
        BY <2>1 DEF CommitMeta, Committed, Writes
    <2>2. CASE SoftDelete(h) \/ Restore(h)
        BY <2>2 DEF SoftDelete, Restore, SetTrashed, Writes
    <2>3. CASE Purge(h) /\ ~Exists(m)
        BY <2>3 DEF Purge, Writes
    <2> QED
        BY <2>1, <2>2, <2>3
<1>2. ASSUME NEW n \in Memo
      PROVE  /\ memos'[n].revision = memos[n].revision
             /\ \/ memos'[n].state = memos[n].state
                \/ memos'[n].state \in {"live", "trashed"} /\ memos[n].state \in {"live", "trashed"}
    <2>1. ASSUME memos' = [memos EXCEPT ![m].meta = req[h].key]
          PROVE  memos'[n].revision = memos[n].revision /\ memos'[n].state = memos[n].state
        BY <1>t, <2>1 DEF TypeOK, MemoRow
    <2>2. ASSUME NEW s \in {"live", "trashed"}, Exists(m),
                 memos' = [memos EXCEPT ![m].state = s]
          PROVE  /\ memos'[n].revision = memos[n].revision
                 /\ memos'[n].state = IF n = m THEN s ELSE memos[n].state
        BY <1>t, <2>2 DEF TypeOK, MemoRow
    <2> QED
        BY <1>1, <2>1, <2>2 DEF Exists
<1>3. ASSUME NEW n \in Memo
      PROVE  Presence(n)' = Presence(n) /\ Exists(n)' = Exists(n)
    BY <1>2, <1>t DEF TypeOK, MemoRow, Exists, Presence
<1>4. pc'[h] = "append"
    BY <1>1, <1>t DEF TypeOK
<1> QED
    BY <1>1, <1>2, <1>3, <1>4

\* A purge takes the text and the snapshots with the row.
LEMMA RowPurged ==
    ASSUME IInv, NEW h \in Handler, Purge(h), Exists(req[h].memo)
    PROVE  LET m == req[h].memo IN
           /\ m \in Memo /\ memos'[m].state = "purged" /\ memos'[m].revision = 0
           /\ contents'[m].doc = << >> /\ snapshots'[m] = {}
           /\ \A n \in Memo \ {m} : /\ memos'[n] = memos[n] /\ contents'[n] = contents[n]
                                    /\ snapshots'[n] = snapshots[n]
           /\ pc'[h] = "append" /\ ~Writes(h)
           /\ UNCHANGED <<log, blobs, keys, answer>>
<1>t. TypeOK /\ req[h].memo \in Memo
    BY FieldTypes DEF IInv
<1> QED
    BY <1>t DEF Purge, TypeOK, Writes

\* The log row is of the memo and the version the handler has noted.
LEMMA RowAppended ==
    ASSUME IInv, NEW h \in Handler, AppendUnlocked(h)
    PROVE  /\ pc[h] = "append" /\ pc'[h] = "done" /\ writer' = NoHandler
           /\ answer'[h] = [code |-> "ok", etag |-> answer[h].etag]
           /\ log' = Append(log, [memo |-> req[h].memo, kind |-> LogKind(req[h].op),
                                  revision |-> answer[h].etag.revision])
           /\ UNCHANGED <<memos, contents, keys, snapshots, blobs>>
<1>t. TypeOK
    BY DEF IInv
<1> QED
    BY <1>t DEF AppendUnlocked, Reply, TypeOK

-----------------------------------------------------------------------------
(* Snapshots. *)

\* The text a number of versions back.
LEMMA EarlierText ==
    ASSUME NEW d \in Doc, NEW k \in Mark, NEW n \in Nat, n <= Len(d)
    PROVE  /\ Len(Append(d, k)) = Len(d) + 1
           /\ SubSeq(Append(d, k), 1, Len(Append(d, k)) - (n + 1)) = SubSeq(d, 1, Len(d) - n)
           /\ SubSeq(d, 1, Len(d)) = d
<1>1. /\ d \in Seq(Mark) /\ Append(d, k) \in Seq(Mark) /\ Len(d) \in Nat
      /\ Len(Append(d, k)) = Len(d) + 1
      /\ \A i \in 1 .. Len(d) : Append(d, k)[i] = d[i]
    BY DEF Doc
<1>2. DEFINE j == Len(d) - n
<1>3. j \in Nat /\ j <= Len(d) /\ Len(Append(d, k)) - (n + 1) = j
    BY <1>1
<1>4. /\ SubSeq(Append(d, k), 1, j) = [i \in 1 .. j |-> Append(d, k)[i]]
      /\ SubSeq(d, 1, j) = [i \in 1 .. j |-> d[i]]
    BY <1>1, <1>3
<1>5. \A i \in 1 .. j : Append(d, k)[i] = d[i]
    BY <1>1, <1>3
<1>6. SubSeq(Append(d, k), 1, j) = SubSeq(d, 1, j)
    BY <1>4, <1>5
<1>7. SubSeq(d, 1, Len(d)) = d
    BY <1>1
<1> QED
    BY <1>1, <1>3, <1>6, <1>7

\* What SnapshotsAreHistory says of one memo.
PastText(m, s) ==
    /\ s.revision <= memos[m].revision
    /\ Len(contents[m].doc) >= memos[m].revision - s.revision
    /\ s.doc = SubSeq(contents[m].doc, 1,
                      Len(contents[m].doc) - (memos[m].revision - s.revision))

\* A memo that is not there has no snapshots, so a row that comes into being finds none.
SnapshotsKept ==
    \A m \in Memo : /\ \A s \in snapshots[m] : PastText(m, s)
                    /\ ~Exists(m) => snapshots[m] = {}

LEMMA InitSnapshotsKept == Init => SnapshotsKept
BY DEF Init, SnapshotsKept

LEMMA NextSnapshotsKept ==
    ASSUME IInv, IInv', SnapshotsKept, [Next]_vars
    PROVE  SnapshotsKept'
<1>t. TypeOK /\ RowsAgree
    BY DEF IInv
<1>same. ASSUME NEW n \in Memo, snapshots'[n] = snapshots[n],
                memos'[n].revision = memos[n].revision,
                contents'[n].doc = contents[n].doc,
                Exists(n)' = Exists(n)
         PROVE  /\ \A s \in snapshots'[n] : PastText(n, s)'
                /\ ~Exists(n)' => snapshots'[n] = {}
    BY <1>same DEF SnapshotsKept, PastText
<1>1. CASE Quiet
    BY <1>1, <1>same DEF Quiet, SnapshotsKept, Exists
<1>2. ASSUME NEW h \in Handler, Tells(h) PROVE SnapshotsKept'
    <2>m. PICK m \in Memo : m = req[h].memo
        BY <1>t, FieldTypes
    <2>1. CASE MaybeSnapshot(h) /\ ~UNCHANGED snapshots
        <3>1. /\ m \in Memo /\ Exists(m)
              /\ snapshots'[m] = snapshots[m]
                    \union {[revision |-> memos[m].revision, doc |-> contents[m].doc]}
              /\ \A n \in Memo \ {m} : snapshots'[n] = snapshots[n]
              /\ UNCHANGED <<memos, contents>>
            BY <2>1, <2>m, SnapshotAdded
        <3>2. /\ memos[m].revision \in Nat /\ contents[m].doc \in Doc /\ NoKey \in Mark
              /\ Len(contents[m].doc) \in Nat
              /\ memos[m].revision - memos[m].revision = 0
              /\ Len(contents[m].doc) - 0 = Len(contents[m].doc)
            BY <1>t, <3>1, FieldTypes DEF Mark, Doc
        <3>3. PastText(m, [revision |-> memos[m].revision, doc |-> contents[m].doc])
            <4>1. SubSeq(contents[m].doc, 1, Len(contents[m].doc)) = contents[m].doc
                BY <3>2, EarlierText
            <4> QED
                BY <3>2, <4>1 DEF PastText
        <3>4. ASSUME NEW s \in snapshots'[m] PROVE PastText(m, s)'
            <4>1. PastText(m, s)
                BY <3>1, <3>3, <3>4 DEF SnapshotsKept
            <4> QED
                BY <3>1, <4>1 DEF PastText
        <3>5. \A n \in Memo : Exists(n)' = Exists(n)
            BY <3>1 DEF Exists
        <3> QED
            BY <1>same, <3>1, <3>4, <3>5 DEF SnapshotsKept
    <2>2. CASE CommitCreate(h)
        <3>1. /\ m \in Memo /\ memos[m].state = "absent" /\ memos'[m].state = "live"
              /\ \A n \in Memo \ {m} : memos'[n] = memos[n] /\ contents'[n] = contents[n]
              /\ snapshots' = snapshots
            BY <2>2, <2>m, CreateCommitted
        <3>2. snapshots'[m] = {} /\ Exists(m)'
            BY <3>1 DEF SnapshotsKept, Exists
        <3>3. \A n \in Memo \ {m} : Exists(n)' = Exists(n)
            BY <3>1 DEF Exists
        <3> QED
            BY <1>same, <3>1, <3>2, <3>3 DEF SnapshotsKept
    <2>3. CASE CommitContent(h)
        <3> DEFINE old == contents[m].doc
                   k == req[h].key
        <3>1. /\ m \in Memo /\ Exists(m) /\ memos'[m].state = memos[m].state
              /\ contents'[m].doc = Append(old, k) /\ k \in Key
              /\ memos'[m].revision = memos[m].revision + 1
              /\ \A n \in Memo \ {m} : memos'[n] = memos[n] /\ contents'[n] = contents[n]
              /\ snapshots' = snapshots
            BY <2>3, <2>m, ContentCommitted
        <3>2. /\ memos[m].revision \in Nat /\ old \in Doc /\ Len(old) \in Nat /\ k \in Mark
              /\ \A s \in snapshots[m] : s.revision \in Nat
            BY <1>t, <3>1, FieldTypes DEF Mark, Doc, TypeOK, ContentRow
        <3>3. ASSUME NEW s \in snapshots'[m] PROVE PastText(m, s)'
            <4> DEFINE age == memos[m].revision - s.revision
            <4>1. PastText(m, s) /\ s.revision \in Nat
                BY <3>1, <3>2, <3>3 DEF SnapshotsKept
            <4>2. /\ age \in Nat /\ age <= Len(old) /\ s.revision <= memos[m].revision
                  /\ s.doc = SubSeq(old, 1, Len(old) - age)
                  /\ memos'[m].revision - s.revision = age + 1
                BY <3>1, <3>2, <4>1 DEF PastText
            <4>3. /\ Len(contents'[m].doc) = Len(old) + 1
                  /\ s.doc = SubSeq(contents'[m].doc, 1, Len(contents'[m].doc) - (age + 1))
                <5> HIDE DEF old, age, k
                <5> QED
                    BY <3>1, <3>2, <4>2, EarlierText
            <4>4. s.revision <= memos'[m].revision
                BY <3>1, <3>2, <4>1, <4>2
            <4>5. Len(contents'[m].doc) >= age + 1
                <5> HIDE DEF old, age
                <5> QED
                    BY <3>2, <4>2, <4>3
            <4> QED
                BY <4>2, <4>3, <4>4, <4>5 DEF PastText
        <3>4. Exists(m)' /\ \A n \in Memo \ {m} : Exists(n)' = Exists(n)
            BY <3>1 DEF Exists
        <3> QED
            BY <1>same, <3>1, <3>3, <3>4 DEF SnapshotsKept
    <2>4. CASE CommitMeta(h) \/ SoftDelete(h) \/ Restore(h) \/ (Purge(h) /\ ~Exists(m))
        BY <1>same, <2>m, <2>4, VersionsKept DEF SnapshotsKept
    <2>5. CASE Purge(h) /\ Exists(m)
        <3>1. /\ m \in Memo /\ snapshots'[m] = {}
              /\ \A n \in Memo \ {m} : /\ memos'[n] = memos[n] /\ contents'[n] = contents[n]
                                       /\ snapshots'[n] = snapshots[n]
            BY <2>5, <2>m, RowPurged
        <3>2. \A n \in Memo \ {m} : Exists(n)' = Exists(n)
            BY <3>1 DEF Exists
        <3> QED
            BY <1>same, <3>1, <3>2 DEF SnapshotsKept
    <2>6. CASE AppendUnlocked(h)
        BY <1>same, <2>6, RowAppended DEF SnapshotsKept, Exists
    <2> QED
        BY <1>2, <2>m, <2>1, <2>2, <2>3, <2>4, <2>5, <2>6 DEF Tells
<1> QED
    BY <1>1, <1>2, KindsOfSteps

LEMMA AlwaysSnapshotsKept == Spec => [](IInv /\ SnapshotsKept)
<1>1. IInv /\ SnapshotsKept /\ IInv' /\ [Next]_vars => SnapshotsKept'
    BY NextSnapshotsKept
<1> QED
    BY <1>1, InitSnapshotsKept, Invariance, PTL DEF Spec

\* A snapshot is the text its memo had at the snapshot's revision, whether or not the save
\* that took it went on to commit (the snapshot row of save and its transaction).
THEOREM SnapshotsTellHistory == Spec => []SnapshotsAreHistory
<1>1. SnapshotsKept => SnapshotsAreHistory
    BY DEF SnapshotsKept, SnapshotsAreHistory, PastText
<1> QED
    BY <1>1, AlwaysSnapshotsKept, PTL

\* A purged memo stays purged and nothing is left of it: no save, restore or trash that
\* was waiting for the lock brings a row back.
THEOREM PurgesAreFinal == Spec => PurgeIsFinal
<1>1. ASSUME IInv, IInv', SnapshotsKept', [Next]_vars, NEW n \in Memo,
             memos[n].state = "purged"
      PROVE  memos'[n].state = "purged" /\ contents'[n].doc = << >> /\ snapshots'[n] = {}
    <2>1. memos'[n].state = "purged"
        <3>1. CASE Quiet
            BY <1>1, <3>1 DEF Quiet
        <3>2. ASSUME NEW h \in Handler, Tells(h) PROVE memos'[n].state = "purged"
            <4>1. CASE MaybeSnapshot(h) /\ ~UNCHANGED snapshots
                BY <1>1, <4>1, SnapshotAdded
            <4>2. CASE CommitCreate(h)
                BY <1>1, <4>2, CreateCommitted
            <4>3. CASE CommitContent(h)
                BY <1>1, <4>3, ContentCommitted
            <4>4. CASE CommitMeta(h) \/ SoftDelete(h) \/ Restore(h) \/ (Purge(h) /\ ~Exists(req[h].memo))
                BY <1>1, <4>4, VersionsKept
            <4>5. CASE Purge(h) /\ Exists(req[h].memo)
                BY <1>1, <4>5, RowPurged
            <4>6. CASE AppendUnlocked(h)
                BY <1>1, <4>6, RowAppended
            <4> QED
                BY <3>2, <4>1, <4>2, <4>3, <4>4, <4>5, <4>6 DEF Tells
        <3> QED
            BY <1>1, <3>1, <3>2, KindsOfSteps
    <2>2. ~Exists(n)' /\ RowsAgree'
        BY <1>1, <2>1 DEF Exists, IInv
    <2>3. contents'[n].doc = << >>
        BY <2>2 DEF RowsAgree
    <2> QED
        BY <1>1, <2>1, <2>2, <2>3 DEF SnapshotsKept
<1>2. IInv /\ IInv' /\ SnapshotsKept' /\ [Next]_vars
      => [\A m \in Memo : memos[m].state = "purged" =>
            /\ memos'[m].state = "purged"
            /\ contents'[m].doc = << >>
            /\ snapshots'[m] = {}]_vars
    BY <1>1
<1> QED
    BY <1>2, AlwaysSnapshotsKept, PTL DEF Spec, PurgeIsFinal

-----------------------------------------------------------------------------
(* The sync log. *)

\* A row is never ahead of its memo.
LogBehind ==
    \A i \in DOMAIN log : log[i].kind = "content" =>
        /\ memos[log[i].memo].state # "absent"
        /\ Exists(log[i].memo) => log[i].revision <= memos[log[i].memo].revision

\* A row about to be written is of the version its memo has, and of a later one than
\* all rows before it.
RowDue(h) ==
    pc[h] = "append" /\ Writes(h) =>
        /\ Exists(req[h].memo)
        /\ answer[h].etag.revision = memos[req[h].memo].revision
        /\ \A i \in DOMAIN log : log[i].memo = req[h].memo /\ log[i].kind = "content" =>
              log[i].revision < answer[h].etag.revision

\* A version without its row is one a handler committed and has not told of.  The
\* handler of a metadata save may have noted the same revision: it is not meant.
Untold(h, m, r) ==
    /\ req[h].memo = m /\ Writes(h)
    /\ answer[h].etag.revision = r /\ answer[h].code = "none"
    /\ pc[h] \in {"append", "done"}

Accounted(m, r) == LoggedVersion(m, r) \/ \E h \in Handler : Untold(h, m, r)

LogTells ==
    /\ LogInOrder
    /\ LogBehind
    /\ \A h \in Handler : RowDue(h)
    /\ \A m \in Memo : \A r \in 1 .. memos[m].revision : Accounted(m, r)

LEMMA InitLogTells == Init => LogTells
<1> SUFFICES ASSUME Init PROVE LogTells
    OBVIOUS
<1>1. DOMAIN log = {}
    BY DEF Init
<1>2. LogInOrder /\ LogBehind
    BY <1>1 DEF LogInOrder, LogBehind
<1>3. \A h \in Handler : RowDue(h)
    BY DEF Init, RowDue
<1>4. \A m \in Memo : 1 .. memos[m].revision = {}
    BY DEF Init
<1> QED
    BY <1>2, <1>3, <1>4 DEF LogTells

LEMMA QuietLogTells ==
    ASSUME IInv, LogTells, Quiet
    PROVE  LogTells'
<1>1. /\ UNCHANGED <<memos, log>>
      /\ \A g \in Handler :
            /\ pc[g] \in {"append", "done"} =>
                  /\ req'[g] = req[g] /\ answer'[g] = answer[g]
                  /\ pc'[g] \in {"append", "done"}
            /\ pc'[g] = "append" => pc[g] = "append"
    BY DEF Quiet, Settled
<1>2. LogInOrder' /\ LogBehind'
    BY <1>1 DEF LogTells, LogInOrder, LogBehind, Exists
<1>3. \A g \in Handler : RowDue(g)'
    BY <1>1 DEF LogTells, RowDue, Writes, Exists
<1>4. ASSUME NEW m \in Memo, NEW r \in 1 .. memos[m].revision PROVE Accounted(m, r)'
    BY <1>1, <1>4 DEF LogTells, Accounted, LoggedVersion, Untold, Writes
<1> QED
    BY <1>1, <1>2, <1>3, <1>4 DEF LogTells

LEMMA LogRows ==
    ASSUME TypeOK, NEW i \in DOMAIN log
    PROVE  log[i].memo \in Memo /\ log[i].revision \in Nat
<1>1. log[i] \in LogRow
    BY DEF TypeOK
<1> QED
    BY <1>1 DEF LogRow

\* The lock covers the commit and the row: while one handler tells, no other has a row due.
LEMMA NoOtherRowDue ==
    ASSUME IInv, NEW h \in Handler, Tells(h), NEW g \in Handler \ {h}
    PROVE  pc[g] # "append" /\ RowDue(g)'
<1>1. writer \in {h, NoHandler} /\ pc'[g] = pc[g]
    BY TellingStep
<1>2. pc[g] # "append"
    BY <1>1, MemoStoreAssumption DEF IInv, HandlerInv, LockOf, LockedStep
<1> QED
    BY <1>1, <1>2 DEF RowDue

\* What is accounted for stays so while the log grows, unless its own handler moves.
LEMMA AccountedKept ==
    ASSUME NEW h \in Handler, NEW m, NEW r,
           req' = req,
           \A g \in Handler \ {h} : pc'[g] = pc[g] /\ answer'[g] = answer[g],
           LoggedVersion(m, r) => LoggedVersion(m, r)',
           ~Untold(h, m, r),
           Accounted(m, r)
    PROVE  Accounted(m, r)'
<1>1. \A g \in Handler : Untold(g, m, r) => Untold(g, m, r)'
    BY DEF Untold, Writes
<1> QED
    BY <1>1 DEF Accounted

LEMMA CommitLogTells ==
    ASSUME IInv, LogTells, NEW h \in Handler, CommitCreate(h) \/ CommitContent(h)
    PROVE  LogTells'
<1>t. TypeOK /\ Tells(h)
    BY DEF IInv, Tells
<1>m. PICK m \in Memo : m = req[h].memo
    BY <1>t, FieldTypes
<1>1. /\ req' = req /\ answer[h].code = "none"
      /\ \A g \in Handler \ {h} : pc'[g] = pc[g] /\ answer'[g] = answer[g]
    BY <1>t, TellingStep
<1>2. /\ pc[h] = "commit" /\ pc'[h] = "append" /\ Writes(h) /\ answer'[h].code = "none"
      /\ log' = log /\ answer'[h].etag.revision = memos'[m].revision
      /\ Exists(m)'
      /\ \A n \in Memo \ {m} : memos'[n] = memos[n]
      /\ \/ memos[m].state = "absent" /\ memos'[m].revision = 1
         \/ Exists(m) /\ memos'[m].revision = memos[m].revision + 1
    <2>1. CASE CommitCreate(h)
        BY <1>1, <1>m, <2>1, CreateCommitted DEF Exists
    <2>2. CASE CommitContent(h)
        BY <1>1, <1>m, <2>2, ContentCommitted DEF Exists
    <2> QED
        BY <2>1, <2>2
<1>3. /\ memos[m].revision \in Nat
      /\ \A i \in DOMAIN log : log[i].memo \in Memo /\ log[i].revision \in Nat
    BY <1>t, FieldTypes, LogRows
<1>4. LogInOrder'
    BY <1>2 DEF LogTells, LogInOrder
<1>5. \A i \in DOMAIN log : log[i].memo = m /\ log[i].kind = "content" =>
            log[i].revision < memos'[m].revision
    BY <1>2, <1>3 DEF LogTells, LogBehind
<1>6. LogBehind'
    <2> SUFFICES ASSUME NEW i \in DOMAIN log, log[i].kind = "content"
                 PROVE  /\ memos'[log[i].memo].state # "absent"
                        /\ Exists(log[i].memo)' => log[i].revision <= memos'[log[i].memo].revision
        BY <1>2 DEF LogBehind
    <2>1. CASE log[i].memo = m
        <3>1. memos'[m].state # "absent"
            BY <1>2 DEF Exists
        <3>2. memos'[m].revision \in Nat /\ log[i].revision < memos'[m].revision
            BY <1>2, <1>3, <1>5, <2>1
        <3> QED
            BY <1>3, <2>1, <3>1, <3>2
    <2>2. CASE log[i].memo # m
        <3>1. memos'[log[i].memo] = memos[log[i].memo]
            BY <1>2, <1>3, <2>2
        <3> QED
            BY <1>2, <3>1 DEF LogTells, LogBehind, Exists
    <2> QED
        BY <2>1, <2>2
<1>7. RowDue(h)'
    BY <1>1, <1>2, <1>5, <1>m DEF RowDue, Exists
<1>8. ASSUME NEW n \in Memo, NEW r \in 1 .. memos'[n].revision PROVE Accounted(n, r)'
    <2>1. CASE r \in 1 .. memos[n].revision
        <3>1. ~Untold(h, n, r) /\ Accounted(n, r)
            BY <1>2, <2>1 DEF Untold, LogTells
        <3>2. LoggedVersion(n, r) => LoggedVersion(n, r)'
            BY <1>2 DEF LoggedVersion
        <3> QED
            BY <1>1, <3>1, <3>2, AccountedKept
    <2>2. CASE r \notin 1 .. memos[n].revision
        <3>1. n = m
            BY <1>2, <2>2
        <3>2. r = memos'[m].revision
            BY <1>2, <1>3, <1>8, <2>2, <3>1
        <3>3. Untold(h, n, r)'
            BY <1>1, <1>2, <1>m, <3>1, <3>2 DEF Untold, Writes
        <3> QED
            BY <3>3 DEF Accounted
    <2> QED
        BY <2>1, <2>2
<1> QED
    BY <1>t, <1>4, <1>6, <1>7, <1>8, NoOtherRowDue DEF LogTells

\* Steps that leave the versions alone, or take them away with the memo.
LEMMA OtherLogTells ==
    ASSUME IInv, LogTells, NEW h \in Handler,
           \/ MaybeSnapshot(h) /\ ~UNCHANGED snapshots
           \/ CommitMeta(h) \/ SoftDelete(h) \/ Restore(h) \/ Purge(h)
    PROVE  LogTells'
<1>t. TypeOK /\ Tells(h)
    BY DEF IInv, Tells
<1>m. PICK m \in Memo : m = req[h].memo
    BY <1>t, FieldTypes
<1>1. /\ req' = req /\ pc[h] \in {"lock", "snapshot", "commit", "append"}
      /\ \A g \in Handler \ {h} : pc'[g] = pc[g] /\ answer'[g] = answer[g]
    BY <1>t, TellingStep
<1>2. /\ pc'[h] = "append" => ~Writes(h)
      /\ pc[h] # "append" /\ log' = log
      /\ \A n \in Memo :
            \/ /\ memos'[n].revision = memos[n].revision
               /\ Exists(n)' = Exists(n)
               /\ (memos'[n].state = "absent") <=> (memos[n].state = "absent")
            \/ memos'[n].state = "purged" /\ memos'[n].revision = 0
    <2>1. CASE MaybeSnapshot(h) /\ ~UNCHANGED snapshots
        BY <1>1, <1>m, <2>1, SnapshotAdded DEF Exists
    <2>3. CASE CommitMeta(h) \/ SoftDelete(h) \/ Restore(h) \/ (Purge(h) /\ ~Exists(m))
        <3>1. pc[h] # "append"
            BY <2>3 DEF CommitMeta, SoftDelete, Restore, SetTrashed, Purge
        <3> QED
            BY <1>m, <2>3, <3>1, VersionsKept
    <2>4. CASE Purge(h) /\ Exists(m)
        <3>1. pc[h] # "append"
            BY <2>4 DEF Purge
        <3>2. \A n \in Memo : memos'[n] = memos[n] => Exists(n)' = Exists(n)
            BY DEF Exists
        <3> QED
            BY <1>m, <2>4, <3>1, <3>2, RowPurged
    <2> QED
        BY <1>m, <2>1, <2>3, <2>4
<1>3. \A i \in DOMAIN log : log[i].memo \in Memo
    BY <1>t, LogRows
<1>4. LogInOrder'
    BY <1>2 DEF LogTells, LogInOrder
<1>5. LogBehind'
    <2> SUFFICES ASSUME NEW i \in DOMAIN log, log[i].kind = "content"
                 PROVE  /\ memos'[log[i].memo].state # "absent"
                        /\ Exists(log[i].memo)' => log[i].revision <= memos'[log[i].memo].revision
        BY <1>2 DEF LogBehind
    <2>1. /\ memos[log[i].memo].state # "absent"
          /\ Exists(log[i].memo) => log[i].revision <= memos[log[i].memo].revision
        BY DEF LogTells, LogBehind
    <2>2. CASE memos'[log[i].memo].state = "purged"
        BY <1>2, <2>2 DEF Exists
    <2>3. PICK n \in Memo : n = log[i].memo
        BY <1>3
    <2>4. CASE /\ memos'[n].revision = memos[n].revision
               /\ Exists(n)' = Exists(n)
               /\ (memos'[n].state = "absent") <=> (memos[n].state = "absent")
        BY <1>2, <2>1, <2>3, <2>4 DEF Exists
    <2> QED
        BY <1>2, <2>2, <2>3, <2>4
<1>6. RowDue(h)'
    BY <1>1, <1>2 DEF RowDue, Writes
<1>7. ASSUME NEW n \in Memo, NEW r \in 1 .. memos'[n].revision PROVE Accounted(n, r)'
    <2>1. r \in 1 .. memos[n].revision
        BY <1>2, <1>7
    <2>2. ~Untold(h, n, r) /\ Accounted(n, r)
        BY <1>1, <1>2, <2>1 DEF Untold, LogTells
    <2>3. LoggedVersion(n, r) => LoggedVersion(n, r)'
        BY <1>2 DEF LoggedVersion
    <2> QED
        BY <1>1, <2>2, <2>3, AccountedKept
<1> QED
    BY <1>t, <1>4, <1>5, <1>6, <1>7, NoOtherRowDue DEF LogTells

LEMMA AppendLogTells ==
    ASSUME IInv, LogTells, NEW h \in Handler, AppendUnlocked(h)
    PROVE  LogTells'
<1>t. TypeOK /\ Tells(h) /\ log \in Seq(LogRow)
    BY DEF IInv, Tells, TypeOK
<1>m. PICK m \in Memo : m = req[h].memo
    BY <1>t, FieldTypes
<1> DEFINE e == answer[h].etag.revision
           row == [memo |-> m, kind |-> LogKind(req[h].op), revision |-> e]
<1>1. /\ req' = req
      /\ \A g \in Handler \ {h} : pc'[g] = pc[g] /\ answer'[g] = answer[g]
    BY <1>t, TellingStep
<1>2. /\ pc[h] = "append" /\ pc'[h] = "done"
      /\ log' = Append(log, row) /\ memos' = memos
    BY <1>m, RowAppended
<1>3. row.kind = "content" <=> Writes(h)
    BY DEF LogKind, Writes
<1>4. /\ Len(log) \in Nat /\ DOMAIN log = 1 .. Len(log)
      /\ DOMAIN log' = 1 .. Len(log) + 1
      /\ \A i \in 1 .. Len(log) : log'[i] = log[i]
      /\ log'[Len(log) + 1] = row
    BY <1>2, <1>t
<1>5. Writes(h) => /\ Exists(m) /\ e = memos[m].revision
                   /\ \A i \in DOMAIN log : log[i].memo = m /\ log[i].kind = "content" =>
                            log[i].revision < e
    BY <1>2, <1>m DEF LogTells, RowDue
<1>6. LogInOrder'
    <2> SUFFICES ASSUME NEW i \in DOMAIN log', NEW j \in DOMAIN log', i < j,
                        log'[i].memo = log'[j].memo,
                        log'[i].kind = "content", log'[j].kind = "content"
                 PROVE  log'[i].revision < log'[j].revision
        BY DEF LogInOrder
    <2>1. i \in 1 .. Len(log) /\ log'[i] = log[i]
        BY <1>4
    <2>2. CASE j \in 1 .. Len(log)
        BY <1>4, <2>1, <2>2 DEF LogTells, LogInOrder
    <2>3. CASE j = Len(log) + 1
        BY <1>3, <1>4, <1>5, <2>1, <2>3
    <2> QED
        BY <1>4, <2>2, <2>3
<1>7. LogBehind'
    <2> SUFFICES ASSUME NEW i \in DOMAIN log', log'[i].kind = "content"
                 PROVE  /\ memos[log'[i].memo].state # "absent"
                        /\ Exists(log'[i].memo) => log'[i].revision <= memos[log'[i].memo].revision
        BY <1>2 DEF LogBehind, Exists
    <2>1. CASE i \in 1 .. Len(log)
        BY <1>4, <2>1 DEF LogTells, LogBehind
    <2>2. CASE i = Len(log) + 1
        <3>1. Exists(m) /\ e = memos[m].revision /\ memos[m].revision \in Nat
            BY <1>3, <1>4, <1>5, <1>t, <2>2, FieldTypes
        <3> QED
            BY <1>4, <2>2, <3>1 DEF Exists
    <2> QED
        BY <1>4, <2>1, <2>2
<1>8. RowDue(h)'
    BY <1>2 DEF RowDue
<1>9. ASSUME NEW n \in Memo, NEW r \in 1 .. memos'[n].revision PROVE Accounted(n, r)'
    <2>1. Accounted(n, r)
        BY <1>2 DEF LogTells
    <2>2. LoggedVersion(n, r) => LoggedVersion(n, r)'
        BY <1>4 DEF LoggedVersion
    <2>3. CASE Untold(h, n, r)
        <3>1. log'[Len(log) + 1] = [memo |-> n, kind |-> "content", revision |-> r]
            BY <1>3, <1>4, <1>m, <2>3 DEF Untold
        <3> QED
            BY <1>4, <3>1 DEF Accounted, LoggedVersion
    <2> QED
        BY <1>1, <2>1, <2>2, <2>3, AccountedKept
<1> QED
    BY <1>t, <1>6, <1>7, <1>8, <1>9, NoOtherRowDue DEF LogTells

LEMMA AlwaysLogTells == Spec => [](IInv /\ LogTells)
<1>1. ASSUME IInv, LogTells, [Next]_vars PROVE LogTells'
    <2>1. ASSUME NEW h \in Handler, Tells(h) PROVE LogTells'
        BY <1>1, <2>1, CommitLogTells, OtherLogTells, AppendLogTells DEF Tells
    <2> QED
        BY <1>1, <2>1, QuietLogTells, KindsOfSteps
<1>2. IInv /\ LogTells /\ [Next]_vars => LogTells'
    BY <1>1
<1> QED
    BY <1>2, InitLogTells, Invariance, PTL DEF Spec

\* The log tells the versions of a memo in the order of their commits, though every row
\* is written after its transaction (append_unlocked, under the same lock).
THEOREM LogFollowsCommits == Spec => []LogInOrder
<1>1. LogTells => LogInOrder
    BY DEF LogTells
<1> QED
    BY <1>1, AlwaysLogTells, PTL

\* A version that the log lacks was committed by a handler that has its row still to
\* write or was dropped before it: complete requests leave no gap.
THEOREM GapsComeOfDrops == Spec => []LogGapsAreDropped
<1>1. LogTells => LogGapsAreDropped
    BY DEF LogTells, LogGapsAreDropped, Accounted, Untold
<1> QED
    BY <1>1, AlwaysLogTells, PTL

-----------------------------------------------------------------------------
(* Blobs. *)

LEMMA OneMore ==
    ASSUME NEW S, IsFiniteSet(S), NEW x, NEW T \in SUBSET (S \union {x})
    PROVE  /\ IsFiniteSet(T) /\ Cardinality(T) \in Nat /\ Cardinality(S) \in Nat
           /\ Cardinality(T) <= Cardinality(S) + 1
<1>1. IsFiniteSet(S \union {x}) /\ Cardinality(S) \in Nat
      /\ Cardinality(S \union {x}) <= Cardinality(S) + 1
    <2>1. Cardinality(S) \in Nat
        BY FS_CardinalityType
    <2> QED
        BY <2>1, FS_AddElement
<1>2. IsFiniteSet(T) /\ Cardinality(T) <= Cardinality(S \union {x})
    BY <1>1, FS_Subset
<1>3. Cardinality(T) \in Nat /\ Cardinality(S \union {x}) \in Nat
    BY <1>1, <1>2, FS_CardinalityType
<1> QED
    BY <1>1, <1>2, <1>3

\* A handler on its way to commit a large text has stored it: the memos that will point
\* to a text can be counted before the commit.
BlobReady(h) ==
    pc[h] \in {"snapshot", "commit"} /\ Writes(h) /\ Oversized(req[h].doc)
    => req[h].doc \in DOMAIN blobs

Held(d) ==
    /\ IsFiniteSet(Pointing(d))
    /\ Oversized(d) /\ Pointing(d) # {} =>
          d \in DOMAIN blobs /\ blobs[d] >= Cardinality(Pointing(d))

BlobsHeld ==
    /\ \A d \in Doc : Held(d)
    /\ \A h \in Handler : BlobReady(h)

LEMMA InitBlobsHeld == Init => BlobsHeld
<1> SUFFICES ASSUME Init PROVE BlobsHeld
    OBVIOUS
<1>1. \A d : Pointing(d) = {}
    BY DEF Init, Pointing, Exists
<1>2. \A d \in Doc : Held(d)
    BY <1>1, FS_EmptySet DEF Held
<1>3. \A h \in Handler : BlobReady(h)
    BY DEF Init, BlobReady
<1> QED
    BY <1>2, <1>3 DEF BlobsHeld

\* A text that fewer memos point to, and whose blob is counted no lower, is held.
LEMMA HeldStays ==
    ASSUME TypeOK, NEW d \in Doc, Held(d),
           Pointing(d)' \subseteq Pointing(d),
           d \in DOMAIN blobs => d \in DOMAIN blobs' /\ blobs'[d] >= blobs[d],
           d \in DOMAIN blobs' => blobs'[d] \in Nat
    PROVE  Held(d)'
<1>1. IsFiniteSet(Pointing(d)') /\ Cardinality(Pointing(d)') <= Cardinality(Pointing(d))
    BY FS_Subset DEF Held
<1>2. Cardinality(Pointing(d)') \in Nat /\ Cardinality(Pointing(d)) \in Nat
    BY <1>1, FS_CardinalityType DEF Held
<1>3. d \in DOMAIN blobs => blobs[d] \in Nat
    BY DEF TypeOK
<1> QED
    BY <1>1, <1>2, <1>3 DEF Held, Oversized

LEMMA QuietBlobsHeld ==
    ASSUME IInv, IInv', BlobsHeld, Quiet
    PROVE  BlobsHeld'
<1>1. ASSUME NEW d \in Doc PROVE Held(d)'
    <2>1. TypeOK /\ TypeOK' /\ Held(d) /\ UNCHANGED <<memos, contents>> /\ BlobsGrow
        BY DEF IInv, BlobsHeld, Quiet
    <2>2. Pointing(d)' = Pointing(d)
        BY <2>1 DEF Pointing, Exists
    <2>3. /\ d \in DOMAIN blobs => d \in DOMAIN blobs' /\ blobs'[d] >= blobs[d]
          /\ d \in DOMAIN blobs' => blobs'[d] \in Nat
        BY <2>1 DEF TypeOK, BlobsGrow
    <2> QED
        BY <2>1, <2>2, <2>3, HeldStays
<1>2. ASSUME NEW g \in Handler PROVE BlobReady(g)'
    BY DEF Quiet, Stored, BlobsGrow, BlobsHeld, BlobReady, Writes
<1> QED
    BY <1>1, <1>2 DEF BlobsHeld

\* Only a commit makes a memo point to a text; the other steps that tell change no blob.
LEMMA TellingBlobReady ==
    ASSUME IInv, BlobsHeld, NEW h \in Handler, Tells(h), NEW g \in Handler,
           DOMAIN blobs \subseteq DOMAIN blobs'
    PROVE  BlobReady(g)'
<1>t. TypeOK
    BY DEF IInv
<1>1. req' = req /\ \A x \in Handler \ {h} : pc'[x] = pc[x]
    BY TellingStep
<1>2. pc'[h] \in {"snapshot", "commit"} => pc[h] = "snapshot"
    <2>1. CASE MaybeSnapshot(h) /\ ~UNCHANGED snapshots
        BY <2>1, SnapshotAdded
    <2>2. CASE CommitCreate(h)
        BY <2>2, CreateCommitted
    <2>3. CASE CommitContent(h)
        BY <2>3, ContentCommitted
    <2>4. CASE CommitMeta(h) \/ SoftDelete(h) \/ Restore(h) \/ (Purge(h) /\ ~Exists(req[h].memo))
        BY <2>4, VersionsKept
    <2>5. CASE Purge(h) /\ Exists(req[h].memo)
        BY <2>5, RowPurged
    <2>6. CASE AppendUnlocked(h)
        BY <2>6, RowAppended
    <2> QED
        BY <2>1, <2>2, <2>3, <2>4, <2>5, <2>6 DEF Tells
<1> QED
    BY <1>1, <1>2 DEF BlobReady, BlobsHeld, Writes

LEMMA CommitBlobsHeld ==
    ASSUME IInv, IInv', BlobsHeld, NEW h \in Handler, CommitCreate(h) \/ CommitContent(h)
    PROVE  BlobsHeld'
<1>t. TypeOK /\ TypeOK' /\ Tells(h)
    BY DEF IInv, Tells
<1>m. PICK m \in Memo, doc \in Doc : m = req[h].memo /\ doc = req[h].doc
    BY <1>t, FieldTypes
<1>1. /\ pc[h] = "commit" /\ Writes(h)
      /\ contents'[m].doc = doc
      /\ \A n \in Memo \ {m} : memos'[n] = memos[n] /\ contents'[n] = contents[n]
      /\ blobs' = Referenced(doc)
    BY <1>m, CreateCommitted, ContentCommitted
<1>2. /\ DOMAIN blobs' = DOMAIN blobs
      /\ \A d \in DOMAIN blobs :
            /\ blobs[d] \in Nat
            /\ blobs'[d] = IF Oversized(doc) /\ d = doc THEN blobs[d] + 1 ELSE blobs[d]
    BY <1>1, <1>t DEF Referenced, TypeOK
<1>3. ASSUME NEW d \in Doc PROVE Pointing(d)' \subseteq Pointing(d) \union {m}
    BY <1>1 DEF Pointing, Exists
<1>4. ASSUME NEW d \in Doc, d # doc PROVE Pointing(d)' \subseteq Pointing(d)
    BY <1>1, <1>4 DEF Pointing, Exists
<1>5. ASSUME NEW d \in Doc PROVE Held(d)'
    <2>1. Held(d)
        BY DEF BlobsHeld
    <2>2. CASE d # doc
        BY <1>t, <1>2, <1>4, <2>1, <2>2, HeldStays
    <2>3. CASE d = doc
        <3>1. /\ IsFiniteSet(Pointing(d)') /\ Cardinality(Pointing(d)') \in Nat
              /\ Cardinality(Pointing(d)) \in Nat
              /\ Cardinality(Pointing(d)') <= Cardinality(Pointing(d)) + 1
            BY <1>3, <2>1, OneMore DEF Held
        <3>2. CASE Oversized(d)
            <4>1. d \in DOMAIN blobs /\ blobs'[d] = blobs[d] + 1 /\ blobs[d] \in Nat
                BY <1>1, <1>2, <1>m, <2>3, <3>2 DEF BlobsHeld, BlobReady
            <4>2. blobs[d] >= Cardinality(Pointing(d))
                <5>1. CASE Pointing(d) = {}
                    BY <4>1, <5>1, FS_EmptySet
                <5>2. CASE Pointing(d) # {}
                    BY <2>1, <3>2, <5>2 DEF Held
                <5> QED
                    BY <5>1, <5>2
            <4>3. d \in DOMAIN blobs' /\ blobs'[d] >= Cardinality(Pointing(d)')
                BY <1>2, <3>1, <4>1, <4>2
            <4> QED
                BY <3>1, <4>3 DEF Held
        <3>3. CASE ~Oversized(d)
            BY <3>1, <3>3 DEF Held, Oversized
        <3> QED
            BY <3>2, <3>3
    <2> QED
        BY <2>2, <2>3
<1> QED
    BY <1>t, <1>2, <1>5, TellingBlobReady DEF BlobsHeld

LEMMA OtherBlobsHeld ==
    ASSUME IInv, IInv', BlobsHeld, NEW h \in Handler, Tells(h),
           ~(CommitCreate(h) \/ CommitContent(h))
    PROVE  BlobsHeld'
<1>t. TypeOK /\ TypeOK'
    BY DEF IInv
<1>m. PICK m \in Memo : m = req[h].memo
    BY <1>t, FieldTypes
<1>1. /\ blobs' = blobs
      /\ \A n \in Memo : Exists(n)' => Exists(n) /\ contents'[n] = contents[n]
    <2>1. CASE MaybeSnapshot(h) /\ ~UNCHANGED snapshots
        BY <2>1, SnapshotAdded DEF Exists
    <2>2. CASE CommitMeta(h) \/ SoftDelete(h) \/ Restore(h) \/ (Purge(h) /\ ~Exists(m))
        BY <1>m, <2>2, VersionsKept
    <2>3. CASE Purge(h) /\ Exists(m)
        BY <1>m, <2>3, RowPurged DEF Exists
    <2>4. CASE AppendUnlocked(h)
        BY <2>4, RowAppended DEF Exists
    <2> QED
        BY <1>m, <2>1, <2>2, <2>3, <2>4 DEF Tells
<1>2. ASSUME NEW d \in Doc PROVE Held(d)'
    <2>1. Held(d) /\ Pointing(d)' \subseteq Pointing(d)
        BY <1>1 DEF BlobsHeld, Pointing
    <2>2. d \in DOMAIN blobs => blobs[d] \in Nat
        BY <1>t DEF TypeOK
    <2> QED
        BY <1>1, <1>t, <2>1, <2>2, HeldStays
<1> QED
    BY <1>1, <1>2, TellingBlobReady DEF BlobsHeld

LEMMA AlwaysBlobsHeld == Spec => [](IInv /\ BlobsHeld)
<1>1. ASSUME IInv, IInv', BlobsHeld, [Next]_vars PROVE BlobsHeld'
    BY <1>1, QuietBlobsHeld, CommitBlobsHeld, OtherBlobsHeld, KindsOfSteps
<1>2. IInv /\ IInv' /\ BlobsHeld /\ [Next]_vars => BlobsHeld'
    BY <1>1
<1> QED
    BY <1>2, InitBlobsHeld, Invariance, PTL DEF Spec

\* A memo's large text is in the blob store, counted as often as memos point to it: the
\* blob is stored before the row and counted with it (put_blob and the transaction of save).
THEOREM BlobsAreKept == Spec => []BlobsRetained
<1>1. ASSUME IInv, BlobsHeld PROVE BlobsRetained
    <2> SUFFICES ASSUME NEW m \in Memo, Exists(m), Oversized(contents[m].doc)
                 PROVE  /\ contents[m].doc \in DOMAIN blobs
                        /\ blobs[contents[m].doc] >= Cardinality(Pointing(contents[m].doc))
        BY DEF BlobsRetained
    <2>1. Held(contents[m].doc)
        BY <1>1, FieldTypes DEF IInv, BlobsHeld
    <2>2. m \in Pointing(contents[m].doc)
        BY DEF Pointing
    <2> QED
        BY <2>1, <2>2 DEF Held
<1>2. IInv /\ BlobsHeld => BlobsRetained
    BY <1>1
<1> QED
    BY <1>2, AlwaysBlobsHeld, PTL

-----------------------------------------------------------------------------
(* The refinement: every step of the store is one of the ledger or none.     *)

LEMMA PresenceIs ==
    ASSUME TypeOK, NEW m \in Memo
    PROVE  /\ Presence(m) = "present" <=> Exists(m)
           /\ Presence(m) = "absent" <=> memos[m].state = "absent"
           /\ Presence(m) = "purged" <=> memos[m].state = "purged"
<1>1. memos[m].state \in {"absent", "live", "trashed", "purged"}
    BY DEF TypeOK, MemoRow
<1> QED
    BY <1>1 DEF Presence, Exists

\* An answer "ok" acknowledges at most its own key, and one that has taken effect.
LEMMA AcksOne ==
    ASSUME IInv, IInv', NEW h \in Handler, pc[h] # "done",
           \A g \in Handler \ {h} : req'[g] = req[g] /\ answer'[g] = answer[g]
    PROVE  \/ Acked' = Acked
           \/ \E k \in Key : Acked' = Acked \union {k} /\ keys'[k].state # "unused"
<1>1. answer[h].code = "none" /\ HandlerInv(h)'
    BY DEF IInv, HandlerInv, AckFollowsEffect
<1>2. CASE answer'[h].code = "ok" /\ req'[h].key \in Key
    <2>1. Acked' = Acked \union {req'[h].key}
        BY <1>1, <1>2 DEF Acked
    <2>2. pc'[h] = "done"
        BY <1>1, <1>2 DEF HandlerInv, AckFollowsEffect
    <2>3. req'[h].op \in SaveOps
        BY <1>1, <1>2, <2>2, MemoStoreAssumption DEF HandlerInv, Named
    <2>4. keys'[req'[h].key].state # "unused"
        BY <1>1, <1>2, <2>3 DEF HandlerInv, AckFollowsEffect
    <2> QED
        BY <1>2, <2>1, <2>4
<1>3. CASE ~(answer'[h].code = "ok" /\ req'[h].key \in Key)
    <2>1. Acked' = Acked
        BY <1>1, <1>3 DEF Acked
    <2> QED
        BY <2>1
<1> QED
    BY <1>2, <1>3

\* A step that commits nothing acknowledges, or is none of the ledger.
LEMMA NoEffectRefines ==
    ASSUME IInv, IInv', NEW h \in Handler, pc[h] # "done",
           \A g \in Handler \ {h} : req'[g] = req[g] /\ answer'[g] = answer[g],
           contents' = contents, \A m \in Memo : Presence(m)' = Presence(m),
           \A k \in Key : keys'[k].state = keys[k].state
    PROVE  [Ledger!Next]_(Ledger!vars)
<1>1. CASE Acked' = Acked
    BY <1>1 DEF Ledger!vars
<1>2. ASSUME NEW k \in Key, Acked' = Acked \union {k}, keys'[k].state # "unused"
      PROVE  Ledger!Acknowledge(k)
    BY <1>2 DEF Ledger!Acknowledge
<1> QED
    BY <1>1, <1>2, AcksOne DEF Ledger!Next

\* Steps of a handler that leave memos, contents and keys alone.
LEMMA WaitingStep ==
    ASSUME IInv, NEW h \in Handler,
           \/ Request(h) \/ GetSummary(h) \/ ReadMarkdown(h) \/ CreateLease(h)
           \/ GetIdempotency(h) \/ SaveTurnedDown(h) \/ SaveAdmitted(h)
           \/ CreateAdmitted(h) \/ StoreBlob(h) \/ MaybeSnapshot(h)
           \/ AppendUnlocked(h) \/ Drop(h)
    PROVE  /\ UNCHANGED <<memos, contents, keys>> /\ pc[h] # "done"
           /\ \A g \in Handler \ {h} : req'[g] = req[g] /\ answer'[g] = answer[g]
<1>t. TypeOK
    BY DEF IInv
<1>1. /\ UNCHANGED <<memos, contents, keys>> /\ pc[h] # "done"
      /\ \/ req' = req
         \/ \E r : req' = [req EXCEPT ![h] = r]
         \/ \E x : req' = [req EXCEPT ![h].base = x]
         \/ \E x : req' = [req EXCEPT ![h].doc = x]
         \/ \E x : req' = [req EXCEPT ![h].lease = x]
      /\ answer' = answer \/ \E a : answer' = [answer EXCEPT ![h] = a]
    <2>1. CASE Request(h)
        <3>1. \E r, step : Start(h, r, step)
            BY <2>1 DEF Request, RequestCreate, RequestEdit, RequestBlindEdit, RequestTag,
               RequestRetry, RequestLifecycle
        <3> QED
            BY <3>1 DEF Start, durable
    <2>2. CASE GetSummary(h) \/ ReadMarkdown(h) \/ CreateLease(h) \/ GetIdempotency(h)
        BY <2>2 DEF GetSummary, ReadMarkdown, CreateLease, GetIdempotency, Reply, durable
    <2>3. CASE SaveTurnedDown(h) \/ SaveAdmitted(h) \/ CreateAdmitted(h)
        BY <2>3 DEF SaveTurnedDown, SaveAdmitted, CreateAdmitted, Reply, durable
    <2>4. CASE StoreBlob(h) \/ MaybeSnapshot(h) \/ AppendUnlocked(h) \/ Drop(h)
        BY <2>4 DEF StoreBlob, MaybeSnapshot, AppendUnlocked, Drop, Reply, durable
    <2> QED
        BY <2>1, <2>2, <2>3, <2>4
<1> QED
    BY <1>t, <1>1 DEF TypeOK

LEMMA CreateRefines ==
    ASSUME IInv, IInv', NEW h \in Handler, CommitCreate(h)
    PROVE  Ledger!Next
<1>t. TypeOK /\ TypeOK' /\ Tells(h)
    BY DEF IInv, Tells
<1>m. PICK m \in Memo : m = req[h].memo
    BY <1>t, FieldTypes
<1>1. /\ memos[m].state = "absent" /\ Exists(m)'
      /\ contents'[m].doc \in Seq({NoKey})
      /\ \A n \in Memo \ {m} : memos'[n] = memos[n] /\ contents'[n] = contents[n]
      /\ keys' = keys /\ answer'[h].code = answer[h].code
    BY <1>m, CreateCommitted, InitialDocsAreDocs DEF Exists
<1>2. Presence(m) = "absent" /\ Presence(m)' = "present"
    <2>1. memos'[m].state \in {"live", "trashed"}
        BY <1>1 DEF Exists
    <2> QED
        BY <1>1, <2>1 DEF Presence
<1>3. \A n \in Memo \ {m} : Presence(n)' = Presence(n)
    BY <1>1 DEF Presence
<1>4. Acked' = Acked
    BY <1>1, <1>t, TellingStep DEF Acked
<1>5. Ledger!Create(m)
    BY <1>1, <1>2, <1>3, <1>4 DEF Ledger!Create
<1> QED
    BY <1>5 DEF Ledger!Next

LEMMA ContentRefines ==
    ASSUME IInv, IInv', NEW h \in Handler, CommitContent(h)
    PROVE  Ledger!Next
<1>t. TypeOK /\ TypeOK' /\ Tells(h)
    BY DEF IInv, Tells
<1>m. PICK k \in Key, m \in Memo : k = req[h].key /\ m = req[h].memo
    BY ContentCommitted
<1>1. /\ k \in EditKey /\ m = MemoOf[k]
      /\ Exists(m) /\ memos'[m].state = memos[m].state
      /\ contents'[m].doc = Append(contents[m].doc, k)
      /\ \A n \in Memo \ {m} : memos'[n] = memos[n] /\ contents'[n] = contents[n]
      /\ keys[k].state \in {"unused", "expired"}
      /\ keys'[k].state = IF keys[k].state = "unused" THEN "live" ELSE keys[k].state
      /\ \A x \in Key \ {k} : keys'[x] = keys[x]
      /\ answer'[h].code = answer[h].code
    BY <1>m, ContentCommitted, ZenonT(60)
<1>2. Presence(m) = "present" /\ \A n \in Memo : Presence(n)' = Presence(n)
    BY <1>1, <1>t, PresenceIs DEF Presence
<1>3. Acked' = Acked
    BY <1>1, <1>t, TellingStep DEF Acked
<1>4. [n \in Memo |-> contents'[n].doc]
      = [[n \in Memo |-> contents[n].doc] EXCEPT ![m] = Append(contents[m].doc, k)]
    BY <1>1
<1>5. CASE keys[k].state = "unused"
    <2>1. [x \in Key |-> keys'[x].state] = [[x \in Key |-> keys[x].state] EXCEPT ![k] = "live"]
        BY <1>1, <1>5
    <2>2. Ledger!Apply(k)
        BY <1>1, <1>2, <1>3, <1>4, <1>5, <2>1, ZenonT(60) DEF Ledger!Apply
    <2> QED
        BY <2>2 DEF Ledger!Next
<1>6. CASE keys[k].state = "expired"
    <2>1. [x \in Key |-> keys'[x].state] = [x \in Key |-> keys[x].state]
        BY <1>1, <1>6
    <2>2. Ledger!Reapply(k)
        BY <1>1, <1>2, <1>3, <1>4, <1>6, <2>1, ZenonT(60) DEF Ledger!Reapply
    <2> QED
        BY <2>2 DEF Ledger!Next
<1> QED
    BY <1>1, <1>5, <1>6

LEMMA MetaRefines ==
    ASSUME IInv, IInv', NEW h \in Handler, CommitMeta(h)
    PROVE  [Ledger!Next]_(Ledger!vars)
<1>t. TypeOK /\ TypeOK' /\ HandlerInv(h) /\ Tells(h)
    BY DEF IInv, Tells
<1>1. /\ pc[h] = "commit" /\ req[h].op = "tag"
      /\ \E e : keys' = KeyStored(req[h].key, e)
    BY DEF CommitMeta
<1>m. PICK k \in Key, m \in Memo :
        k = req[h].key /\ m = req[h].memo /\ k \notin EditKey /\ m = MemoOf[k] /\ Exists(m)
    BY <1>t, <1>1, FieldTypes DEF HandlerInv, Named, Admitted, SaveOps
<1>2. /\ contents' = contents /\ \A n \in Memo : Presence(n)' = Presence(n)
      /\ pc[h] # "done"
      /\ \A g \in Handler \ {h} : req'[g] = req[g] /\ answer'[g] = answer[g]
    BY <1>1, <1>t, VersionsKept, TellingStep
<1>3. DOMAIN keys = Key
    BY <1>t DEF TypeOK
<1>4. CASE keys[k].state = "unused"
    <2>1. /\ keys'[k].state = "live"
          /\ \A x \in Key \ {k} : keys'[x] = keys[x]
        BY <1>1, <1>3, <1>4, <1>m DEF KeyStored
    <2>2. [x \in Key |-> keys'[x].state] = [[x \in Key |-> keys[x].state] EXCEPT ![k] = "live"]
        BY <2>1
    <2>3. Acked' = Acked
        <3>1. answer'[h].code = answer[h].code
            BY <1>t DEF CommitMeta, Committed, TypeOK, Answer
        <3> QED
            BY <1>t, <3>1, TellingStep DEF Acked
    <2>4. Presence(m) = "present"
        BY <1>m, <1>t, PresenceIs
    <2>5. Ledger!Apply(k)
        BY <1>2, <1>4, <1>m, <2>2, <2>3, <2>4 DEF Ledger!Apply
    <2> QED
        BY <2>5 DEF Ledger!Next
<1>5. CASE keys[k].state # "unused"
    <2>1. keys' = keys
        BY <1>1, <1>5, <1>m DEF KeyStored
    <2> QED
        BY <1>2, <2>1, NoEffectRefines
<1> QED
    BY <1>4, <1>5

LEMMA PurgeRefines ==
    ASSUME IInv, IInv', NEW h \in Handler, Purge(h), Exists(req[h].memo)
    PROVE  Ledger!Next
<1>t. TypeOK /\ TypeOK' /\ Tells(h)
    BY DEF IInv, Tells
<1>m. PICK m \in Memo : m = req[h].memo
    BY <1>t, FieldTypes
<1>1. /\ Exists(m) /\ memos'[m].state = "purged" /\ contents'[m].doc = << >>
      /\ \A n \in Memo \ {m} : memos'[n] = memos[n] /\ contents'[n] = contents[n]
      /\ keys' = keys /\ answer' = answer /\ req' = req
    BY <1>m, <1>t, RowPurged, TellingStep
<1>2. Presence(m) = "present" /\ Presence(m)' = "purged"
    BY <1>1, <1>t, PresenceIs DEF Presence
<1>3. \A n \in Memo \ {m} : Presence(n)' = Presence(n)
    BY <1>1 DEF Presence
<1>4. Acked' = Acked
    BY <1>1 DEF Acked
<1>5. Ledger!Purge(m)
    BY <1>1, <1>2, <1>3, <1>4 DEF Ledger!Purge
<1> QED
    BY <1>5 DEF Ledger!Next

LEMMA ExpireRefines ==
    ASSUME IInv, NEW k \in Key, ExpireKey(k)
    PROVE  Ledger!Next
<1>t. TypeOK
    BY DEF IInv
<1>1. /\ keys[k].state = "live" /\ keys'[k].state = "expired"
      /\ \A x \in Key \ {k} : keys'[x] = keys[x]
      /\ UNCHANGED <<memos, contents, req, answer>>
    BY <1>t DEF ExpireKey, TypeOK, KeyRow
<1>2. [x \in Key |-> keys'[x].state] = [[x \in Key |-> keys[x].state] EXCEPT ![k] = "expired"]
    BY <1>1
<1>3. Acked' = Acked /\ \A n \in Memo : Presence(n)' = Presence(n)
    BY <1>1 DEF Acked, Presence
<1>4. Ledger!Expire(k)
    BY <1>1, <1>2, <1>3 DEF Ledger!Expire
<1> QED
    BY <1>4 DEF Ledger!Next

\* The write path implements the ledger of edits: the commit of a save is the step that
\* takes effect, every other step is an acknowledgement, a purge, an expiry or nothing.
THEOREM StoreImplementsLedger == Spec => ImplementsLedger
<1>1. Init => Ledger!Init
    <2> SUFFICES ASSUME Init PROVE Ledger!Init
        OBVIOUS
    <2>1. \A m \in Memo : memos[m].state = "absent" /\ contents[m].doc = << >>
        BY DEF Init
    <2>2. \A m \in Memo : Presence(m) = "absent"
        BY <2>1, InitTypeOK, PresenceIs
    <2>3. Acked = {}
        BY DEF Init, Acked, NoAnswer
    <2>4. \A k \in Key : keys[k].state = "unused"
        BY DEF Init
    <2> QED
        BY <2>1, <2>2, <2>3, <2>4 DEF Ledger!Init
<1>2. ASSUME IInv, IInv', [Next]_vars PROVE [Ledger!Next]_(Ledger!vars)
    <2>1. ASSUME NEW h \in Handler, HandlerStep(h) \/ Request(h) \/ Drop(h)
          PROVE  [Ledger!Next]_(Ledger!vars)
        <3>1. CASE \/ Request(h) \/ GetSummary(h) \/ ReadMarkdown(h) \/ CreateLease(h)
                   \/ GetIdempotency(h) \/ SaveTurnedDown(h) \/ SaveAdmitted(h)
                   \/ CreateAdmitted(h) \/ StoreBlob(h) \/ MaybeSnapshot(h)
                   \/ AppendUnlocked(h) \/ Drop(h)
            <4>1. /\ UNCHANGED <<memos, contents, keys>> /\ pc[h] # "done"
                  /\ \A g \in Handler \ {h} : req'[g] = req[g] /\ answer'[g] = answer[g]
                BY <1>2, <3>1, WaitingStep
            <4>2. \A m \in Memo : Presence(m)' = Presence(m)
                BY <4>1 DEF Presence
            <4> QED
                BY <1>2, <4>1, <4>2, NoEffectRefines
        <3>2. CASE SoftDelete(h) \/ Restore(h) \/ (Purge(h) /\ ~Exists(req[h].memo))
            <4>1. /\ contents' = contents /\ \A m \in Memo : Presence(m)' = Presence(m)
                  /\ pc[h] # "done"
                  /\ \A g \in Handler \ {h} : req'[g] = req[g] /\ answer'[g] = answer[g]
                BY <1>2, <3>2, VersionsKept, TellingStep DEF Tells
            <4>2. keys' = keys
                BY <3>2 DEF SoftDelete, Restore, SetTrashed, Purge
            <4> QED
                BY <1>2, <4>1, <4>2, NoEffectRefines
        <3>3. CASE CommitCreate(h)
            BY <1>2, <3>3, CreateRefines
        <3>4. CASE CommitContent(h)
            BY <1>2, <3>4, ContentRefines
        <3>5. CASE CommitMeta(h)
            BY <1>2, <3>5, MetaRefines
        <3>6. CASE Purge(h) /\ Exists(req[h].memo)
            BY <1>2, <3>6, PurgeRefines
        <3> QED
            BY <2>1, <3>1, <3>2, <3>3, <3>4, <3>5, <3>6 DEF HandlerStep
    <2>2. ASSUME UNCHANGED <<memos, contents, keys, req, answer>>
          PROVE  UNCHANGED Ledger!vars
        BY <2>2 DEF Ledger!vars, Presence, Acked
    <2>3. ASSUME NEW h \in Handler, ExpireLease(h) PROVE UNCHANGED Ledger!vars
        BY <2>2, <2>3 DEF ExpireLease
    <2>4. ASSUME NEW m \in Memo, AgeSnapshot(m) PROVE UNCHANGED Ledger!vars
        BY <2>2, <2>4 DEF AgeSnapshot
    <2>5. CASE UNCHANGED vars
        BY <2>2, <2>5 DEF vars, durable
    <2> QED
        BY <1>2, <2>1, <2>3, <2>4, <2>5, ExpireRefines DEF Next, Quiescent
<1>3. IInv /\ IInv' /\ [Next]_vars => [Ledger!Next]_(Ledger!vars)
    BY <1>2
<1> QED
    BY <1>1, <1>3, Invariance, PTL DEF Spec, ImplementsLedger, Ledger!Spec

=============================================================================
