--------------------------- MODULE SyncPushProofs ---------------------------
(***************************************************************************)
(* The safety properties of SyncPush, for any number of requests, queues,  *)
(* operations, todos and memos.                                            *)
(*                                                                         *)
(* The invariant keeps account of an operation that took effect: its       *)
(* result is stored, or a call that has still to store it is at work, or   *)
(* such a call was dropped or failed; so that a repetition finds the       *)
(* result, unless one of the ghosts torn and overlapped names it.          *)
(***************************************************************************)
EXTENDS SyncPush, SequenceTheorems, TLAPS

-----------------------------------------------------------------------------
(* The inductive invariant. *)

Working(p) == pc[p] \in {"apply", "append", "record"}

Took(i) == \E n \in DOMAIN history : history[n] = i

\* Some push has the result of an operation.
Settled(i) == \E p \in Call : results[p][i] # "none"

\* What a push has before it is a part of the device's queue, without a result of this
\* push; to all the operations in front of it some push has a result.
Follows(p, d) ==
    /\ d + Len(queue[p]) <= Len(outbox)
    /\ \A n \in 1 .. Len(queue[p]) : /\ queue[p][n] = outbox[d + n]
                                     /\ results[p][queue[p][n]] = "none"
    /\ \A n \in 1 .. d : Settled(outbox[n])

CallsElsewhere(p) ==
    /\ pc[p] \in {"apply", "append"}
    /\ \E i \in Elsewhere : queue[p] = <<i>>

QueueFits(p) ==
    /\ pc[p] = "idle" => queue[p] = << >> /\ \A i \in Item : results[p][i] = "none"
    /\ pc[p] = "done" => queue[p] = << >>
    /\ Working(p) => queue[p] # << >>
    /\ CallsElsewhere(p) \/ \E d \in 0 .. Len(outbox) : Follows(p, d)

\* The call that has a row to write has the lock.
LockIsKept == \A p \in Call : pc[p] = "append" <=> writer = p

\* An operation was done, and its row was written, is about to be, or is known to be lost.
Logged(i) ==
    \/ i \in told \union torn
    \/ \E q \in Call : At(q, "append") /\ Current(q) = i

Done(i) == Took(i) /\ Logged(i)

\* Whatever lets a push answer ok was done: a key, a stored result, a step behind the
\* write, a todo that is there, an earlier answer.
OkWasDone ==
    /\ \A i \in keys \union recorded : Done(i)
    /\ \A p \in Call : pc[p] \in {"append", "record"} => Done(Current(p))
    /\ \A t \in Todo : todos[t].state # "absent" =>
            \E i \in Item : OpOf[i] = "todo.create" /\ TargetOf[i] = t /\ Done(i)
    /\ \A p \in Call : \A i \in Item : results[p][i] = "ok" => Done(i)

\* A result that is not stored yet will be, unless its call was dropped or failed.
EffectsAccounted ==
    \A i \in Queued \intersect Named : Took(i) =>
        \/ i \in recorded \union torn
        \/ \E q \in Call : pc[q] \in {"append", "record"} /\ Current(q) = i

\* Two calls at work on one operation are known to be.
OverlapIsSeen ==
    \A p, q \in Call :
        /\ p # q /\ Working(p) /\ Working(q)
        /\ Current(p) = Current(q) /\ Current(p) \in Queued
        => Current(p) \in overlapped

\* A push applies an operation only if nobody has.
NotDoneYet ==
    \A p \in Call :
        /\ pc[p] = "apply"
        /\ Current(p) \in (Queued \intersect Named) \ (torn \union overlapped)
        => ~Took(Current(p))

\* What an operation that took effect has left behind to know it by.
LeavesItsMark(i) ==
    Took(i) /\ ~Purged(TargetOf[i]) =>
        /\ OpOf[i] = "memo.update" => i \in keys
        /\ OpOf[i] = "todo.create" => todos[TargetOf[i]].state # "absent"
        /\ OpOf[i] \in TodoOps \ {"todo.create"} /\ BaseOf[i] # 0 =>
                todos[TargetOf[i]].revision > BaseOf[i]

\* All operations queued before one that took effect have a result.
TurnsAreKept ==
    \A n \in DOMAIN history : \A k \in DOMAIN outbox :
        history[n] \in Queued /\ k < Position(history[n]) => Settled(outbox[k])

IInv ==
    /\ TypeOK
    /\ outbox \in Outboxes
    /\ \A p \in Call : QueueFits(p)
    /\ LockIsKept
    /\ OkWasDone
    /\ EffectsAccounted
    /\ OverlapIsSeen
    /\ NotDoneYet
    /\ \A i \in Item : LeavesItsMark(i)
    /\ GuardedOnce
    /\ TurnsAreKept
    /\ AppliedAsQueued

-----------------------------------------------------------------------------
(* Queues and the history. *)

\* The first operation of a queue and the rest of it.
LEMMA HeadAndTail ==
    ASSUME NEW S, NEW s \in Seq(S), s # << >>
    PROVE  /\ Head(s) \in S /\ Tail(s) \in Seq(S) /\ Head(s) = s[1]
           /\ Len(s) \in Nat \ {0} /\ Len(Tail(s)) = Len(s) - 1
           /\ \A n \in 1 .. Len(s) - 1 : Tail(s)[n] = s[n + 1]
OBVIOUS

\* A request for one operation has that one before it, and then none.
LEMMA OneOperation ==
    ASSUME NEW S, NEW i \in S
    PROVE  /\ <<i>> \in Seq(S) /\ <<i>> # << >> /\ Head(<<i>>) = i /\ Tail(<<i>>) = << >>
OBVIOUS

\* The queue of a device has no operation twice, and none that others call.
LEMMA QueueOfDevice ==
    ASSUME outbox \in Outboxes
    PROVE  /\ outbox \in Seq(Item) /\ Len(outbox) \in Nat /\ DOMAIN outbox = 1 .. Len(outbox)
           /\ Queued \subseteq Item /\ Queued \intersect Elsewhere = {}
           /\ \A n \in DOMAIN outbox : outbox[n] \in Queued /\ outbox[n] \in Item
           /\ \A n, k \in DOMAIN outbox : outbox[n] = outbox[k] => n = k
           /\ \A i \in Queued : Position(i) \in DOMAIN outbox /\ outbox[Position(i)] = i
           /\ \A n \in DOMAIN outbox : Position(outbox[n]) = n
<1>1. /\ outbox \in Seq(Item) /\ IsInjective(outbox) /\ ToSet(outbox) \intersect Elsewhere = {}
    BY SyncPushAssumption
<1>2. /\ Len(outbox) \in Nat /\ DOMAIN outbox = 1 .. Len(outbox)
      /\ \A n \in DOMAIN outbox : outbox[n] \in Item
    BY <1>1
<1>3. \A n, k \in DOMAIN outbox : outbox[n] = outbox[k] => n = k
    BY <1>1 DEF IsInjective
<1>4. /\ \A n \in DOMAIN outbox : outbox[n] \in Queued
      /\ Queued \subseteq Item /\ Queued \intersect Elsewhere = {}
    BY <1>1, <1>2 DEF Queued, ToSet
<1>5. ASSUME NEW i \in Queued
      PROVE  Position(i) \in DOMAIN outbox /\ outbox[Position(i)] = i
    <2>1. \E n \in DOMAIN outbox : outbox[n] = i
        BY DEF Queued, ToSet
    <2> QED
        BY <2>1 DEF Position
<1>6. \A n \in DOMAIN outbox : Position(outbox[n]) = n
    BY <1>3, <1>4, <1>5
<1> QED
    BY <1>1, <1>2, <1>3, <1>4, <1>5, <1>6

\* The operation a call is at is an operation.
LEMMA CurrentIsItem ==
    ASSUME TypeOK, NEW p \in Call, queue[p] # << >>
    PROVE  /\ Current(p) \in Item /\ Tail(queue[p]) \in Seq(Item)
           /\ OpOf[Current(p)] \in TodoOps \union MemoOps \union {"unknown"}
           /\ TargetOf[Current(p)] \in Todo \union Memo /\ BaseOf[Current(p)] \in Nat
           /\ OpOf[Current(p)] \in TodoOps => TargetOf[Current(p)] \in Todo
           /\ OpOf[Current(p)] \in MemoOps => TargetOf[Current(p)] \in Memo
<1>1. queue[p] \in Seq(Item)
    BY DEF TypeOK
<1>2. Current(p) \in Item /\ Tail(queue[p]) \in Seq(Item)
    BY <1>1, HeadAndTail DEF Current
<1> QED
    BY <1>2, SyncPushAssumption

\* One more operation took effect, and those before it stay where they are.
LEMMA HistoryGrows ==
    ASSUME history \in Seq(Item), NEW i \in Item, history' = Append(history, i)
    PROVE  /\ history' \in Seq(Item)
           /\ Len(history) \in Nat
           /\ DOMAIN history = 1 .. Len(history) /\ DOMAIN history' = 1 .. (Len(history) + 1)
           /\ \A n \in DOMAIN history : history'[n] = history[n] /\ n < Len(history) + 1
           /\ history'[Len(history) + 1] = i
           /\ \A n \in DOMAIN history' : n \in DOMAIN history \/ n = Len(history) + 1
           /\ \A k : Took(k)' <=> Took(k) \/ k = i
           /\ \A t : Purged(t)' <=> Purged(t) \/ (OpOf[i] = "todo.purge" /\ TargetOf[i] = t)
<1>1. /\ history' \in Seq(Item) /\ Len(history) \in Nat
      /\ DOMAIN history = 1 .. Len(history) /\ DOMAIN history' = 1 .. (Len(history) + 1)
      /\ \A n \in DOMAIN history : history'[n] = history[n] /\ n < Len(history) + 1
      /\ history'[Len(history) + 1] = i
    OBVIOUS
<1>2. \A n \in DOMAIN history' : n \in DOMAIN history \/ n = Len(history) + 1
    BY <1>1
<1>3. DOMAIN history \subseteq DOMAIN history' /\ Len(history) + 1 \in DOMAIN history'
    BY <1>1
<1>4. \A k : Took(k)' <=> Took(k) \/ k = i
    BY <1>1, <1>2, <1>3 DEF Took
<1>5. ASSUME NEW t
      PROVE  Purged(t)' <=> Purged(t) \/ (OpOf[i] = "todo.purge" /\ TargetOf[i] = t)
    <2>1. ASSUME Purged(t)
          PROVE  Purged(t)'
        <3>1. PICK n \in DOMAIN history : OpOf[history[n]] = "todo.purge" /\ TargetOf[history[n]] = t
            BY <2>1 DEF Purged
        <3>2. n \in DOMAIN history' /\ history'[n] = history[n]
            BY <1>1, <1>3, <3>1
        <3> QED
            BY <3>1, <3>2 DEF Purged
    <2>2. ASSUME OpOf[i] = "todo.purge", TargetOf[i] = t
          PROVE  Purged(t)'
        BY <1>1, <1>3, <2>2 DEF Purged
    <2>3. ASSUME Purged(t)', ~(OpOf[i] = "todo.purge" /\ TargetOf[i] = t)
          PROVE  Purged(t)
        <3>1. PICK n \in DOMAIN history' :
                    OpOf[history'[n]] = "todo.purge" /\ TargetOf[history'[n]] = t
            BY <2>3 DEF Purged
        <3>2. n \in DOMAIN history /\ history'[n] = history[n]
            <4>1. n \in DOMAIN history \/ n = Len(history) + 1
                BY <1>2, <3>1
            <4>2. n # Len(history) + 1
                BY <1>1, <2>3, <3>1
            <4> QED
                BY <1>1, <4>1, <4>2
        <3> QED
            BY <3>1, <3>2 DEF Purged
    <2> QED
        BY <2>1, <2>2, <2>3
<1> QED
    BY <1>1, <1>2, <1>4, <1>5

-----------------------------------------------------------------------------
(* The kinds of steps a call takes. *)

\* Nothing but the step and the queue of a call changes.
OnlyCalls == UNCHANGED <<outbox, tables, writer, results, history, told, torn>>

Begins(p) ==
    /\ pc[p] = "idle" /\ OnlyCalls /\ overlapped' = overlapped
    /\ queue'[p] \in Seq(Item) /\ queue'[p] # << >>
    /\ \/ pc'[p] = "apply" /\ \E i \in Elsewhere : queue'[p] = <<i>>
       \/ pc'[p] = "load" /\ \E d \in 0 .. Len(outbox) : Follows(p, d)'

TakesUp(p) ==
    /\ At(p, "load") /\ pc'[p] = "apply" /\ queue' = queue /\ OnlyCalls
    /\ Current(p) \notin Named \intersect recorded
    /\ overlapped \subseteq overlapped' /\ overlapped' \subseteq Item
    /\ Busy(Current(p)) => Current(p) \in overlapped'

\* A call has its result: a refusal, ok for one of four reasons, or an error half way.
Answers(p, code) ==
    /\ queue[p] # << >>
    /\ results' = [results EXCEPT ![p][Current(p)] = code]
    /\ queue'[p] = Tail(queue[p])
    /\ pc'[p] = IF Current(p) \in Queued THEN "load" ELSE "done"
    /\ UNCHANGED <<outbox, todos, memos, keys, history, overlapped>>

Refuses(p) ==
    /\ pc[p] = "apply"
    /\ \E code \in Refusal : Answers(p, code)
    /\ UNCHANGED <<recorded, writer, told, torn>>

FindsResult(p) ==
    /\ pc[p] = "load" /\ Current(p) \in Named \intersect recorded
    /\ Answers(p, "ok")
    /\ UNCHANGED <<recorded, writer, told, torn>>

FindsEffect(p) ==
    /\ pc[p] = "apply" /\ Verdict(Current(p)) = "exists"
    /\ Answers(p, "ok")
    /\ UNCHANGED <<recorded, writer, told, torn>>

LogsAndAnswers(p) ==
    /\ pc[p] = "append" /\ Current(p) \notin Queued
    /\ Answers(p, "ok")
    /\ told' = told \union {Current(p)} /\ writer' = NoCall
    /\ UNCHANGED <<recorded, torn>>

\* A statement after the change failed: the change stays and is answered with an error.
FailsHalfWay(p) ==
    /\ pc[p] = "append" /\ \E code \in Refusal : Answers(p, code)
    /\ told' \in {told, told \union {Current(p)}} /\ torn' = torn \union {Current(p)}
    /\ writer' = NoCall /\ recorded' = recorded

Stores(p) ==
    /\ pc[p] = "record" /\ Answers(p, "ok")
    /\ recorded' = recorded \union ({Current(p)} \intersect Named)
    /\ UNCHANGED <<writer, told, torn>>

TakesEffect(p) ==
    /\ At(p, "apply") /\ pc'[p] = "append" /\ queue' = queue
    /\ writer = NoCall /\ writer' = p
    /\ OpOf[Current(p)] \in TodoOps \union MemoOps /\ Verdict(Current(p)) = "ok"
    /\ history' = Append(history, Current(p))
    /\ ApplyTodo(p) \/ ApplyMemo(p)
    /\ UNCHANGED <<outbox, recorded, results, told, torn, overlapped>>

\* What a push did, or found done, has now to be stored.
GoesToRecord(p) ==
    /\ pc'[p] = "record" /\ Current(p) \in Queued
    /\ queue[p] # << >> /\ queue' = queue
    /\ \/ /\ pc[p] = "apply" /\ Verdict(Current(p)) = "exists"
          /\ UNCHANGED <<writer, told>>
       \/ /\ pc[p] = "append"
          /\ told' = told \union {Current(p)} /\ writer' = NoCall
    /\ UNCHANGED <<outbox, tables, results, history, torn, overlapped>>

Ends(p) ==
    /\ pc[p] \notin {"idle", "done"} /\ pc'[p] = "done"
    /\ queue'[p] = << >>
    /\ writer' = IF writer = p THEN NoCall ELSE writer
    /\ torn' = IF pc[p] \in {"append", "record"} THEN torn \union {Current(p)} ELSE torn
    /\ UNCHANGED <<outbox, tables, results, history, told, overlapped>>

StepOf(p) ==
    \/ Begins(p) \/ TakesUp(p) \/ Refuses(p) \/ FindsResult(p) \/ FindsEffect(p)
    \/ LogsAndAnswers(p) \/ FailsHalfWay(p) \/ Stores(p) \/ TakesEffect(p)
    \/ GoesToRecord(p) \/ Ends(p)

OthersWait(p) ==
    /\ pc' \in [Call -> Step] /\ queue' \in [Call -> Seq(Item)]
    /\ reply' \in [Call -> {"none", "results", "error"}]
    /\ \A q \in Call \ {p} : /\ pc'[q] = pc[q] /\ queue'[q] = queue[q]
                             /\ results'[q] = results[q] /\ Current(q)' = Current(q)

\* What an answer changes is the call's own.
LEMMA SettleAnswers ==
    ASSUME TypeOK, NEW p \in Call, queue[p] # << >>, NEW code, Settle(p, code),
           UNCHANGED <<outbox, todos, memos, keys, history, overlapped>>
    PROVE  Answers(p, code) /\ OthersWait(p)
<1>1. Tail(queue[p]) \in Seq(Item)
    BY CurrentIsItem
<1>2. /\ queue' = [queue EXCEPT ![p] = Tail(queue[p])]
      /\ results' = [results EXCEPT ![p][Current(p)] = code]
      /\ pc' = [pc EXCEPT ![p] = IF Current(p) \in Queued THEN "load" ELSE "done"]
    BY DEF Settle
<1>3. Answers(p, code)
    BY <1>2 DEF Answers, TypeOK
<1>4. /\ pc' \in [Call -> Step] /\ queue' \in [Call -> Seq(Item)]
      /\ reply' \in [Call -> {"none", "results", "error"}]
    BY <1>1, <1>2, ZenonT(60) DEF TypeOK, Step, Settle
<1>5. \A q \in Call \ {p} : pc'[q] = pc[q] /\ queue'[q] = queue[q] /\ results'[q] = results[q]
    BY <1>2 DEF TypeOK
<1> QED
    BY <1>3, <1>4, <1>5 DEF OthersWait, Current

\* A request begins with a part of the device's queue, or with one operation.
LEMMA RequestBegins ==
    ASSUME TypeOK, outbox \in Outboxes, NEW p \in Call, QueueFits(p), Request(p)
    PROVE  Begins(p) /\ OthersWait(p)
<1>1. pc[p] = "idle" /\ \A i \in Item : results[p][i] = "none"
    BY DEF Request, QueueFits
<1>2. ASSUME NEW items \in Seq(Item), NEW step \in Step, Start(p, items, step)
      PROVE  /\ pc'[p] = step /\ queue'[p] = items /\ OthersWait(p)
             /\ OnlyCalls /\ overlapped' = overlapped
    <2>1. pc' = [pc EXCEPT ![p] = step] /\ queue' = [queue EXCEPT ![p] = items]
        BY <1>2 DEF Start
    <2>2. OnlyCalls /\ overlapped' = overlapped /\ results' = results /\ reply' = reply
        BY <1>2 DEF Start, OnlyCalls, ghosts, tables
    <2> QED
        BY <2>1, <2>2 DEF OthersWait, Current, TypeOK
<1>3. CASE RequestRest(p)
    <2>1. PICK i \in Elsewhere : Start(p, <<i>>, "apply")
        BY <1>3 DEF RequestRest
    <2>2. i \in Item
        BY SyncPushAssumption
    <2>3. <<i>> \in Seq(Item) /\ <<i>> # << >>
        BY <2>2, OneOperation
    <2>4. "apply" \in Step
        BY DEF Step
    <2> QED
        BY <1>1, <1>2, <2>1, <2>3, <2>4 DEF Begins
<1>4. CASE RequestPush(p)
    <2>1. PICK first \in DOMAIN outbox : \E end \in first .. Len(outbox) :
            /\ ~Confirmed(outbox[first])
            /\ \A n \in 1 .. first - 1 : Answered(outbox[n])
            /\ Start(p, SubSeq(outbox, first, end), "load")
        BY <1>4 DEF RequestPush
    <2>2. PICK end \in first .. Len(outbox) :
            /\ \A n \in 1 .. first - 1 : Answered(outbox[n])
            /\ Start(p, SubSeq(outbox, first, end), "load")
        BY <2>1
    <2>3. /\ outbox \in Seq(Item) /\ Len(outbox) \in Nat /\ first \in 1 .. Len(outbox)
          /\ \A n \in 1 .. Len(outbox) : outbox[n] \in Item
        BY QueueOfDevice
    <2> DEFINE part == SubSeq(outbox, first, end)
    <2>4. first \in Int /\ end \in Int /\ \A n \in first .. end : outbox[n] \in Item
        BY <2>3
    <2>5. /\ part \in Seq(Item) /\ Len(part) = end - first + 1
          /\ \A n \in 1 .. end - first + 1 : part[n] = outbox[first + n - 1]
        BY <2>3, <2>4, SubSeqProperties
    <2>6. part # << >> /\ "load" \in Step
        BY <2>3, <2>5 DEF Step
    <2>7. /\ pc'[p] = "load" /\ queue'[p] = part /\ OthersWait(p)
          /\ OnlyCalls /\ overlapped' = overlapped
        BY <1>2, <2>2, <2>5, <2>6
    <2>8. outbox' = outbox /\ results' = results
        BY <2>7 DEF OnlyCalls
    <2>9. first - 1 \in 0 .. Len(outbox)
        BY <2>3
    <2>10. ASSUME NEW n \in 1 .. Len(part)
           PROVE  part[n] = outbox[first - 1 + n] /\ results[p][part[n]] = "none"
        <3>1. n \in 1 .. end - first + 1 /\ first + n - 1 = first - 1 + n
            BY <2>3, <2>5
        <3>2. part[n] = outbox[first - 1 + n]
            BY <2>5, <3>1
        <3>3. part[n] \in Item
            BY <2>5
        <3> QED
            BY <1>1, <3>2, <3>3
    <2>11. \A n \in 1 .. first - 1 : Settled(outbox[n])
        BY <2>2 DEF Answered, Settled
    <2>12. first - 1 + Len(part) <= Len(outbox)
        BY <2>3, <2>5
    <2>13. Follows(p, first - 1)'
        BY <2>7, <2>8, <2>10, <2>11, <2>12 DEF Follows, Settled
    <2>14. \E d \in 0 .. Len(outbox) : Follows(p, d)'
        BY <2>9, <2>13
    <2> QED
        BY <1>1, <2>5, <2>6, <2>7, <2>14 DEF Begins
<1> QED
    BY <1>3, <1>4 DEF Request

\* Every step of a call is of one of these kinds.
LEMMA KindsOfSteps ==
    ASSUME TypeOK, outbox \in Outboxes, \A q \in Call : QueueFits(q), LockIsKept,
           NEW p \in Call, Request(p) \/ CallStep(p) \/ ParentMissing(p) \/ Drop(p)
    PROVE  StepOf(p) /\ OthersWait(p)
<1> USE DEF StepOf
<1>1. CASE Request(p)
    BY <1>1, RequestBegins
<1>2. CASE LoadPushResult(p)
    <2>1. At(p, "load") /\ UNCHANGED <<outbox, tables, writer, history, told, torn>>
        BY <1>2 DEF LoadPushResult
    <2>2. pc[p] = "load" /\ queue[p] # << >>
        BY <2>1 DEF At
    <2>3. CASE /\ Current(p) \in Named \intersect recorded
               /\ Settle(p, "ok") /\ UNCHANGED overlapped
        <3>1. UNCHANGED <<outbox, todos, memos, keys, history, torn, overlapped, recorded, writer, told>>
            BY <2>1, <2>3 DEF tables
        <3>2. Answers(p, "ok") /\ OthersWait(p)
            BY <2>2, <2>3, <3>1, SettleAnswers
        <3> QED
            BY <2>2, <2>3, <3>1, <3>2 DEF FindsResult
    <2>4. CASE /\ Current(p) \notin Named \intersect recorded
               /\ pc' = [pc EXCEPT ![p] = "apply"]
               /\ overlapped' = IF Busy(Current(p)) THEN overlapped \union {Current(p)}
                                ELSE overlapped
               /\ UNCHANGED <<queue, results, reply>>
        <3>1. Current(p) \in Item /\ overlapped \subseteq Item
            BY <2>2, CurrentIsItem DEF TypeOK
        <3>2. /\ overlapped \subseteq overlapped' /\ overlapped' \subseteq Item
              /\ Busy(Current(p)) => Current(p) \in overlapped'
            BY <2>4, <3>1
        <3>3. pc'[p] = "apply" /\ queue' = queue /\ OnlyCalls
            BY <2>1, <2>4 DEF OnlyCalls, TypeOK
        <3>4. OthersWait(p)
            BY <2>4 DEF OthersWait, Current, TypeOK, Step
        <3> QED
            BY <2>1, <2>4, <3>2, <3>3, <3>4 DEF TakesUp
    <2> QED
        BY <1>2, <2>3, <2>4 DEF LoadPushResult
<1>3. CASE AbortBatch(p)
    <2>1. /\ pc[p] = "apply" /\ pc' = [pc EXCEPT ![p] = "done"]
          /\ queue' = [queue EXCEPT ![p] = << >>]
          /\ reply' = [reply EXCEPT ![p] = "error"]
          /\ UNCHANGED <<outbox, tables, writer, results, history, told, torn, overlapped>>
        BY <1>3 DEF AbortBatch, At, ghosts
    <2>2. writer # p
        BY <2>1 DEF LockIsKept
    <2>3. OthersWait(p)
        BY <2>1 DEF OthersWait, Current, TypeOK, Step
    <2>4. Ends(p)
        BY <2>1, <2>2 DEF Ends, TypeOK
    <2> QED
        BY <2>3, <2>4
<1>4. CASE RefuseMalformed(p) \/ Refuse(p) \/ ParentMissing(p) \/ FailBefore(p)
    <2>1. /\ At(p, "apply")
          /\ UNCHANGED <<outbox, tables, writer, history, ghosts>>
          /\ \E code \in Refusal : Settle(p, code)
        BY <1>4 DEF RefuseMalformed, Refuse, ParentMissing, FailBefore, Refusal
    <2>2. PICK code \in Refusal : Settle(p, code)
        BY <2>1
    <2>3. /\ pc[p] = "apply" /\ queue[p] # << >>
          /\ UNCHANGED <<outbox, todos, memos, keys, history, torn, overlapped, recorded, writer, told>>
        BY <2>1 DEF At, tables, ghosts
    <2>4. Answers(p, code) /\ OthersWait(p)
        BY <2>2, <2>3, SettleAnswers
    <2> QED
        BY <2>3, <2>4 DEF Refuses
<1>5. CASE FindApplied(p)
    <2>1. /\ pc[p] = "apply" /\ queue[p] # << >> /\ Verdict(Current(p)) = "exists"
          /\ UNCHANGED <<outbox, todos, memos, keys, history, torn, overlapped, recorded, writer, told>>
        BY <1>5 DEF FindApplied, At, tables, ghosts
    <2>2. CASE Current(p) \in Queued
        <3>1. pc' = [pc EXCEPT ![p] = "record"] /\ UNCHANGED <<queue, results, reply>>
            BY <1>5, <2>2 DEF FindApplied
        <3>2. GoesToRecord(p)
            BY <2>1, <2>2, <3>1 DEF GoesToRecord, TypeOK, tables
        <3>3. OthersWait(p)
            BY <3>1 DEF OthersWait, Current, TypeOK, Step
        <3> QED
            BY <3>2, <3>3
    <2>3. CASE Current(p) \notin Queued
        <3>1. Settle(p, "ok")
            BY <1>5, <2>3 DEF FindApplied
        <3>2. Answers(p, "ok") /\ OthersWait(p)
            BY <2>1, <3>1, SettleAnswers
        <3> QED
            BY <2>1, <3>2 DEF FindsEffect
    <2> QED
        BY <2>2, <2>3
<1>6. CASE ApplyTodo(p) \/ ApplyMemo(p)
    <2>1. TakeEffect(p) /\ OpOf[Current(p)] \in TodoOps \union MemoOps
        BY <1>6 DEF ApplyTodo, ApplyMemo
    <2>2. /\ At(p, "apply") /\ writer = NoCall /\ Verdict(Current(p)) = "ok"
          /\ writer' = p /\ pc' = [pc EXCEPT ![p] = "append"] /\ queue' = queue
          /\ history' = Append(history, Current(p))
          /\ UNCHANGED <<outbox, recorded, results, reply, told, torn, overlapped>>
        BY <2>1 DEF TakeEffect, ghosts
    <2>3. TakesEffect(p)
        BY <1>6, <2>1, <2>2 DEF TakesEffect, TypeOK
    <2>4. OthersWait(p)
        BY <2>2 DEF OthersWait, Current, TypeOK, Step
    <2> QED
        BY <2>3, <2>4
<1>7. CASE AppendUnlocked(p)
    <2>1. /\ pc[p] = "append" /\ queue[p] # << >>
          /\ told' = told \union {Current(p)} /\ writer' = NoCall
          /\ UNCHANGED <<outbox, todos, memos, keys, history, torn, overlapped, recorded>>
        BY <1>7 DEF AppendUnlocked, At, tables
    <2>2. CASE Current(p) \in Queued
        <3>1. pc' = [pc EXCEPT ![p] = "record"] /\ UNCHANGED <<queue, results, reply>>
            BY <1>7, <2>2 DEF AppendUnlocked
        <3>2. GoesToRecord(p)
            BY <2>1, <2>2, <3>1 DEF GoesToRecord, TypeOK, tables
        <3>3. OthersWait(p)
            BY <3>1 DEF OthersWait, Current, TypeOK, Step
        <3> QED
            BY <3>2, <3>3
    <2>3. CASE Current(p) \notin Queued
        <3>1. Settle(p, "ok")
            BY <1>7, <2>3 DEF AppendUnlocked
        <3>2. Answers(p, "ok") /\ OthersWait(p)
            BY <2>1, <3>1, SettleAnswers
        <3> QED
            BY <2>1, <2>3, <3>2 DEF LogsAndAnswers
    <2> QED
        BY <2>2, <2>3
<1>8. CASE StorePushResult(p)
    <2>1. /\ pc[p] = "record" /\ queue[p] # << >> /\ Settle(p, "ok")
          /\ recorded' = recorded \union ({Current(p)} \intersect Named)
          /\ UNCHANGED <<outbox, todos, memos, keys, history, torn, overlapped, writer, told>>
        BY <1>8 DEF StorePushResult, At, ghosts
    <2>2. Answers(p, "ok") /\ OthersWait(p)
        BY <2>1, SettleAnswers
    <2> QED
        BY <2>1, <2>2 DEF Stores
<1>9. CASE Finish(p)
    <2>1. /\ pc[p] = "load" /\ queue[p] = << >> /\ pc' = [pc EXCEPT ![p] = "done"]
          /\ reply' = [reply EXCEPT ![p] = "results"]
          /\ UNCHANGED <<outbox, tables, writer, queue, results, history, told, torn, overlapped>>
        BY <1>9 DEF Finish, ghosts
    <2>2. writer # p
        BY <2>1 DEF LockIsKept
    <2>3. OthersWait(p)
        BY <2>1 DEF OthersWait, Current, TypeOK, Step
    <2>4. Ends(p)
        BY <2>1, <2>2 DEF Ends, TypeOK
    <2> QED
        BY <2>3, <2>4
<1>10. CASE Drop(p)
    <2>1. /\ pc[p] \notin {"idle", "done"} /\ pc' = [pc EXCEPT ![p] = "done"]
          /\ queue' = [queue EXCEPT ![p] = << >>]
          /\ writer' = IF writer = p THEN NoCall ELSE writer
          /\ torn' = IF pc[p] \in {"append", "record"} THEN torn \union {Current(p)} ELSE torn
          /\ UNCHANGED <<outbox, tables, results, reply, history, told, overlapped>>
        BY <1>10 DEF Drop
    <2>2. OthersWait(p)
        BY <2>1 DEF OthersWait, Current, TypeOK, Step
    <2>3. Ends(p)
        BY <2>1 DEF Ends, TypeOK
    <2> QED
        BY <2>2, <2>3
<1>11. CASE FailAfter(p)
    <2>1. /\ pc[p] = "append" /\ queue[p] # << >> /\ Settle(p, "internal")
          /\ told' \in {told, told \union {Current(p)}} /\ torn' = torn \union {Current(p)}
          /\ writer' = NoCall
          /\ UNCHANGED <<outbox, todos, memos, keys, recorded, history, overlapped>>
        BY <1>11 DEF FailAfter, At, tables
    <2>2. Answers(p, "internal") /\ OthersWait(p)
        BY <2>1, SettleAnswers
    <2> QED
        BY <2>1, <2>2 DEF FailsHalfWay, Refusal
<1> QED
    BY <1>1, <1>2, <1>3, <1>4, <1>5, <1>6, <1>7, <1>8, <1>9, <1>10, <1>11 DEF CallStep

-----------------------------------------------------------------------------
(* Types. *)

\* What an operation writes is a row.
LEMMA RowsAfter ==
    ASSUME TypeOK, NEW i \in Item
    PROVE  /\ TargetOf[i] \in Todo /\ OpOf[i] \in TodoOps => TodoAfter(i) \in TodoRow
           /\ TargetOf[i] \in Memo /\ OpOf[i] \in MemoOps => MemoAfter(i) \in MemoRow
<1>1. ASSUME TargetOf[i] \in Todo
      PROVE  TodoAfter(i) \in TodoRow
    <2>1. todos[TargetOf[i]] \in TodoRow
        BY <1>1 DEF TypeOK
    <2>2. todos[TargetOf[i]].revision + 1 \in Nat
        BY <2>1 DEF TodoRow
    <2> QED
        BY <2>2 DEF TodoAfter, TodoRow
<1>2. ASSUME TargetOf[i] \in Memo
      PROVE  MemoAfter(i) \in MemoRow
    <2>1. memos[TargetOf[i]] \in MemoRow
        BY <1>2 DEF TypeOK
    <2>2. /\ memos[TargetOf[i]].revision \in Nat /\ memos[TargetOf[i]].revision + 1 \in Nat
          /\ memos[TargetOf[i]].state \in {"live", "trashed"}
        BY <2>1 DEF MemoRow
    <2> QED
        BY <2>2 DEF MemoAfter, MemoRow
<1> QED
    BY <1>1, <1>2

\* Every step of a call keeps the types.
LEMMA StepKeepsTypes ==
    ASSUME TypeOK, outbox \in Outboxes, \A q \in Call : QueueFits(q),
           NEW p \in Call, StepOf(p), OthersWait(p)
    PROVE  TypeOK'
<1>1. /\ pc' \in [Call -> Step] /\ queue' \in [Call -> Seq(Item)]
      /\ reply' \in [Call -> {"none", "results", "error"}]
    BY DEF OthersWait
<1>2. "none" \in Code /\ "ok" \in Code /\ Refusal \subseteq Code
    BY DEF Code
<1>3. CASE Begins(p) \/ TakesUp(p)
    BY <1>1, <1>3 DEF Begins, TakesUp, OnlyCalls, TypeOK, tables
<1>4. ASSUME NEW code \in Code, Answers(p, code), told' \subseteq Item, torn' \subseteq Item,
             recorded' \subseteq Named, writer' \in Call \union {NoCall}
      PROVE  TypeOK'
    <2>1. Current(p) \in Item
        BY <1>4, CurrentIsItem DEF Answers
    <2>2. results' \in [Call -> [Item -> Code]]
        BY <1>4, <2>1 DEF Answers, TypeOK
    <2> QED
        BY <1>1, <1>4, <2>2 DEF Answers, TypeOK
<1>5. CASE Refuses(p)
    BY <1>2, <1>4, <1>5 DEF Refuses, TypeOK
<1>6. CASE FindsResult(p) \/ FindsEffect(p)
    BY <1>2, <1>4, <1>6 DEF FindsResult, FindsEffect, TypeOK
<1>7. CASE LogsAndAnswers(p)
    <2>1. Current(p) \in Item
        BY <1>7, CurrentIsItem DEF LogsAndAnswers, FailsHalfWay, Answers
    <2> QED
        BY <1>2, <1>4, <1>7, <2>1 DEF LogsAndAnswers, FailsHalfWay, TypeOK
<1>8. CASE Stores(p)
    BY <1>2, <1>4, <1>8 DEF Stores, TypeOK
<1>9. CASE TakesEffect(p)
    <2>1. Current(p) \in Item /\ At(p, "apply")
        BY <1>9, CurrentIsItem DEF TakesEffect, At
    <2>2. history' \in Seq(Item) /\ writer' \in Call
        BY <1>9, <2>1 DEF TakesEffect, TypeOK
    <2>3. todos' \in [Todo -> TodoRow] /\ memos' \in [Memo -> MemoRow] /\ keys' \subseteq Item
        <3>1. CASE ApplyTodo(p)
            <4>1. TodoAfter(Current(p)) \in TodoRow
                BY <2>1, <3>1, RowsAfter, SyncPushAssumption DEF ApplyTodo
            <4> QED
                BY <3>1, <4>1 DEF ApplyTodo, TypeOK
        <3>2. CASE ApplyMemo(p)
            <4>1. /\ OpOf[Current(p)] \in MemoOps
                  /\ memos' = [memos EXCEPT ![TargetOf[Current(p)]] = MemoAfter(Current(p))]
                  /\ keys' = IF OpOf[Current(p)] = "memo.update" THEN keys \union {Current(p)} ELSE keys
                  /\ todos' = todos
                BY <3>2 DEF ApplyMemo
            <4>2. MemoAfter(Current(p)) \in MemoRow
                BY <2>1, <4>1, RowsAfter, SyncPushAssumption
            <4> QED
                BY <2>1, <4>1, <4>2 DEF TypeOK
        <3> QED
            BY <1>9, <3>1, <3>2 DEF TakesEffect
    <2> QED
        BY <1>1, <1>9, <2>2, <2>3 DEF TakesEffect, TypeOK
<1>10. CASE GoesToRecord(p)
    <2>1. Current(p) \in Item
        BY <1>10, CurrentIsItem DEF GoesToRecord
    <2> QED
        BY <1>1, <1>10, <2>1 DEF GoesToRecord, TypeOK, tables
<1>11. CASE Ends(p)
    <2>1. pc[p] \in {"append", "record"} => Current(p) \in Item
        BY CurrentIsItem DEF QueueFits, Working
    <2> QED
        BY <1>1, <1>11, <2>1 DEF Ends, TypeOK, tables
<1>12. CASE FailsHalfWay(p)
    <2>1. Current(p) \in Item
        BY <1>12, CurrentIsItem DEF FailsHalfWay, Answers
    <2>2. told' \subseteq Item /\ torn' \subseteq Item
        BY <1>12, <2>1 DEF FailsHalfWay, TypeOK
    <2> QED
        BY <1>2, <1>4, <1>12, <2>2 DEF FailsHalfWay, TypeOK
<1> QED
    BY <1>3, <1>5, <1>6, <1>7, <1>8, <1>9, <1>10, <1>11, <1>12 DEF StepOf

-----------------------------------------------------------------------------
(* The queues of the calls. *)

\* A result stays.
LEMMA SettledStays ==
    ASSUME TypeOK, outbox \in Outboxes, \A q \in Call : QueueFits(q),
           NEW p \in Call, StepOf(p), OthersWait(p)
    PROVE  /\ outbox' = outbox
           /\ \A i : Settled(i) => Settled(i)'
           /\ \A q \in Call \ {p} : results'[q] = results[q]
           /\ results' = results
              \/ (queue[p] # << >> /\ \E code \in Refusal \union {"ok"} : Answers(p, code))
<1>1. \A q \in Call \ {p} : results'[q] = results[q]
    BY DEF OthersWait
<1>2. CASE results' = results /\ outbox' = outbox
    BY <1>2 DEF Settled
<1>3. ASSUME NEW code \in Refusal \union {"ok"}, Answers(p, code)
      PROVE  outbox' = outbox /\ \A i : Settled(i) => Settled(i)'
    <2>1. code # "none"
        BY DEF Refusal
    <2>2. /\ outbox' = outbox
          /\ results' = [results EXCEPT ![p] = [results[p] EXCEPT ![Current(p)] = code]]
        BY <1>3 DEF Answers
    <2>3. \A q \in Call : \A i : results[q][i] # "none" => results'[q][i] # "none"
        <3>1. SUFFICES ASSUME NEW i, results[p][i] # "none"
                       PROVE  results'[p][i] # "none"
            BY <1>1
        <3>2. results'[p] = [results[p] EXCEPT ![Current(p)] = code]
            BY <2>2 DEF TypeOK
        <3>3. CASE i = Current(p) /\ Current(p) \in Item
            BY <2>1, <3>2, <3>3 DEF TypeOK
        <3>4. CASE i # Current(p) /\ i \in Item
            BY <3>1, <3>2, <3>4 DEF TypeOK
        <3>5. Current(p) \in Item
            BY <1>3, CurrentIsItem DEF Answers
        <3>6. CASE i \notin Item
            BY <3>1, <3>2, <3>5, <3>6 DEF TypeOK
        <3> QED
            BY <3>3, <3>4, <3>5, <3>6
    <2> QED
        BY <2>2, <2>3 DEF Settled
<1>4. \/ results' = results /\ outbox' = outbox
      \/ \E code \in Refusal \union {"ok"} : Answers(p, code)
    BY DEF StepOf, Begins, TakesUp, OnlyCalls, Refuses, FindsResult, FindsEffect,
           LogsAndAnswers, FailsHalfWay, Stores, TakesEffect, GoesToRecord, Ends
<1> QED
    BY <1>1, <1>2, <1>3, <1>4 DEF Answers

\* A call with nothing before it follows the queue from its start.
LEMMA EmptyFollows ==
    ASSUME outbox \in Outboxes, outbox' = outbox, NEW p \in Call, queue'[p] = << >>
    PROVE  \E d \in 0 .. Len(outbox') : Follows(p, d)'
<1>1. Len(queue'[p]) = 0 /\ 0 \in 0 .. Len(outbox') /\ 0 + 0 <= Len(outbox')
    BY QueueOfDevice
<1>2. Follows(p, 0)'
    BY <1>1 DEF Follows
<1> QED
    BY <1>1, <1>2

\* Where in the device's queue a push is.
LEMMA WhereAPushIs ==
    ASSUME TypeOK, outbox \in Outboxes, NEW p \in Call, QueueFits(p), queue[p] # << >>
    PROVE  \/ Current(p) \in Elsewhere /\ Current(p) \notin Queued /\ Tail(queue[p]) = << >>
              /\ pc[p] \in {"apply", "append"}
           \/ /\ Current(p) \in Queued
              /\ \E d \in 0 .. Len(outbox) :
                    Follows(p, d) /\ d + 1 \in DOMAIN outbox /\ Current(p) = outbox[d + 1]
<1>1. CASE CallsElsewhere(p)
    <2>1. PICK i \in Elsewhere : queue[p] = <<i>>
        BY <1>1 DEF CallsElsewhere
    <2>2. Current(p) = i /\ Tail(queue[p]) = << >>
        BY <2>1, OneOperation, SyncPushAssumption DEF Current
    <2>3. i \notin Queued
        BY QueueOfDevice
    <2> QED
        BY <1>1, <2>2, <2>3 DEF CallsElsewhere
<1>2. CASE \E d \in 0 .. Len(outbox) : Follows(p, d)
    <2>1. PICK d \in 0 .. Len(outbox) : Follows(p, d)
        BY <1>2
    <2>2. queue[p] \in Seq(Item) /\ Len(queue[p]) \in Nat \ {0} /\ Current(p) = queue[p][1]
        BY HeadAndTail DEF TypeOK, Current
    <2>3. Current(p) = outbox[d + 1] /\ d + 1 \in 1 .. Len(outbox)
        BY <2>1, <2>2, QueueOfDevice DEF Follows
    <2> QED
        BY <2>1, <2>3, QueueOfDevice
<1> QED
    BY <1>1, <1>2 DEF QueueFits

\* A push that has an answer follows the queue one further.
LEMMA AnswerFollows ==
    ASSUME TypeOK, outbox \in Outboxes, NEW p \in Call, QueueFits(p),
           NEW code \in Refusal \union {"ok"}, Answers(p, code),
           \A i : Settled(i) => Settled(i)'
    PROVE  QueueFits(p)'
<1>1. /\ queue[p] # << >> /\ queue'[p] = Tail(queue[p]) /\ outbox' = outbox
      /\ results' = [results EXCEPT ![p][Current(p)] = code]
      /\ pc'[p] = IF Current(p) \in Queued THEN "load" ELSE "done"
    BY DEF Answers
<1>2. Current(p) \in Item
    BY <1>1, CurrentIsItem
<1>3. CASE Current(p) \notin Queued
    <2>1. queue'[p] = << >> /\ pc'[p] = "done"
        BY <1>1, <1>3, WhereAPushIs
    <2>3. \E d \in 0 .. Len(outbox') : Follows(p, d)'
        BY <1>1, <2>1, EmptyFollows
    <2> QED
        BY <2>1, <2>3 DEF QueueFits, Working
<1>4. CASE Current(p) \in Queued
    <2>1. PICK d \in 0 .. Len(outbox) :
                Follows(p, d) /\ d + 1 \in DOMAIN outbox /\ Current(p) = outbox[d + 1]
        BY <1>1, <1>4, WhereAPushIs
    <2>2. /\ queue[p] \in Seq(Item) /\ Len(queue[p]) \in Nat \ {0}
          /\ Len(Tail(queue[p])) = Len(queue[p]) - 1
          /\ \A n \in 1 .. Len(queue[p]) - 1 : Tail(queue[p])[n] = queue[p][n + 1]
        BY <1>1, HeadAndTail DEF TypeOK
    <2>3. /\ Len(outbox) \in Nat /\ DOMAIN outbox = 1 .. Len(outbox)
          /\ \A n, k \in DOMAIN outbox : outbox[n] = outbox[k] => n = k
        BY QueueOfDevice
    <2>4. /\ results'[p] = [results[p] EXCEPT ![Current(p)] = code] /\ code # "none"
          /\ results[p] \in [Item -> Code]
        BY <1>1 DEF TypeOK, Refusal
    <2>5. ASSUME NEW n \in 1 .. Len(queue[p]) - 1
          PROVE  queue'[p][n] = outbox[d + 1 + n] /\ results'[p][queue'[p][n]] = "none"
        <3>1. n + 1 \in 1 .. Len(queue[p]) /\ d + (n + 1) = d + 1 + n
              /\ d + (n + 1) \in 1 .. Len(outbox) /\ d + (n + 1) # d + 1
            <4>1. d \in Nat /\ n \in Nat /\ n >= 1 /\ n <= Len(queue[p]) - 1
                  /\ d + Len(queue[p]) <= Len(outbox)
                BY <2>1, <2>2, <2>3 DEF Follows
            <4> QED
                BY <2>2, <2>3, <4>1, SMTT(30)
        <3>2. queue[p][n + 1] = outbox[d + (n + 1)] /\ results[p][queue[p][n + 1]] = "none"
            BY <2>1, <3>1 DEF Follows
        <3>3. queue'[p][n] = queue[p][n + 1]
            BY <1>1, <2>2
        <3>4. outbox[d + (n + 1)] # Current(p) /\ outbox[d + (n + 1)] \in Item
            BY <2>1, <2>3, <3>1, QueueOfDevice
        <3>5. results'[p][queue[p][n + 1]] = results[p][queue[p][n + 1]]
            BY <2>4, <3>2, <3>4
        <3> QED
            BY <3>1, <3>2, <3>3, <3>5
    <2>6. results'[p][Current(p)] # "none"
        BY <1>2, <2>4
    <2>7. ASSUME NEW n \in 1 .. d + 1
          PROVE  Settled(outbox[n])'
        <3>1. CASE n = d + 1
            BY <2>1, <2>6, <3>1, <1>1 DEF Settled
        <3>2. CASE n # d + 1
            <4>1. n \in 1 .. d
                BY <2>3, <3>2
            <4>2. Settled(outbox[n])
                BY <2>1, <4>1 DEF Follows
            <4>3. \A i : i = outbox[n] => Settled(i)'
                BY <4>2
            <4> QED
                BY <4>3, <1>1 DEF Settled
        <3> QED
            BY <3>1, <3>2
    <2>8. d + 1 + Len(queue'[p]) <= Len(outbox) /\ Len(queue'[p]) = Len(queue[p]) - 1
        BY <1>1, <2>1, <2>2, <2>3 DEF Follows
    <2>9. Follows(p, d + 1)'
        BY <1>1, <2>5, <2>7, <2>8 DEF Follows
    <2>10. d + 1 \in 0 .. Len(outbox')
        BY <1>1, <2>1, <2>3
    <2>11. pc'[p] = "load"
        BY <1>1, <1>4
    <2> QED
        BY <2>9, <2>10, <2>11 DEF QueueFits, Working
<1> QED
    BY <1>3, <1>4

\* Every call's queue stays a part of the device's.
LEMMA StepKeepsQueues ==
    ASSUME TypeOK, outbox \in Outboxes, \A q \in Call : QueueFits(q),
           NEW p \in Call, StepOf(p), OthersWait(p)
    PROVE  \A q \in Call : QueueFits(q)'
<1>1. outbox' = outbox /\ \A i : Settled(i) => Settled(i)'
    BY SettledStays
<1>2. ASSUME NEW q \in Call, queue'[q] = queue[q], results'[q] = results[q],
             NEW d \in 0 .. Len(outbox), Follows(q, d)
      PROVE  \E e \in 0 .. Len(outbox') : Follows(q, e)'
    <2>1. \A n \in 1 .. d : Settled(outbox[n])
        BY <1>2 DEF Follows
    <2>2. \A n \in 1 .. d : Settled(outbox[n])'
        <3>1. \A i : \A n \in 1 .. d : i = outbox[n] => Settled(i)'
            BY <1>1, <2>1
        <3> QED
            BY <1>1, <3>1 DEF Settled
    <2>3. Follows(q, d)'
        BY <1>1, <1>2, <2>2 DEF Follows
    <2> QED
        BY <1>1, <2>3
<1>3. ASSUME NEW q \in Call \ {p}
      PROVE  QueueFits(q)'
    <2>1. pc'[q] = pc[q] /\ queue'[q] = queue[q] /\ results'[q] = results[q] /\ QueueFits(q)
        BY DEF OthersWait
    <2> QED
        BY <1>2, <2>1 DEF QueueFits, Working, CallsElsewhere
<1>4. QueueFits(p)'
    <2>1. CASE Begins(p)
        <3>1. outbox' = outbox /\ results' = results
            BY <2>1 DEF Begins, OnlyCalls
        <3> QED
            BY <2>1, <3>1 DEF Begins, QueueFits, Working, CallsElsewhere
    <2>2. CASE \E code \in Refusal \union {"ok"} : Answers(p, code)
        BY <1>1, <2>2, AnswerFollows
    <2>3. CASE TakesUp(p) \/ GoesToRecord(p)
        <3>1. /\ queue[p] # << >> /\ queue' = queue /\ results' = results
              /\ pc'[p] \in {"apply", "record"}
              /\ pc[p] = "load" \/ Current(p) \in Queued
            BY <2>3 DEF TakesUp, GoesToRecord, At, OnlyCalls
        <3>2. \E d \in 0 .. Len(outbox) : Follows(p, d)
            BY <3>1, WhereAPushIs
        <3>3. \E d \in 0 .. Len(outbox') : Follows(p, d)'
            BY <1>2, <3>1, <3>2
        <3> QED
            BY <3>1, <3>3 DEF QueueFits, Working
    <2>4. CASE TakesEffect(p)
        <3>1. /\ queue[p] # << >> /\ queue' = queue /\ results' = results /\ pc'[p] = "append"
            BY <2>4 DEF TakesEffect, At
        <3> QED
            BY <1>2, <3>1 DEF QueueFits, Working, CallsElsewhere
    <2>5. CASE Ends(p)
        <3>1. outbox' = outbox /\ queue'[p] = << >> /\ pc'[p] = "done"
            BY <1>1, <2>5 DEF Ends
        <3>2. \E d \in 0 .. Len(outbox') : Follows(p, d)'
            BY <3>1, EmptyFollows
        <3> QED
            BY <3>1, <3>2 DEF QueueFits, Working
    <2> QED
        BY <2>1, <2>2, <2>3, <2>4, <2>5 DEF StepOf, Refuses, FindsResult, FindsEffect,
           LogsAndAnswers, FailsHalfWay, Stores
<1> QED
    BY <1>3, <1>4

-----------------------------------------------------------------------------
(* The lock, and what stands behind an answer. *)

\* The lock is taken by the step that writes and given back by the next.
LEMMA StepKeepsLock ==
    ASSUME TypeOK, LockIsKept, NEW p \in Call, StepOf(p), OthersWait(p)
    PROVE  LockIsKept'
<1>1. \A q \in Call \ {p} : pc'[q] = pc[q]
    BY DEF OthersWait
<1>2. NoCall \notin Call
    BY SyncPushAssumption
<1>3. CASE writer' = writer /\ pc[p] # "append" /\ pc'[p] # "append"
    BY <1>1, <1>3 DEF LockIsKept
<1>4. CASE writer' = NoCall /\ pc[p] = "append" /\ pc'[p] # "append"
    BY <1>1, <1>2, <1>4 DEF LockIsKept
<1>5. CASE writer = NoCall /\ writer' = p /\ pc'[p] = "append"
    BY <1>1, <1>2, <1>5 DEF LockIsKept
<1>6. CASE Ends(p)
    BY <1>3, <1>4, <1>6 DEF Ends, LockIsKept
<1>7. CASE Begins(p) \/ TakesUp(p) \/ Refuses(p) \/ FindsResult(p) \/ FindsEffect(p) \/ Stores(p)
    BY <1>3, <1>7 DEF Begins, TakesUp, Refuses, FindsResult, FindsEffect, Stores, Answers,
           OnlyCalls, At
<1>8. CASE LogsAndAnswers(p) \/ FailsHalfWay(p)
    BY <1>4, <1>8 DEF LogsAndAnswers, FailsHalfWay, Answers
<1>9. CASE GoesToRecord(p)
    BY <1>3, <1>4, <1>9 DEF GoesToRecord
<1>10. CASE TakesEffect(p)
    BY <1>5, <1>10 DEF TakesEffect
<1> QED
    BY <1>6, <1>7, <1>8, <1>9, <1>10 DEF StepOf

\* What the server finds of an operation: its key, or the todo that it makes.
LEMMA ExistsFor ==
    ASSUME NEW i \in Item, Verdict(i) = "exists"
    PROVE  i \in keys \/ (OpOf[i] = "todo.create" /\ todos[TargetOf[i]].state # "absent")
<1>1. CASE OpOf[i] \in TodoOps
    BY <1>1 DEF Verdict, TodoVerdict
<1>2. CASE OpOf[i] \notin TodoOps
    BY <1>2 DEF Verdict, MemoVerdict
<1> QED
    BY <1>1, <1>2

\* What it has checked of an operation that it applies.
LEMMA OkFor ==
    ASSUME NEW i \in Item, Verdict(i) = "ok"
    PROVE  /\ OpOf[i] = "todo.create" => todos[TargetOf[i]].state = "absent"
           /\ OpOf[i] \in TodoOps \ {"todo.create"} =>
                /\ todos[TargetOf[i]].state # "absent"
                /\ BaseOf[i] = 0 \/ BaseOf[i] = todos[TargetOf[i]].revision
           /\ OpOf[i] = "memo.update" => i \notin keys
<1>1. CASE OpOf[i] \in TodoOps
    BY <1>1 DEF Verdict, TodoVerdict, Based, TodoOps
<1>2. CASE OpOf[i] \notin TodoOps
    BY <1>2 DEF Verdict, MemoVerdict, TodoOps
<1> QED
    BY <1>1, <1>2

\* The history grows by the operation that takes effect, and by nothing else.
LEMMA HistoryOfAStep ==
    ASSUME TypeOK, NEW p \in Call, StepOf(p)
    PROVE  /\ \A i : Took(i) => Took(i)'
           /\ \A t : Purged(t) => Purged(t)'
           /\ history' = history \/ TakesEffect(p)
           /\ told \subseteq told' /\ torn \subseteq torn' /\ overlapped \subseteq overlapped'
           /\ recorded \subseteq recorded' /\ keys \subseteq keys'
<1>1. history' = history \/ TakesEffect(p)
    BY DEF StepOf, Begins, TakesUp, OnlyCalls, Refuses, FindsResult, FindsEffect,
           LogsAndAnswers, FailsHalfWay, Stores, Answers, GoesToRecord, Ends
<1>2. told \subseteq told' /\ torn \subseteq torn' /\ recorded \subseteq recorded'
    BY DEF StepOf, Begins, TakesUp, OnlyCalls, Refuses, FindsResult, FindsEffect,
           LogsAndAnswers, FailsHalfWay, Stores, Answers, GoesToRecord, Ends, TakesEffect, tables
<1>3. overlapped \subseteq overlapped'
    BY DEF StepOf, Begins, TakesUp, OnlyCalls, Refuses, FindsResult, FindsEffect,
           LogsAndAnswers, FailsHalfWay, Stores, Answers, GoesToRecord, Ends, TakesEffect, tables
<1>4. keys \subseteq keys'
    BY DEF StepOf, Begins, TakesUp, OnlyCalls, Refuses, FindsResult, FindsEffect,
           LogsAndAnswers, FailsHalfWay, Stores, Answers, GoesToRecord, Ends, TakesEffect, tables,
           ApplyTodo, ApplyMemo
<1>5. CASE history' = history
    <2>1. (\A i : Took(i) => Took(i)') /\ (\A t : Purged(t) => Purged(t)')
        BY <1>5 DEF Took, Purged
    <2> QED
        BY <1>1, <1>2, <1>3, <1>4, <2>1
<1>6. CASE TakesEffect(p)
    <2>1. Current(p) \in Item /\ history \in Seq(Item) /\ history' = Append(history, Current(p))
        BY <1>6, CurrentIsItem DEF TakesEffect, At, TypeOK
    <2>2. (\A i : Took(i) => Took(i)') /\ (\A t : Purged(t) => Purged(t)')
        BY <2>1, HistoryGrows
    <2> QED
        BY <1>1, <1>2, <1>3, <1>4, <2>2
<1> QED
    BY <1>1, <1>5, <1>6

\* An operation that was done stays so.
LEMMA DoneStays ==
    ASSUME TypeOK, NEW p \in Call, StepOf(p), OthersWait(p)
    PROVE  \A i : Done(i) => Done(i)'
<1>1. SUFFICES ASSUME NEW i, Done(i)
               PROVE  Took(i)' /\ Logged(i)'
    BY DEF Done
<1>2. Took(i)'
    BY <1>1, HistoryOfAStep DEF Done
<1>3. told \subseteq told' /\ torn \subseteq torn'
    BY HistoryOfAStep
<1>4. CASE i \in told \union torn
    BY <1>2, <1>3, <1>4 DEF Logged
<1>5. ASSUME NEW q \in Call \ {p}, At(q, "append"), Current(q) = i
      PROVE  Logged(i)'
    <2>1. pc'[q] = "append" /\ queue'[q] # << >> /\ Current(q)' = i
        BY <1>5 DEF OthersWait, At
    <2> QED
        BY <2>1 DEF Logged, At
<1>6. ASSUME At(p, "append"), Current(p) = i
      PROVE  Logged(i)'
    <2>1. pc[p] = "append"
        BY <1>6 DEF At
    <2>2. i \in told' \union torn'
        BY <1>6, <2>1 DEF StepOf, Begins, TakesUp, OnlyCalls, Refuses, FindsResult, FindsEffect,
           LogsAndAnswers, FailsHalfWay, Stores, GoesToRecord, Ends, TakesEffect, At
    <2> QED
        BY <2>2 DEF Logged
<1> QED
    BY <1>1, <1>2, <1>4, <1>5, <1>6 DEF Done, Logged

\* What the server finds of an operation, it has done.
LEMMA FoundWasDone ==
    ASSUME TypeOK, OkWasDone, NEW i \in Item, Verdict(i) = "exists"
    PROVE  Done(i)
<1>1. CASE i \in keys
    BY <1>1 DEF OkWasDone
<1>2. CASE OpOf[i] = "todo.create" /\ todos[TargetOf[i]].state # "absent"
    <2>1. TargetOf[i] \in Todo
        BY <1>2, SyncPushAssumption DEF TodoOps
    <2>2. PICK k \in Item : OpOf[k] = "todo.create" /\ TargetOf[k] = TargetOf[i] /\ Done(k)
        BY <1>2, <2>1 DEF OkWasDone
    <2>3. k = i
        BY <1>2, <2>2, DrawnOnce
    <2> QED
        BY <2>2, <2>3
<1> QED
    BY <1>1, <1>2, ExistsFor

\* A call that takes effect has done its operation, whose row it is about to write.
LEMMA EffectIsDone ==
    ASSUME TypeOK, NEW p \in Call, TakesEffect(p)
    PROVE  Done(Current(p))' /\ Current(p)' = Current(p) /\ Current(p) \in Item
<1>1. /\ Current(p) \in Item /\ history \in Seq(Item) /\ history' = Append(history, Current(p))
      /\ queue[p] # << >> /\ queue' = queue /\ pc'[p] = "append"
    BY CurrentIsItem DEF TakesEffect, At, TypeOK
<1>2. Current(p)' = Current(p)
    BY <1>1 DEF Current
<1>3. \A k : k = Current(p) => Took(k)'
    BY <1>1, HistoryGrows
<1>4. Took(Current(p))'
    BY <1>2, <1>3
<1>5. Logged(Current(p))'
    BY <1>1 DEF Logged, At
<1> QED
    BY <1>1, <1>2, <1>4, <1>5 DEF Done

\* Every step keeps that what can be answered ok was done.
LEMMA StepKeepsOk ==
    ASSUME TypeOK, \A q \in Call : QueueFits(q), OkWasDone,
           NEW p \in Call, StepOf(p), OthersWait(p)
    PROVE  OkWasDone'
<1>1. \A i : Done(i) => Done(i)'
    BY DoneStays
<1>2. ASSUME NEW i \in keys' \union recorded'
      PROVE  Done(i)'
    <2>1. CASE i \in keys \union recorded
        BY <1>1, <2>1 DEF OkWasDone
    <2>2. CASE i \notin keys \union recorded /\ TakesEffect(p)
        <3>1. recorded' = recorded /\ (ApplyTodo(p) \/ ApplyMemo(p))
            BY <2>2 DEF TakesEffect
        <3>2. i = Current(p)
            BY <1>2, <2>2, <3>1 DEF ApplyTodo, ApplyMemo
        <3>3. Done(Current(p))' /\ Current(p)' = Current(p)
            BY <2>2, EffectIsDone
        <3> QED
            BY <3>2, <3>3
    <2>3. CASE i \notin keys \union recorded /\ Stores(p)
        <3>1. i = Current(p) /\ pc[p] = "record"
            BY <1>2, <2>3 DEF Stores, Answers
        <3>2. Done(i)
            BY <3>1 DEF OkWasDone
        <3> QED
            BY <1>1, <3>2
    <2>4. TakesEffect(p) \/ Stores(p) \/ (keys' = keys /\ recorded' = recorded)
        BY DEF StepOf, Begins, TakesUp, OnlyCalls, Refuses, FindsResult, FindsEffect,
           LogsAndAnswers, FailsHalfWay, Answers, GoesToRecord, Ends, tables
    <2> QED
        BY <1>2, <2>1, <2>2, <2>3, <2>4
<1>3. ASSUME NEW q \in Call, pc'[q] \in {"append", "record"}
      PROVE  Done(Current(q))'
    <2>1. CASE q # p
        <3>1. pc'[q] = pc[q] /\ Current(q)' = Current(q)
            BY <2>1 DEF OthersWait
        <3>2. Done(Current(q))
            BY <1>3, <3>1 DEF OkWasDone
        <3> QED
            BY <1>1, <3>1, <3>2
    <2>2. CASE q = p
        <3>1. TakesEffect(p) \/ GoesToRecord(p)
            BY <1>3, <2>2 DEF StepOf, Begins, TakesUp, Refuses, FindsResult, FindsEffect,
               LogsAndAnswers, FailsHalfWay, Stores, Answers, Ends
        <3>2. CASE TakesEffect(p)
            BY <2>2, <3>2, EffectIsDone
        <3>3. CASE GoesToRecord(p)
            <4>1. /\ queue[p] # << >> /\ queue' = queue
                  /\ pc[p] = "append" \/ Verdict(Current(p)) = "exists"
                BY <3>3 DEF GoesToRecord
            <4>2. Current(p)' = Current(p) /\ Current(p) \in Item
                BY <4>1, CurrentIsItem DEF Current
            <4>3. Done(Current(p))
                BY <4>1, <4>2, FoundWasDone DEF OkWasDone
            <4> QED
                BY <1>1, <2>2, <4>2, <4>3
        <3> QED
            BY <3>1, <3>2, <3>3
    <2> QED
        BY <2>1, <2>2
<1>4. ASSUME NEW t \in Todo, todos'[t].state # "absent"
      PROVE  \E i \in Item : OpOf[i] = "todo.create" /\ TargetOf[i] = t /\ Done(i)'
    <2>1. CASE todos[t].state # "absent"
        <3>1. PICK i \in Item : OpOf[i] = "todo.create" /\ TargetOf[i] = t /\ Done(i)
            BY <2>1 DEF OkWasDone
        <3> QED
            BY <1>1, <3>1
    <2>2. CASE todos[t].state = "absent"
        <3>1. todos' # todos
            BY <1>4, <2>2
        <3>2. TakesEffect(p) /\ ApplyTodo(p)
            BY <3>1 DEF StepOf, Begins, TakesUp, OnlyCalls, Refuses, FindsResult, FindsEffect,
               LogsAndAnswers, FailsHalfWay, Stores, Answers, GoesToRecord, Ends, tables, TakesEffect, ApplyMemo
        <3>3. /\ Current(p) \in Item /\ OpOf[Current(p)] \in TodoOps
              /\ Verdict(Current(p)) = "ok"
              /\ todos' = [todos EXCEPT ![TargetOf[Current(p)]] = TodoAfter(Current(p))]
            BY <3>2, EffectIsDone DEF ApplyTodo, TakesEffect
        <3>4. TargetOf[Current(p)] = t
            BY <1>4, <2>2, <3>3 DEF TypeOK
        <3>5. OpOf[Current(p)] = "todo.create"
            BY <2>2, <3>3, <3>4, OkFor
        <3>6. \A i : i = Current(p) => Done(i)'
            BY <3>2, EffectIsDone
        <3> QED
            BY <3>3, <3>4, <3>5, <3>6
    <2> QED
        BY <2>1, <2>2
<1>5. ASSUME NEW q \in Call, NEW i \in Item, results'[q][i] = "ok"
      PROVE  Done(i)'
    <2>1. CASE results[q][i] = "ok"
        BY <1>1, <2>1 DEF OkWasDone
    <2>2. CASE results[q][i] # "ok"
        <3>1. results' # results /\ q = p
            BY <1>5, <2>2 DEF OthersWait
        <3>2. \/ Refuses(p) \/ FailsHalfWay(p)
              \/ FindsResult(p) \/ FindsEffect(p) \/ LogsAndAnswers(p) \/ Stores(p)
            BY <3>1 DEF StepOf, Begins, TakesUp, OnlyCalls, GoesToRecord, Ends, TakesEffect
        <3>3. ASSUME NEW code, Answers(p, code)
              PROVE  i = Current(p) /\ code = "ok" /\ Current(p) \in Item
            <4>1. Current(p) \in Item
                BY <3>3, CurrentIsItem DEF Answers
            <4>2. results' = [results EXCEPT ![p][Current(p)] = code]
                BY <3>3 DEF Answers
            <4> QED
                BY <1>5, <2>2, <3>1, <4>1, <4>2 DEF TypeOK
        <3>4. ~Refuses(p) /\ ~FailsHalfWay(p)
            BY <3>3 DEF Refuses, FailsHalfWay, Refusal
        <3>5. i = Current(p) /\ Current(p) \in Item
            BY <3>2, <3>3, <3>4 DEF FindsResult, FindsEffect, LogsAndAnswers, FailsHalfWay, Stores
        <3>6. Done(i)
            BY <3>2, <3>4, <3>5, FoundWasDone DEF FindsResult, FindsEffect, LogsAndAnswers, FailsHalfWay, Stores,
               OkWasDone
        <3> QED
            BY <1>1, <3>6
    <2> QED
        BY <2>1, <2>2
<1> QED
    BY <1>2, <1>3, <1>4, <1>5 DEF OkWasDone

-----------------------------------------------------------------------------
(* The account of what took effect. *)

\* Every step keeps account of what took effect.
LEMMA StepKeepsAccount ==
    ASSUME TypeOK, \A q \in Call : QueueFits(q), EffectsAccounted,
           NEW p \in Call, StepOf(p), OthersWait(p), outbox' = outbox
    PROVE  EffectsAccounted'
<1>1. SUFFICES ASSUME NEW i \in Queued \intersect Named, Took(i)'
               PROVE  \/ i \in recorded' \union torn'
                      \/ \E q \in Call : pc'[q] \in {"append", "record"} /\ Current(q)' = i
    <2>1. Queued' = Queued
        BY DEF Queued
    <2> QED
        BY <2>1 DEF EffectsAccounted
<1>2. recorded \subseteq recorded' /\ torn \subseteq torn'
    BY HistoryOfAStep
<1>3. CASE ~Took(i)
    <2>1. TakesEffect(p)
        BY <1>1, <1>3, HistoryOfAStep DEF Took
    <2>2. /\ Current(p) \in Item /\ history \in Seq(Item) /\ history' = Append(history, Current(p))
          /\ pc'[p] = "append" /\ Current(p)' = Current(p)
        BY <2>1, EffectIsDone DEF TakesEffect, TypeOK
    <2>3. Took(i)' <=> Took(i) \/ i = Current(p)
        BY <2>2, HistoryGrows
    <2> QED
        BY <1>1, <1>3, <2>2, <2>3
<1>4. CASE i \in recorded \union torn
    BY <1>2, <1>4
<1>5. ASSUME NEW q \in Call \ {p}, pc[q] \in {"append", "record"}, Current(q) = i
      PROVE  \E r \in Call : pc'[r] \in {"append", "record"} /\ Current(r)' = i
    BY <1>5 DEF OthersWait
<1>6. ASSUME pc[p] \in {"append", "record"}, Current(p) = i
      PROVE  \/ i \in recorded' \union torn'
             \/ pc'[p] \in {"append", "record"} /\ Current(p)' = i
    <2>1. GoesToRecord(p) \/ Stores(p) \/ Ends(p) \/ i \in torn'
        BY <1>6 DEF StepOf, Begins, TakesUp, Refuses, FindsResult, FindsEffect,
           LogsAndAnswers, FailsHalfWay, TakesEffect, At
    <2> QED
        BY <1>6, <2>1 DEF GoesToRecord, Stores, Ends, Current
<1> QED
    BY <1>1, <1>3, <1>4, <1>5, <1>6 DEF EffectsAccounted

\* How a call comes to be at work on an operation of the device.
LEMMA ComesToWork ==
    ASSUME TypeOK, outbox \in Outboxes, NEW p \in Call, StepOf(p), outbox' = outbox,
           \A q \in Call : QueueFits(q), Working(p)', Current(p)' \in Queued
    PROVE  /\ Current(p)' = Current(p) /\ Current(p) \in Queued
           /\ Working(p) \/ TakesUp(p)
<1>1. CASE Begins(p)
    <2>1. PICK i \in Elsewhere : queue'[p] = <<i>>
        BY <1>1 DEF Begins, Working
    <2>2. Current(p)' = i
        BY <2>1, OneOperation, SyncPushAssumption DEF Current
    <2> QED
        BY <2>2, QueueOfDevice
<1>2. CASE TakesUp(p) \/ TakesEffect(p) \/ GoesToRecord(p)
    <2>1. Current(p)' = Current(p)
        BY <1>2 DEF TakesUp, TakesEffect, GoesToRecord, Current
    <2> QED
        BY <1>2, <2>1 DEF TakesEffect, GoesToRecord, At, Working
<1> QED
    BY <1>1, <1>2 DEF StepOf, Refuses, FindsResult, FindsEffect, LogsAndAnswers, FailsHalfWay, Stores, Answers,
       Ends, Working

\* Every step sees the overlap it makes.
LEMMA StepSeesOverlap ==
    ASSUME TypeOK, outbox \in Outboxes, \A q \in Call : QueueFits(q), OverlapIsSeen,
           NEW p \in Call, StepOf(p), OthersWait(p), outbox' = outbox
    PROVE  OverlapIsSeen'
<1>1. overlapped \subseteq overlapped' /\ Queued' = Queued
    BY HistoryOfAStep DEF Queued
<1>2. ASSUME NEW q \in Call \ {p}
      PROVE  /\ pc'[q] = pc[q] /\ Current(q)' = Current(q)
             /\ Working(q)' <=> Working(q)
    BY DEF OthersWait, Working
<1>3. ASSUME NEW q \in Call \ {p}, Working(p)', Working(q)',
             Current(p)' = Current(q)', Current(p)' \in Queued
      PROVE  Current(p)' \in overlapped'
    <2>1. /\ Current(p)' = Current(p) /\ Current(p) \in Queued
          /\ Working(p) \/ TakesUp(p)
        BY <1>3, ComesToWork
    <2>2. Working(q) /\ Current(q) = Current(p)
        BY <1>2, <1>3, <2>1
    <2>3. CASE Working(p)
        BY <1>1, <2>1, <2>2, <2>3 DEF OverlapIsSeen
    <2>4. CASE TakesUp(p)
        <3>1. Busy(Current(p))
            BY <2>2 DEF Busy, Working
        <3> QED
            BY <2>1, <2>4, <3>1 DEF TakesUp
    <2> QED
        BY <2>1, <2>3, <2>4
<1>4. ASSUME NEW q \in Call, NEW r \in Call, q # r, Working(q)', Working(r)',
             Current(q)' = Current(r)', Current(q)' \in Queued
      PROVE  Current(q)' \in overlapped'
    <2>1. CASE q = p
        BY <1>3, <1>4, <2>1
    <2>2. CASE r = p
        BY <1>3, <1>4, <2>2
    <2>3. CASE q # p /\ r # p
        <3>1. /\ Working(q) /\ Working(r) /\ Current(q) = Current(r) /\ Current(q) \in Queued
              /\ Current(q)' = Current(q)
            BY <1>2, <1>4, <2>3
        <3> QED
            BY <1>1, <1>4, <3>1 DEF OverlapIsSeen
    <2> QED
        BY <2>1, <2>2, <2>3
<1> QED
    BY <1>1, <1>4 DEF OverlapIsSeen

\* A push that takes an operation up finds what was done of it.
LEMMA StepFindsDone ==
    ASSUME TypeOK, outbox \in Outboxes, \A q \in Call : QueueFits(q),
           EffectsAccounted, OverlapIsSeen, NotDoneYet,
           NEW p \in Call, StepOf(p), OthersWait(p), outbox' = outbox
    PROVE  NotDoneYet'
<1>1. Queued' = Queued /\ torn \subseteq torn' /\ overlapped \subseteq overlapped'
    BY HistoryOfAStep DEF Queued
<1>2. SUFFICES ASSUME NEW q \in Call, pc'[q] = "apply",
                      NEW i \in (Queued \intersect Named) \ (torn' \union overlapped'),
                      Current(q)' = i, Took(i)'
               PROVE  FALSE
    <2>1. \A q \in Call : \A i : Current(q)' = i /\ ~Took(i)' => ~Took(Current(q))'
        BY DEF Took
    <2> QED
        BY <1>1, <2>1 DEF NotDoneYet
<1>3. i \in (Queued \intersect Named) \ (torn \union overlapped)
    BY <1>1
<1>4. CASE q # p
    <2>1. pc[q] = "apply" /\ Current(q) = i
        BY <1>2, <1>4 DEF OthersWait
    <2>2. ~Took(i)
        BY <1>3, <2>1 DEF NotDoneYet
    <2>3. TakesEffect(p)
        BY <1>2, <2>2, HistoryOfAStep DEF Took
    <2>4. /\ Current(p) \in Item /\ history \in Seq(Item) /\ history' = Append(history, Current(p))
          /\ pc[p] = "apply"
        BY <2>3, EffectIsDone DEF TakesEffect, TypeOK, At
    <2>5. i = Current(p)
        BY <1>2, <2>2, <2>4, HistoryGrows
    <2> QED
        BY <1>3, <1>4, <2>1, <2>4, <2>5 DEF OverlapIsSeen, Working
<1>5. CASE q = p
    <2>1. Working(p)'
        BY <1>2, <1>5 DEF Working
    <2>2. Current(p) = i /\ (Working(p) \/ TakesUp(p))
        BY <1>2, <1>5, <2>1, ComesToWork
    <2>3. TakesUp(p)
        BY <1>2, <1>5, <2>2 DEF StepOf, Begins, Refuses, FindsResult, FindsEffect, LogsAndAnswers, FailsHalfWay,
           Stores, Answers, GoesToRecord, Ends, TakesEffect, Working
    <2>4. ~Busy(i) /\ i \notin recorded
        BY <1>2, <2>2, <2>3 DEF TakesUp
    <2>5. history' = history
        BY <2>3 DEF TakesUp, OnlyCalls
    <2>6. Took(i)
        BY <1>2, <2>5 DEF Took
    <2> QED
        BY <1>3, <2>4, <2>6 DEF EffectsAccounted, Busy
<1> QED
    BY <1>4, <1>5

-----------------------------------------------------------------------------
(* At most once, and in order. *)

\* What a todo operation makes of its row.
LEMMA TodosAfter ==
    ASSUME TypeOK, NEW p \in Call, TakesEffect(p), NEW t \in Todo
    PROVE  \/ todos'[t] = todos[t] /\ ~(OpOf[Current(p)] \in TodoOps /\ TargetOf[Current(p)] = t)
           \/ /\ OpOf[Current(p)] \in TodoOps /\ TargetOf[Current(p)] = t
              /\ OpOf[Current(p)] # "todo.purge" =>
                    /\ todos'[t].state # "absent"
                    /\ todos'[t].revision = todos[t].revision + 1
<1>1. CASE ApplyMemo(p)
    <2>1. todos' = todos /\ OpOf[Current(p)] \in MemoOps
        BY <1>1 DEF ApplyMemo
    <2> QED
        BY <2>1 DEF MemoOps, TodoOps
<1>2. CASE ApplyTodo(p)
    <2>1. /\ OpOf[Current(p)] \in TodoOps
          /\ todos' = [todos EXCEPT ![TargetOf[Current(p)]] = TodoAfter(Current(p))]
        BY <1>2 DEF ApplyTodo
    <2>2. CASE TargetOf[Current(p)] # t
        BY <2>1, <2>2 DEF TypeOK
    <2>3. CASE TargetOf[Current(p)] = t
        <3>1. todos'[t] = TodoAfter(Current(p))
            BY <2>1, <2>3 DEF TypeOK
        <3>2. OpOf[Current(p)] # "todo.purge" =>
                    /\ TodoAfter(Current(p)).state \in {"trashed", "live"}
                    /\ TodoAfter(Current(p)).revision = todos[t].revision + 1
            BY <2>3 DEF TodoAfter
        <3> QED
            BY <2>1, <2>3, <3>1, <3>2
    <2> QED
        BY <2>2, <2>3
<1> QED
    BY <1>1, <1>2 DEF TakesEffect

\* Only a step that takes effect writes a todo or a key.
LEMMA OnlyEffectsWrite ==
    ASSUME NEW p \in Call, StepOf(p), ~TakesEffect(p)
    PROVE  todos' = todos /\ keys' = keys /\ history' = history
BY DEF StepOf, Begins, TakesUp, OnlyCalls, Refuses, FindsResult, FindsEffect,
       LogsAndAnswers, FailsHalfWay, Stores, Answers, GoesToRecord, Ends, tables

\* Every step leaves the marks of what took effect.
LEMMA StepKeepsMarks ==
    ASSUME TypeOK, \A i \in Item : LeavesItsMark(i),
           NEW p \in Call, StepOf(p), NEW i \in Item
    PROVE  LeavesItsMark(i)'
<1>1. CASE ~TakesEffect(p)
    <2>1. todos' = todos /\ keys' = keys /\ history' = history
        BY <1>1, OnlyEffectsWrite
    <2> QED
        BY <2>1 DEF LeavesItsMark, Took, Purged
<1>2. CASE TakesEffect(p)
    <2> DEFINE j == Current(p)
               t == TargetOf[i]
    <2>1. /\ j \in Item /\ history \in Seq(Item) /\ history' = Append(history, j)
          /\ Verdict(j) = "ok"
        BY <1>2, EffectIsDone DEF TakesEffect, TypeOK
    <2>2. SUFFICES ASSUME Took(i)', ~Purged(t)'
                   PROVE  /\ OpOf[i] = "memo.update" => i \in keys'
                          /\ OpOf[i] = "todo.create" => todos'[t].state # "absent"
                          /\ OpOf[i] \in TodoOps \ {"todo.create"} /\ BaseOf[i] # 0 =>
                                todos'[t].revision > BaseOf[i]
        BY DEF LeavesItsMark
    <2>3. /\ Took(i) \/ i = j
          /\ ~Purged(t) /\ ~(OpOf[j] = "todo.purge" /\ TargetOf[j] = t)
        BY <2>1, <2>2, HistoryGrows
    <2>4. OpOf[i] = "memo.update" => i \in keys'
        <3>1. keys \subseteq keys' /\ (OpOf[j] = "memo.update" => j \in keys')
            <4>1. CASE ApplyTodo(p)
                BY <4>1 DEF ApplyTodo, TodoOps
            <4>2. CASE ApplyMemo(p)
                BY <4>2 DEF ApplyMemo
            <4> QED
                BY <1>2, <4>1, <4>2 DEF TakesEffect
        <3> QED
            BY <2>3, <3>1 DEF LeavesItsMark
    <2>5. ASSUME OpOf[i] \in TodoOps
          PROVE  /\ t \in Todo /\ todos[t].revision \in Nat /\ BaseOf[i] \in Nat
                 /\ \/ /\ todos'[t] = todos[t] /\ i # j
                    \/ todos'[t].state # "absent" /\ todos'[t].revision = todos[t].revision + 1
        <3>1. t \in Todo
            BY <2>5, SyncPushAssumption
        <3>2. todos[t] \in TodoRow /\ BaseOf[i] \in Nat
            BY <3>1, SyncPushAssumption DEF TypeOK
        <3> QED
            BY <1>2, <2>3, <2>5, <3>1, <3>2, TodosAfter DEF TodoRow
    <2>6. ASSUME OpOf[i] = "todo.create"
          PROVE  todos'[t].state # "absent"
        BY <2>3, <2>5, <2>6 DEF LeavesItsMark, TodoOps
    <2>7. ASSUME OpOf[i] \in TodoOps \ {"todo.create"}, BaseOf[i] # 0
          PROVE  todos'[t].revision > BaseOf[i]
        <3>1. CASE Took(i)
            <4>1. todos[t].revision > BaseOf[i]
                BY <2>3, <2>7, <3>1 DEF LeavesItsMark
            <4> QED
                BY <2>5, <2>7, <4>1
        <3>2. CASE i = j
            <4>1. BaseOf[i] = todos[t].revision
                BY <2>1, <2>7, <3>2, OkFor
            <4> QED
                BY <2>5, <2>7, <3>2, <4>1
        <3> QED
            BY <2>3, <3>1, <3>2
    <2> QED
        BY <2>4, <2>6, <2>7
<1> QED
    BY <1>1, <1>2

\* The mark of an operation keeps it from taking effect again.
LEMMA StepIsGuarded ==
    ASSUME TypeOK, \A i \in Item : LeavesItsMark(i), GuardedOnce,
           NEW p \in Call, StepOf(p), outbox \in Outboxes, outbox' = outbox
    PROVE  GuardedOnce'
<1>1. SUFFICES ASSUME NEW i \in Queued, Guarded(i), ~Purged(TargetOf[i])',
                      NEW a \in DOMAIN history', NEW b \in DOMAIN history',
                      history'[a] = i, history'[b] = i
               PROVE  a = b
    <2>1. Queued' = Queued
        BY DEF Queued
    <2> QED
        BY <2>1 DEF GuardedOnce, Guarded, Effects
<1>2. ~Purged(TargetOf[i]) /\ i \in Item
    BY <1>1, HistoryOfAStep, QueueOfDevice
<1>3. \A m, n \in DOMAIN history : history[m] = i /\ history[n] = i => m = n
    BY <1>1, <1>2 DEF GuardedOnce, Effects
<1>4. CASE history' = history
    BY <1>1, <1>3, <1>4
<1>5. CASE TakesEffect(p)
    <2>1. /\ Current(p) \in Item /\ history \in Seq(Item) /\ history' = Append(history, Current(p))
          /\ Verdict(Current(p)) = "ok"
        BY <1>5, EffectIsDone DEF TakesEffect, TypeOK
    <2>2. ASSUME Took(i)
          PROVE  i # Current(p)
        <3>1. SUFFICES ASSUME i = Current(p)
                       PROVE  FALSE
            OBVIOUS
        <3>2. CASE OpOf[i] \in {"todo.create", "memo.update"}
            BY <1>2, <2>1, <2>2, <3>1, <3>2, OkFor DEF LeavesItsMark
        <3>3. CASE OpOf[i] \in TodoOps \ {"todo.create"} /\ BaseOf[i] # 0
            <4>1. todos[TargetOf[i]].revision > BaseOf[i]
                BY <1>2, <2>2, <3>3 DEF LeavesItsMark
            <4>2. BaseOf[i] = todos[TargetOf[i]].revision
                BY <2>1, <3>1, <3>3, OkFor
            <4>3. BaseOf[i] \in Nat
                BY <1>2, SyncPushAssumption
            <4> QED
                BY <4>1, <4>2, <4>3
        <3> QED
            BY <1>1, <3>2, <3>3 DEF Guarded
    <2>3. CASE a \in DOMAIN history /\ b \in DOMAIN history
        BY <1>1, <1>3, <2>1, <2>3, HistoryGrows
    <2>4. CASE a \in DOMAIN history /\ b \notin DOMAIN history
        BY <1>1, <2>1, <2>2, <2>4, HistoryGrows DEF Took
    <2>5. CASE a \notin DOMAIN history /\ b \in DOMAIN history
        BY <1>1, <2>1, <2>2, <2>5, HistoryGrows DEF Took
    <2>6. CASE a \notin DOMAIN history /\ b \notin DOMAIN history
        BY <1>1, <2>1, <2>6, HistoryGrows
    <2> QED
        BY <2>3, <2>4, <2>5, <2>6
<1> QED
    BY <1>4, <1>5, HistoryOfAStep

\* A call that takes effect has a result of every operation queued before its own.
LEMMA StepKeepsTurns ==
    ASSUME TypeOK, outbox \in Outboxes, \A q \in Call : QueueFits(q), TurnsAreKept,
           NEW p \in Call, StepOf(p), OthersWait(p)
    PROVE  TurnsAreKept'
<1>1. outbox' = outbox /\ \A i : Settled(i) => Settled(i)'
    BY SettledStays
<1>2. SUFFICES ASSUME NEW n \in DOMAIN history', NEW k \in DOMAIN outbox,
                      history'[n] \in Queued, k < Position(history'[n])
               PROVE  Settled(outbox[k])
    <2>1. \A i : Settled(i) => \E q \in Call : results'[q][i] # "none"
        BY <1>1 DEF Settled
    <2>2. SUFFICES ASSUME NEW n \in DOMAIN history', NEW k \in DOMAIN outbox,
                          history'[n] \in Queued, k < Position(history'[n])
                   PROVE  \E q \in Call : results'[q][outbox[k]] # "none"
        BY <1>1 DEF TurnsAreKept, Settled, Position, Queued
    <2> QED
        BY <1>2, <2>1, <2>2
<1>3. CASE history' = history
    BY <1>2, <1>3 DEF TurnsAreKept
<1>4. CASE TakesEffect(p)
    <2>1. /\ Current(p) \in Item /\ history \in Seq(Item) /\ history' = Append(history, Current(p))
          /\ queue[p] # << >>
        BY <1>4, EffectIsDone DEF TakesEffect, TypeOK, At
    <2>2. CASE n \in DOMAIN history
        <3>1. history'[n] = history[n]
            BY <2>1, <2>2, HistoryGrows
        <3> QED
            BY <1>2, <2>2, <3>1 DEF TurnsAreKept
    <2>3. CASE n \notin DOMAIN history
        <3>1. history'[n] = Current(p)
            BY <2>1, <2>3, HistoryGrows
        <3>2. PICK d \in 0 .. Len(outbox) :
                    Follows(p, d) /\ d + 1 \in DOMAIN outbox /\ Current(p) = outbox[d + 1]
            BY <1>2, <2>1, <3>1, WhereAPushIs
        <3>3. Position(Current(p)) = d + 1
            BY <3>2, QueueOfDevice
        <3>4. k \in 1 .. d
            BY <1>2, <3>1, <3>2, <3>3, QueueOfDevice
        <3> QED
            BY <3>2, <3>4 DEF Follows
    <2> QED
        BY <2>2, <2>3
<1> QED
    BY <1>3, <1>4, HistoryOfAStep

\* A refusal of an operation of the device stays.
LEMMA RefusedStays ==
    ASSUME TypeOK, outbox \in Outboxes, \A q \in Call : QueueFits(q),
           NEW p \in Call, StepOf(p), OthersWait(p), NEW i \in Queued, Refused(i)
    PROVE  Refused(i)'
<1>1. PICK q \in Call : results[q][i] \in Refusal
    BY DEF Refused
<1>2. i \in Item
    BY QueueOfDevice
<1>3. CASE results' = results
    BY <1>1, <1>3 DEF Refused
<1>4. CASE q # p
    <2>1. results'[q] = results[q]
        BY <1>4 DEF OthersWait
    <2> QED
        BY <1>1, <2>1 DEF Refused
<1>5. ASSUME q = p, queue[p] # << >>, NEW code, Answers(p, code)
      PROVE  Refused(i)'
    <2>1. CASE i # Current(p)
        <3>1. results'[p][i] = results[p][i]
            BY <1>2, <1>5, <2>1 DEF Answers, TypeOK
        <3> QED
            BY <1>1, <1>5, <3>1 DEF Refused
    <2>2. CASE i = Current(p)
        <3>1. PICK d \in 0 .. Len(outbox) : Follows(p, d)
            BY <1>5, <2>2, WhereAPushIs
        <3>2. 1 \in 1 .. Len(queue[p]) /\ Current(p) = queue[p][1]
            BY <1>5, HeadAndTail DEF TypeOK, Current
        <3>3. results[p][i] = "none"
            BY <2>2, <3>1, <3>2 DEF Follows
        <3> QED
            BY <1>1, <1>5, <3>3 DEF Refusal
    <2> QED
        BY <2>1, <2>2
<1> QED
    BY <1>3, <1>4, <1>5, SettledStays

\* An operation takes effect after those that were queued before it.
LEMMA StepKeepsOrder ==
    ASSUME TypeOK, outbox \in Outboxes, \A q \in Call : QueueFits(q), OkWasDone, NotDoneYet,
           TurnsAreKept, AppliedAsQueued,
           NEW p \in Call, StepOf(p), OthersWait(p)
    PROVE  AppliedAsQueued'
<1>1. /\ outbox' = outbox /\ Queued' = Queued
      /\ torn \subseteq torn' /\ overlapped \subseteq overlapped'
    BY SettledStays, HistoryOfAStep DEF Queued
<1>2. \A i : Position(i)' = Position(i)
    BY <1>1 DEF Position
<1>3. \A i : Sound(i)' => Sound(i) /\ i \in Queued
    BY <1>1 DEF Sound
<1>4. \A i \in Queued : ~Refused(i)' => ~Refused(i)
    BY RefusedStays
<1>5. SUFFICES ASSUME NEW a \in DOMAIN history', NEW b \in DOMAIN history', a < b,
                      NEW i, NEW j, i = history'[a], j = history'[b],
                      Sound(i)', Sound(j)', ~Refused(i)', ~Refused(j)'
               PROVE  Position(i) < Position(j)
    <2>1. \A a \in DOMAIN history' : \A i : i = history'[a] =>
            /\ Sound(history[a])' <=> Sound(i)'
            /\ Refused(history[a])' <=> Refused(i)'
            /\ Position(history[a])' = Position(i)
        BY <1>2 DEF Sound, Refused, Position, Queued
    <2>2. SUFFICES ASSUME NEW a \in DOMAIN history', NEW b \in DOMAIN history', a < b,
                          Sound(history[a])', Sound(history[b])',
                          ~Refused(history[a])', ~Refused(history[b])'
                   PROVE  Position(history[a])' < Position(history[b])'
        BY DEF AppliedAsQueued
    <2> QED
        BY <1>5, <2>1, <2>2
<1>6. Sound(i) /\ Sound(j) /\ ~Refused(i) /\ ~Refused(j) /\ i \in Queued /\ j \in Queued
    BY <1>3, <1>4, <1>5
<1>7. CASE a \in DOMAIN history /\ b \in DOMAIN history /\ i = history[a] /\ j = history[b]
    BY <1>5, <1>6, <1>7 DEF AppliedAsQueued
<1>8. CASE history' = history
    BY <1>5, <1>7, <1>8
<1>9. CASE TakesEffect(p)
    <2>1. /\ Current(p) \in Item /\ history \in Seq(Item) /\ history' = Append(history, Current(p))
          /\ pc[p] = "apply"
        BY <1>9, EffectIsDone DEF TakesEffect, TypeOK, At
    <2>2. CASE b \in DOMAIN history
        <3>1. a \in DOMAIN history
            BY <1>5, <2>1, <2>2, HistoryGrows
        <3> QED
            BY <1>5, <1>7, <2>1, <2>2, <3>1, HistoryGrows
    <2>3. CASE b \notin DOMAIN history
        <3>1. j = Current(p) /\ a \in DOMAIN history /\ i = history[a]
            BY <1>5, <2>1, <2>3, HistoryGrows
        <3>2. ~Took(j)
            BY <1>6, <2>1, <3>1 DEF NotDoneYet, Sound
        <3>3. i # j
            BY <3>1, <3>2 DEF Took
        <3>4. /\ Position(i) \in DOMAIN outbox /\ outbox[Position(i)] = i
              /\ Position(j) \in DOMAIN outbox /\ outbox[Position(j)] = j
              /\ Len(outbox) \in Nat /\ DOMAIN outbox = 1 .. Len(outbox)
            BY <1>6, QueueOfDevice
        <3>5. ~(Position(j) < Position(i))
            <4>1. SUFFICES ASSUME Position(j) < Position(i)
                           PROVE  FALSE
                OBVIOUS
            <4>2. Settled(j)
                BY <1>6, <3>1, <3>4, <4>1 DEF TurnsAreKept
            <4>3. PICK q \in Call : results[q][j] # "none"
                BY <4>2 DEF Settled
            <4>4. j \in Item /\ results[q][j] \in Refusal \union {"ok"}
                BY <1>6, <4>3, QueueOfDevice DEF TypeOK, Code
            <4> QED
                BY <1>6, <3>2, <4>4 DEF Refused, OkWasDone, Done
        <3> QED
            BY <3>3, <3>4, <3>5
    <2> QED
        BY <2>2, <2>3
<1> QED
    BY <1>8, <1>9, HistoryOfAStep

-----------------------------------------------------------------------------
(* The invariant. *)

LEMMA InitIsInvariant == Init => IInv
<1> SUFFICES ASSUME Init
             PROVE  IInv
    OBVIOUS
<1>1. outbox \in Outboxes /\ outbox \in Seq(Item) /\ Len(outbox) \in Nat
    BY QueueOfDevice DEF Init
<1>2. << >> \in Seq(Item) /\ Len(<< >>) = 0 /\ DOMAIN << >> = {}
    OBVIOUS
<1>3. TypeOK
    BY <1>1, <1>2 DEF Init, TypeOK, TodoRow, MemoRow, Step, Code
<1>4. ASSUME NEW p \in Call
      PROVE  QueueFits(p)
    <2>1. /\ queue[p] = << >> /\ pc[p] = "idle" /\ \A i \in Item : results[p][i] = "none"
        BY DEF Init
    <2>2. 0 \in 0 .. Len(outbox) /\ 0 + Len(queue[p]) <= Len(outbox) /\ Len(queue[p]) = 0
        BY <1>1, <1>2, <2>1
    <2>3. Follows(p, 0)
        BY <2>2 DEF Follows
    <2> QED
        BY <2>1, <2>2, <2>3 DEF QueueFits, Working
<1>5. LockIsKept
    BY SyncPushAssumption DEF Init, LockIsKept
<1>6. \A i : ~Took(i)
    BY <1>2 DEF Init, Took
<1>7. OkWasDone
    BY DEF Init, OkWasDone
<1>8. EffectsAccounted /\ NotDoneYet /\ (\A i \in Item : LeavesItsMark(i))
    BY <1>6 DEF EffectsAccounted, NotDoneYet, LeavesItsMark
<1>9. OverlapIsSeen
    BY DEF Init, OverlapIsSeen, Working
<1>10. GuardedOnce /\ TurnsAreKept /\ AppliedAsQueued
    BY <1>2 DEF Init, GuardedOnce, Effects, TurnsAreKept, AppliedAsQueued
<1> QED
    BY <1>1, <1>3, <1>4, <1>5, <1>7, <1>8, <1>9, <1>10 DEF IInv

LEMMA NextKeepsInvariant == IInv /\ [Next]_vars => IInv'
<1> SUFFICES ASSUME IInv, [Next]_vars
             PROVE  IInv'
    OBVIOUS
<1> USE DEF IInv
<1>1. CASE UNCHANGED vars
    <2>1. UNCHANGED <<outbox, todos, memos, keys, recorded, writer, pc, queue, results, reply,
                      history, told, torn, overlapped>>
        BY <1>1 DEF vars, tables, ghosts
    <2>2. ASSUME NEW p \in Call PROVE QueueFits(p)'
        <3>1. QueueFits(p) /\ (CallsElsewhere(p) => CallsElsewhere(p)')
            BY <2>1 DEF CallsElsewhere
        <3>2. \A d \in 0 .. Len(outbox) : Follows(p, d) => Follows(p, d)'
            BY <2>1 DEF Follows, Settled
        <3> QED
            BY <2>1, <3>1, <3>2 DEF QueueFits, Working
    <2>3. TypeOK' /\ outbox' \in Outboxes
        BY <2>1 DEF TypeOK
    <2>4. LockIsKept' /\ OkWasDone'
        BY <2>1 DEF LockIsKept, OkWasDone, Done, Took, Logged, At, Current
    <2>5. EffectsAccounted' /\ NotDoneYet' /\ OverlapIsSeen'
        BY <2>1 DEF EffectsAccounted, NotDoneYet, OverlapIsSeen, Took, Current, Queued, Working
    <2>6. \A i \in Item : LeavesItsMark(i)'
        BY <2>1 DEF LeavesItsMark, Took, Purged
    <2>7. GuardedOnce' /\ TurnsAreKept' /\ AppliedAsQueued'
        BY <2>1 DEF GuardedOnce, Guarded, Effects, Queued, Purged, TurnsAreKept, Position, Settled,
           AppliedAsQueued, Sound, Refused
    <2> QED
        BY <2>2, <2>3, <2>4, <2>5, <2>6, <2>7
<1>2. ASSUME NEW p \in Call, Request(p) \/ CallStep(p) \/ ParentMissing(p) \/ Drop(p)
      PROVE  IInv'
    <2>1. StepOf(p) /\ OthersWait(p)
        BY <1>2, KindsOfSteps
    <2>2. outbox' = outbox
        BY <2>1, SettledStays
    <2>3. TypeOK'
        BY <2>1, StepKeepsTypes
    <2>4. \A q \in Call : QueueFits(q)'
        BY <2>1, StepKeepsQueues
    <2>5. LockIsKept' /\ OkWasDone'
        BY <2>1, StepKeepsLock, StepKeepsOk
    <2>6. EffectsAccounted' /\ OverlapIsSeen' /\ NotDoneYet'
        BY <2>1, <2>2, StepKeepsAccount, StepSeesOverlap, StepFindsDone
    <2>7. \A i \in Item : LeavesItsMark(i)'
        BY <2>1, StepKeepsMarks
    <2>8. GuardedOnce'
        BY <2>1, <2>2, StepIsGuarded
    <2>9. TurnsAreKept' /\ AppliedAsQueued'
        BY <2>1, StepKeepsTurns, StepKeepsOrder
    <2> QED
        BY <2>2, <2>3, <2>4, <2>5, <2>6, <2>7, <2>8, <2>9
<1> QED
    BY <1>1, <1>2 DEF Next, Quiescent

\* The inductive invariant always holds: an operation that took effect is accounted for.
THEOREM AlwaysIInv == Spec => []IInv
<1> QED
    BY InitIsInvariant, NextKeepsInvariant, PTL DEF Spec

\* Every table and every call keeps its type.
THEOREM PushTyped == Spec => []TypeOK
<1>1. IInv => TypeOK
    BY DEF IInv
<1> QED
    BY <1>1, AlwaysIInv, PTL

\* Operations take effect in the order they were queued, each at most once, unless a
\* push was dropped or failed half way through one, two worked on it at once, or a push
\* refused it or answered an internal error, which lets the batch go on without it.
THEOREM EffectsInOrder == Spec => []AppliedAsQueued
<1>1. IInv => AppliedAsQueued
    BY DEF IInv
<1> QED
    BY <1>1, AlwaysIInv, PTL

\* An operation with an id, a key or a base of its own takes effect at most once,
\* however its pushes are dropped, fail or overlap, unless its todo is purged.
THEOREM GuardedTakesEffectOnce == Spec => []GuardedOnce
<1>1. IInv => GuardedOnce
    BY DEF IInv
<1> QED
    BY <1>1, AlwaysIInv, PTL

\* What is answered ok took effect, and its row is in the log, about to be, or known lost.
THEOREM OkIsTold == Spec => []AcknowledgedIsTold
<1>1. IInv => AcknowledgedIsTold
    <2>1. ASSUME IInv, NEW p \in Call, NEW i \in Item, results[p][i] = "ok"
          PROVE  Effects(i) # {} /\ Logged(i)
        <3>1. Took(i) /\ Logged(i)
            BY <2>1 DEF IInv, OkWasDone, Done
        <3> QED
            BY <3>1 DEF Took, Effects
    <2> QED
        BY <2>1 DEF AcknowledgedIsTold, Logged
<1> QED
    BY <1>1, AlwaysIInv, PTL

\* A step that refuses a named operation refuses one that nobody has done, unless a call
\* was dropped or failed half way through it or two worked on it at once.
THEOREM RefusedWasNotDone == Spec => RefusalIsOfNothingDone
<1>1. ASSUME IInv, [Next]_vars
      PROVE  [\A p \in Call : \A i \in Item :
                /\ results[p][i] = "none" /\ results'[p][i] \in Refusal
                /\ i \in Queued \intersect Named
                => Effects(i) = {} \/ i \in torn' \union overlapped]_vars
    <2>1. SUFFICES ASSUME NEW q \in Call, NEW i \in Queued \intersect Named, i \in Item,
                          results[q][i] = "none", results'[q][i] \in Refusal,
                          ~(UNCHANGED vars)
                   PROVE  Effects(i) = {} \/ i \in torn' \union overlapped
        OBVIOUS
    <2>2. PICK p \in Call : Request(p) \/ CallStep(p) \/ ParentMissing(p) \/ Drop(p)
        BY <1>1, <2>1 DEF Next, Quiescent
    <2>3. StepOf(p) /\ OthersWait(p)
        BY <1>1, <2>2, KindsOfSteps DEF IInv
    <2>4. q = p /\ results' # results
        BY <2>1, <2>3 DEF OthersWait, Refusal
    <2>5. ~(\E code \in {"ok"} : Answers(p, code))
        <3>1. SUFFICES ASSUME Answers(p, "ok")
                       PROVE  FALSE
            OBVIOUS
        <3>2. results'[p][i] = results[p][i] \/ results'[p][i] = "ok"
            BY <1>1, <2>1, <3>1 DEF Answers, IInv, TypeOK
        <3> QED
            BY <2>1, <2>4, <3>2 DEF Refusal
    <2>6. Refuses(p) \/ FailsHalfWay(p)
        BY <2>3, <2>4, <2>5 DEF StepOf, Begins, TakesUp, OnlyCalls, FindsResult, FindsEffect,
           LogsAndAnswers, Stores, TakesEffect, GoesToRecord, Ends
    <2>7. PICK code \in Refusal : Answers(p, code)
        BY <2>6 DEF Refuses, FailsHalfWay
    <2>8. i = Current(p)
        BY <1>1, <2>1, <2>4, <2>7 DEF Answers, IInv, TypeOK, Refusal
    <2>9. i \in torn' \union overlapped \/ ~Took(i)
        BY <1>1, <2>6, <2>8 DEF Refuses, FailsHalfWay, IInv, NotDoneYet
    <2> QED
        BY <2>9 DEF Took, Effects
<1> QED
    BY <1>1, AlwaysIInv, PTL DEF Spec, RefusalIsOfNothingDone

=============================================================================
