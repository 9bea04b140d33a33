---------------------------- MODULE SearchIndex ----------------------------
(***************************************************************************)
(* The full-text index of memos.  A save marks its memo in search_dirty    *)
(* (crates/store/src/memos.rs); every two seconds the loop of state.rs     *)
(* takes the oldest marks (process_search_dirty), and for each of them     *)
(* reads the memo, replaces its row in the index and deletes the mark, in  *)
(* statements of their own and without the write lock.  A restart finds    *)
(* the marks where they were.                                              *)
(*                                                                         *)
(* Of a memo's text and title only versions are kept.  What a save does    *)
(* under the lock is MemoStore's; here it is one step.                     *)
(***************************************************************************)
EXTENDS Naturals, Sequences, SequencesExt

CONSTANTS
    Memo,
    Limit,       \* of marks the loop takes at a time: 64
    MaxSaves,    \* a bound on the saves of a memo
    MaxRestarts, \* a bound on restarts
    MaxFailures  \* a bound on statements that fail and are ignored

ASSUME SearchAssumption ==
    /\ Limit \in Nat \ {0}
    /\ MaxSaves \in Nat /\ MaxRestarts \in Nat /\ MaxFailures \in Nat

VARIABLES
    memos,     \* tables memos and memo_contents: versions of text and title
    marks,     \* table search_dirty, by marked_at
    index,     \* table memos_fts
    loop,      \* the background loop
    restarts, failures,
    outrun,    \* history: memos saved between the loop's read and the end of its turn
    unwritten, \* history: memos whose mark or row of the index could not be written
    retitled   \* history: memos whose title was saved without their text

vars == <<memos, marks, index, loop, restarts, failures, outrun, unwritten, retitled>>

-----------------------------------------------------------------------------
(* Values. *)

MemoRow == [state : {"absent", "live", "purged"}, text : Nat, title : Nat]
Absent == [state |-> "absent", text |-> 0, title |-> 0]

LoopRow == [step : {"sleep", "read", "delete", "insert", "clear"}, todo : Seq(Memo),
            row : MemoRow]
Asleep == [step |-> "sleep", todo |-> << >>, row |-> Absent]

\* A memo has one mark, by the table's key.
Without(s, m) ==
    IF m \in ToSet(s) THEN RemoveAt(s, CHOOSE n \in DOMAIN s : s[n] = m) ELSE s

-----------------------------------------------------------------------------
Init ==
    /\ memos = [m \in Memo |-> Absent]
    /\ marks = << >>
    /\ index = [m \in Memo |-> Absent]
    /\ loop = Asleep
    /\ restarts = 0
    /\ failures = 0
    /\ outrun = {}
    /\ unwritten = {}
    /\ retitled = {}

-----------------------------------------------------------------------------
(* Saves. *)

\* A statement fails and the code goes on without it.
Failure ==
    /\ failures < MaxFailures
    /\ failures' = failures + 1

\* A memo as a save leaves it, which makes it when it is not there.
Saved(op, m) ==
    LET row == memos[m] IN
    [state |-> IF op = "content" THEN "live" ELSE IF op = "purge" THEN "purged" ELSE row.state,
     text |-> IF op = "content" THEN row.text + 1 ELSE row.text,
     title |-> IF op = "meta" THEN row.title + 1 ELSE row.title]

\* Mutant of Marked: a memo is marked again, mark or not.
MarkedTwice(op, m) ==
    IF op = "content" THEN Append(marks, m)
    ELSE IF op = "purge" THEN Without(marks, m)
    ELSE marks

\* Mutant of Marked: only a new memo is marked.
MarkedNew(op, m) ==
    IF op = "content" /\ memos[m].text = 0 THEN Append(marks, m)
    ELSE IF op = "purge" THEN Without(marks, m)
    ELSE marks

\* A content save marks its memo, anew if need be; a purge takes the mark along.
Marked(op, m) ==
    IF op = "content" THEN Append(Without(marks, m), m)
    ELSE IF op = "purge" THEN Without(marks, m)
    ELSE marks

\* A memo is made, saved or purged.  That its mark could not be set is ignored.
Change(op, m) ==
    /\ memos[m].state = "live" \/ (op = "content" /\ memos[m].state = "absent")
    /\ memos[m].text + memos[m].title < MaxSaves
    /\ memos' = [memos EXCEPT ![m] = Saved(op, m)]
    /\ \/ marks' = Marked(op, m) /\ UNCHANGED <<failures, unwritten>>
       \/ /\ op = "content" /\ Failure
          /\ unwritten' = unwritten \union {m}
          /\ UNCHANGED marks
    /\ outrun' = IF /\ op = "content"
                    /\ loop.step \in {"delete", "insert", "clear"}
                    /\ Head(loop.todo) = m
                 THEN outrun \union {m} ELSE outrun
    /\ retitled' = IF op = "meta" THEN retitled \union {m}
                   ELSE IF op = "content" THEN retitled \ {m}
                   ELSE retitled
    /\ UNCHANGED <<index, loop, restarts>>

-----------------------------------------------------------------------------
(* The loop of state.rs. *)

\* The oldest marks.
Wake ==
    /\ loop.step = "sleep"
    /\ marks # << >>
    /\ loop' = [loop EXCEPT !.step = "read",
                            !.todo = SubSeq(marks, 1, IF Len(marks) < Limit THEN Len(marks)
                                                      ELSE Limit)]
    /\ UNCHANGED <<memos, marks, index, outrun, unwritten, retitled, restarts, failures>>

\* One statement joins the two tables; a memo that is gone is passed over.  An error
\* ends the turn, and the marks are met again at the next one.
ReadMemo ==
    LET m == Head(loop.todo) IN
    /\ loop.step = "read"
    /\ \/ /\ loop' = [loop EXCEPT !.row = memos[m],
                                   !.step = IF memos[m].state = "live" THEN "delete" ELSE "clear"]
          /\ outrun' = outrun \ {m}
          /\ unwritten' = unwritten \ {m}
          /\ UNCHANGED failures
       \/ Failure /\ loop' = Asleep /\ UNCHANGED <<outrun, unwritten>>
    /\ UNCHANGED <<memos, marks, index, retitled, restarts>>

\* The old row goes; that it could not is ignored.
DeleteIndexed ==
    LET m == Head(loop.todo) IN
    /\ loop.step = "delete"
    /\ loop' = [loop EXCEPT !.step = "insert"]
    /\ \/ index' = [index EXCEPT ![m] = Absent] /\ UNCHANGED <<failures, unwritten>>
       \/ Failure /\ UNCHANGED index /\ unwritten' = unwritten \union {m}
    /\ UNCHANGED <<memos, marks, outrun, retitled, restarts>>

InsertIndexed ==
    LET m == Head(loop.todo) IN
    /\ loop.step = "insert"
    /\ loop' = [loop EXCEPT !.step = "clear"]
    /\ \/ index' = [index EXCEPT ![m] = loop.row] /\ UNCHANGED <<failures, unwritten>>
       \/ Failure /\ UNCHANGED index /\ unwritten' = unwritten \union {m}
    /\ UNCHANGED <<memos, marks, outrun, retitled, restarts>>

\* Mutant of ClearMark: the loop takes all the marks it has fetched at once.
ClearMarkAll(m) == SelectSeq(marks, LAMBDA x : x \notin ToSet(loop.todo))

\* The mark goes, also one that was set anew since the read.
ClearMark(m) == Without(marks, m)

\* The mark stays when its deletion fails; on to the next memo.
Clear ==
    LET m == Head(loop.todo)
        rest == Tail(loop.todo)
    IN
    /\ loop.step = "clear"
    /\ \/ marks' = ClearMark(m) /\ UNCHANGED failures
       \/ Failure /\ UNCHANGED marks
    /\ loop' = IF rest = << >> THEN Asleep ELSE [Asleep EXCEPT !.step = "read", !.todo = rest]
    /\ UNCHANGED <<memos, index, outrun, unwritten, retitled, restarts>>

LoopStep == Wake \/ ReadMemo \/ DeleteIndexed \/ InsertIndexed \/ Clear

\* The server goes down and comes up: the tables stay, the loop's turn is forgotten.
Restart ==
    /\ restarts < MaxRestarts
    /\ restarts' = restarts + 1
    /\ loop' = Asleep
    /\ UNCHANGED <<memos, marks, index, failures, outrun, unwritten, retitled>>

Next ==
    \/ \E op \in {"content", "meta", "purge"}, m \in Memo : Change(op, m)
    \/ LoopStep
    \/ Restart

\* The loop never ends.
Spec == Init /\ [][Next]_vars /\ WF_vars(LoopStep)

-----------------------------------------------------------------------------
(* Properties. *)

\* Every table and the loop have their types, and a memo has one mark.
TypeOK ==
    /\ memos \in [Memo -> MemoRow] /\ index \in [Memo -> MemoRow]
    /\ marks \in Seq(Memo) /\ IsInjective(marks)
    /\ loop \in LoopRow
    /\ restarts \in Nat /\ failures \in Nat
    /\ outrun \subseteq Memo /\ unwritten \subseteq Memo /\ retitled \subseteq Memo

Indexed(m) ==
    \/ index[m] = memos[m]
    \/ index[m].state = "live" /\ index[m].text = memos[m].text /\ m \in retitled

\* A search finds a memo by its text, or will: a memo the index does not show as it is
\* has a mark, across restarts too, unless it was saved during the loop's own turn at
\* it or a statement failed.  Of the title that holds only as of the last content save.
StaleIsMarked ==
    \A m \in Memo : memos[m].state = "live" =>
        Indexed(m) \/ m \in ToSet(marks) \/ m \in outrun \union unwritten

\* Every text is in the index some time, or left out by a save in the loop's turn or by
\* a failure.
IsIndexed == \A m \in Memo :
    []<>(memos[m].state = "live" => Indexed(m) \/ m \in outrun \union unwritten)
=============================================================================
