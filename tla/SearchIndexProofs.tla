------------------------- MODULE SearchIndexProofs -------------------------
(***************************************************************************)
(* The safety properties of SearchIndex, for any number of memos, marks    *)
(* taken at a time, saves, restarts and failures.                          *)
(*                                                                         *)
(* The loop deletes a mark that may have been set anew since it read the   *)
(* memo.  The invariant says what the loop can still know when it does: it *)
(* has before it only memos that are marked, and what it has read of the   *)
(* first of them is the memo, unless that was saved in its turn.           *)
(***************************************************************************)
EXTENDS SearchIndex, SequenceTheorems, TLAPS

-----------------------------------------------------------------------------
(* The inductive invariant. *)

Turn == Head(loop.todo)

Awake == loop.step # "sleep"

\* What the loop has before it is marked, each memo once, unless it was purged since.
MarksAreTaken ==
    /\ Awake => loop.todo # << >>
    /\ IsInjective(loop.todo)
    /\ \A m \in ToSet(loop.todo) : Awake /\ memos[m].state # "purged" => m \in ToSet(marks)

\* A row, of the loop or of the index, shows a memo as it is, but for its title.
Shows(row, m) ==
    \/ row = memos[m]
    \/ row.state = "live" /\ row.text = memos[m].text /\ m \in retitled

\* What the loop has read is the memo, unless it was saved or purged in the loop's turn.
ReadIsFresh ==
    loop.step \in {"delete", "insert"} /\ memos[Turn].state = "live" /\ Turn \notin outrun =>
        Shows(loop.row, Turn)

\* The mark that the loop is about to delete says nothing that the index does not show.
ClearedIsShown ==
    loop.step = "clear" /\ memos[Turn].state = "live" =>
        Shows(index[Turn], Turn) \/ Turn \in outrun \union unwritten

IInv ==
    /\ TypeOK
    /\ MarksAreTaken
    /\ ReadIsFresh
    /\ ClearedIsShown
    /\ StaleIsMarked

-----------------------------------------------------------------------------
(* Sequences without repetition. *)

\* The elements of a sequence, by their places.
LEMMA Elements ==
    ASSUME NEW S, NEW s \in Seq(S)
    PROVE  /\ Len(s) \in Nat /\ DOMAIN s = 1 .. Len(s) /\ ToSet(s) \subseteq S
           /\ \A x : x \in ToSet(s) <=> \E n \in 1 .. Len(s) : s[n] = x
BY DEF ToSet

\* A part of a sequence has no repetition either.
LEMMA PartHasNoRepetition ==
    ASSUME NEW S, NEW s \in Seq(S), IsInjective(s), NEW k \in 1 .. Len(s)
    PROVE  LET part == SubSeq(s, 1, k) IN
           /\ part \in Seq(S) /\ part # << >> /\ IsInjective(part) /\ ToSet(part) \subseteq ToSet(s)
<1> DEFINE part == SubSeq(s, 1, k)
<1>1. Len(s) \in Nat /\ DOMAIN s = 1 .. Len(s) /\ \A n \in 1 .. k : s[n] \in S
    OBVIOUS
<1>2. part \in Seq(S) /\ Len(part) = k /\ \A n \in 1 .. k : part[n] = s[n]
    <2>1. /\ part \in Seq(S) /\ Len(part) = IF 1 <= k THEN k - 1 + 1 ELSE 0
          /\ \A n \in 1 .. k - 1 + 1 : part[n] = s[1 + n - 1]
        BY <1>1, SubSeqProperties
    <2>2. k - 1 + 1 = k /\ 1 <= k /\ \A n \in 1 .. k : 1 + n - 1 = n
        BY <1>1
    <2> QED
        BY <2>1, <2>2
<1>3. part # << >> /\ DOMAIN part = 1 .. k
    BY <1>1, <1>2
<1>4. IsInjective(part)
    BY <1>1, <1>2, <1>3 DEF IsInjective
<1>5. ToSet(part) \subseteq ToSet(s)
    BY <1>1, <1>2, <1>3 DEF ToSet
<1> QED
    BY <1>2, <1>3, <1>4, <1>5

\* The rest of a sequence has no repetition, and not its first element.
LEMMA RestHasNoRepetition ==
    ASSUME NEW S, NEW s \in Seq(S), IsInjective(s), s # << >>
    PROVE  /\ Head(s) \in S /\ Head(s) \in ToSet(s) /\ Tail(s) \in Seq(S) /\ IsInjective(Tail(s))
           /\ ToSet(Tail(s)) \subseteq ToSet(s) \ {Head(s)}
<1>1. /\ Len(s) \in Nat \ {0} /\ DOMAIN s = 1 .. Len(s) /\ Head(s) = s[1] /\ Head(s) \in S
      /\ Tail(s) \in Seq(S) /\ DOMAIN Tail(s) = 1 .. Len(s) - 1
      /\ \A n \in 1 .. Len(s) - 1 : Tail(s)[n] = s[n + 1]
    OBVIOUS
<1>2. \A n \in 1 .. Len(s) - 1 : n + 1 \in 1 .. Len(s) /\ n + 1 # 1
    BY <1>1
<1>3. 1 \in 1 .. Len(s)
    BY <1>1
<1>4. IsInjective(Tail(s))
    <2>1. SUFFICES ASSUME NEW m \in 1 .. Len(s) - 1, NEW n \in 1 .. Len(s) - 1,
                          Tail(s)[m] = Tail(s)[n]
                   PROVE  m = n
        BY <1>1 DEF IsInjective
    <2>2. m + 1 = n + 1
        BY <1>1, <1>2, <2>1 DEF IsInjective
    <2> QED
        BY <1>1, <2>2
<1>5. ASSUME NEW x \in ToSet(Tail(s))
      PROVE  x \in ToSet(s) /\ x # Head(s)
    <2>1. PICK n \in 1 .. Len(s) - 1 : Tail(s)[n] = x
        BY <1>1 DEF ToSet
    <2>2. x = s[n + 1]
        BY <1>1, <2>1
    <2>3. x # s[1]
        BY <1>1, <1>2, <1>3, <2>2 DEF IsInjective
    <2> QED
        BY <1>1, <1>2, <2>2, <2>3 DEF ToSet
<1> QED
    BY <1>1, <1>3, <1>4, <1>5 DEF ToSet

\* Marks without that of a memo.
LEMMA WithoutOne ==
    ASSUME NEW S, NEW s \in Seq(S), IsInjective(s), NEW m
    PROVE  /\ Without(s, m) \in Seq(S) /\ IsInjective(Without(s, m))
           /\ ToSet(Without(s, m)) = ToSet(s) \ {m}
<1>1. CASE m \notin ToSet(s)
    BY <1>1 DEF Without
<1>2. CASE m \in ToSet(s)
    <2> DEFINE k == CHOOSE n \in DOMAIN s : s[n] = m
               l == Len(s)
               front == SubSeq(s, 1, k - 1)
               back == SubSeq(s, k + 1, l)
               t == front \o back
    <2>1. l \in Nat /\ DOMAIN s = 1 .. l /\ \A n \in 1 .. l : s[n] \in S
        OBVIOUS
    <2>2. k \in 1 .. l /\ s[k] = m
        <3>1. \E n \in DOMAIN s : s[n] = m
            BY <1>2 DEF ToSet
        <3> QED
            BY <2>1, <3>1
    <2>3. Without(s, m) = t
        BY <1>2 DEF Without, RemoveAt
    <2> HIDE DEF k, l
    <2>4. /\ front \in Seq(S) /\ Len(front) = k - 1
          /\ \A n \in 1 .. k - 1 : front[n] = s[n]
        <3>1. /\ 1 \in Int /\ k - 1 \in Int /\ \A n \in 1 .. k - 1 : s[n] \in S
            BY <2>1, <2>2
        <3>2. /\ front \in Seq(S) /\ Len(front) = IF 1 <= k - 1 THEN k - 1 - 1 + 1 ELSE 0
              /\ \A n \in 1 .. k - 1 - 1 + 1 : front[n] = s[1 + n - 1]
            BY <3>1, SubSeqProperties
        <3>3. k - 1 - 1 + 1 = k - 1 /\ (~(1 <= k - 1) => k - 1 = 0)
              /\ \A n \in 1 .. k - 1 : 1 + n - 1 = n
            BY <2>1, <2>2
        <3> QED
            BY <3>2, <3>3
    <2>5. /\ back \in Seq(S) /\ Len(back) = l - k
          /\ \A n \in 1 .. l - k : back[n] = s[k + n]
        <3>1. /\ k + 1 \in Int /\ l \in Int /\ \A n \in k + 1 .. l : s[n] \in S
            BY <2>1, <2>2
        <3>2. /\ back \in Seq(S) /\ Len(back) = IF k + 1 <= l THEN l - (k + 1) + 1 ELSE 0
              /\ \A n \in 1 .. l - (k + 1) + 1 : back[n] = s[k + 1 + n - 1]
            BY <3>1, SubSeqProperties
        <3>3. l - (k + 1) + 1 = l - k /\ (~(k + 1 <= l) => l - k = 0)
              /\ \A n \in 1 .. l - k : k + 1 + n - 1 = k + n
            BY <2>1, <2>2
        <3> QED
            BY <3>2, <3>3
    <2>6. /\ t \in Seq(S) /\ Len(t) = l - 1
          /\ \A n \in 1 .. l - 1 : t[n] = IF n < k THEN s[n] ELSE s[n + 1]
        <3>1. /\ t \in Seq(S) /\ Len(t) = Len(front) + Len(back)
              /\ \A n \in 1 .. Len(front) + Len(back) :
                    t[n] = IF n <= Len(front) THEN front[n] ELSE back[n - Len(front)]
            BY <2>4, <2>5, ConcatProperties
        <3>2. k - 1 + (l - k) = l - 1
            BY <2>1, <2>2
        <3>3. ASSUME NEW n \in 1 .. l - 1
              PROVE  t[n] = IF n < k THEN s[n] ELSE s[n + 1]
            <4>1. t[n] = IF n <= k - 1 THEN front[n] ELSE back[n - (k - 1)]
                BY <2>4, <2>5, <3>1, <3>2
            <4>2. CASE n < k
                BY <2>1, <2>2, <2>4, <4>1, <4>2
            <4>3. CASE ~(n < k)
                <5>1. n - (k - 1) \in 1 .. l - k /\ k + (n - (k - 1)) = n + 1 /\ ~(n <= k - 1)
                    BY <2>1, <2>2, <4>3
                <5> QED
                    BY <2>5, <4>1, <4>3, <5>1
            <4> QED
                BY <4>2, <4>3
        <3> QED
            BY <2>4, <2>5, <3>1, <3>2, <3>3
    <2> HIDE DEF t
    <2>7. DOMAIN t = 1 .. l - 1 /\ DOMAIN s = 1 .. l
        BY <2>1, <2>6
    <2> DEFINE at(n) == IF n < k THEN n ELSE n + 1
    <2>8. ASSUME NEW n \in 1 .. l - 1
          PROVE  at(n) \in 1 .. l /\ at(n) # k /\ t[n] = s[at(n)]
        BY <2>1, <2>2, <2>6
    <2>9. IsInjective(t)
        <3>1. SUFFICES ASSUME NEW i \in 1 .. l - 1, NEW j \in 1 .. l - 1, t[i] = t[j]
                       PROVE  i = j
            BY <2>7 DEF IsInjective
        <3>2. at(i) = at(j)
            <4>1. at(i) \in DOMAIN s /\ at(j) \in DOMAIN s /\ s[at(i)] = s[at(j)]
                BY <2>7, <2>8, <3>1
            <4> HIDE DEF at
            <4> QED
                BY <4>1 DEF IsInjective
        <3> QED
            BY <2>1, <2>2, <3>2
    <2>10. ASSUME NEW x \in ToSet(t)
           PROVE  x \in ToSet(s) \ {m}
        <3>1. PICK n \in 1 .. l - 1 : t[n] = x
            BY <2>7 DEF ToSet
        <3>2. at(n) \in DOMAIN s /\ at(n) # k /\ x = s[at(n)] /\ k \in DOMAIN s
            BY <2>2, <2>7, <2>8, <3>1
        <3> HIDE DEF at
        <3> QED
            BY <2>2, <3>2 DEF IsInjective, ToSet
    <2>11. ASSUME NEW x \in ToSet(s), x # m
           PROVE  x \in ToSet(t)
        <3>1. PICK n \in 1 .. l : s[n] = x
            BY <2>7 DEF ToSet
        <3>2. n # k
            BY <2>2, <2>11, <3>1
        <3>3. CASE n < k
            <4>1. n \in 1 .. l - 1 /\ t[n] = s[n]
                BY <2>1, <2>2, <2>6, <3>3
            <4> QED
                BY <2>7, <3>1, <4>1 DEF ToSet
        <3>4. CASE n > k
            <4>1. n - 1 \in 1 .. l - 1 /\ ~(n - 1 < k) /\ n - 1 + 1 = n
                BY <2>1, <2>2, <3>4
            <4>2. t[n - 1] = s[n]
                BY <2>6, <4>1
            <4> QED
                BY <2>7, <3>1, <4>1, <4>2 DEF ToSet
        <3> QED
            BY <2>1, <2>2, <3>2, <3>3, <3>4
    <2> QED
        BY <2>3, <2>6, <2>9, <2>10, <2>11 DEF t
<1> QED
    BY <1>1, <1>2

\* Marks with that of a memo at their end.
LEMMA WithOneMore ==
    ASSUME NEW S, NEW s \in Seq(S), IsInjective(s), NEW m \in S, m \notin ToSet(s)
    PROVE  /\ Append(s, m) \in Seq(S) /\ IsInjective(Append(s, m))
           /\ ToSet(Append(s, m)) = ToSet(s) \union {m}
<1> DEFINE t == Append(s, m)
<1>1. /\ t \in Seq(S) /\ Len(s) \in Nat /\ DOMAIN s = 1 .. Len(s)
      /\ DOMAIN t = 1 .. Len(s) + 1 /\ t[Len(s) + 1] = m
      /\ \A n \in 1 .. Len(s) : t[n] = s[n]
    OBVIOUS
<1>2. \A n \in 1 .. Len(s) : s[n] # m
    BY <1>1 DEF ToSet
<1>3. \A n \in 1 .. Len(s) + 1 : n \in 1 .. Len(s) \/ n = Len(s) + 1
    BY <1>1
<1>4. 1 .. Len(s) \subseteq 1 .. Len(s) + 1 /\ Len(s) + 1 \in 1 .. Len(s) + 1
    BY <1>1
<1> HIDE DEF t
<1>5. IsInjective(t)
    BY <1>1, <1>2, <1>3 DEF IsInjective
<1>6. ToSet(t) = ToSet(s) \union {m}
    BY <1>1, <1>3, <1>4 DEF ToSet
<1> QED
    BY <1>1, <1>5, <1>6 DEF t

-----------------------------------------------------------------------------
(* Rows and marks. *)

Ops == {"content", "meta", "purge"}

\* A memo as a save leaves it is a row.
LEMMA SavedIsRow ==
    ASSUME TypeOK, NEW m \in Memo, NEW op \in Ops
    PROVE  /\ Saved(op, m) \in MemoRow
           /\ op = "content" => Saved(op, m).state = "live"
           /\ op = "purge" => Saved(op, m).state = "purged"
           /\ op = "meta" => /\ Saved(op, m).state = memos[m].state
                             /\ Saved(op, m).text = memos[m].text
<1>1. memos[m] \in MemoRow
    BY DEF TypeOK
<1>2. /\ memos[m].state \in {"absent", "live", "purged"}
      /\ memos[m].text \in Nat /\ memos[m].title \in Nat
      /\ memos[m].text + 1 \in Nat /\ memos[m].title + 1 \in Nat
    BY <1>1 DEF MemoRow
<1> QED
    BY <1>2 DEF Saved, MemoRow, Ops

\* The marks after a save.
LEMMA MarksAfter ==
    ASSUME TypeOK, NEW m \in Memo, NEW op \in Ops
    PROVE  /\ Marked(op, m) \in Seq(Memo) /\ IsInjective(Marked(op, m))
           /\ op = "content" => ToSet(Marked(op, m)) = ToSet(marks) \union {m}
           /\ op = "purge" => ToSet(Marked(op, m)) = ToSet(marks) \ {m}
           /\ op = "meta" => Marked(op, m) = marks
<1>1. marks \in Seq(Memo) /\ IsInjective(marks)
    BY DEF TypeOK
<1>2. /\ Without(marks, m) \in Seq(Memo) /\ IsInjective(Without(marks, m))
      /\ ToSet(Without(marks, m)) = ToSet(marks) \ {m}
    BY <1>1, WithoutOne
<1>3. LET t == Append(Without(marks, m), m) IN
      t \in Seq(Memo) /\ IsInjective(t) /\ ToSet(t) = ToSet(marks) \union {m}
    BY <1>2, WithOneMore
<1> QED
    BY <1>1, <1>2, <1>3 DEF Marked, Ops

\* The loop, its memo and what it knows of a memo.
LEMMA LoopFacts ==
    ASSUME TypeOK
    PROVE  /\ loop.step \in {"sleep", "read", "delete", "insert", "clear"}
           /\ loop.todo \in Seq(Memo) /\ loop.row \in MemoRow
           /\ loop.todo # << >> => Turn \in Memo
<1>1. /\ loop.step \in {"sleep", "read", "delete", "insert", "clear"}
      /\ loop.todo \in Seq(Memo) /\ loop.row \in MemoRow
    BY DEF TypeOK, LoopRow
<1>2. loop.todo # << >> => Head(loop.todo) \in Memo
    BY <1>1
<1> QED
    BY <1>1, <1>2 DEF Turn

-----------------------------------------------------------------------------
(* Saves. *)

LEMMA ChangeKeeps ==
    ASSUME IInv, NEW op \in Ops, NEW m \in Memo, Change(op, m)
    PROVE  IInv'
<1>1. /\ memos' = [memos EXCEPT ![m] = Saved(op, m)]
      /\ index' = index /\ loop' = loop /\ restarts' = restarts
      /\ memos[m].state = "live" \/ (op = "content" /\ memos[m].state = "absent")
    BY DEF Change
<1>2. /\ \/ marks' = Marked(op, m) /\ failures' = failures /\ unwritten' = unwritten
         \/ /\ op = "content" /\ failures' = failures + 1
            /\ unwritten' = unwritten \union {m} /\ marks' = marks
    BY DEF Change, Failure
<1>3. /\ outrun \subseteq outrun' /\ outrun' \subseteq outrun \union {m}
      /\ op = "content" /\ loop.step \in {"delete", "insert", "clear"} /\ Turn = m
         => m \in outrun'
    BY DEF Change, Turn
<1>4. retitled' = IF op = "meta" THEN retitled \union {m}
                  ELSE IF op = "content" THEN retitled \ {m}
                  ELSE retitled
    BY DEF Change
<1>5. TypeOK /\ MarksAreTaken /\ ReadIsFresh /\ ClearedIsShown /\ StaleIsMarked
    BY DEF IInv
<1>6. TypeOK'
    <2>1. memos' \in [Memo -> MemoRow]
        BY <1>1, <1>5, SavedIsRow DEF TypeOK
    <2>2. marks' \in Seq(Memo) /\ IsInjective(marks')
        BY <1>2, <1>5, MarksAfter DEF TypeOK
    <2>3. failures' \in Nat /\ unwritten' \subseteq Memo /\ outrun' \subseteq Memo
          /\ retitled' \subseteq Memo
        BY <1>2, <1>3, <1>4, <1>5 DEF TypeOK
    <2> QED
        BY <1>1, <1>5, <2>1, <2>2, <2>3 DEF TypeOK
<1>7. ASSUME NEW x \in Memo, x # m
      PROVE  /\ memos'[x] = memos[x]
             /\ x \in ToSet(marks') <=> x \in ToSet(marks)
             /\ x \in retitled' <=> x \in retitled
    <2>1. memos'[x] = memos[x]
        BY <1>1, <1>5, <1>7 DEF TypeOK
    <2>2. x \in ToSet(marks') <=> x \in ToSet(marks)
        BY <1>2, <1>5, <1>7, MarksAfter DEF Ops
    <2> QED
        BY <1>4, <1>7, <2>1, <2>2
<1>8. memos'[m] = Saved(op, m) /\ memos[m].state # "purged" /\ unwritten \subseteq unwritten'
    BY <1>1, <1>2, <1>5 DEF TypeOK
<1>9. /\ op # "purge" /\ m \in ToSet(marks) => m \in ToSet(marks')
      /\ op = "content" => m \in ToSet(marks') \/ m \in unwritten'
    BY <1>2, <1>5, MarksAfter DEF Ops
<1>10. op \in {"content", "meta"} \/ memos'[m].state = "purged"
    BY <1>5, <1>8, SavedIsRow DEF Ops
<1>11. ASSUME NEW row, Shows(row, m), op = "meta"
       PROVE  /\ row.state = "live" /\ row.text = memos'[m].text /\ m \in retitled'
    BY <1>1, <1>4, <1>5, <1>8, <1>11, SavedIsRow DEF Shows
<1>12. MarksAreTaken'
    <2>1. loop.todo \in Seq(Memo)
        BY <1>5, LoopFacts
    <2>2. ASSUME NEW x \in ToSet(loop.todo), Awake, memos'[x].state # "purged"
          PROVE  x \in ToSet(marks')
        <3>1. x \in Memo
            BY <2>1, Elements
        <3>2. CASE x # m
            BY <1>5, <1>7, <2>2, <3>1, <3>2 DEF MarksAreTaken
        <3>3. CASE x = m
            BY <1>5, <1>8, <1>9, <1>10, <2>2, <3>3 DEF MarksAreTaken
        <3> QED
            BY <3>2, <3>3
    <2> QED
        BY <1>1, <1>5, <2>2 DEF MarksAreTaken, Awake
<1>13. ASSUME loop.step \in {"delete", "insert"}, memos'[Turn].state = "live", Turn \notin outrun'
       PROVE  \/ loop.row = memos'[Turn]
              \/ loop.row.state = "live" /\ loop.row.text = memos'[Turn].text /\ Turn \in retitled'
    <2>1. Turn \in Memo
        BY <1>5, <1>13, LoopFacts DEF MarksAreTaken, Awake
    <2>2. CASE Turn # m
        BY <1>3, <1>5, <1>7, <1>13, <2>1, <2>2 DEF ReadIsFresh, Shows
    <2>3. CASE Turn = m
        <3>1. op = "meta"
            BY <1>3, <1>10, <1>13, <2>3
        <3>2. Shows(loop.row, m)
            BY <1>1, <1>3, <1>5, <1>13, <2>3, <3>1 DEF ReadIsFresh
        <3> QED
            BY <1>11, <2>3, <3>1, <3>2
    <2> QED
        BY <2>2, <2>3
<1>14. ASSUME loop.step = "clear", memos'[Turn].state = "live", Turn \notin outrun' \union unwritten'
       PROVE  \/ index[Turn] = memos'[Turn]
              \/ index[Turn].state = "live" /\ index[Turn].text = memos'[Turn].text
                 /\ Turn \in retitled'
    <2>1. Turn \in Memo
        BY <1>5, <1>14, LoopFacts DEF MarksAreTaken, Awake
    <2>2. CASE Turn # m
        BY <1>3, <1>5, <1>7, <1>8, <1>14, <2>1, <2>2 DEF ClearedIsShown, Shows
    <2>3. CASE Turn = m
        <3>1. op = "meta"
            BY <1>3, <1>10, <1>14, <2>3
        <3>2. Shows(index[m], m)
            BY <1>1, <1>3, <1>5, <1>8, <1>14, <2>3, <3>1 DEF ClearedIsShown
        <3> QED
            BY <1>11, <2>3, <3>1, <3>2
    <2> QED
        BY <2>2, <2>3
<1>15. ASSUME NEW x \in Memo, memos'[x].state = "live", x \notin ToSet(marks'),
              x \notin outrun' \union unwritten'
       PROVE  \/ index[x] = memos'[x]
              \/ index[x].state = "live" /\ index[x].text = memos'[x].text /\ x \in retitled'
    <2>1. CASE x # m
        BY <1>3, <1>5, <1>7, <1>8, <1>15, <2>1 DEF StaleIsMarked, Indexed
    <2>2. CASE x = m
        <3>1. op = "meta"
            BY <1>9, <1>10, <1>15, <2>2
        <3>2. Shows(index[m], m)
            BY <1>1, <1>3, <1>5, <1>8, <1>9, <1>15, <2>2, <3>1 DEF StaleIsMarked, Indexed, Shows
        <3> QED
            BY <1>11, <2>2, <3>1, <3>2
    <2> QED
        BY <2>1, <2>2
<1>16. ReadIsFresh' /\ ClearedIsShown'
    BY <1>1, <1>13, <1>14 DEF ReadIsFresh, ClearedIsShown, Shows, Turn
<1>17. StaleIsMarked'
    BY <1>1, <1>15 DEF StaleIsMarked, Indexed
<1> QED
    BY <1>6, <1>12, <1>16, <1>17 DEF IInv

-----------------------------------------------------------------------------
(* The loop. *)

\* Nothing is before a loop that sleeps.
LEMMA AsleepFacts ==
    /\ Asleep \in LoopRow /\ Asleep.step = "sleep" /\ Asleep.todo = << >>
    /\ ToSet(<< >>) = {} /\ IsInjective(<< >>)
<1>1. Asleep.row \in MemoRow /\ Absent \in MemoRow
    BY DEF Asleep, Absent, MemoRow
<1>2. << >> \in Seq(Memo) /\ DOMAIN << >> = {}
    OBVIOUS
<1> QED
    BY <1>1, <1>2 DEF Asleep, LoopRow, ToSet, IsInjective

LEMMA WakeKeeps ==
    ASSUME IInv, Wake
    PROVE  IInv'
<1> DEFINE k == IF Len(marks) < Limit THEN Len(marks) ELSE Limit
           part == SubSeq(marks, 1, k)
<1>1. /\ loop' = [loop EXCEPT !.step = "read", !.todo = part]
      /\ marks # << >> /\ loop.step = "sleep"
      /\ UNCHANGED <<memos, marks, index, outrun, unwritten, retitled, restarts, failures>>
    BY DEF Wake
<1>2. TypeOK /\ StaleIsMarked /\ marks \in Seq(Memo) /\ IsInjective(marks)
    BY DEF IInv, TypeOK
<1>3. k \in 1 .. Len(marks)
    <2>1. Len(marks) \in Nat \ {0} /\ Limit \in Nat \ {0}
        BY <1>1, <1>2, SearchAssumption
    <2> QED
        BY <2>1
<1>4. /\ part \in Seq(Memo) /\ part # << >> /\ IsInjective(part) /\ ToSet(part) \subseteq ToSet(marks)
    BY <1>2, <1>3, PartHasNoRepetition
<1> HIDE DEF part
<1>5. loop' = [step |-> "read", todo |-> part, row |-> loop.row] /\ loop.row \in MemoRow
    BY <1>1, <1>2 DEF TypeOK, LoopRow
<1>6. TypeOK'
    BY <1>1, <1>2, <1>4, <1>5 DEF TypeOK, LoopRow
<1>7. MarksAreTaken' /\ ReadIsFresh' /\ ClearedIsShown'
    BY <1>1, <1>4, <1>5 DEF MarksAreTaken, ReadIsFresh, ClearedIsShown, Awake
<1>8. StaleIsMarked'
    BY <1>1, <1>2 DEF StaleIsMarked, Indexed
<1> QED
    BY <1>6, <1>7, <1>8 DEF IInv

LEMMA ReadKeeps ==
    ASSUME IInv, ReadMemo
    PROVE  IInv'
<1>1. /\ loop.step = "read"
      /\ UNCHANGED <<memos, marks, index, retitled, restarts>>
    BY DEF ReadMemo
<1>2. /\ TypeOK /\ MarksAreTaken /\ StaleIsMarked
    BY DEF IInv
<1>3. /\ Turn \in Memo /\ loop.todo # << >> /\ loop.todo \in Seq(Memo) /\ loop.row \in MemoRow
      /\ memos[Turn] \in MemoRow
    BY <1>1, <1>2, LoopFacts DEF MarksAreTaken, Awake, TypeOK
<1>4. memos[Turn].state = "live" => Turn \in ToSet(marks)
    <2>1. Turn \in ToSet(loop.todo)
        BY <1>2, <1>3, RestHasNoRepetition DEF MarksAreTaken, Turn
    <2> QED
        BY <1>1, <1>2, <2>1 DEF MarksAreTaken, Awake
<1>5. CASE /\ loop' = [loop EXCEPT !.row = memos[Turn],
                                   !.step = IF memos[Turn].state = "live" THEN "delete" ELSE "clear"]
           /\ outrun' = outrun \ {Turn} /\ unwritten' = unwritten \ {Turn}
           /\ UNCHANGED failures
    <2>1. loop' = [step |-> IF memos[Turn].state = "live" THEN "delete" ELSE "clear",
                   todo |-> loop.todo, row |-> memos[Turn]]
        BY <1>2, <1>5 DEF TypeOK, LoopRow
    <2>2. TypeOK'
        <3>1. loop' \in LoopRow
            BY <1>3, <2>1 DEF LoopRow
        <3> QED
            BY <1>1, <1>2, <1>5, <3>1 DEF TypeOK
    <2>3. MarksAreTaken'
        BY <1>1, <1>2, <2>1 DEF MarksAreTaken, Awake
    <2>4. ReadIsFresh' /\ ClearedIsShown'
        BY <1>1, <2>1 DEF ReadIsFresh, ClearedIsShown, Shows, Turn
    <2>5. StaleIsMarked'
        BY <1>1, <1>2, <1>4, <1>5 DEF StaleIsMarked, Indexed
    <2> QED
        BY <2>2, <2>3, <2>4, <2>5 DEF IInv
<1>6. CASE Failure /\ loop' = Asleep /\ UNCHANGED <<outrun, unwritten>>
    <2>1. TypeOK'
        BY <1>1, <1>2, <1>6, AsleepFacts DEF TypeOK, Failure
    <2>2. MarksAreTaken' /\ ReadIsFresh' /\ ClearedIsShown'
        BY <1>6, AsleepFacts DEF MarksAreTaken, ReadIsFresh, ClearedIsShown, Awake
    <2>3. StaleIsMarked'
        BY <1>1, <1>2, <1>6 DEF StaleIsMarked, Indexed
    <2> QED
        BY <2>1, <2>2, <2>3 DEF IInv
<1> QED
    BY <1>5, <1>6 DEF ReadMemo, Turn

\* The two statements that replace a row of the index.
LEMMA ReplaceKeeps ==
    ASSUME IInv, DeleteIndexed \/ InsertIndexed
    PROVE  IInv'
<1> DEFINE next == IF loop.step = "delete" THEN "insert" ELSE "clear"
           row == IF loop.step = "delete" THEN Absent ELSE loop.row
<1>1. /\ loop.step \in {"delete", "insert"}
      /\ loop' = [loop EXCEPT !.step = next]
      /\ \/ index' = [index EXCEPT ![Turn] = row] /\ UNCHANGED <<failures, unwritten>>
         \/ failures' = failures + 1 /\ UNCHANGED index /\ unwritten' = unwritten \union {Turn}
      /\ UNCHANGED <<memos, marks, outrun, retitled, restarts>>
    BY DEF DeleteIndexed, InsertIndexed, Turn, Failure
<1>2. TypeOK /\ MarksAreTaken /\ ReadIsFresh /\ StaleIsMarked
    BY DEF IInv
<1>3. /\ Turn \in Memo /\ loop.todo # << >> /\ loop.todo \in Seq(Memo) /\ row \in MemoRow
    BY <1>1, <1>2, LoopFacts DEF MarksAreTaken, Awake, Absent, MemoRow
<1>4. memos[Turn].state = "live" => Turn \in ToSet(marks)
    <2>1. Turn \in ToSet(loop.todo)
        BY <1>2, <1>3, RestHasNoRepetition DEF MarksAreTaken, Turn
    <2> QED
        BY <1>1, <1>2, <2>1 DEF MarksAreTaken, Awake
<1>5. loop' = [step |-> next, todo |-> loop.todo, row |-> loop.row] /\ next \in {"insert", "clear"}
    BY <1>1, <1>2 DEF TypeOK, LoopRow
<1>6. TypeOK'
    <2>1. loop' \in LoopRow
        BY <1>2, <1>5, LoopFacts DEF LoopRow
    <2>2. index' \in [Memo -> MemoRow] /\ failures' \in Nat /\ unwritten' \subseteq Memo
        BY <1>1, <1>2, <1>3 DEF TypeOK
    <2> QED
        BY <1>1, <1>2, <2>1, <2>2 DEF TypeOK
<1>7. MarksAreTaken'
    BY <1>1, <1>2, <1>5 DEF MarksAreTaken, Awake
<1>8. ReadIsFresh'
    BY <1>1, <1>2, <1>5 DEF ReadIsFresh, Shows, Turn
<1>9. ASSUME next = "clear", memos[Turn].state = "live", Turn \notin outrun \union unwritten'
      PROVE  \/ index'[Turn] = memos[Turn]
             \/ index'[Turn].state = "live" /\ index'[Turn].text = memos[Turn].text
                /\ Turn \in retitled
    <2>1. loop.step = "insert" /\ row = loop.row
        BY <1>1, <1>9
    <2>2. index'[Turn] = loop.row
        BY <1>1, <1>2, <1>3, <1>9, <2>1 DEF TypeOK
    <2> QED
        BY <1>2, <1>9, <2>1, <2>2 DEF ReadIsFresh, Shows
<1>10. ClearedIsShown'
    BY <1>1, <1>5, <1>9 DEF ClearedIsShown, Shows, Turn
<1>11. StaleIsMarked'
    <2>1. SUFFICES ASSUME NEW x \in Memo, memos[x].state = "live", x \notin ToSet(marks),
                          x \notin outrun \union unwritten'
                   PROVE  index'[x] = index[x] /\ x \notin outrun \union unwritten
        BY <1>1, <1>2 DEF StaleIsMarked, Indexed
    <2>2. x # Turn
        BY <1>4, <2>1
    <2> QED
        BY <1>1, <1>2, <2>1, <2>2 DEF TypeOK
<1> QED
    BY <1>6, <1>7, <1>8, <1>10, <1>11 DEF IInv

LEMMA ClearKeeps ==
    ASSUME IInv, Clear
    PROVE  IInv'
<1> DEFINE rest == Tail(loop.todo)
<1>1. /\ loop.step = "clear"
      /\ \/ marks' = Without(marks, Turn) /\ UNCHANGED failures
         \/ failures' = failures + 1 /\ UNCHANGED marks
      /\ loop' = IF rest = << >> THEN Asleep ELSE [Asleep EXCEPT !.step = "read", !.todo = rest]
      /\ UNCHANGED <<memos, index, outrun, unwritten, retitled, restarts>>
    BY DEF Clear, ClearMark, Turn, Failure
<1>2. TypeOK /\ MarksAreTaken /\ ClearedIsShown /\ StaleIsMarked
    BY DEF IInv
<1>3. /\ Turn \in Memo /\ loop.todo # << >> /\ loop.todo \in Seq(Memo) /\ IsInjective(loop.todo)
      /\ marks \in Seq(Memo) /\ IsInjective(marks)
    BY <1>1, <1>2, LoopFacts DEF MarksAreTaken, Awake, TypeOK
<1>4. /\ rest \in Seq(Memo) /\ IsInjective(rest) /\ ToSet(rest) \subseteq ToSet(loop.todo) \ {Turn}
    BY <1>3, RestHasNoRepetition DEF Turn
<1>5. /\ marks' \in Seq(Memo) /\ IsInjective(marks') /\ failures' \in Nat
      /\ ToSet(marks) \ {Turn} \subseteq ToSet(marks')
    BY <1>1, <1>2, <1>3, WithoutOne DEF TypeOK
<1> HIDE DEF rest
<1>6. loop' = Asleep \/ (rest # << >> /\ loop' = [step |-> "read", todo |-> rest, row |-> Absent])
    BY <1>1 DEF Asleep
<1>7. /\ loop' \in LoopRow /\ loop'.step \in {"sleep", "read"}
      /\ loop'.step = "sleep" \/ (loop'.todo = rest /\ rest # << >>)
      /\ loop'.todo = rest \/ loop'.todo = << >>
    <2>1. Absent \in MemoRow
        BY DEF Absent, MemoRow
    <2>2. CASE loop' = Asleep
        BY <2>2, AsleepFacts
    <2>3. CASE rest # << >> /\ loop' = [step |-> "read", todo |-> rest, row |-> Absent]
        BY <1>4, <2>1, <2>3 DEF LoopRow
    <2> QED
        BY <1>6, <2>2, <2>3
<1>8. TypeOK'
    BY <1>1, <1>2, <1>5, <1>7 DEF TypeOK
<1>9. MarksAreTaken'
    <2>1. Awake' => loop'.todo # << >>
        BY <1>7 DEF Awake
    <2>2. IsInjective(loop'.todo)
        BY <1>4, <1>7, AsleepFacts
    <2>3. \A m \in ToSet(loop'.todo) : memos[m].state # "purged" => m \in ToSet(marks')
        <3>1. \A m \in ToSet(loop'.todo) : m \in ToSet(loop.todo) \ {Turn}
            BY <1>4, <1>7, AsleepFacts
        <3> QED
            BY <1>1, <1>2, <1>5, <3>1 DEF MarksAreTaken, Awake
    <2> QED
        BY <1>1, <2>1, <2>2, <2>3 DEF MarksAreTaken
<1>10. ReadIsFresh' /\ ClearedIsShown'
    BY <1>7 DEF ReadIsFresh, ClearedIsShown
<1>11. StaleIsMarked'
    <2>1. SUFFICES ASSUME NEW x \in Memo, memos[x].state = "live", x \notin ToSet(marks'),
                          x \notin outrun \union unwritten
                   PROVE  Indexed(x)
        BY <1>1 DEF StaleIsMarked, Indexed
    <2>2. CASE x # Turn
        BY <1>2, <1>5, <2>1, <2>2 DEF StaleIsMarked
    <2>3. CASE x = Turn
        BY <1>1, <1>2, <2>1, <2>3 DEF ClearedIsShown, Shows, Indexed
    <2> QED
        BY <2>2, <2>3
<1> QED
    BY <1>8, <1>9, <1>10, <1>11 DEF IInv

LEMMA RestartKeeps ==
    ASSUME IInv, Restart
    PROVE  IInv'
<1>1. /\ loop' = Asleep /\ restarts' = restarts + 1
      /\ UNCHANGED <<memos, marks, index, failures, outrun, unwritten, retitled>>
    BY DEF Restart
<1>2. TypeOK'
    BY <1>1, AsleepFacts DEF IInv, TypeOK
<1>3. MarksAreTaken' /\ ReadIsFresh' /\ ClearedIsShown'
    BY <1>1, AsleepFacts DEF MarksAreTaken, ReadIsFresh, ClearedIsShown, Awake
<1>4. StaleIsMarked'
    BY <1>1 DEF IInv, StaleIsMarked, Indexed
<1> QED
    BY <1>2, <1>3, <1>4 DEF IInv

-----------------------------------------------------------------------------
(* The invariant. *)

LEMMA InitIsInvariant == Init => IInv
<1> SUFFICES ASSUME Init
             PROVE  IInv
    OBVIOUS
<1>1. Absent \in MemoRow /\ Absent.state = "absent"
    BY DEF Absent, MemoRow
<1>2. << >> \in Seq(Memo)
    OBVIOUS
<1>3. TypeOK
    BY <1>1, <1>2, AsleepFacts DEF Init, TypeOK
<1>4. MarksAreTaken /\ ReadIsFresh /\ ClearedIsShown
    BY AsleepFacts DEF Init, MarksAreTaken, ReadIsFresh, ClearedIsShown, Awake
<1>5. StaleIsMarked
    BY DEF Init, StaleIsMarked, Indexed
<1> QED
    BY <1>3, <1>4, <1>5 DEF IInv

LEMMA NextKeepsInvariant == IInv /\ [Next]_vars => IInv'
<1> SUFFICES ASSUME IInv, [Next]_vars
             PROVE  IInv'
    OBVIOUS
<1>1. CASE UNCHANGED vars
    <2>1. /\ TypeOK' /\ StaleIsMarked'
        BY <1>1 DEF vars, IInv, TypeOK, StaleIsMarked, Indexed
    <2>2. MarksAreTaken' /\ ReadIsFresh' /\ ClearedIsShown'
        BY <1>1 DEF vars, IInv, MarksAreTaken, ReadIsFresh, ClearedIsShown, Awake, Turn, Shows
    <2> QED
        BY <2>1, <2>2 DEF IInv
<1>2. CASE \E op \in {"content", "meta", "purge"}, m \in Memo : Change(op, m)
    BY <1>2, ChangeKeeps DEF Ops
<1>3. CASE LoopStep
    BY <1>3, WakeKeeps, ReadKeeps, ReplaceKeeps, ClearKeeps DEF LoopStep
<1>4. CASE Restart
    BY <1>4, RestartKeeps
<1> QED
    BY <1>1, <1>2, <1>3, <1>4 DEF Next

\* The inductive invariant always holds: the loop deletes no mark that is still needed,
\* but for those it is known to have outrun or failed.
THEOREM AlwaysIInv == Spec => []IInv
<1> QED
    BY InitIsInvariant, NextKeepsInvariant, PTL DEF Spec

\* Every table and the loop keep their types, and a memo has one mark.
THEOREM IndexTyped == Spec => []TypeOK
<1>1. IInv => TypeOK
    BY DEF IInv
<1> QED
    BY <1>1, AlwaysIInv, PTL

\* A live memo that the index does not show as it is has a mark, or is known to have been
\* saved in the loop's own turn at it or met by a failure.
THEOREM NoStaleRowIsForgotten == Spec => []StaleIsMarked
<1>1. IInv => StaleIsMarked
    BY DEF IInv
<1> QED
    BY <1>1, AlwaysIInv, PTL

=============================================================================
