------------------------- MODULE SyncCatchupProofs -------------------------
(***************************************************************************)
(* GapAnnounced, NeverGoesBack and CursorsWithinLog of SyncCatchup, for any *)
(* number of devices, items and changes and any page limit.                *)
(*                                                                         *)
(* The argument speaks of what a device would know if the answer in flight *)
(* arrived now: that, as what it knows already, stays Learned while others *)
(* append, compact and raise the epoch, so it does not matter how long the *)
(* answer takes or whether it arrives.                                     *)
(***************************************************************************)
EXTENDS SyncCatchup, FiniteSetTheorems, TLAPS

-----------------------------------------------------------------------------
(* Greatest elements, pages and folds. *)

\* A finite nonempty set of numbers has a greatest element.
LEMMA FiniteMax ==
    ASSUME NEW S, S \subseteq Nat, IsFiniteSet(S), S # {}
    PROVE  \E x \in S : \A y \in S : y <= x
<1> DEFINE Above(x) == {y \in S : y > x}
           T == {Above(x) : x \in S}
<1>1. \A x \in S : Above(x) \in FiniteSubsetsOf(S)
    BY FS_Subset DEF FiniteSubsetsOf
<1>2. T \subseteq FiniteSubsetsOf(S) /\ T # {}
    BY <1>1
<1>3. IsWellFoundedOn(StrictSubsetOrdering(S), FiniteSubsetsOf(S))
    BY FS_StrictSubsetOrderingWellFounded
<1>4. PICK U \in T : \A V \in T : ~ (<<V, U>> \in StrictSubsetOrdering(S))
    <2> HIDE DEF T
    <2> QED
        BY <1>2, <1>3, WFMin
<1>5. PICK x \in S : U = Above(x)
    BY <1>4
<1>6. ASSUME NEW y \in S, y > x
      PROVE  FALSE
    <2>1. Above(y) \subseteq Above(x) /\ y \in Above(x) /\ y \notin Above(y)
        <3>1. x \in Nat /\ y \in Nat /\ \A z \in S : z \in Nat /\ (z > y => z > x)
            BY <1>6
        <3>2. Above(y) \subseteq Above(x)
            BY <3>1
        <3>3. y \in Above(x)
            BY <1>6
        <3>4. ~ (y > y)
            BY <3>1
        <3>5. y \notin Above(y)
            BY <3>4
        <3> QED
            BY <3>2, <3>3, <3>5
    <2>2. Above(y) \subseteq S /\ Above(x) \subseteq S /\ Above(y) \in T
        BY <1>6
    <2>3. <<Above(y), Above(x)>> \in StrictSubsetOrdering(S)
        <3> HIDE DEF Above
        <3> QED
            BY <2>1, <2>2 DEF StrictSubsetOrdering
    <2> QED
        BY <2>2, <2>3, <1>4, <1>5
<1> QED
    BY <1>5, <1>6

\* A finite nonempty set of rows has a last one.
LEMMA LastRow ==
    ASSUME NEW rows, rows \subseteq Row, IsFiniteSet(rows), rows # {}
    PROVE  \E x \in rows : \A y \in rows : y.id <= x.id
<1> DEFINE ids == {r.id : r \in rows}
           f == [r \in rows |-> r.id]
<1>1. f \in Surjection(rows, ids)
    BY DEF Surjection
<1>2. IsFiniteSet(ids)
    BY <1>1, FS_Surjection
<1>3. ids \subseteq Nat /\ ids # {}
    BY DEF Row
<1>4. PICK i \in ids : \A j \in ids : j <= i
    <2> HIDE DEF ids
    <2> QED
        BY <1>2, <1>3, FiniteMax
<1> QED
    BY <1>4

\* MaxId is the id of the last row, or 0.
LEMMA MaxIdIsLast ==
    ASSUME NEW rows, rows \subseteq Row, IsFiniteSet(rows)
    PROVE  /\ MaxId(rows) \in Nat
           /\ \A r \in rows : r.id <= MaxId(rows)
           /\ rows # {} => \E r \in rows : r.id = MaxId(rows)
           /\ rows = {} => MaxId(rows) = 0
<1>1. CASE rows = {}
    BY <1>1 DEF MaxId
<1>2. CASE rows # {}
    <2>1. PICK x \in rows : \A y \in rows : y.id <= x.id
        BY <1>2, LastRow
    <2>2. \E i \in {r.id : r \in rows} : \A r \in rows : r.id <= i
        BY <2>1
    <2>3. /\ MaxId(rows) \in {r.id : r \in rows}
          /\ \A r \in rows : r.id <= MaxId(rows)
        BY <1>2, <2>2 DEF MaxId
    <2> QED
        BY <1>2, <2>3 DEF Row
<1> QED
    BY <1>1, <1>2

\* Folding a page keeps, of each item the page is about, the last row.
LEMMA FoldKeepsLast ==
    ASSUME NEW rows, rows \subseteq Row, IsFiniteSet(rows), NEW r \in rows
    PROVE  \E x \in Fold(rows) : x.item = r.item
<1> DEFINE same == {s \in rows : s.item = r.item}
<1>1. IsFiniteSet(same) /\ same # {} /\ same \subseteq Row
    BY FS_Subset
<1>2. PICK x \in same : \A y \in same : y.id <= x.id
    <2> HIDE DEF same
    <2> QED
        BY <1>1, LastRow
<1> QED
    BY <1>2 DEF Fold

\* A page leaves no row out before one it holds.
LEMMA PageIsPrefix ==
    ASSUME NEW rows, rows \subseteq Row, IsFiniteSet(rows),
           NEW r \in FirstOf(rows), NEW s \in rows, s.id <= r.id
    PROVE  s \in FirstOf(rows)
<1> DEFINE upto(x) == {t \in rows : t.id <= x.id}
<1>1. upto(s) \subseteq upto(r)
    BY DEF FirstOf, Row
<1>2. IsFiniteSet(upto(s)) /\ IsFiniteSet(upto(r))
    BY FS_Subset
<1>3. Cardinality(upto(s)) <= Cardinality(upto(r))
    BY <1>1, <1>2, FS_Subset
<1>4. Cardinality(upto(s)) \in Nat /\ Cardinality(upto(r)) \in Nat
    BY <1>2, FS_CardinalityType
<1>5. Cardinality(upto(r)) <= PageLimit
    BY DEF FirstOf
<1>6. Cardinality(upto(s)) <= PageLimit
    BY <1>3, <1>4, <1>5, SyncAssumption
<1> QED
    BY <1>6 DEF FirstOf

\* A nonempty set of numbers has a smallest element.
LEMMA NatMin ==
    ASSUME NEW S, S \subseteq Nat, S # {}
    PROVE  \E x \in S : \A y \in S : x <= y
<1>1. PICK a \in S : TRUE
    OBVIOUS
<1> DEFINE low == {a - x : x \in {y \in S : y <= a}}
<1>2. low \subseteq Nat /\ low # {} /\ \A z \in low : z <= a
    BY <1>1
<1>3. IsFiniteSet(low)
    <2> HIDE DEF low
    <2> QED
        BY <1>1, <1>2, FS_BoundedSetOfNaturals
<1>4. PICK z \in low : \A y \in low : y <= z
    <2> HIDE DEF low
    <2> QED
        BY <1>2, <1>3, FiniteMax
<1>5. PICK x \in S : x <= a /\ z = a - x
    BY <1>4
<1>6. ASSUME NEW y \in S
      PROVE  x <= y
    <2>1. CASE y <= a
        <3>1. a - y <= z
            BY <1>4, <2>1
        <3> QED
            BY <3>1, <1>1, <1>5
    <2>2. CASE ~ (y <= a)
        BY <2>2, <1>1, <1>5
    <2> QED
        BY <2>1, <2>2
<1> QED
    BY <1>6

-----------------------------------------------------------------------------
(* What is Learned stays so. *)

\* Nothing a device does disturbs what another knows.
LEMMA SameLog ==
    ASSUME UNCHANGED <<logVars, compactVars>>
    PROVE  \A c : Learned(c) => Learned(c)'
BY DEF Learned, Informed, Forward, RowAbove, logVars, compactVars

LEMMA SameLogTells ==
    ASSUME UNCHANGED logVars, LogTells
    PROVE  LogTells'
BY DEF LogTells, logVars

\* What an answer leaves a device with is something a device can know.
LEMMA ResultsAreClients ==
    ASSUME NEW c \in Client, NEW r \in Request
    PROVE  Inventoried(r) \in Client /\ Apply(c, r) \in Client
<1>1. Inventoried(r) \in Client
    BY DEF Inventoried, Client, Request
<1>2. ASSUME NEW e \in Item, e \in Told(r.page)
      PROVE  (CHOOSE x \in r.page : x.item = e).version \in Nat
    <2>1. \E x \in r.page : x.item = e
        BY <1>2 DEF Told
    <2>2. (CHOOSE x \in r.page : x.item = e) \in r.page
        BY <2>1
    <2> QED
        BY <2>2 DEF Request, Row
<1>3. Apply(c, r).seen \in Versions
    BY <1>2 DEF Apply, Client, Versions
<1> QED
    BY <1>1, <1>3 DEF Apply, Client, Request

\* A step of a writer or of compaction keeps the invariant if it keeps the log in
\* order and what anyone knows learned.
LEMMA BackgroundIInv ==
    ASSUME IInv, TypeOK', LogTells', UNCHANGED <<req, client>>,
           \A e \in Item : version[e] <= version'[e],
           syncEpoch <= syncEpoch',
           \A c \in Client : Learned(c) => Learned(c)'
    PROVE  IInv'
<1> SUFFICES ASSUME NEW d \in Device
             PROVE  Learned(client[d])' /\ InventoryInv(d)' /\ PullInv(d)'
    BY DEF IInv
<1> DEFINE r == req[d]
           c == client[d]
<1>1. /\ TypeOK /\ r \in Request /\ c \in Client
      /\ Learned(c) /\ InventoryInv(d) /\ PullInv(d)
    BY DEF IInv, TypeOK
<1>2. req'[d] = r /\ client'[d] = c
    OBVIOUS
<1>3. Inventoried(r) \in Client /\ Apply(c, r) \in Client
    BY <1>1, ResultsAreClients
<1>4. Learned(client[d])'
    BY <1>1, <1>2
<1>5. InventoryInv(d)'
    <2>1. r.op = "inventory" /\ r.step \in {"upsert", "reply"} =>
            Learned(Inventoried(req[d]))'
        BY <1>1, <1>2, <1>3 DEF InventoryInv
    <2>2. ASSUME NEW e \in Item
          PROVE  r.view[e] \in Nat /\ version[e] \in Nat /\ version'[e] \in Nat
        BY <1>1 DEF Request, Versions, TypeOK
    <2>3. r.epoch \in Nat /\ syncEpoch \in Nat /\ syncEpoch' \in Nat
        BY <1>1 DEF Request, TypeOK
    <2> QED
        BY <2>1, <2>2, <2>3, <1>1, <1>2 DEF InventoryInv
<1>6. PullInv(d)'
    <2>1. r.op = "pull" /\ r.step # "page" => Learned(Apply(client[d], req[d]))'
        BY <1>1, <1>2, <1>3 DEF PullInv
    <2> QED
        BY <2>1, <1>1, <1>2 DEF PullInv, KnowsMore
<1> QED
    BY <1>4, <1>5, <1>6

-----------------------------------------------------------------------------
(* Writers. *)

LEMMA CommitIInv ==
    ASSUME IInv, NEW e \in Item, Commit(e)
    PROVE  IInv'
<1>1. TypeOK /\ LogTells
    BY DEF IInv
<1>2. version' \in Versions /\ \A x \in Item : version[x] <= version'[x]
    BY <1>1 DEF Commit, TypeOK, Versions
<1>3. TypeOK'
    BY <1>1, <1>2 DEF Commit, TypeOK, compactVars
<1>4. UNCHANGED <<log, last, logged, compactVars, req, client>>
    BY DEF Commit
<1>5. \A x \in Item : version[x] \in Nat /\ version'[x] \in Nat /\ logged[x] \in Nat
    BY <1>1, <1>2 DEF TypeOK, Versions
<1>6. LogTells'
    <2>1. \A r \in log : r.item \in Item /\ r.version \in Nat
        BY <1>1 DEF TypeOK, Row
    <2> QED
        BY <2>1, <1>1, <1>2, <1>4, <1>5 DEF LogTells
<1>7. ASSUME NEW c \in Client, Learned(c)
      PROVE  Learned(c)'
    <2>1. \A x \in Item : c.seen[x] \in Nat
        BY DEF Client, Versions
    <2>2. Informed(c)'
        BY <1>4, <1>7 DEF Learned, Informed, RowAbove, compactVars
    <2>3. Forward(c)'
        BY <2>1, <1>2, <1>4, <1>5, <1>7 DEF Learned, Forward, compactVars
    <2> QED
        BY <2>2, <2>3 DEF Learned
<1>8. syncEpoch <= syncEpoch'
    BY <1>1, <1>4 DEF compactVars, TypeOK
<1> QED
    BY <1>2, <1>3, <1>4, <1>6, <1>7, <1>8, BackgroundIInv

\* The new row lies above every cursor given out, and is the newest of its item.
LEMMA AppendIInv ==
    ASSUME IInv, AppendUnlocked
    PROVE  IInv'
<1>1. TypeOK /\ LogTells
    BY DEF IInv
<1>e. PICK e \in Item : e = pending
    BY <1>1 DEF AppendUnlocked, TypeOK
<1> DEFINE row == [id |-> last + 1, item |-> e, version |-> version[e]]
<1>2. /\ e \in Item /\ version[e] \in Nat /\ last \in Nat /\ row \in Row
      /\ log' = log \union {row} /\ last' = last + 1
      /\ logged' = [logged EXCEPT ![e] = version[e]]
      /\ UNCHANGED <<version, compactVars, cursors, req, client>>
    BY <1>1, <1>e DEF AppendUnlocked, TypeOK, Versions, Row
<1>3. logged' \in Versions /\ logged'[e] = version[e]
      /\ \A x \in Item \ {e} : logged'[x] = logged[x]
    BY <1>1, <1>2 DEF TypeOK, Versions
<1>4. TypeOK'
    BY <1>1, <1>2, <1>3 DEF TypeOK, compactVars, AppendUnlocked
<1>5. \A r \in log : /\ r.id \in 1 .. last /\ r.item \in Item
                      /\ r.version \in Nat /\ r.version <= version[r.item]
    BY <1>1 DEF TypeOK, Row, LogTells
<1> HIDE DEF row
<1>r. row.id = last + 1 /\ row.item = e /\ row.version = version[e]
    BY DEF row
<1>6. LogTells'
    <2>1. IsFiniteSet(log')
        BY <1>1, <1>2, FS_AddElement DEF LogTells
    <2>2. \A r \in log' : r.id \in 1 .. last' /\ r.version <= version'[r.item]
        BY <1>2, <1>5, <1>r
    <2>3. \A r, s \in log' : r.item = s.item /\ r.id <= s.id => r.version <= s.version
        <3> TAKE r, s \in log'
        <3>1. CASE r \in log /\ s \in log
            BY <3>1, <1>1 DEF LogTells
        <3>2. CASE s = row
            BY <3>2, <1>2, <1>5, <1>r
        <3>3. CASE r = row /\ s \in log
            BY <3>3, <1>2, <1>5, <1>r
        <3> QED
            BY <3>1, <3>2, <3>3, <1>2
    <2>4. ASSUME NEW r \in log', \A s \in log' : s.item = r.item => s.id <= r.id
          PROVE  r.version = logged'[r.item]
        <3>1. CASE r = row
            BY <3>1, <1>3, <1>r
        <3>2. CASE r \in log
            <4>1. r.item # e
                BY <3>2, <2>4, <1>2, <1>5, <1>r
            <4>2. r.version = logged[r.item]
                BY <3>2, <2>4, <1>1, <1>2 DEF LogTells
            <4> QED
                BY <4>1, <4>2, <3>2, <1>3, <1>5
        <3> QED
            BY <3>1, <3>2, <1>2
    <2>5. \A x \in Item : logged'[x] <= version'[x]
        BY <1>1, <1>2, <1>3 DEF LogTells
    <2> QED
        BY <2>1, <2>2, <2>3, <2>4, <2>5 DEF LogTells
<1>7. ASSUME NEW c \in Client, Learned(c)
      PROVE  Learned(c)'
    <2>1. c.cursor \in Nat /\ c.cursor <= last /\ \A x \in Item : c.seen[x] \in Nat
        BY <1>7 DEF Client, Versions, Learned, Forward
    <2>2. RowAbove(e, c.cursor)'
        BY <2>1, <1>2, <1>r DEF RowAbove
    <2>3. ASSUME NEW x \in Item, RowAbove(x, c.cursor)
          PROVE  RowAbove(x, c.cursor)'
        BY <2>3, <1>2 DEF RowAbove
    <2>4. Informed(c)'
        BY <2>2, <2>3, <1>2, <1>3, <1>7 DEF Learned, Informed, compactVars
    <2>5. \A r \in log' : r.id > c.cursor => r.version >= c.seen[r.item]
        BY <2>1, <1>2, <1>7, <1>r DEF Learned, Forward
    <2>6. Forward(c)'
        BY <2>1, <2>5, <1>2, <1>7 DEF Learned, Forward, compactVars
    <2> QED
        BY <2>4, <2>6 DEF Learned
<1>8. (\A x \in Item : version[x] <= version'[x]) /\ syncEpoch <= syncEpoch'
    BY <1>1, <1>2 DEF compactVars, TypeOK, Versions
<1> QED
    BY <1>2, <1>4, <1>6, <1>7, <1>8, BackgroundIInv

LEMMA DropWriterIInv ==
    ASSUME IInv, DropWriter
    PROVE  IInv'
<1>1. TypeOK'
    BY DEF IInv, DropWriter, TypeOK, compactVars
<1>2. LogTells'
    BY DEF IInv, DropWriter, LogTells
<1>3. \A c \in Client : Learned(c) => Learned(c)'
    BY DEF DropWriter, Learned, Informed, Forward, RowAbove, compactVars
<1>4. (\A x \in Item : version[x] <= version'[x]) /\ syncEpoch <= syncEpoch'
    BY DEF IInv, TypeOK, Versions, DropWriter, compactVars
<1> QED
    BY <1>1, <1>2, <1>3, <1>4, BackgroundIInv DEF DropWriter

-----------------------------------------------------------------------------
(* Compaction. *)

\* The watermark is the cursor of some device.
LEMMA WatermarkIsCursor ==
    ASSUME TypeOK
    PROVE  /\ Watermark \in Nat
           /\ Watermark = 0 \/ \E d \in DOMAIN cursors : Watermark = cursors[d]
<1> DEFINE S == {cursors[d] : d \in DOMAIN cursors}
<1>1. CASE DOMAIN cursors = {}
    BY <1>1 DEF Watermark
<1>2. CASE DOMAIN cursors # {}
    <2>1. S \subseteq Nat /\ S # {}
        BY <1>2 DEF TypeOK
    <2>2. PICK c \in S : \A x \in S : c <= x
        <3> HIDE DEF S
        <3> QED
            BY <2>1, NatMin
    <2>3. \E x \in S : \A d \in DOMAIN cursors : x <= cursors[d]
        BY <2>2
    <2>4. Watermark \in S
        BY <1>2, <2>3 DEF Watermark
    <2> QED
        BY <2>1, <2>4
<1> QED
    BY <1>1, <1>2

\* The steps of compaction that leave log and epoch alone.
LEMMA QuietCompactionIInv ==
    ASSUME IInv, ExpireDevices \/ ReadWatermark \/ DropCompaction
    PROVE  IInv'
<1>0. TypeOK /\ UNCHANGED <<logVars, syncEpoch, unannounced, req, client>>
    BY DEF IInv, ExpireDevices, ReadWatermark, DropCompaction
<1>1. TypeOK'
    <2>1. CASE ExpireDevices
        <3>1. PICK kept \in SUBSET DOMAIN cursors : cursors' = [d \in kept |-> cursors[d]]
            BY <2>1 DEF ExpireDevices
        <3>2. DOMAIN cursors' \subseteq Device
              /\ \A d \in DOMAIN cursors' : cursors'[d] \in Nat
            BY <3>1, <1>0 DEF TypeOK
        <3>3. compaction' \in Compaction
            BY <2>1 DEF ExpireDevices, Compaction
        <3> QED
            BY <3>2, <3>3, <1>0 DEF TypeOK, logVars
    <2>2. CASE ReadWatermark
        <3>1. compaction' \in Compaction
            BY <2>2, <1>0, WatermarkIsCursor DEF ReadWatermark, Compaction, NoCompaction
        <3> QED
            BY <3>1, <2>2, <1>0 DEF ReadWatermark, TypeOK, logVars
    <2>3. CASE DropCompaction
        BY <2>3, <1>0 DEF DropCompaction, TypeOK, logVars, Compaction, NoCompaction
    <2> QED
        BY <2>1, <2>2, <2>3
<1>2. LogTells'
    BY <1>0, SameLogTells DEF IInv
<1>3. \A c \in Client : Learned(c) => Learned(c)'
    BY <1>0 DEF Learned, Informed, Forward, RowAbove, logVars
<1>4. (\A e \in Item : version[e] <= version'[e]) /\ syncEpoch <= syncEpoch'
    BY <1>0 DEF TypeOK, Versions, logVars
<1> QED
    BY <1>0, <1>1, <1>2, <1>3, <1>4, BackgroundIInv

\* What goes is older than what stays; from then on the gap is unannounced.
LEMMA DeleteRowsIInv ==
    ASSUME IInv, DeleteRows
    PROVE  IInv'
<1> DEFINE w == compaction.watermark
<1>1. TypeOK /\ LogTells
    BY DEF IInv
<1>2. /\ w \in Nat
      /\ \A r \in log : r.id \in Nat /\ r.item \in Item
    BY <1>1 DEF TypeOK, Compaction, Row
<1>3. /\ \A r \in log : r \notin log' => r.id < w
      /\ \A r \in log' : r \in log /\ ~ (r.id < w)
      /\ log' # log => unannounced'
      /\ unannounced => unannounced'
      /\ UNCHANGED <<version, pending, last, logged, syncEpoch, cursors, req, client>>
    BY DEF DeleteRows, Compacted
<1>4. TypeOK'
    <2>1. compaction' \in Compaction /\ unannounced' \in BOOLEAN
        BY <1>1 DEF DeleteRows, Compaction, NoCompaction, TypeOK
    <2> QED
        BY <2>1, <1>1, <1>3 DEF TypeOK
<1>5. LogTells'
    <2>1. IsFiniteSet(log')
        BY <1>1, <1>3, FS_Subset DEF LogTells
    <2>2. ASSUME NEW r \in log', \A s \in log' : s.item = r.item => s.id <= r.id
          PROVE  r.version = logged'[r.item]
        <3>1. \A s \in log : s.item = r.item => s.id <= r.id
            BY <2>2, <1>2, <1>3
        <3> QED
            BY <3>1, <1>1, <1>3 DEF LogTells
    <2> QED
        BY <2>1, <2>2, <1>1, <1>3 DEF LogTells
<1>6. ASSUME NEW c \in Client, Learned(c)
      PROVE  Learned(c)'
    <2>1. Informed(c)'
        BY <1>3, <1>6 DEF Learned, Informed, RowAbove
    <2>2. Forward(c)'
        BY <1>3, <1>6 DEF Learned, Forward
    <2> QED
        BY <2>1, <2>2 DEF Learned
<1>7. (\A e \in Item : version[e] <= version'[e]) /\ syncEpoch <= syncEpoch'
    BY <1>1, <1>3 DEF TypeOK, Versions
<1> QED
    BY <1>3, <1>4, <1>5, <1>6, <1>7, BackgroundIInv

\* No epoch given out so far is the new one: every device is told.
LEMMA RaiseEpochIInv ==
    ASSUME IInv, RaiseEpoch
    PROVE  IInv'
<1>1. TypeOK /\ UNCHANGED <<logVars, cursors, req, client>> /\ syncEpoch' = syncEpoch + 1
    BY DEF IInv, RaiseEpoch
<1>2. TypeOK'
    <2>1. syncEpoch' \in Nat \ {0}
        BY <1>1 DEF TypeOK
    <2>2. compaction' \in Compaction /\ unannounced' \in BOOLEAN
        BY DEF RaiseEpoch, Compaction, NoCompaction
    <2> QED
        BY <2>1, <2>2, <1>1 DEF TypeOK, logVars
<1>3. LogTells'
    BY <1>1, SameLogTells DEF IInv
<1>4. ASSUME NEW c \in Client, Learned(c)
      PROVE  Learned(c)'
    <2>1. c.epoch \in Nat /\ c.epoch <= syncEpoch /\ syncEpoch \in Nat
        BY <1>1, <1>4 DEF Client, Learned, Forward, TypeOK
    <2>2. c.epoch # syncEpoch' /\ c.epoch <= syncEpoch'
        BY <2>1, <1>1
    <2>3. Informed(c)'
        BY <2>2 DEF Informed
    <2>4. Forward(c)'
        BY <2>2, <1>1, <1>4 DEF Learned, Forward, logVars
    <2> QED
        BY <2>3, <2>4 DEF Learned
<1>5. (\A e \in Item : version[e] <= version'[e]) /\ syncEpoch <= syncEpoch'
    BY <1>1 DEF TypeOK, Versions, logVars
<1> QED
    BY <1>1, <1>2, <1>3, <1>4, <1>5, BackgroundIInv

-----------------------------------------------------------------------------
(* Requests and the steps of their handlers. *)

\* Such a step changes one request, and maybe the device's row; what remains to be
\* shown is that the request is well formed and what it carries is Learned.
LEMMA HandlerIInv ==
    ASSUME IInv, NEW d \in Device, NEW r \in Request,
           req' = [req EXCEPT ![d] = r],
           UNCHANGED <<logVars, compactVars, client>>,
           DOMAIN cursors' \subseteq Device,
           \A x \in DOMAIN cursors' : cursors'[x] \in Nat,
           InventoryInv(d)', PullInv(d)'
    PROVE  IInv'
<1>1. TypeOK /\ LogTells
    BY DEF IInv
<1>2. TypeOK'
    BY <1>1 DEF TypeOK, logVars, compactVars
<1>3. LogTells'
    BY <1>1, SameLogTells
<1>4. \A c : Learned(c) => Learned(c)'
    BY SameLog
<1>5. ASSUME NEW g \in Device
      PROVE  Learned(client[g])' /\ InventoryInv(g)' /\ PullInv(g)'
    <2>1. Learned(client[g]) /\ InventoryInv(g) /\ PullInv(g)
        BY DEF IInv
    <2>2. Learned(client[g])'
        BY <2>1, <1>4
    <2>3. CASE g # d
        <3>1. req'[g] = req[g] /\ client'[g] = client[g]
            BY <2>3, <1>1 DEF TypeOK
        <3>2. InventoryInv(g)'
            BY <2>1, <3>1, <1>4 DEF InventoryInv, logVars, compactVars
        <3>3. PullInv(g)'
            BY <2>1, <3>1, <1>4 DEF PullInv
        <3> QED
            BY <2>2, <3>2, <3>3
    <2> QED
        BY <2>2, <2>3
<1> QED
    BY <1>2, <1>3, <1>5 DEF IInv

LEMMA AskIsRequest ==
    ASSUME NEW op \in {"none", "inventory", "pull", "hello"},
           NEW step \in {"section", "page", "epoch", "cursor", "upsert", "reply"},
           NEW n \in Nat
    PROVE  Ask(op, step, n) \in Request
BY DEF Ask, Request, Nothing, Versions

LEMMA RequestIInv ==
    ASSUME IInv, NEW d \in Device,
           RequestInventory(d) \/ RequestPull(d) \/ RequestHello(d) \/ Lose(d)
    PROVE  IInv'
<1>1. TypeOK
    BY DEF IInv
<1>2. PICK r \in Request :
        /\ req' = [req EXCEPT ![d] = r]
        /\ UNCHANGED <<logVars, compactVars, cursors, client>>
        /\ \/ r = Ask("inventory", "section", 0)
           \/ r = Ask("pull", "page", client[d].cursor)
           \/ r.op \notin {"inventory", "pull"}
    <2>1. client[d].cursor \in Nat
        BY <1>1 DEF TypeOK, Client
    <2>2. CASE RequestInventory(d)
        <3>1. Ask("inventory", "section", 0) \in Request
            BY AskIsRequest
        <3> QED
            BY <2>2, <3>1 DEF RequestInventory, Send
    <2>3. CASE RequestPull(d)
        BY <2>1, <2>3, AskIsRequest DEF RequestPull, Send
    <2>4. CASE RequestHello(d)
        <3>1. Ask("hello", "epoch", 0).op = "hello"
            BY DEF Ask
        <3> QED
            BY <2>4, <3>1, AskIsRequest DEF RequestHello, Send
    <2>5. CASE Lose(d)
        <3>1. NoRequest \in Request /\ NoRequest.op = "none"
            BY AskIsRequest DEF NoRequest, Ask
        <3> QED
            BY <2>5, <3>1 DEF Lose
    <2> QED
        BY <2>2, <2>3, <2>4, <2>5
<1>3. req'[d] = r /\ client'[d] = client[d]
    BY <1>1, <1>2 DEF TypeOK
<1>4. InventoryInv(d)'
    <2>1. \A e \in Item : SectionOf[e] \in 1 .. Section
        BY SyncAssumption
    <2>2. r.op = "inventory" => r.step = "section" /\ r.section = 1
        BY <1>2 DEF Ask
    <2>3. \A e \in Item : r.op = "inventory" => ~ (SectionOf[e] < r.section)
        BY <2>1, <2>2, SyncAssumption
    <2> QED
        BY <1>3, <2>2, <2>3 DEF InventoryInv
<1>5. PullInv(d)'
    BY <1>2, <1>3 DEF PullInv, Ask
<1> QED
    BY <1>1, <1>2, <1>4, <1>5, HandlerIInv DEF TypeOK

\* A section read now is newer than what the device knows.
LEMMA ReadSectionIInv ==
    ASSUME IInv, NEW d \in Device, ReadSection(d)
    PROVE  IInv'
<1> DEFINE q == req[d]
<1>1. TypeOK /\ InventoryInv(d) /\ PullInv(d) /\ Learned(client[d])
    BY DEF IInv
<1>2. q \in Request /\ q.step = "section"
    BY <1>1 DEF TypeOK, ReadSection, At
<1>3. PICK r :
        /\ r = [q EXCEPT !.view = [e \in Item |-> IF SectionOf[e] = q.section
                                                  THEN version[e] ELSE q.view[e]],
                         !.section = q.section + 1,
                         !.step = IF q.section = Section THEN "epoch" ELSE "section"]
        /\ req' = [req EXCEPT ![d] = r]
        /\ UNCHANGED <<logVars, compactVars, cursors, client>>
    BY DEF ReadSection
<1>4. /\ r.op = q.op
      /\ r.section = q.section + 1
      /\ r.step = IF q.section = Section THEN "epoch" ELSE "section"
      /\ \A e \in Item : r.view[e] = IF SectionOf[e] = q.section
                                    THEN version[e] ELSE q.view[e]
    BY <1>2, <1>3 DEF Request
<1>5. r \in Request
    <2>1. PICK view \in Versions, step \in {"section", "epoch"} :
            r = [q EXCEPT !.view = view, !.section = q.section + 1, !.step = step]
        <3>1. [e \in Item |-> IF SectionOf[e] = q.section
                              THEN version[e] ELSE q.view[e]] \in Versions
            BY <1>1, <1>2 DEF Request, TypeOK, Versions
        <3> QED
            BY <3>1, <1>3
    <2>2. q.section + 1 \in Nat
        BY <1>2 DEF Request
    <2>3. PICK r1 : r1 = [q EXCEPT !.view = view]
        OBVIOUS
    <2>4. PICK r2 : r2 = [r1 EXCEPT !.section = q.section + 1]
        OBVIOUS
    <2>5. r = [r2 EXCEPT !.step = step]
        BY <2>1, <2>3, <2>4
    <2>6. r1 \in Request
        BY <2>3, <1>2 DEF Request
    <2>7. r2 \in Request
        BY <2>2, <2>4, <2>6 DEF Request
    <2> QED
        BY <2>5, <2>7 DEF Request
<1>6. req'[d] = r /\ client'[d] = client[d] /\ version' = version
    BY <1>1, <1>3 DEF TypeOK, logVars
<1>7. InventoryInv(d)'
    <2> SUFFICES ASSUME q.op = "inventory"
                 PROVE  InventoryInv(d)'
        BY <1>4, <1>6 DEF InventoryInv
    <2>1. q.section \in Nat /\ Section \in Nat
        BY <1>2, SyncAssumption DEF Request
    <2>2. ASSUME NEW e \in Item, SectionOf[e] < r.section
          PROVE  client[d].seen[e] <= r.view[e] /\ r.view[e] <= version[e]
        <3>1. SectionOf[e] \in Nat /\ version[e] \in Nat
            BY <1>1, SyncAssumption DEF TypeOK, Versions
        <3>2. client[d].seen[e] <= version[e]
            BY <1>1 DEF Learned, Forward
        <3>3. CASE SectionOf[e] = q.section
            BY <3>1, <3>2, <3>3, <1>4
        <3>4. CASE SectionOf[e] # q.section
            <4>1. SectionOf[e] < q.section
                BY <3>1, <3>4, <2>1, <2>2, <1>4
            <4> QED
                BY <4>1, <3>4, <1>1, <1>4 DEF InventoryInv
        <3> QED
            BY <3>3, <3>4
    <2>3. r.step # "section" => r.section > Section
        BY <2>1, <1>4
    <2>4. r.step \in {"section", "epoch"}
        BY <1>4
    <2> QED
        BY <2>2, <2>3, <2>4, <1>6 DEF InventoryInv
<1>8. PullInv(d)'
    BY <1>1, <1>2, <1>4, <1>6 DEF PullInv
<1> QED
    BY <1>1, <1>3, <1>5, <1>7, <1>8, HandlerIInv DEF TypeOK

LEMMA ReadEpochIInv ==
    ASSUME IInv, NEW d \in Device, ReadEpoch(d)
    PROVE  IInv'
<1> DEFINE q == req[d]
<1>1. TypeOK /\ InventoryInv(d) /\ PullInv(d)
    BY DEF IInv
<1>2. q \in Request /\ q.step = "epoch"
    BY <1>1 DEF TypeOK, ReadEpoch, At
<1>3. PICK epoch \in {syncEpoch} \union (IF q.op = "hello" THEN {1} ELSE {}) :
        /\ req' = [req EXCEPT ![d] =
                    [q EXCEPT !.epoch = epoch,
                              !.step = IF q.op = "pull" THEN "upsert" ELSE "cursor"]]
        /\ UNCHANGED <<logVars, compactVars, cursors, client>>
    BY DEF ReadEpoch
<1>n. epoch \in Nat /\ (q.op # "hello" => epoch = syncEpoch)
    BY <1>1 DEF TypeOK
<1>r. PICK r : /\ r = [q EXCEPT !.epoch = epoch,
                               !.step = IF q.op = "pull" THEN "upsert" ELSE "cursor"]
              /\ req' = [req EXCEPT ![d] = r]
    BY <1>3
<1>4. /\ r.op = q.op /\ r.section = q.section /\ r.view = q.view
      /\ r.page = q.page /\ r.cursor = q.cursor /\ r.epoch = epoch
      /\ r.step = IF q.op = "pull" THEN "upsert" ELSE "cursor"
    BY <1>2, <1>r DEF Request
<1>5. r \in Request
    BY <1>2, <1>n, <1>r DEF Request
<1>6. /\ req'[d] = r /\ client'[d] = client[d]
      /\ version' = version /\ syncEpoch' = syncEpoch /\ syncEpoch \in Nat
    BY <1>1, <1>3, <1>r DEF TypeOK, logVars, compactVars
<1>7. InventoryInv(d)'
    BY <1>1, <1>2, <1>4, <1>6, <1>n DEF InventoryInv
<1>8. PullInv(d)'
    <2> SUFFICES ASSUME q.op = "pull"
                 PROVE  PullInv(d)'
        BY <1>4, <1>6 DEF PullInv
    <2>1. Apply(client[d], r) = Apply(client[d], q)
        BY <1>4 DEF Apply
    <2>2. Learned(Apply(client[d], r)) /\ KnowsMore(client[d], Apply(client[d], r))
        BY <2>1, <1>1, <1>2 DEF PullInv
    <2>3. Learned(Apply(client[d], r))'
        <3>1. \A c : Learned(c) => Learned(c)'
            BY <1>3, SameLog
        <3>2. PICK c : c = Apply(client[d], r)
            OBVIOUS
        <3>3. c = Apply(client'[d], req'[d])
            BY <3>2, <1>6
        <3>4. Learned(c)'
            BY <2>2, <3>1, <3>2
        <3> QED
            BY <3>4, <3>2, <1>6 DEF Apply
    <2> QED
        BY <2>2, <2>3, <1>4, <1>6 DEF PullInv, KnowsMore
<1> QED
    BY <1>1, <1>3, <1>5, <1>7, <1>8, <1>r, HandlerIInv DEF TypeOK

\* The end of the log is above every change the view lacks; those are the missed.
LEMMA MaxCursorIInv ==
    ASSUME IInv, NEW d \in Device, MaxCursor(d)
    PROVE  IInv'
<1> DEFINE q == req[d]
           lacking == {e \in Item : q.view[e] < logged[e]}
<1>1. TypeOK /\ LogTells /\ InventoryInv(d) /\ PullInv(d)
    BY DEF IInv
<1>2. q \in Request /\ q.step = "cursor" /\ q.op # "none"
    BY <1>1 DEF TypeOK, MaxCursor, At
<1>3. PICK cursor \in {MaxId(log)}
                        \union (IF q.op = "hello" THEN {client[d].cursor} ELSE {}) :
        /\ req' = [req EXCEPT ![d] =
                    [q EXCEPT !.cursor = cursor,
                              !.missed = IF q.op = "inventory" THEN lacking ELSE {},
                              !.step = IF q.op = "hello" THEN "reply" ELSE "upsert"]]
        /\ UNCHANGED <<logVars, compactVars, cursors, client>>
    BY DEF MaxCursor
<1>r. PICK r :
        /\ r = [q EXCEPT !.cursor = cursor,
                         !.missed = IF q.op = "inventory" THEN lacking ELSE {},
                         !.step = IF q.op = "hello" THEN "reply" ELSE "upsert"]
        /\ req' = [req EXCEPT ![d] = r]
    BY <1>3
<1>4. /\ r.op = q.op /\ r.section = q.section /\ r.view = q.view
      /\ r.epoch = q.epoch /\ r.cursor = cursor
      /\ r.missed = IF q.op = "inventory" THEN lacking ELSE {}
      /\ r.step = IF q.op = "hello" THEN "reply" ELSE "upsert"
    BY <1>2, <1>r DEF Request
<1>5. /\ MaxId(log) \in Nat
      /\ \A x \in log : x.id \in Nat /\ x.id <= MaxId(log)
      /\ MaxId(log) <= last
    <2>1. log \subseteq Row /\ IsFiniteSet(log) /\ last \in Nat
          /\ \A x \in log : x.id \in 1 .. last
        BY <1>1 DEF TypeOK, LogTells
    <2> QED
        BY <2>1, MaxIdIsLast
<1>n. cursor \in Nat /\ (q.op # "hello" => cursor = MaxId(log))
    BY <1>1, <1>5 DEF TypeOK, Client
<1>6. r \in Request
    BY <1>2, <1>n, <1>r DEF Request
<1>7. /\ req'[d] = r /\ client'[d] = client[d]
      /\ version' = version /\ syncEpoch' = syncEpoch
    BY <1>1, <1>3, <1>r DEF TypeOK, logVars, compactVars
<1>8. InventoryInv(d)'
    <2> SUFFICES ASSUME q.op = "inventory"
                 PROVE  InventoryInv(d)'
        BY <1>4, <1>7 DEF InventoryInv
    <2>1. /\ q.section > Section /\ q.section \in Nat
          /\ \A e \in Item : SectionOf[e] < q.section =>
                client[d].seen[e] <= q.view[e] /\ q.view[e] <= version[e]
          /\ q.epoch <= syncEpoch
        BY <1>1, <1>2 DEF InventoryInv, Request
    <2>2. \A e \in Item : SectionOf[e] < q.section
        BY <2>1, SyncAssumption
    <2>3. Informed(Inventoried(r))
        BY <1>4 DEF Informed, Inventoried
    <2>4. ASSUME NEW x \in log
          PROVE  ~ (x.id > MaxId(log))
        BY <1>5
    <2>5. Forward(Inventoried(r))
        BY <2>1, <2>2, <2>4, <1>4, <1>5, <1>n DEF Forward, Inventoried
    <2>6. Learned(Inventoried(r))
        BY <2>3, <2>5 DEF Learned
    <2>7. Learned(Inventoried(req[d]))'
        BY <2>6, <1>3, <1>7, SameLog
    <2> QED
        BY <2>1, <2>7, <1>4, <1>7 DEF InventoryInv
<1>9. PullInv(d)'
    BY <1>1, <1>2, <1>4, <1>7 DEF PullInv
<1> QED
    BY <1>1, <1>3, <1>6, <1>8, <1>9, <1>r, HandlerIInv DEF TypeOK

\* The row of the device is written; the answer stays what it was.
LEMMA UpsertIInv ==
    ASSUME IInv, NEW d \in Device, UpsertDeviceCursor(d)
    PROVE  IInv'
<1> DEFINE q == req[d]
<1>1. TypeOK /\ InventoryInv(d) /\ PullInv(d)
    BY DEF IInv
<1>2. q \in Request /\ q.step = "upsert"
    BY <1>1 DEF TypeOK, UpsertDeviceCursor, At
<1>3. PICK r :
        /\ r = IF q.op = "hello" THEN NoRequest ELSE [q EXCEPT !.step = "reply"]
        /\ req' = [req EXCEPT ![d] = r]
        /\ UNCHANGED <<logVars, compactVars, client>>
    BY DEF UpsertDeviceCursor
<1>4. r \in Request
    BY <1>2, <1>3, AskIsRequest DEF NoRequest, Request
<1>5. r.op \in {"inventory", "pull"} =>
        /\ r.op = q.op /\ r.section = q.section /\ r.view = q.view /\ r.page = q.page
        /\ r.cursor = q.cursor /\ r.epoch = q.epoch /\ r.missed = q.missed
        /\ r.step = "reply"
    BY <1>2, <1>3 DEF Request, NoRequest, Ask
<1>6. /\ req'[d] = r /\ client'[d] = client[d]
      /\ version' = version /\ syncEpoch' = syncEpoch
    BY <1>1, <1>3 DEF TypeOK, logVars, compactVars
<1>7. DOMAIN cursors' \subseteq Device
      /\ \A x \in DOMAIN cursors' : cursors'[x] \in Nat
    <2>1. \/ cursors' = [x \in DOMAIN cursors \union {d} |->
                            IF x = d THEN q.cursor ELSE cursors[x]]
          \/ UNCHANGED cursors
        BY DEF UpsertDeviceCursor
    <2>2. q.cursor \in Nat
        BY <1>2 DEF Request
    <2> QED
        BY <2>1, <2>2, <1>1 DEF TypeOK
<1>8. InventoryInv(d)'
    <2> SUFFICES ASSUME r.op = "inventory"
                 PROVE  InventoryInv(d)'
        BY <1>6 DEF InventoryInv
    <2>1. Inventoried(r) = Inventoried(q) /\ Learned(Inventoried(q))
        BY <1>1, <1>2, <1>5 DEF Inventoried, InventoryInv
    <2>2. Learned(Inventoried(req[d]))'
        BY <2>1, <1>3, <1>6, SameLog
    <2> QED
        BY <2>2, <1>1, <1>2, <1>5, <1>6 DEF InventoryInv
<1>9. PullInv(d)'
    <2> SUFFICES ASSUME r.op = "pull"
                 PROVE  PullInv(d)'
        BY <1>6 DEF PullInv
    <2>1. /\ Apply(client[d], r) = Apply(client[d], q)
          /\ Learned(Apply(client[d], q)) /\ KnowsMore(client[d], Apply(client[d], q))
        <3>1. Apply(client[d], r) = Apply(client[d], q)
            <4>1. r.page = q.page /\ r.cursor = q.cursor
                BY <1>5
            <4> QED
                BY <4>1 DEF Apply
        <3>2. q.op = "pull" /\ q.step # "page"
            BY <1>2, <1>5
        <3> QED
            BY <3>1, <3>2, <1>1 DEF PullInv
    <2>2. Learned(Apply(client[d], req[d]))'
        BY <2>1, <1>3, <1>6, SameLog
    <2> QED
        BY <2>1, <2>2, <1>5, <1>6 DEF PullInv, KnowsMore
<1> QED
    BY <1>3, <1>4, <1>7, <1>8, <1>9, HandlerIInv

-----------------------------------------------------------------------------
(* A page. *)

\* What a device knows after a page: the page is all the log holds up to the new
\* cursor, and of each item it is about it gives the last of those rows.
LEMMA PageLearned ==
    ASSUME TypeOK, LogTells, NEW c \in Client, Learned(c), NEW r \in Request,
           NEW page, page = FirstOf({x \in log : x.id > c.cursor}),
           r.page = Fold(page),
           r.cursor = IF page = {} THEN c.cursor ELSE MaxId(page)
    PROVE  Learned(Apply(c, r)) /\ KnowsMore(c, Apply(c, r))
<1> DEFINE rows == {x \in log : x.id > c.cursor}
<1>a. PICK a : a = Apply(c, r)
    OBVIOUS
<1>1. /\ rows \subseteq Row /\ IsFiniteSet(rows)
      /\ page \subseteq rows /\ page \subseteq Row /\ IsFiniteSet(page)
    <2>1. log \subseteq Row /\ IsFiniteSet(log)
        BY DEF TypeOK, LogTells
    <2>2. rows \subseteq log /\ page \subseteq rows
        BY DEF FirstOf
    <2> QED
        BY <2>1, <2>2, FS_Subset
<1>2. /\ c.cursor \in Nat /\ r.cursor \in Nat /\ last \in Nat
      /\ \A x \in log : /\ x.id \in Nat /\ x.item \in Item /\ x.version \in Nat
                         /\ x.id <= last
      /\ \A e \in Item : c.seen[e] \in Nat /\ logged[e] \in Nat
    BY DEF Client, Request, TypeOK, Versions, Row, LogTells
<1>3. /\ \A x \in page : x.id <= r.cursor
      /\ c.cursor <= r.cursor /\ r.cursor <= last
    <2>1. CASE page = {}
        BY <2>1, <1>2 DEF Learned, Forward
    <2>2. CASE page # {}
        <3>1. /\ \A x \in page : x.id <= r.cursor
              /\ \E x \in page : x.id = r.cursor
            BY <2>2, <1>1, MaxIdIsLast
        <3> QED
            BY <3>1, <1>1, <1>2
    <2> QED
        BY <2>1, <2>2
\* The page holds every row between the two cursors.
<1>4. ASSUME NEW s \in rows, s.id <= r.cursor
      PROVE  s \in page
    <2>1. page # {}
        BY <1>4, <1>2
    <2>2. PICK x \in page : x.id = r.cursor
        BY <2>1, <1>1, MaxIdIsLast
    <2> QED
        BY <2>2, <1>1, <1>4, PageIsPrefix
<1>5. ASSUME NEW e \in Told(r.page)
      PROVE  \E y \in page : /\ y.item = e /\ a.seen[e] = y.version
                             /\ \A s \in page : s.item = e => s.id <= y.id
    <2> DEFINE y == CHOOSE x \in r.page : x.item = e
    <2>1. y \in r.page /\ y.item = e
        BY <1>5 DEF Told
    <2>2. y \in page /\ \A s \in page : s.item = e => s.id <= y.id
        BY <2>1 DEF Fold
    <2>3. e \in Item
        BY <2>1, <2>2, <1>1 DEF Row
    <2>4. a.seen[e] = y.version
        BY <2>3, <1>5, <1>a DEF Apply
    <2> QED
        BY <2>1, <2>2, <2>4
<1>6. ASSUME NEW e \in Item, e \notin Told(r.page)
      PROVE  /\ a.seen[e] = c.seen[e]
             /\ \A s \in page : s.item # e
    <2>1. a.seen[e] = c.seen[e]
        BY <1>6, <1>a DEF Apply
    <2>2. ASSUME NEW s \in page, s.item = e
          PROVE  FALSE
        <3>1. PICK x \in Fold(page) : x.item = s.item
            BY <1>1, FoldKeepsLast
        <3> QED
            BY <3>1, <2>2, <1>6 DEF Told
    <2> QED
        BY <2>1, <2>2
<1>7. a.cursor = r.cursor /\ a.epoch = c.epoch /\ a.missed = c.missed \ Told(r.page)
    BY <1>a DEF Apply
<1>8. Informed(a)
    <2> SUFFICES ASSUME NEW e \in Item, a.seen[e] < logged[e],
                        ~ RowAbove(e, a.cursor)
                 PROVE  a.epoch # syncEpoch \/ e \in a.missed \/ unannounced
        BY DEF Informed
    <2>1. \A s \in log : s.item = e => s.id <= r.cursor
        <3>1. \A s \in log : s.item = e => ~ (s.id > r.cursor)
            BY <1>7 DEF RowAbove
        <3> QED
            BY <3>1, <1>2
    <2>2. CASE e \in Told(r.page)
        <3>1. PICK y \in page : /\ y.item = e /\ a.seen[e] = y.version
                                /\ \A s \in page : s.item = e => s.id <= y.id
            BY <2>2, <1>5
        <3>2. y \in log /\ y.id > c.cursor
            BY <1>1
        <3>3. ASSUME NEW s \in log, s.item = e
              PROVE  s.id <= y.id
            <4>1. CASE s.id > c.cursor
                BY <4>1, <3>1, <3>3, <2>1, <1>4
            <4>2. CASE ~ (s.id > c.cursor)
                BY <4>2, <3>2, <1>2
            <4> QED
                BY <4>1, <4>2
        <3>4. y.version = logged[e]
            BY <3>1, <3>2, <3>3 DEF LogTells
        <3>5. logged[e] \in Nat /\ logged[e] < logged[e]
            BY <3>1, <3>4, <1>2
        <3> QED
            BY <3>5
    <2>3. CASE e \notin Told(r.page)
        <3>1. c.seen[e] < logged[e]
            BY <2>3, <1>6
        <3>2. ~ RowAbove(e, c.cursor)
            BY <2>1, <2>3, <1>4, <1>6 DEF RowAbove
        <3>3. c.epoch # syncEpoch \/ e \in c.missed \/ unannounced
            BY <3>1, <3>2 DEF Learned, Informed
        <3> QED
            BY <3>3, <2>3, <1>7
    <2> QED
        BY <2>2, <2>3
<1>9. Forward(a)
    <2>1. ASSUME NEW e \in Item
          PROVE  a.seen[e] <= version[e]
        <3>1. CASE e \in Told(r.page)
            BY <3>1, <1>1, <1>5 DEF LogTells
        <3>2. CASE e \notin Told(r.page)
            BY <3>2, <1>6 DEF Learned, Forward
        <3> QED
            BY <3>1, <3>2
    <2>2. ASSUME NEW x \in log, x.id > a.cursor
          PROVE  x.version >= a.seen[x.item]
        <3>1. CASE x.item \in Told(r.page)
            <4>1. PICK y \in page : y.item = x.item /\ a.seen[x.item] = y.version
                BY <3>1, <1>5
            <4>2. y \in log /\ y.id <= x.id
                BY <2>2, <1>1, <1>2, <1>3, <1>7
            <4>3. y.version <= x.version
                BY <4>1, <4>2 DEF LogTells
            <4> QED
                BY <4>1, <4>2, <4>3, <1>2
        <3>2. CASE x.item \notin Told(r.page)
            <4>1. x.id > c.cursor
                BY <2>2, <1>2, <1>3, <1>7
            <4> QED
                BY <4>1, <3>2, <1>2, <1>6 DEF Learned, Forward
        <3> QED
            BY <3>1, <3>2
    <2> QED
        BY <2>1, <2>2, <1>3, <1>7 DEF Learned, Forward
<1>10. ASSUME NEW e \in Item
       PROVE  c.seen[e] <= a.seen[e]
    <2>1. CASE e \in Told(r.page)
        <3>1. PICK y \in page : y.item = e /\ a.seen[e] = y.version
            BY <2>1, <1>5
        <3>2. y \in log /\ y.id > c.cursor
            BY <1>1
        <3>3. y.version >= c.seen[e]
            BY <3>1, <3>2 DEF Learned, Forward
        <3> QED
            BY <3>1, <3>2, <3>3, <1>2
    <2>2. CASE e \notin Told(r.page)
        <3>1. a.seen[e] = c.seen[e] /\ c.seen[e] \in Nat
            BY <2>2, <1>2, <1>6
        <3> QED
            BY <3>1
    <2> QED
        BY <2>1, <2>2
<1> QED
    BY <1>8, <1>9, <1>10, <1>a DEF Learned, KnowsMore

LEMMA ReadPageIInv ==
    ASSUME IInv, NEW d \in Device, ReadPage(d)
    PROVE  IInv'
<1> DEFINE q == req[d]
<1>1. /\ TypeOK /\ LogTells /\ InventoryInv(d) /\ PullInv(d)
      /\ client[d] \in Client /\ Learned(client[d])
    BY DEF IInv, TypeOK
<1>2. q \in Request /\ q.step = "page" /\ q.op # "none"
    BY <1>1 DEF TypeOK, ReadPage, At
<1>3. PICK page : page = FirstOf(After(q.cursor))
    OBVIOUS
<1>4. PICK r :
        /\ r = [q EXCEPT !.page = Fold(page),
                         !.cursor = IF page = {} THEN q.cursor ELSE MaxId(page),
                         !.step = "epoch"]
        /\ req' = [req EXCEPT ![d] = r]
        /\ UNCHANGED <<logVars, compactVars, cursors, client>>
    BY <1>3 DEF ReadPage
<1>5. /\ r.op = q.op /\ r.step = "epoch" /\ r.page = Fold(page)
      /\ r.cursor = IF page = {} THEN q.cursor ELSE MaxId(page)
    BY <1>2, <1>4 DEF Request
<1>6. r \in Request
    <2>1. page \subseteq log /\ log \subseteq Row /\ IsFiniteSet(log)
        BY <1>1, <1>3 DEF FirstOf, After, TypeOK, LogTells
    <2>2. Fold(page) \subseteq Row
        BY <2>1 DEF Fold
    <2>3. page \subseteq Row /\ IsFiniteSet(page)
        BY <2>1, FS_Subset
    <2>4. MaxId(page) \in Nat
        BY <2>3, MaxIdIsLast
    <2>5. q.cursor \in Nat
        BY <1>2 DEF Request
    <2>6. PICK n \in Nat : n = IF page = {} THEN q.cursor ELSE MaxId(page)
        BY <2>4, <2>5
    <2>7. r = [q EXCEPT !.page = Fold(page), !.cursor = n, !.step = "epoch"]
        BY <1>4, <2>6
    <2> QED
        BY <2>2, <2>7, <1>2 DEF Request
<1>7. req'[d] = r /\ client'[d] = client[d]
    BY <1>1, <1>4 DEF TypeOK
<1>8. InventoryInv(d)'
    BY <1>1, <1>2, <1>5, <1>7 DEF InventoryInv
<1>9. PullInv(d)'
    <2> SUFFICES ASSUME q.op = "pull"
                 PROVE  PullInv(d)'
        BY <1>5, <1>7 DEF PullInv
    <2>1. q.cursor = client[d].cursor
        BY <1>1, <1>2 DEF PullInv
    <2>2. page = FirstOf({x \in log : x.id > client[d].cursor})
        BY <2>1, <1>3 DEF After
    <2>3. r.cursor = IF page = {} THEN client[d].cursor ELSE MaxId(page)
        BY <2>1, <1>5
    <2>4. Learned(Apply(client[d], r)) /\ KnowsMore(client[d], Apply(client[d], r))
        BY <2>2, <2>3, <1>1, <1>5, <1>6, PageLearned
    <2>5. Learned(Apply(client[d], req[d]))'
        BY <2>4, <1>4, <1>7, SameLog
    <2> QED
        BY <2>4, <2>5, <1>5, <1>7 DEF PullInv, KnowsMore
<1> QED
    BY <1>1, <1>4, <1>6, <1>8, <1>9, HandlerIInv DEF TypeOK

-----------------------------------------------------------------------------
(* Answers. *)

\* The device takes up what the answer tells, and that is Learned already.
LEMMA AnswerIInv ==
    ASSUME IInv, NEW d \in Device, NEW r \in Request, NEW c \in Client,
           r.op \notin {"inventory", "pull"}, Learned(c),
           req' = [req EXCEPT ![d] = r],
           client' = [client EXCEPT ![d] = c],
           UNCHANGED <<logVars, compactVars, cursors>>
    PROVE  IInv'
<1>1. TypeOK /\ LogTells
    BY DEF IInv
<1>2. TypeOK'
    BY <1>1 DEF TypeOK, logVars, compactVars
<1>3. LogTells'
    BY <1>1, SameLogTells
<1>4. \A x : Learned(x) => Learned(x)'
    BY SameLog
<1>5. ASSUME NEW g \in Device
      PROVE  Learned(client[g])' /\ InventoryInv(g)' /\ PullInv(g)'
    <2>1. Learned(client[g]) /\ InventoryInv(g) /\ PullInv(g)
        BY DEF IInv
    <2>2. CASE g = d
        <3>1. req'[g] = r /\ client'[g] = c
            BY <2>2, <1>1 DEF TypeOK
        <3>2. Learned(client[g])'
            BY <3>1, <1>4
        <3> QED
            BY <3>1, <3>2 DEF InventoryInv, PullInv
    <2>3. CASE g # d
        <3>1. req'[g] = req[g] /\ client'[g] = client[g]
            BY <2>3, <1>1 DEF TypeOK
        <3>2. InventoryInv(g)'
            BY <2>1, <3>1, <1>4 DEF InventoryInv, logVars, compactVars
        <3>3. PullInv(g)'
            BY <2>1, <3>1, <1>4 DEF PullInv, KnowsMore
        <3>4. Learned(client[g])'
            BY <2>1, <3>1, <1>4
        <3> QED
            BY <3>2, <3>3, <3>4
    <2> QED
        BY <2>2, <2>3
<1> QED
    BY <1>2, <1>3, <1>5 DEF IInv

\* A device without an epoch knows that it has to take an inventory.
LEMMA ForgottenEpoch ==
    ASSUME TypeOK, NEW c \in Client, Learned(c)
    PROVE  [c EXCEPT !.epoch = 0] \in Client /\ Learned([c EXCEPT !.epoch = 0])
<1>1. PICK f : f = [c EXCEPT !.epoch = 0]
    OBVIOUS
<1>2. f \in Client /\ f.epoch = 0 /\ f.cursor = c.cursor /\ f.seen = c.seen
    BY <1>1 DEF Client
<1>3. syncEpoch \in Nat /\ syncEpoch # 0
    BY DEF TypeOK
<1>4. Informed(f)
    BY <1>2, <1>3 DEF Informed
<1>5. Forward(f)
    BY <1>2, <1>3 DEF Learned, Forward
<1> QED
    BY <1>1, <1>2, <1>4, <1>5 DEF Learned

LEMMA DeliverIInv ==
    ASSUME IInv, NEW d \in Device, Deliver(d)
    PROVE  IInv'
<1> DEFINE q == req[d]
<1>1. /\ TypeOK /\ InventoryInv(d) /\ PullInv(d) /\ Learned(client[d])
      /\ q \in Request /\ client[d] \in Client
    BY DEF IInv, TypeOK
<1>2. NoRequest \in Request /\ NoRequest.op = "none"
    BY AskIsRequest DEF NoRequest, Ask
<1>3. Inventoried(q) \in Client /\ Apply(client[d], q) \in Client
    BY <1>1, ResultsAreClients
<1>4. PICK f \in Client : f = [client[d] EXCEPT !.epoch = 0] /\ Learned(f)
    BY <1>1, ForgottenEpoch
<1>5. PICK r \in Request, c \in Client :
        /\ r.op \notin {"inventory", "pull"} /\ Learned(c)
        /\ req' = [req EXCEPT ![d] = r]
        /\ client' = [client EXCEPT ![d] = c]
        /\ UNCHANGED <<logVars, compactVars, cursors>>
    <2>1. CASE DeliverInventory(d)
        <3>1. Learned(Inventoried(q))
            BY <2>1, <1>1 DEF DeliverInventory, InventoryInv
        <3> QED
            BY <2>1, <3>1, <1>2, <1>3 DEF DeliverInventory
    <2>2. CASE DeliverPull(d)
        <3>1. Learned(Apply(client[d], q))
            BY <2>2, <1>1 DEF DeliverPull, PullInv
        <3>2. CASE q.epoch = client[d].epoch
            BY <2>2, <3>1, <3>2, <1>2, <1>3 DEF DeliverPull
        <3>3. CASE q.epoch # client[d].epoch
            BY <2>2, <3>3, <1>2, <1>4 DEF DeliverPull
        <3> QED
            BY <3>2, <3>3
    <2>3. CASE DeliverHello(d)
        <3>1. PICK r : r = Ask("hello", "upsert", q.cursor)
            OBVIOUS
        <3>2. r \in Request /\ r.op = "hello"
            <4>1. q.cursor \in Nat
                BY <1>1 DEF Request
            <4>2. r \in Request
                BY <3>1, <4>1, AskIsRequest
            <4> QED
                BY <3>1, <4>2 DEF Ask
        <3>3. req' = [req EXCEPT ![d] = r]
            BY <3>1, <2>3 DEF DeliverHello
        <3>4. CASE UNCHANGED client
            <4>1. client' = [client EXCEPT ![d] = client[d]]
                BY <3>4, <1>1 DEF TypeOK
            <4> QED
                BY <4>1, <2>3, <3>2, <3>3, <1>1 DEF DeliverHello
        <3>5. CASE client' = [client EXCEPT ![d] = f]
            BY <2>3, <3>2, <3>3, <3>5, <1>4 DEF DeliverHello
        <3> QED
            BY <2>3, <3>4, <3>5, <1>4 DEF DeliverHello
    <2> QED
        BY <2>1, <2>2, <2>3 DEF Deliver
<1> QED
    BY <1>5, AnswerIInv

-----------------------------------------------------------------------------
(* The invariant. *)

LEMMA InitIInv == Init => IInv
<1> SUFFICES ASSUME Init
             PROVE  IInv
    OBVIOUS
<1>1. TypeOK
    <2>1. NoRequest \in Request
        BY AskIsRequest DEF NoRequest
    <2>2. Nothing \in Versions
        BY DEF Nothing, Versions
    <2>3. req \in [Device -> Request] /\ client \in [Device -> Client]
        BY <2>1, <2>2 DEF Init, Client
    <2>4. compaction \in Compaction
        BY DEF Init, NoCompaction, Compaction
    <2>5. DOMAIN cursors \subseteq Device /\ \A d \in DOMAIN cursors : cursors[d] \in Nat
        BY DEF Init
    <2>6. /\ version \in Versions /\ logged \in Versions
          /\ pending \in Item \union {NoItem} /\ log \subseteq Row /\ last \in Nat
          /\ syncEpoch \in Nat \ {0} /\ unannounced \in BOOLEAN
        <3>1. /\ version = Nothing /\ logged = Nothing /\ pending = NoItem
              /\ log = {} /\ last = 0 /\ syncEpoch = 1
            BY DEF Init
        <3>2. unannounced \in BOOLEAN
            BY DEF Init
        <3>3. log \subseteq Row /\ last \in Nat /\ syncEpoch \in Nat \ {0}
            BY <3>1
        <3> QED
            BY <2>2, <3>1, <3>2, <3>3
    <2> QED
        BY <2>3, <2>4, <2>5, <2>6 DEF TypeOK
<1>2. LogTells
    BY FS_EmptySet DEF Init, LogTells, Nothing
<1>3. ASSUME NEW d \in Device
      PROVE  Learned(client[d]) /\ InventoryInv(d) /\ PullInv(d)
    <2>1. client[d] = [cursor |-> 0, epoch |-> 0, seen |-> Nothing, missed |-> {}]
          /\ req[d] = NoRequest
        BY DEF Init
    <2>2. Informed(client[d])
        BY <2>1 DEF Init, Informed, Nothing
    <2>3. Forward(client[d])
        BY <2>1 DEF Init, Forward, Nothing
    <2> QED
        BY <2>1, <2>2, <2>3 DEF Learned, InventoryInv, PullInv, NoRequest, Ask
<1> QED
    BY <1>1, <1>2, <1>3 DEF IInv

LEMMA NextIInv == IInv /\ [Next]_vars => IInv'
<1> SUFFICES ASSUME IInv, [Next]_vars
             PROVE  IInv'
    OBVIOUS
<1>1. CASE \E e \in Item : Commit(e)
    BY <1>1, CommitIInv
<1>2. CASE AppendUnlocked
    BY <1>2, AppendIInv
<1>3. CASE DropWriter
    BY <1>3, DropWriterIInv
<1>4. ASSUME NEW d \in Device,
             RequestInventory(d) \/ RequestPull(d) \/ RequestHello(d) \/ Lose(d)
      PROVE  IInv'
    BY <1>4, RequestIInv
<1>5. ASSUME NEW d \in Device, ServerStep(d)
      PROVE  IInv'
    BY <1>5, ReadSectionIInv, ReadPageIInv, ReadEpochIInv, MaxCursorIInv, UpsertIInv
        DEF ServerStep
<1>6. ASSUME NEW d \in Device, Deliver(d)
      PROVE  IInv'
    BY <1>6, DeliverIInv
<1>7. CASE ExpireDevices \/ Compact \/ DropCompaction
    BY <1>7, QuietCompactionIInv, DeleteRowsIInv, RaiseEpochIInv DEF Compact
<1>8. CASE UNCHANGED vars
    <2>1. TypeOK' /\ UNCHANGED <<req, client>> /\ \A c \in Client : Learned(c) => Learned(c)'
        BY <1>8, SameLog DEF IInv, TypeOK, vars, logVars, compactVars
    <2>2. LogTells'
        BY <1>8, SameLogTells DEF IInv, vars
    <2>3. (\A e \in Item : version[e] <= version'[e]) /\ syncEpoch <= syncEpoch'
        BY <1>8 DEF IInv, TypeOK, Versions, vars, logVars, compactVars
    <2> QED
        BY <2>1, <2>2, <2>3, BackgroundIInv
<1> QED
    BY <1>1, <1>2, <1>3, <1>4, <1>5, <1>6, <1>7, <1>8 DEF Next

\* The tables, the requests and the devices keep their types, the log tells each
\* item's versions in order, and what a device knows or is about to know is learned.
THEOREM SpecIInv == Spec => []IInv
BY InitIInv, NextIInv, PTL DEF Spec

\* No device silently misses a logged change: in SyncRepo::pull, ::inventory and
\* ::compact, for any interleaving of their statements and any loss of answers.
THEOREM SpecGapAnnounced == Spec => []GapAnnounced
<1>1. IInv => GapAnnounced
    BY DEF IInv, GapAnnounced, Learned
<1> QED
    BY <1>1, SpecIInv, PTL

\* A device never goes back to an older version of an item, whatever order
\* SyncRepo::inventory and ::pull answer it in: what arrives is no older than what
\* it has, by InventoryInv and PullInv.
THEOREM SpecNeverGoesBack == Spec => NeverGoesBack
<1> DEFINE NoOlder ==
        \A d \in Device : \A e \in Item : client'[d].seen[e] >= client[d].seen[e]
<1>1. ASSUME IInv, [Next]_vars
      PROVE  NoOlder
    <2>1. TypeOK
        BY <1>1 DEF IInv
    <2>2. \A d \in Device : \A e \in Item : client[d].seen[e] \in Nat
        BY <2>1 DEF TypeOK, Client, Versions
    <2>3. ASSUME NEW d \in Device, Deliver(d)
          PROVE  NoOlder
        <3> DEFINE q == req[d]
        <3>1. InventoryInv(d) /\ PullInv(d)
            BY <1>1 DEF IInv
        <3>2. PICK c :
                /\ client' = [client EXCEPT ![d] = c]
                /\ \A e \in Item : client[d].seen[e] <= c.seen[e] /\ c.seen[e] \in Nat
            <4>1. CASE DeliverInventory(d)
                <5>1. /\ q.op = "inventory" /\ q.step = "reply" /\ q.section \in Nat
                      /\ \A e \in Item : q.view[e] \in Nat
                    BY <4>1, <2>1 DEF DeliverInventory, TypeOK, Request, Versions
                <5>2. \A e \in Item : SectionOf[e] < q.section
                    BY <5>1, <3>1, SyncAssumption DEF InventoryInv
                <5>3. \A e \in Item : client[d].seen[e] <= q.view[e]
                    BY <5>1, <5>2, <3>1 DEF InventoryInv
                <5>4. PICK i : i = Inventoried(q)
                    OBVIOUS
                <5>5. i.seen = q.view
                    BY <5>4 DEF Inventoried
                <5>6. client' = [client EXCEPT ![d] = i]
                    BY <4>1, <5>4 DEF DeliverInventory
                <5> QED
                    BY <5>1, <5>3, <5>5, <5>6
            <4>2. CASE q.epoch = client[d].epoch /\ DeliverPull(d)
                <5>1. PICK a : a = Apply(client[d], q)
                    OBVIOUS
                <5>2. \A e \in Item : client[d].seen[e] <= a.seen[e]
                    BY <4>2, <5>1, <3>1 DEF DeliverPull, PullInv, KnowsMore
                <5>3. \A e \in Item : a.seen[e] \in Nat
                    BY <5>1, <2>1, ResultsAreClients DEF TypeOK, Client, Versions
                <5>4. client' = [client EXCEPT ![d] = a]
                    BY <4>2, <5>1 DEF DeliverPull
                <5> QED
                    BY <5>2, <5>3, <5>4
            <4>3. CASE /\ q.epoch # client[d].epoch /\ client' # client
                       /\ DeliverPull(d) \/ DeliverHello(d)
                <5>1. PICK f : f = [client[d] EXCEPT !.epoch = 0]
                    OBVIOUS
                <5>2. f.seen = client[d].seen
                    BY <5>1, <2>1 DEF TypeOK, Client
                <5>3. client' = [client EXCEPT ![d] = f]
                    BY <4>3, <5>1 DEF DeliverPull, DeliverHello
                <5>4. \A e \in Item : client[d].seen[e] <= f.seen[e] /\ f.seen[e] \in Nat
                    BY <5>2, <2>2
                <5> QED
                    BY <5>3, <5>4
            <4>4. CASE UNCHANGED client
                <5>1. PICK c : c = client[d]
                    OBVIOUS
                <5>2. client' = [client EXCEPT ![d] = c]
                    BY <4>4, <5>1, <2>1 DEF TypeOK
                <5>3. \A e \in Item : client[d].seen[e] <= c.seen[e] /\ c.seen[e] \in Nat
                    BY <5>1, <2>2
                <5> QED
                    BY <5>2, <5>3
            <4> QED
                BY <2>3, <4>1, <4>2, <4>3, <4>4 DEF Deliver, DeliverHello
        <3>3. ASSUME NEW g \in Device, NEW e \in Item
              PROVE  client'[g].seen[e] >= client[g].seen[e]
            <4>1. CASE g = d
                BY <4>1, <3>2, <2>1, <2>2 DEF TypeOK
            <4>2. CASE g # d
                <5>1. client'[g] = client[g]
                    BY <4>2, <3>2, <2>1 DEF TypeOK
                <5> QED
                    BY <5>1, <2>2
            <4> QED
                BY <4>1, <4>2
        <3> QED
            BY <3>3
    <2>4. ASSUME client' = client
          PROVE  NoOlder
        BY <2>2, <2>4
    <2>5. (\E d \in Device : Deliver(d)) \/ client' = client
        BY <1>1 DEF Next, Commit, AppendUnlocked, DropWriter, RequestInventory,
            RequestPull, RequestHello, Send, ServerStep, ReadSection, ReadPage, ReadEpoch,
            MaxCursor, UpsertDeviceCursor, Lose, ExpireDevices, Compact, ReadWatermark,
            DeleteRows, RaiseEpoch, DropCompaction, vars
    <2> QED
        BY <2>3, <2>4, <2>5
<1>2. IInv /\ [Next]_vars => [NoOlder]_vars
    BY <1>1
<1> QED
    BY <1>2, SpecIInv, PTL DEF Spec, NeverGoesBack

-----------------------------------------------------------------------------
(* The end of the log. *)

\* A step that gives out no cursor beyond the last row, and takes no last row away.
LEMMA FrameCursorInv ==
    ASSUME TypeOK, CursorInv, UNCHANGED <<log, last, cursors, compaction>>,
           NEW d \in Device, NEW r, r.cursor <= last, req' = [req EXCEPT ![d] = r]
    PROVE  CursorInv'
<1>1. \A g \in Device : req'[g].cursor <= last
    BY DEF TypeOK, CursorInv
<1> QED
    BY <1>1 DEF CursorInv

LEMMA RequestCursorInv ==
    ASSUME IInv, CursorInv, NEW d \in Device,
           \/ RequestInventory(d) \/ RequestPull(d) \/ RequestHello(d)
           \/ Lose(d) \/ Deliver(d)
    PROVE  CursorInv'
<1> DEFINE q == req[d]
<1>1. TypeOK /\ client[d].cursor <= last /\ q.cursor <= last /\ q \in Request
      /\ 0 <= last /\ UNCHANGED <<log, last, cursors, compaction>>
    <2>1. TypeOK /\ client[d].cursor <= last
        BY DEF IInv, Learned, Forward
    <2>2. UNCHANGED <<log, last, cursors, compaction>>
        BY DEF RequestInventory, RequestPull, RequestHello, Send, Lose, Deliver,
            DeliverInventory, DeliverPull, DeliverHello, logVars, compactVars
    <2> QED
        BY <2>1, <2>2 DEF CursorInv, TypeOK
<1>2. PICK r : r.cursor <= last /\ req' = [req EXCEPT ![d] = r]
    <2>1. CASE RequestInventory(d) \/ RequestHello(d)
        <3>1. \A op, step : Ask(op, step, 0).cursor <= last
            BY <1>1 DEF Ask
        <3> QED
            BY <2>1, <3>1 DEF RequestInventory, RequestHello, Send
    <2>2. CASE RequestPull(d)
        <3>1. Ask("pull", "page", client[d].cursor).cursor <= last
            BY <1>1 DEF Ask
        <3> QED
            BY <2>2, <3>1 DEF RequestPull, Send
    <2>3. CASE Lose(d) \/ DeliverInventory(d) \/ DeliverPull(d)
        <3>1. NoRequest.cursor <= last
            BY <1>1 DEF NoRequest, Ask
        <3> QED
            BY <2>3, <3>1 DEF Lose, DeliverInventory, DeliverPull
    <2>4. CASE DeliverHello(d)
        <3>1. PICK r : r = Ask("hello", "upsert", q.cursor)
            OBVIOUS
        <3>2. r.cursor <= last
            BY <3>1, <1>1 DEF Ask
        <3>3. req' = [req EXCEPT ![d] = r]
            BY <2>4, <3>1 DEF DeliverHello
        <3> QED
            BY <3>2, <3>3
    <2> QED
        BY <2>1, <2>2, <2>3, <2>4 DEF Deliver
<1> QED
    BY <1>1, <1>2, FrameCursorInv

LEMMA ServerCursorInv ==
    ASSUME IInv, CursorInv, NEW d \in Device, ServerStep(d)
    PROVE  CursorInv'
<1> DEFINE q == req[d]
<1>1. /\ TypeOK /\ client[d].cursor \in Nat /\ client[d].cursor <= last
      /\ q.cursor <= last /\ q \in Request /\ last \in Nat
      /\ log \subseteq Row /\ IsFiniteSet(log) /\ \A x \in log : x.id <= last
    BY DEF IInv, Learned, Forward, LogTells, TypeOK, Client, CursorInv
<1>2. ASSUME NEW rows \in SUBSET log
      PROVE  MaxId(rows) \in Nat /\ MaxId(rows) <= last
    <2>1. rows \subseteq Row /\ IsFiniteSet(rows)
        BY <1>1, FS_Subset
    <2> QED
        BY <2>1, <1>1, MaxIdIsLast
<1>3. CASE ReadSection(d) \/ ReadPage(d) \/ ReadEpoch(d) \/ MaxCursor(d)
    <2>1. PICK r : r.cursor <= last /\ req' = [req EXCEPT ![d] = r]
        <3>1. CASE ReadSection(d)
            <4>1. PICK r :
                /\ req' = [req EXCEPT ![d] = r]
                /\ r = [q EXCEPT
                        !.view = [e \in Item |-> IF SectionOf[e] = q.section
                                                 THEN version[e] ELSE q.view[e]],
                        !.section = q.section + 1,
                        !.step = IF q.section = Section THEN "epoch" ELSE "section"]
                BY <3>1 DEF ReadSection
            <4>2. r.cursor = q.cursor
                BY <4>1, <1>1 DEF Request
            <4> QED
                BY <4>1, <4>2, <1>1
        <3>2. CASE ReadPage(d)
            <4>1. PICK page \in SUBSET log : page = FirstOf(After(q.cursor))
                BY DEF FirstOf, After
            <4>2. PICK r :
                /\ req' = [req EXCEPT ![d] = r]
                /\ r = [q EXCEPT !.page = Fold(page),
                        !.cursor = IF page = {} THEN q.cursor ELSE MaxId(page),
                        !.step = "epoch"]
                BY <3>2, <4>1 DEF ReadPage
            <4>3. r.cursor = IF page = {} THEN q.cursor ELSE MaxId(page)
                BY <4>2, <1>1 DEF Request
            <4> QED
                BY <4>1, <4>2, <4>3, <1>1, <1>2
        <3>3. CASE ReadEpoch(d)
            <4>1. PICK n, r :
                /\ req' = [req EXCEPT ![d] = r]
                /\ r = [q EXCEPT !.epoch = n,
                        !.step = IF q.op = "pull" THEN "upsert" ELSE "cursor"]
                BY <3>3 DEF ReadEpoch
            <4>2. r.cursor = q.cursor
                BY <4>1, <1>1 DEF Request
            <4> QED
                BY <4>1, <4>2, <1>1
        <3>4. CASE MaxCursor(d)
            <4>1. PICK n \in {MaxId(log)}
                          \union (IF q.op = "hello" THEN {client[d].cursor} ELSE {}) :
                    req' = [req EXCEPT ![d] =
                        [q EXCEPT !.cursor = n,
                                  !.missed = IF q.op = "inventory"
                                             THEN {e \in Item : q.view[e] < logged[e]}
                                             ELSE {},
                                  !.step = IF q.op = "hello" THEN "reply" ELSE "upsert"]]
                BY <3>4 DEF MaxCursor
            <4>2. PICK r :
                /\ req' = [req EXCEPT ![d] = r]
                /\ r = [q EXCEPT !.cursor = n,
                                 !.missed = IF q.op = "inventory"
                                            THEN {e \in Item : q.view[e] < logged[e]}
                                            ELSE {},
                                 !.step = IF q.op = "hello" THEN "reply" ELSE "upsert"]
                BY <4>1
            <4>3. r.cursor = n
                BY <4>2, <1>1 DEF Request
            <4>4. n <= last
                BY <4>1, <1>1, <1>2
            <4> QED
                BY <4>2, <4>3, <4>4
        <3> QED
            BY <1>3, <3>1, <3>2, <3>3, <3>4
    <2>2. UNCHANGED <<log, last, cursors, compaction>>
        BY <1>3 DEF ReadSection, ReadPage, ReadEpoch, MaxCursor, logVars, compactVars
    <2> QED
        BY <2>1, <2>2, <1>1, FrameCursorInv
<1>4. CASE UpsertDeviceCursor(d)
    <2>1. UNCHANGED <<log, last, compaction>>
        BY <1>4 DEF UpsertDeviceCursor, logVars, compactVars
    <2>2. PICK r : r.cursor <= last /\ req' = [req EXCEPT ![d] = r]
        <3>1. PICK r : r = IF q.op = "hello" THEN NoRequest ELSE [q EXCEPT !.step = "reply"]
            OBVIOUS
        <3>2. req' = [req EXCEPT ![d] = r]
            BY <1>4, <3>1 DEF UpsertDeviceCursor
        <3>3. r.cursor <= last
            BY <3>1, <1>1 DEF Request, NoRequest, Ask
        <3> QED
            BY <3>2, <3>3
    <2>3. \A g \in Device : req'[g].cursor <= last
        BY <2>2, <1>1 DEF TypeOK, CursorInv
    <2>4. \A g \in DOMAIN cursors' : cursors'[g] <= last
        <3>1. \/ cursors' = [x \in DOMAIN cursors \union {d} |->
                                IF x = d THEN q.cursor ELSE cursors[x]]
              \/ UNCHANGED cursors
            BY <1>4 DEF UpsertDeviceCursor
        <3> QED
            BY <3>1, <1>1 DEF CursorInv
    <2> QED
        BY <2>1, <2>3, <2>4 DEF CursorInv
<1> QED
    BY <1>3, <1>4 DEF ServerStep

LEMMA WriterCursorInv ==
    ASSUME IInv, CursorInv,
           (\E e \in Item : Commit(e)) \/ AppendUnlocked \/ DropWriter
    PROVE  CursorInv'
<1>1. CASE (\E e \in Item : Commit(e)) \/ DropWriter
    BY <1>1 DEF Commit, DropWriter, CursorInv, compactVars
<1>2. CASE AppendUnlocked
    <2>1. PICK row : log' = log \union {row} /\ row.id = last + 1
        <3>1. PICK row : row = [id |-> last + 1, item |-> pending,
                                version |-> version[pending]]
            OBVIOUS
        <3>2. log' = log \union {row}
            BY <1>2, <3>1 DEF AppendUnlocked
        <3>3. row.id = last + 1
            BY <3>1
        <3> QED
            BY <3>2, <3>3
    <2>2. last' = last + 1 /\ UNCHANGED <<compactVars, cursors, req>>
        BY <1>2 DEF AppendUnlocked
    <2>3. /\ last \in Nat /\ \A d \in Device : req[d].cursor \in Nat
          /\ \A d \in DOMAIN cursors : cursors[d] \in Nat
          /\ compaction.watermark \in Nat
        BY DEF IInv, TypeOK, Request, Compaction
    <2>4. \A n \in Nat : n <= last => n <= last'
        BY <2>2, <2>3
    <2> QED
        BY <2>1, <2>2, <2>3, <2>4 DEF CursorInv, compactVars
<1> QED
    BY <1>1, <1>2

\* The watermark is no later than the last row, so the last row stays.
LEMMA CompactionCursorInv ==
    ASSUME IInv, CursorInv, ExpireDevices \/ Compact \/ DropCompaction
    PROVE  CursorInv'
<1>1. TypeOK /\ last \in Nat /\ compaction.watermark \in Nat
    BY DEF IInv, TypeOK, Compaction
<1>2. CASE ExpireDevices
    <2>1. PICK kept \in SUBSET DOMAIN cursors : cursors' = [d \in kept |-> cursors[d]]
        BY <1>2 DEF ExpireDevices
    <2>2. UNCHANGED <<log, last, req>> /\ compaction'.watermark = 0
        BY <1>2 DEF ExpireDevices, logVars
    <2> QED
        BY <2>1, <2>2, <1>1 DEF CursorInv
<1>3. CASE ReadWatermark
    <2>1. Watermark <= last
        BY <1>1, WatermarkIsCursor DEF CursorInv
    <2>2. compaction'.watermark <= last
        BY <1>1, <1>3, <2>1 DEF ReadWatermark, NoCompaction
    <2> QED
        BY <1>3, <2>2 DEF ReadWatermark, CursorInv, logVars
<1>4. CASE DeleteRows
    <2>1. \A r \in log : r \notin log' => r.id < compaction.watermark
        BY <1>4 DEF DeleteRows, Compacted
    <2>2. log' \subseteq log /\ UNCHANGED <<last, cursors, req>>
        BY <1>4 DEF DeleteRows
    <2>3. compaction'.watermark = 0
        BY <1>4 DEF DeleteRows, NoCompaction
    <2>4. IF log' = {} THEN last = 0 ELSE \E r \in log' : r.id = last
        <3>1. CASE log = {}
            BY <3>1, <2>2 DEF CursorInv
        <3>2. CASE log # {}
            <4>1. PICK r \in log : r.id = last
                BY <3>2 DEF CursorInv
            <4>2. ~ (last < compaction.watermark)
                BY <1>1 DEF CursorInv
            <4>3. r \in log'
                BY <4>1, <4>2, <2>1
            <4> QED
                BY <4>1, <4>3
        <3> QED
            BY <3>1, <3>2
    <2> QED
        BY <2>2, <2>3, <2>4, <1>1 DEF CursorInv
<1>5. CASE RaiseEpoch \/ DropCompaction
    BY <1>1, <1>5 DEF RaiseEpoch, DropCompaction, NoCompaction, CursorInv, logVars
<1> QED
    BY <1>2, <1>3, <1>4, <1>5 DEF Compact

\* MAX(id) never goes back and no cursor that SyncRepo::pull, ::inventory, the
\* greeting or device_cursors holds is beyond it, whatever ::compact deletes.
THEOREM SpecCursorsWithinLog == Spec => []CursorsWithinLog
<1>1. Init => CursorInv
    BY DEF Init, CursorInv, NoRequest, Ask, NoCompaction
<1>2. IInv /\ CursorInv /\ [Next]_vars => CursorInv'
    <2> SUFFICES ASSUME IInv, CursorInv, [Next]_vars
                 PROVE  CursorInv'
        OBVIOUS
    <2>1. CASE UNCHANGED vars
        BY <2>1 DEF CursorInv, vars, logVars, compactVars
    <2> QED
        BY <2>1, WriterCursorInv, RequestCursorInv, ServerCursorInv, CompactionCursorInv
            DEF Next
<1>3. IInv /\ CursorInv => CursorsWithinLog
    <2> SUFFICES ASSUME IInv, CursorInv
                 PROVE  CursorsWithinLog
        OBVIOUS
    <2>1. /\ log \subseteq Row /\ IsFiniteSet(log) /\ last \in Nat
          /\ \A x \in log : x.id <= last /\ x.id \in Nat
          /\ \A d \in Device : client[d].cursor <= last
        BY DEF IInv, TypeOK, LogTells, Learned, Forward
    <2>2. MaxId(log) = last
        BY <2>1, MaxIdIsLast DEF CursorInv
    <2> QED
        BY <2>1, <2>2 DEF CursorInv, CursorsWithinLog
<1> QED
    BY <1>1, <1>2, <1>3, SpecIInv, PTL DEF Spec
=============================================================================
