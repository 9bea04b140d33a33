--------------------------- MODULE HintBusProofs ---------------------------
(***************************************************************************)
(* The safety properties of HintBus, for any number of calls and devices   *)
(* and any capacity of the channel.                                        *)
(*                                                                         *)
(* A full channel loses its oldest hint, and a row is crowded out when     *)
(* that was the last one to tell of it.  What it takes is a matter of      *)
(* counting: behind the lost hint there are only hints without a cursor    *)
(* and hints with a smaller one, each of a call that had read the log      *)
(* before the row was there, and of these there are fewer than calls.      *)
(***************************************************************************)
EXTENDS HintBus, FiniteSetTheorems, SequenceTheorems, TLAPS

-----------------------------------------------------------------------------
(* The inductive invariant. *)

\* The calls that are about to publish a cursor before i.
Stale(i) == {c \in Call : pc[c] = "publish" /\ 0 < req[c].cursor /\ req[c].cursor < i}

\* The hints behind the k-th with a cursor before i.
Behind(queue, k, i) == {p \in DOMAIN queue : k < p /\ 0 < queue[p] /\ queue[p] < i}

\* More than these there cannot be.
Few(n) == n < Cardinality(Call)

\* What a call knows of the log; a row that it will announce is not crowded out.
CallFits(c) ==
    /\ req[c].row <= last /\ req[c].cursor <= last
    /\ pc[c] = "idle" => req[c] = NoRequest
    /\ pc[c] = "hint" => req[c].cursor = 0
    /\ \A d \in Device : req[c].row \notin crowded[d]
    /\ pc[c] = "publish" /\ req[c].cursor < req[c].row => \A d \in Device : req[c].row \notin due[d]

\* Only a device on the bus has hints, and none that is off is owed any.
LinkFits(d) ==
    /\ link[d].state # "on" => link[d].queue = << >>
    /\ link[d].state = "off" => due[d] = {}
    /\ link[d].state # "on" => crowded[d] = {}

\* The hints that say less than a device has to be told are few, behind each that says it.
FewAreStale(d, i) ==
    /\ Few(Cardinality(Stale(i)))
    /\ \A k \in DOMAIN link[d].queue : i <= link[d].queue[k] =>
            Few(Cardinality(Behind(link[d].queue, k, i)) + Cardinality(Stale(i)))

IInv ==
    /\ BusTypeOK
    /\ \A c \in Call : CallFits(c)
    /\ \A d \in Device : LinkFits(d)
    /\ \A d \in Device : \A i \in due[d] : FewAreStale(d, i)
    /\ EveryRowIsAnnounced

-----------------------------------------------------------------------------
(* Queues. *)

\* What a queue loses, and what it gains.
LEMMA QueueTail ==
    ASSUME NEW s \in Seq(Nat), s # << >>
    PROVE  /\ Tail(s) \in Seq(Nat) /\ Len(s) \in Nat \ {0} /\ Len(Tail(s)) = Len(s) - 1
           /\ Head(s) = s[1] /\ Head(s) \in Nat
           /\ DOMAIN s = 1 .. Len(s) /\ DOMAIN Tail(s) = 1 .. Len(s) - 1
           /\ \A p \in 1 .. Len(s) - 1 : Tail(s)[p] = s[p + 1] /\ p + 1 \in 1 .. Len(s)
OBVIOUS

LEMMA QueueAppend ==
    ASSUME NEW s \in Seq(Nat), NEW x \in Nat
    PROVE  /\ Append(s, x) \in Seq(Nat) /\ Len(s) \in Nat /\ Len(Append(s, x)) = Len(s) + 1
           /\ DOMAIN s = 1 .. Len(s) /\ DOMAIN Append(s, x) = 1 .. Len(s) + 1
           /\ Append(s, x)[Len(s) + 1] = x
           /\ \A p \in 1 .. Len(s) : Append(s, x)[p] = s[p] /\ p \in 1 .. Len(s) + 1
OBVIOUS

\* A place that is not the first has one before it.
LEMMA PlaceBefore ==
    ASSUME NEW n \in Nat, NEW p \in 1 .. n, p # 1
    PROVE  p - 1 \in 1 .. n - 1 /\ (p - 1) + 1 = p
OBVIOUS

LEMMA BehindType ==
    ASSUME NEW s \in Seq(Nat), NEW k, NEW i
    PROVE  IsFiniteSet(Behind(s, k, i)) /\ Cardinality(Behind(s, k, i)) \in Nat
<1>1. DOMAIN s = 1 .. Len(s) /\ Len(s) \in Nat
    OBVIOUS
<1>2. IsFiniteSet(DOMAIN s)
    BY <1>1, FS_Interval
<1>3. Behind(s, k, i) \subseteq DOMAIN s
    BY DEF Behind
<1> QED
    BY <1>2, <1>3, FS_Subset, FS_CardinalityType

\* Hints behind another with a smaller cursor are no more when the first is gone.
LEMMA HintGone ==
    ASSUME NEW s \in Seq(Nat), s # << >>, NEW i \in Nat, NEW n \in Nat, NEW b \in Nat,
           \A k \in DOMAIN s : i <= s[k] => Cardinality(Behind(s, k, i)) + n < b
    PROVE  \A k \in DOMAIN Tail(s) : i <= Tail(s)[k] => Cardinality(Behind(Tail(s), k, i)) + n < b
<1> DEFINE t == Tail(s)
<1>1. ASSUME NEW k \in DOMAIN t
      PROVE  Cardinality(Behind(t, k, i)) <= Cardinality(Behind(s, k + 1, i))
    <2> DEFINE f == [p \in Behind(t, k, i) |-> p + 1]
    <2>1. k \in 1 .. Len(s) - 1 /\ Len(s) \in Nat \ {0} /\ DOMAIN s = 1 .. Len(s)
        BY QueueTail
    <2>2. ASSUME NEW p \in Behind(t, k, i)
          PROVE  p \in Nat /\ p + 1 \in Behind(s, k + 1, i)
        <3>1. p \in 1 .. Len(s) - 1 /\ k < p /\ 0 < t[p] /\ t[p] < i
            BY QueueTail DEF Behind
        <3>2. t[p] = s[p + 1] /\ p + 1 \in DOMAIN s
            BY <3>1, QueueTail
        <3>3. k + 1 < p + 1
            BY <2>1, <3>1
        <3> QED
            BY <3>1, <3>2, <3>3 DEF Behind
    <2>3. f \in Injection(Behind(t, k, i), Behind(s, k + 1, i))
        <3>1. f \in [Behind(t, k, i) -> Behind(s, k + 1, i)]
            BY <2>2
        <3>2. \A p, q \in Behind(t, k, i) : f[p] = f[q] => p = q
            BY <2>2
        <3> HIDE DEF f
        <3> QED
            BY <3>1, <3>2 DEF Injection, IsInjective
    <2>4. IsFiniteSet(Behind(s, k + 1, i))
        BY BehindType
    <2> HIDE DEF f
    <2> QED
        BY <2>3, <2>4, FS_Injection
<1>2. ASSUME NEW k \in DOMAIN t, i <= t[k]
      PROVE  Cardinality(Behind(t, k, i)) + n < b
    <2>1. k \in 1 .. Len(s) - 1 /\ t[k] = s[k + 1] /\ k + 1 \in DOMAIN s /\ t \in Seq(Nat)
        BY QueueTail
    <2>2. Cardinality(Behind(s, k + 1, i)) + n < b
        BY <1>2, <2>1
    <2>3. Cardinality(Behind(t, k, i)) \in Nat /\ Cardinality(Behind(s, k + 1, i)) \in Nat
        BY <2>1, BehindType
    <2> QED
        BY <1>1, <2>2, <2>3
<1> QED
    BY <1>2

\* A hint with a smaller cursor takes the place of the call that sends it.
LEMMA HintSent ==
    ASSUME NEW s \in Seq(Nat), NEW x \in Nat, NEW i \in Nat, NEW n \in Nat, NEW m \in Nat, NEW b \in Nat,
           \A k \in DOMAIN s : i <= s[k] => Cardinality(Behind(s, k, i)) + n < b,
           0 < x /\ x < i => m = n - 1,
           x = 0 \/ i <= x => m = n /\ n < b
    PROVE  \A k \in DOMAIN Append(s, x) : i <= Append(s, x)[k] =>
                Cardinality(Behind(Append(s, x), k, i)) + m < b
<1> DEFINE t == Append(s, x)
<1>1. /\ Len(s) \in Nat /\ DOMAIN s = 1 .. Len(s) /\ DOMAIN t = 1 .. Len(s) + 1
      /\ t[Len(s) + 1] = x /\ \A p \in 1 .. Len(s) : t[p] = s[p]
    BY QueueAppend
<1> HIDE DEF t
<1>2. ASSUME NEW k \in 1 .. Len(s), i <= t[k]
      PROVE  Cardinality(Behind(t, k, i)) + m < b
    <2>1. Cardinality(Behind(s, k, i)) + n < b /\ Cardinality(Behind(s, k, i)) \in Nat
          /\ IsFiniteSet(Behind(s, k, i))
        BY <1>1, <1>2, BehindType
    <2>2. CASE 0 < x /\ x < i
        <3>1. Behind(t, k, i) = Behind(s, k, i) \union {Len(s) + 1}
            BY <1>1, <2>2 DEF Behind
        <3>2. Len(s) + 1 \notin Behind(s, k, i)
            BY <1>1 DEF Behind
        <3>3. Cardinality(Behind(t, k, i)) = Cardinality(Behind(s, k, i)) + 1
            BY <2>1, <3>1, <3>2, FS_AddElement
        <3> DEFINE u == Cardinality(Behind(s, k, i))
                   w == Cardinality(Behind(t, k, i))
        <3>4. u \in Nat /\ u + n < b /\ w = u + 1
            BY <2>1, <3>3
        <3>5. m = n - 1
            BY <2>2
        <3> HIDE DEF u, w
        <3>6. w + m < b
            BY <3>4, <3>5
        <3> QED
            BY <3>6 DEF w
    <2>3. CASE x = 0 \/ i <= x
        <3>1. Behind(t, k, i) = Behind(s, k, i)
            <4>1. \A p \in DOMAIN t : p \in DOMAIN s \/ p = Len(s) + 1
                BY <1>1
            <4>2. ~ (0 < t[Len(s) + 1] /\ t[Len(s) + 1] < i)
                BY <1>1, <2>3
            <4>3. \A p \in DOMAIN s : p \in DOMAIN t /\ t[p] = s[p]
                BY <1>1
            <4> QED
                BY <4>1, <4>2, <4>3, Zenon DEF Behind
        <3> QED
            BY <2>1, <2>3, <3>1
    <2> QED
        BY <2>2, <2>3
<1>3. ASSUME i <= t[Len(s) + 1]
      PROVE  Cardinality(Behind(t, Len(s) + 1, i)) + m < b
    <2>1. Behind(t, Len(s) + 1, i) = {}
        BY <1>1 DEF Behind
    <2>2. Cardinality(Behind(t, Len(s) + 1, i)) = 0
        BY <2>1, FS_EmptySet
    <2> QED
        BY <1>1, <1>3, <2>2
<1>4. \A k \in 1 .. Len(s) + 1 : k \in 1 .. Len(s) \/ k = Len(s) + 1
    BY <1>1
<1> QED
    BY <1>1, <1>2, <1>3, <1>4 DEF t

\* The calls with a smaller cursor are some of them.
LEMMA StaleType ==
    ASSUME NEW i
    PROVE  /\ IsFiniteSet(Stale(i)) /\ Cardinality(Stale(i)) \in Nat
           /\ IsFiniteSet(Call) /\ Cardinality(Call) \in Nat
<1>1. IsFiniteSet(Call) /\ Stale(i) \subseteq Call
    BY HintAssumption DEF Stale
<1> QED
    BY <1>1, FS_Subset, FS_CardinalityType

-----------------------------------------------------------------------------
(* Steps. *)

LEMMA InitIInv == BusInit => IInv
<1> SUFFICES ASSUME BusInit PROVE IInv
    OBVIOUS
<1>1. BusTypeOK
    BY HintAssumption DEF BusInit, BusTypeOK, RequestRow, NoRequest, LinkRow, Off
<1>2. (\A c \in Call : CallFits(c)) /\ (\A d \in Device : LinkFits(d))
    BY DEF BusInit, CallFits, NoRequest, LinkFits, Off
<1>3. \A d \in Device : due[d] = {}
    BY DEF BusInit
<1> QED
    BY <1>1, <1>2, <1>3 DEF IInv, EveryRowIsAnnounced

\* Stale hints stay few when no call turns stale.
LEMMA FewKept ==
    ASSUME NEW d \in Device, NEW i \in Nat, FewAreStale(d, i),
           link[d].queue \in Seq(Nat), link'[d].queue = link[d].queue, Stale(i)' \subseteq Stale(i)
    PROVE  FewAreStale(d, i)'
<1> DEFINE n == Cardinality(Stale(i))
           m == Cardinality(Stale(i)')
           b == Cardinality(Call)
<1>1. n \in Nat /\ b \in Nat /\ m \in Nat /\ m <= n
    <2>1. IsFiniteSet(Stale(i)) /\ n \in Nat /\ b \in Nat
        BY StaleType
    <2>2. IsFiniteSet(Stale(i)') /\ m <= n
        BY <2>1, FS_Subset
    <2> QED
        BY <2>1, <2>2, FS_CardinalityType
<1>2. m < b
    BY <1>1 DEF FewAreStale, Few
<1>3. ASSUME NEW k \in DOMAIN link[d].queue, i <= link[d].queue[k]
      PROVE  Cardinality(Behind(link[d].queue, k, i)) + m < b
    <2>1. Cardinality(Behind(link[d].queue, k, i)) \in Nat
        BY BehindType
    <2>2. Cardinality(Behind(link[d].queue, k, i)) + n < b
        BY <1>3 DEF FewAreStale, Few
    <2> QED
        BY <1>1, <2>1, <2>2
<1>4. \A k \in DOMAIN link'[d].queue : i <= link'[d].queue[k] =>
            Cardinality(Behind(link'[d].queue, k, i)) + m < b
    BY <1>3
<1> QED
    BY <1>2, <1>4 DEF FewAreStale, Few, Behind

\* The types that every step starts from.
LEMMA Typed ==
    ASSUME IInv
    PROVE  /\ BusTypeOK /\ last \in Nat /\ zeros \in Nat /\ Capacity \in Nat
           /\ \A c \in Call : CallFits(c) /\ req[c].row \in Nat /\ req[c].cursor \in Nat
           /\ \A d \in Device : /\ LinkFits(d) /\ link[d].queue \in Seq(Nat)
                                /\ due[d] \subseteq 1 .. last
                                /\ crowded[d] \subseteq due[d]
BY HintAssumption DEF IInv, BusTypeOK, RequestRow, LinkRow

\* A row is logged by a call that will announce it.
LEMMA ChangeStep ==
    ASSUME IInv, NEW c \in Call, ChangeAndTell(c)
    PROVE  IInv'
<1>0. /\ BusTypeOK /\ last \in Nat /\ zeros \in Nat /\ pc[c] = "idle"
      /\ \A g \in Call : CallFits(g) /\ req[g].row \in Nat /\ req[g].cursor \in Nat
      /\ \A d \in Device : /\ LinkFits(d) /\ link[d].queue \in Seq(Nat)
                           /\ due[d] \subseteq 1 .. last /\ crowded[d] \subseteq due[d]
    BY Typed DEF ChangeAndTell
<1>1. /\ last' = last + 1 /\ link' = link /\ heard' = heard /\ greetings' = greetings /\ zeros' = zeros
      /\ crowded' = crowded
      /\ pc' = [pc EXCEPT ![c] = "hint"]
      /\ req' = [req EXCEPT ![c] = [req[c] EXCEPT !.row = last + 1]]
      /\ due' = [d \in Device |-> IF link[d].state = "off" THEN {} ELSE due[d] \union {last + 1}]
    BY DEF ChangeAndTell
<1>2. /\ req'[c].row = last + 1 /\ req'[c].cursor = req[c].cursor /\ req'[c] \in RequestRow
      /\ pc'[c] = "hint"
      /\ \A g \in Call \ {c} : req'[g] = req[g] /\ pc'[g] = pc[g]
    BY <1>0, <1>1 DEF BusTypeOK, RequestRow
<1>3. BusTypeOK'
    <2>1. ASSUME NEW d \in Device
          PROVE  due'[d] \subseteq 1 .. (last + 1) /\ crowded[d] \subseteq due'[d]
        <3>1. due[d] \subseteq 1 .. last /\ crowded[d] \subseteq due[d] /\ LinkFits(d)
            BY <1>0
        <3>2. link[d].state = "off" => crowded[d] = {}
            BY <3>1 DEF LinkFits
        <3> QED
            BY <1>0, <1>1, <3>1, <3>2
    <2>2. req' \in [Call -> RequestRow]
        BY <1>0, <1>1, <1>2 DEF BusTypeOK
    <2>3. \A d \in Device : heard[d] \in 0 .. (last + 1)
        BY <1>0 DEF BusTypeOK
    <2>4. \A d \in Device : \A k \in DOMAIN link[d].queue : link[d].queue[k] <= last + 1
        <3>1. ASSUME NEW d \in Device, NEW k \in DOMAIN link[d].queue
              PROVE  link[d].queue[k] <= last + 1
            <4>1. link[d].queue[k] \in Nat /\ link[d].queue[k] <= last
                BY <1>0, <3>1 DEF BusTypeOK
            <4> QED
                BY <1>0, <4>1
        <3> QED
            BY <3>1
    <2> QED
        BY <1>0, <1>1, <2>1, <2>2, <2>3, <2>4 DEF BusTypeOK
<1>4. \A g \in Call : CallFits(g)'
    <2>1. CASE pc'[c] = "hint"
        <3>1. CallFits(c)'
            <4>1. req[c].cursor = 0
                BY <1>0 DEF CallFits, NoRequest
            <4>2. \A d \in Device : last + 1 \notin crowded[d]
                BY <1>0
            <4> QED
                BY <1>0, <1>1, <1>2, <4>1, <4>2 DEF CallFits
        <3>2. ASSUME NEW g \in Call \ {c}
              PROVE  CallFits(g)'
            <4>1. \A d \in Device : req[g].row \notin due[d] => req[g].row \notin due'[d]
                BY <1>0, <1>1 DEF CallFits
            <4> QED
                BY <1>0, <1>1, <1>2, <4>1 DEF CallFits
        <3> QED
            BY <3>1, <3>2
    <2> QED
        BY <1>2, <2>1
<1>5. \A d \in Device : LinkFits(d)'
    BY <1>0, <1>1 DEF LinkFits
<1>6. \A i : Stale(i)' = Stale(i)
    BY <1>0, <1>2 DEF Stale
<1>7. ASSUME NEW d \in Device, NEW i \in due'[d]
      PROVE  FewAreStale(d, i)'
    <2>1. i \in Nat
        BY <1>0, <1>1
    <2>2. CASE i \in due[d]
        <3>1. FewAreStale(d, i)
            BY <2>2 DEF IInv
        <3> QED
            BY <1>0, <1>1, <1>6, <2>1, <3>1, FewKept
    <2>3. CASE i = last + 1
        <3>1. Stale(i) \subseteq Call \ {c}
            BY <1>0 DEF Stale
        <3>2. IsFiniteSet(Call \ {c}) /\ Cardinality(Call \ {c}) = Cardinality(Call) - 1
            BY StaleType, FS_RemoveElement
        <3>3. Cardinality(Stale(i)) <= Cardinality(Call) - 1 /\ Cardinality(Stale(i)) \in Nat
              /\ Cardinality(Call) \in Nat
            BY <3>1, <3>2, FS_Subset, StaleType
        <3>4. Few(Cardinality(Stale(i)))'
            BY <1>0, <1>1, <1>6, <3>3 DEF Few
        <3>5. ASSUME NEW k \in DOMAIN link[d].queue
              PROVE  ~ (i <= link[d].queue[k])
            <4>1. link[d].queue[k] \in Nat /\ link[d].queue[k] <= last
                BY <1>0, <3>5 DEF BusTypeOK
            <4> QED
                BY <1>0, <2>3, <4>1
        <3> QED
            BY <1>1, <3>4, <3>5 DEF FewAreStale
    <2> QED
        BY <1>1, <2>2, <2>3
<1>8. EveryRowIsAnnounced'
    <2>1. ASSUME NEW d \in Device, NEW i \in due'[d] \ crowded[d]
          PROVE  (\E g \in Call : req'[g].row = i) \/ \E k \in DOMAIN link[d].queue : i <= link[d].queue[k]
        <3>1. CASE i = last + 1
            BY <1>2, <3>1
        <3>2. CASE i \in due[d]
            <4>1. (\E g \in Call : req[g].row = i) \/ \E k \in DOMAIN link[d].queue : i <= link[d].queue[k]
                BY <3>2 DEF IInv, EveryRowIsAnnounced
            <4>2. req[c].row # i
                BY <1>0, <3>2 DEF CallFits, NoRequest
            <4> QED
                BY <1>2, <4>1, <4>2
        <3> QED
            BY <1>1, <3>1, <3>2
    <2> QED
        BY <1>1, <2>1 DEF EveryRowIsAnnounced
<1> QED
    BY <1>3, <1>4, <1>5, <1>7, <1>8 DEF IInv

\* A row is logged that nobody announces.
LEMMA SilentChangeStep ==
    ASSUME IInv, ChangeSilently
    PROVE  IInv'
<1>0. /\ BusTypeOK /\ last \in Nat
      /\ \A g \in Call : CallFits(g) /\ req[g].row \in Nat /\ req[g].cursor \in Nat
      /\ \A d \in Device : /\ link[d].queue \in Seq(Nat)
                           /\ due[d] \subseteq 1 .. last /\ crowded[d] \subseteq due[d]
    BY Typed
<1>1. last' = last + 1 /\ UNCHANGED <<pc, req, link, heard, greetings, zeros, due, crowded>>
    BY DEF ChangeSilently
<1>2. BusTypeOK'
    <2>1. \A d \in Device : /\ due[d] \subseteq 1 .. (last + 1) /\ heard[d] \in 0 .. (last + 1)
                             /\ crowded[d] \subseteq 1 .. (last + 1)
        BY <1>0 DEF BusTypeOK
    <2>2. ASSUME NEW d \in Device, NEW k \in DOMAIN link[d].queue
          PROVE  link[d].queue[k] <= last + 1
        <3>1. link[d].queue[k] \in Nat /\ link[d].queue[k] <= last
            BY <1>0, <2>2 DEF BusTypeOK
        <3> QED
            BY <1>0, <3>1
    <2> QED
        BY <1>0, <1>1, <2>1, <2>2 DEF BusTypeOK
<1>3. \A g \in Call : CallFits(g)'
    BY <1>0, <1>1 DEF CallFits
<1> QED
    BY <1>1, <1>2, <1>3 DEF IInv, LinkFits, FewAreStale, Few, Stale, EveryRowIsAnnounced

\* What NotTold leaves of what the devices are owed.
LEMMA NotToldDoes ==
    ASSUME IInv, NEW c \in Call, NEW states, NotTold(c, states)
    PROVE  /\ due' \in [Device -> SUBSET (1 .. last)]
           /\ \A d \in Device : /\ due'[d] \subseteq due[d]
                                /\ \A i \in due[d] : i # req[c].row => i \in due'[d]
                                /\ link[d].state \in states => req[c].row \notin due'[d]
           /\ {"greeted", "on"} \subseteq states => \A d \in Device : req[c].row \notin due'[d]
           /\ \A d \in Device : crowded[d] \subseteq due'[d]
<1>1. due' = [d \in Device |-> IF link[d].state \in states THEN due[d] \ {req[c].row} ELSE due[d]]
    BY DEF NotTold
<1>2. \A d \in Device : due[d] \subseteq 1 .. last
    BY Typed
<1>3. \A d \in Device : LinkFits(d) /\ link[d].state \in {"off", "greeted", "on"}
    BY DEF IInv, BusTypeOK, LinkRow
<1>4. \A d \in Device : crowded[d] \subseteq due'[d]
    <2>1. \A d \in Device : req[c].row \notin crowded[d] /\ crowded[d] \subseteq due[d]
        BY Typed DEF CallFits
    <2> QED
        BY <1>1, <2>1
<1> QED
    BY <1>1, <1>2, <1>3, <1>4 DEF LinkFits

\* A call reads the end of the log, or cannot.
LEMMA ReadCursorStep ==
    ASSUME IInv, NEW c \in Call, ReadCursor(c)
    PROVE  IInv'
<1>0. /\ BusTypeOK /\ last \in Nat /\ zeros \in Nat /\ pc[c] = "hint"
      /\ \A g \in Call : CallFits(g) /\ req[g].row \in Nat /\ req[g].cursor \in Nat
      /\ \A d \in Device : /\ LinkFits(d) /\ link[d].queue \in Seq(Nat)
                           /\ due[d] \subseteq 1 .. last /\ crowded[d] \subseteq due[d]
    BY Typed DEF ReadCursor
<1>1. /\ last' = last /\ link' = link /\ heard' = heard /\ greetings' = greetings
      /\ crowded' = crowded
      /\ pc' = [pc EXCEPT ![c] = "publish"]
    BY DEF ReadCursor
<1>2. /\ pc' \in [Call -> {"idle", "hint", "publish"}] /\ pc'[c] = "publish"
      /\ \A g \in Call \ {c} : pc'[g] = pc[g]
    BY <1>0, <1>1 DEF BusTypeOK
<1>3. CASE req' = [req EXCEPT ![c].cursor = EndOfLog(c)] /\ UNCHANGED <<zeros, due>>
    <2>1. req' = [req EXCEPT ![c] = [req[c] EXCEPT !.cursor = last]]
        BY <1>3 DEF EndOfLog
    <2>2. /\ req'[c].row = req[c].row /\ req'[c].cursor = last /\ req'[c] \in RequestRow
          /\ \A g \in Call \ {c} : req'[g] = req[g]
        BY <1>0, <2>1 DEF BusTypeOK, RequestRow
    <2>3. BusTypeOK'
        <3>1. req' \in [Call -> RequestRow]
            BY <1>0, <2>1, <2>2 DEF BusTypeOK
        <3> QED
            BY <1>0, <1>1, <1>2, <1>3, <3>1 DEF BusTypeOK
    <2>4. \A g \in Call : CallFits(g)'
        BY <1>0, <1>1, <1>2, <1>3, <2>2 DEF CallFits
    <2>5. \A i \in 1 .. last : Stale(i)' \subseteq Stale(i)
        BY <1>0, <1>2, <2>2 DEF Stale
    <2>6. ASSUME NEW d \in Device, NEW i \in due'[d]
          PROVE  FewAreStale(d, i)'
        <3>1. i \in Nat /\ i \in 1 .. last /\ FewAreStale(d, i)
            BY <1>0, <1>3, <2>6 DEF IInv
        <3> QED
            BY <1>0, <1>1, <2>5, <3>1, FewKept
    <2>7. EveryRowIsAnnounced'
        <3>1. \A g \in Call : req'[g].row = req[g].row
            BY <2>2
        <3> QED
            BY <1>1, <1>3, <3>1 DEF IInv, EveryRowIsAnnounced
    <2> QED
        BY <1>0, <1>1, <1>3, <2>3, <2>4, <2>6, <2>7 DEF IInv, LinkFits
<1>4. CASE zeros < MaxZeros /\ zeros' = zeros + 1 /\ NotTold(c, {"greeted", "on"}) /\ UNCHANGED req
    <2>1. /\ due' \in [Device -> SUBSET (1 .. last)]
          /\ \A d \in Device : due'[d] \subseteq due[d] /\ req[c].row \notin due'[d]
        BY <1>4, NotToldDoes
    <2>2. BusTypeOK'
        <3>1. \A d \in Device : crowded[d] \subseteq due'[d]
            BY <1>0, <1>4, NotToldDoes
        <3> QED
            BY <1>0, <1>1, <1>2, <1>4, <2>1, <3>1 DEF BusTypeOK
    <2>3. ASSUME NEW g \in Call
          PROVE  CallFits(g)'
        <3>1. \A d \in Device : req[g].row \notin due[d] => req[g].row \notin due'[d]
            BY <2>1
        <3>2. CASE g = c
            BY <1>0, <1>1, <1>2, <1>4, <2>1, <3>2 DEF CallFits
        <3>3. CASE g # c
            BY <1>0, <1>1, <1>2, <1>4, <3>1, <3>3 DEF CallFits
        <3> QED
            BY <3>2, <3>3
    <2>4. \A i : Stale(i)' \subseteq Stale(i)
        <3>1. req'[c].cursor = 0
            BY <1>0, <1>4 DEF CallFits
        <3> QED
            BY <1>0, <1>2, <1>4, <3>1 DEF Stale
    <2>5. ASSUME NEW d \in Device, NEW i \in due'[d]
          PROVE  FewAreStale(d, i)'
        <3>1. i \in due[d] /\ i \in Nat
            BY <1>0, <2>1
        <3>2. FewAreStale(d, i)
            BY <3>1 DEF IInv
        <3> QED
            BY <1>0, <1>1, <2>4, <3>1, <3>2, FewKept
    <2>6. EveryRowIsAnnounced'
        BY <1>1, <1>4, <2>1 DEF IInv, EveryRowIsAnnounced
    <2>7. \A d \in Device : LinkFits(d)'
        BY <1>0, <1>1, <2>1 DEF LinkFits
    <2> QED
        BY <2>2, <2>3, <2>5, <2>6, <2>7 DEF IInv
<1> QED
    BY <1>3, <1>4 DEF ReadCursor

\* An ended call is forgotten.
LEMMA EndDoes ==
    ASSUME IInv, NEW c \in Call, End(c)
    PROVE  /\ pc' \in [Call -> {"idle", "hint", "publish"}] /\ req' \in [Call -> RequestRow]
           /\ pc'[c] = "idle" /\ req'[c] = NoRequest
           /\ \A g \in Call \ {c} : pc'[g] = pc[g] /\ req'[g] = req[g]
           /\ \A i : Stale(i)' = Stale(i) \ {c}
<1>1. pc \in [Call -> {"idle", "hint", "publish"}] /\ req \in [Call -> RequestRow]
    BY DEF IInv, BusTypeOK
<1>2. NoRequest \in RequestRow
    BY DEF NoRequest, RequestRow
<1>3. /\ pc' \in [Call -> {"idle", "hint", "publish"}] /\ req' \in [Call -> RequestRow]
      /\ pc'[c] = "idle" /\ req'[c] = NoRequest
      /\ \A g \in Call \ {c} : pc'[g] = pc[g] /\ req'[g] = req[g]
    BY <1>1, <1>2 DEF End
<1>4. ASSUME NEW i
      PROVE  Stale(i)' = Stale(i) \ {c}
    BY <1>3 DEF Stale
<1> QED
    BY <1>3, <1>4

\* The calls that are left fit, when no device is owed more than before.
LEMMA OthersFit ==
    ASSUME IInv, NEW c \in Call, End(c), last' = last,
           \A d \in Device : /\ due'[d] \subseteq due[d] /\ 0 \notin crowded'[d]
                              /\ \A g \in Call \ {c} : req[g].row \notin crowded'[d]
    PROVE  \A g \in Call : CallFits(g)'
<1>0. last \in Nat /\ \A g \in Call : CallFits(g)
    BY Typed
<1>1. CallFits(c)'
    BY <1>0, EndDoes DEF CallFits, NoRequest
<1>2. ASSUME NEW g \in Call \ {c}
      PROVE  CallFits(g)'
    <2>1. pc'[g] = pc[g] /\ req'[g] = req[g]
        BY EndDoes
    <2>2. \A d \in Device : req[g].row \notin due[d] => req[g].row \notin due'[d]
        OBVIOUS
    <2> QED
        BY <1>0, <2>1, <2>2 DEF CallFits
<1> QED
    BY <1>1, <1>2

\* A handler is dropped.
LEMMA DropStep ==
    ASSUME IInv, NEW c \in Call, Drop(c)
    PROVE  IInv'
<1>0. /\ BusTypeOK /\ last \in Nat /\ zeros \in Nat
      /\ \A d \in Device : /\ LinkFits(d) /\ link[d].queue \in Seq(Nat)
                           /\ due[d] \subseteq 1 .. last /\ crowded[d] \subseteq due[d]
      /\ \A d \in Device : \A g \in Call : req[g].row \notin crowded[d]
    BY Typed DEF CallFits
<1>1. /\ last' = last /\ link' = link /\ heard' = heard /\ greetings' = greetings /\ zeros' = zeros
      /\ crowded' = crowded
      /\ End(c) /\ NotTold(c, {"greeted", "on"})
    BY DEF Drop
<1>2. /\ due' \in [Device -> SUBSET (1 .. last)]
      /\ \A d \in Device : /\ due'[d] \subseteq due[d] /\ req[c].row \notin due'[d]
                           /\ crowded[d] \subseteq due'[d]
    BY <1>1, NotToldDoes
<1>3. BusTypeOK'
    BY <1>0, <1>1, <1>2, EndDoes DEF BusTypeOK
<1>4. \A g \in Call : CallFits(g)'
    <2>1. \A d \in Device : 0 \notin crowded[d]
        BY <1>0
    <2> QED
        BY <1>0, <1>1, <1>2, <2>1, OthersFit
<1>5. ASSUME NEW d \in Device, NEW i \in due'[d]
      PROVE  FewAreStale(d, i)'
    <2>1. i \in due[d] /\ i \in Nat
        BY <1>0, <1>2
    <2>2. FewAreStale(d, i)
        BY <2>1 DEF IInv
    <2>3. Stale(i)' \subseteq Stale(i)
        BY <1>1, EndDoes
    <2> QED
        BY <1>0, <1>1, <2>1, <2>2, <2>3, FewKept
<1>6. EveryRowIsAnnounced'
    <2>1. ASSUME NEW d \in Device, NEW i \in due'[d] \ crowded[d]
          PROVE  (\E g \in Call : req'[g].row = i) \/ \E k \in DOMAIN link[d].queue : i <= link[d].queue[k]
        <3>1. i \in due[d] \ crowded[d] /\ i # req[c].row
            BY <1>2
        <3>2. (\E g \in Call : req[g].row = i) \/ \E k \in DOMAIN link[d].queue : i <= link[d].queue[k]
            BY <3>1 DEF IInv, EveryRowIsAnnounced
        <3>3. \A g \in Call \ {c} : req'[g] = req[g]
            BY <1>1, EndDoes
        <3> QED
            BY <3>1, <3>2, <3>3
    <2> QED
        BY <1>1, <2>1 DEF EveryRowIsAnnounced
<1>7. \A d \in Device : LinkFits(d)'
    BY <1>0, <1>1, <1>2 DEF LinkFits
<1> QED
    BY <1>1, <1>3, <1>4, <1>5, <1>6, <1>7 DEF IInv

\* The channel after a hint is sent, and before: full or not.
LEMMA SentDoes ==
    ASSUME NEW s \in Seq(Nat), NEW x \in Nat, Len(s) <= Capacity, Capacity \in Nat \ {0}
    PROVE  \E base \in Seq(Nat) :
                /\ Sent(s, x) = Append(base, x)
                /\ Len(base) + 1 <= Capacity
                /\ base = s \/ (s # << >> /\ Len(s) = Capacity /\ base = Tail(s))
<1>1. CASE Len(s) = Capacity
    <2>1. s # << >>
        BY <1>1
    <2>2. Tail(s) \in Seq(Nat) /\ Len(Tail(s)) = Len(s) - 1
        BY <2>1, QueueTail
    <2>3. Len(Tail(s)) + 1 <= Capacity
        BY <1>1, <2>2
    <2> QED
        BY <1>1, <2>1, <2>2, <2>3 DEF Sent
<1>2. CASE Len(s) # Capacity
    <2>1. Len(s) + 1 <= Capacity
        BY <1>2
    <2> QED
        BY <1>2, <2>1 DEF Sent
<1> QED
    BY <1>1, <1>2

\* A queue after a hint is sent: no more are stale behind each, and of the rows that it had
\* told of only one is lost for which its first hint was the last.
LEMMA QueueKeeps ==
    ASSUME NEW s \in Seq(Nat), NEW x \in Nat, NEW i \in Nat, NEW n \in Nat, NEW m \in Nat, NEW b \in Nat,
           Len(s) <= Capacity, Capacity \in Nat \ {0},
           n < b, \A k \in DOMAIN s : i <= s[k] => Cardinality(Behind(s, k, i)) + n < b,
           0 < x /\ x < i => m = n - 1, x = 0 \/ i <= x => m = n
    PROVE  /\ \A k \in DOMAIN Sent(s, x) : i <= Sent(s, x)[k] =>
                    Cardinality(Behind(Sent(s, x), k, i)) + m < b
           /\ \/ \A k \in DOMAIN s : ~ (i <= s[k])
              \/ \E k \in DOMAIN Sent(s, x) : i <= Sent(s, x)[k]
              \/ /\ Len(s) = Capacity /\ i <= Head(s) /\ x < i
                 /\ \A k \in DOMAIN s : k # 1 => s[k] < i
<1>1. PICK base \in Seq(Nat) :
                /\ Sent(s, x) = Append(base, x)
                /\ base = s \/ (s # << >> /\ Len(s) = Capacity /\ base = Tail(s))
    BY SentDoes
<1>2. \A k \in DOMAIN base : i <= base[k] => Cardinality(Behind(base, k, i)) + n < b
    <2>1. CASE base = s
        BY <2>1
    <2>2. CASE s # << >> /\ base = Tail(s)
        BY <2>2, HintGone
    <2> QED
        BY <1>1, <2>1, <2>2
<1>3. \A k \in DOMAIN Append(base, x) : i <= Append(base, x)[k] =>
            Cardinality(Behind(Append(base, x), k, i)) + m < b
    BY <1>2, HintSent
<1>4. /\ Len(base) \in Nat /\ DOMAIN base = 1 .. Len(base)
      /\ DOMAIN Append(base, x) = 1 .. Len(base) + 1 /\ Append(base, x)[Len(base) + 1] = x
      /\ \A p \in 1 .. Len(base) : Append(base, x)[p] = base[p] /\ p \in 1 .. Len(base) + 1
    BY QueueAppend
<1>5. CASE i <= x
    <2>1. Len(base) + 1 \in DOMAIN Append(base, x)
        BY <1>4
    <2> QED
        BY <1>1, <1>3, <1>4, <1>5, <2>1
<1>6. CASE x < i
    <2>1. ASSUME NEW k \in DOMAIN base, i <= base[k]
          PROVE  \E p \in DOMAIN Append(base, x) : i <= Append(base, x)[p]
        BY <1>4, <2>1
    <2>2. ASSUME NEW k \in DOMAIN s, i <= s[k]
          PROVE  \/ \E p \in DOMAIN base : i <= base[p]
                 \/ /\ Len(s) = Capacity /\ i <= Head(s)
                    /\ \A p \in DOMAIN s : p # 1 => s[p] < i
        <3>1. CASE base = s
            BY <2>2, <3>1
        <3>2. CASE s # << >> /\ Len(s) = Capacity /\ base = Tail(s)
            <4>0. /\ DOMAIN s = 1 .. Len(s) /\ DOMAIN base = 1 .. Len(s) - 1 /\ Len(s) \in Nat \ {0}
                  /\ \A p \in 1 .. Len(s) - 1 : base[p] = s[p + 1]
                  /\ Head(s) = s[1]
                BY <3>2, QueueTail
            <4>1. CASE \E p \in DOMAIN s : p # 1 /\ i <= s[p]
                <5>1. PICK p \in DOMAIN s : p # 1 /\ i <= s[p]
                    BY <4>1
                <5>2. p - 1 \in 1 .. Len(s) - 1 /\ (p - 1) + 1 = p
                    BY <4>0, <5>1, PlaceBefore
                <5>3. p - 1 \in DOMAIN base /\ base[p - 1] = s[p]
                    BY <4>0, <5>2
                <5> QED
                    BY <5>1, <5>3
            <4>2. CASE \A p \in DOMAIN s : p # 1 => ~ (i <= s[p])
                <5>1. k = 1
                    BY <2>2, <4>2
                <5>2. \A p \in DOMAIN s : p # 1 => s[p] < i
                    <6>1. \A p \in DOMAIN s : s[p] \in Nat
                        BY <4>0
                    <6> QED
                        BY <4>2, <6>1
                <5> QED
                    BY <2>2, <3>2, <4>0, <5>1, <5>2
            <4> QED
                BY <4>1, <4>2
        <3> QED
            BY <1>1, <3>1, <3>2
    <2> QED
        BY <1>1, <1>3, <1>6, <2>1, <2>2
<1> QED
    BY <1>5, <1>6

\* A hint goes to the devices on the bus.
LEMMA PublishStep ==
    ASSUME IInv, NEW c \in Call, Publish(c)
    PROVE  IInv'
<1> DEFINE x == req[c].cursor
           b == Cardinality(Call)
<1>0. /\ BusTypeOK /\ last \in Nat /\ zeros \in Nat /\ pc[c] = "publish" /\ x \in Nat /\ x <= last
      /\ CallFits(c) /\ req[c].row \in Nat
      /\ \A d \in Device : /\ LinkFits(d) /\ link[d].queue \in Seq(Nat)
                           /\ due[d] \subseteq 1 .. last /\ crowded[d] \subseteq due[d]
      /\ \A d \in Device : \A i \in due[d] : FewAreStale(d, i)
    BY Typed DEF Publish, CallFits, IInv
<1>1. /\ last' = last /\ heard' = heard /\ greetings' = greetings /\ zeros' = zeros
      /\ End(c) /\ NotTold(c, {"greeted"})
      /\ link' = [d \in Device |->
            IF link[d].state = "on"
            THEN [link[d] EXCEPT !.queue = Sent(link[d].queue, x)] ELSE link[d]]
      /\ crowded' = [d \in Device |->
            IF link[d].state = "on"
            THEN {i \in crowded[d] : x < i} \union CrowdedOut(d, c) ELSE crowded[d]]
    BY DEF Publish
<1>2. /\ due' \in [Device -> SUBSET (1 .. last)]
      /\ \A d \in Device : /\ due'[d] \subseteq due[d] /\ crowded[d] \subseteq due'[d]
                           /\ link[d].state = "greeted" => req[c].row \notin due'[d]
                           /\ link[d].state # "greeted" => due'[d] = due[d]
    <2>1. \A d \in Device : link[d].state # "greeted" => due'[d] = due[d]
        BY <1>1 DEF NotTold
    <2> QED
        BY <1>1, <2>1, NotToldDoes
<1>3. Capacity \in Nat \ {0} /\ b \in Nat
    BY StaleType, HintAssumption
<1>4. ASSUME NEW d \in Device
      PROVE  /\ link'[d] \in LinkRow /\ link'[d].state = link[d].state
             /\ link[d].state # "on" => link'[d] = link[d]
             /\ link[d].state = "on" => link'[d].queue = Sent(link[d].queue, x)
             /\ Len(link'[d].queue) <= Capacity
             /\ \A k \in DOMAIN link'[d].queue : link'[d].queue[k] <= last
    <2>1. /\ link[d] \in LinkRow /\ Len(link[d].queue) <= Capacity /\ link[d].queue \in Seq(Nat)
          /\ \A k \in DOMAIN link[d].queue : link[d].queue[k] <= last
        BY <1>0 DEF BusTypeOK
    <2>2. CASE link[d].state # "on"
        BY <1>1, <2>1, <2>2
    <2>3. CASE link[d].state = "on"
        <3> DEFINE s == link[d].queue
        <3>1. PICK base \in Seq(Nat) :
                    /\ Sent(s, x) = Append(base, x)
                    /\ Len(base) + 1 <= Capacity
                    /\ base = s \/ (s # << >> /\ base = Tail(s))
            BY <1>0, <1>3, <2>1, SentDoes
        <3>2. Append(base, x) \in Seq(Nat) /\ Len(Append(base, x)) <= Capacity
            BY <1>0, <3>1, QueueAppend
        <3>3. \A k \in DOMAIN base : base[k] <= last
            <4>1. CASE base = s
                BY <2>1, <4>1
            <4>2. CASE s # << >> /\ base = Tail(s)
                <5>1. /\ DOMAIN base = 1 .. Len(s) - 1 /\ DOMAIN s = 1 .. Len(s)
                      /\ \A p \in 1 .. Len(s) - 1 : base[p] = s[p + 1] /\ p + 1 \in 1 .. Len(s)
                    BY <2>1, <4>2, QueueTail
                <5> QED
                    BY <2>1, <5>1
            <4> QED
                BY <3>1, <4>1, <4>2
        <3>4. \A k \in DOMAIN Append(base, x) : Append(base, x)[k] <= last
            <4>1. /\ Len(base) \in Nat /\ DOMAIN base = 1 .. Len(base)
                  /\ DOMAIN Append(base, x) = 1 .. Len(base) + 1
                  /\ Append(base, x)[Len(base) + 1] = x
                  /\ \A p \in 1 .. Len(base) : Append(base, x)[p] = base[p]
                BY <1>0, QueueAppend
            <4>2. \A k \in 1 .. Len(base) + 1 : k \in 1 .. Len(base) \/ k = Len(base) + 1
                BY <4>1
            <4> QED
                BY <1>0, <3>3, <4>1, <4>2
        <3>5. link'[d] = [link[d] EXCEPT !.queue = Sent(s, x)]
            BY <1>1, <2>3
        <3>6. link'[d] \in LinkRow /\ link'[d].state = link[d].state /\ link'[d].queue = Sent(s, x)
            BY <2>1, <3>1, <3>2, <3>5 DEF LinkRow
        <3> QED
            BY <2>3, <3>1, <3>2, <3>4, <3>6
    <2> QED
        BY <2>2, <2>3
<1>5. BusTypeOK'
    <2>1. link' \in [Device -> LinkRow]
        BY <1>1, <1>4
    <2>2. req' \in [Call -> RequestRow] /\ pc' \in [Call -> {"idle", "hint", "publish"}]
        BY <1>1, EndDoes
    <2>3. \A d \in Device :
            /\ Len(link'[d].queue) <= Capacity
            /\ \A k \in DOMAIN link'[d].queue : link'[d].queue[k] <= last
        BY <1>4
    <2>4. /\ last' \in Nat /\ greetings' \in Nat /\ zeros' \in Nat /\ last' = last
          /\ heard' \in [Device -> 0 .. last] /\ due' \in [Device -> SUBSET (1 .. last)]
        BY <1>0, <1>1, <1>2 DEF BusTypeOK
    <2>5. \A d \in Device : crowded'[d] \subseteq due'[d]
        <3>1. \A d \in Device : CrowdedOut(d, c) \subseteq due[d]
            BY DEF CrowdedOut
        <3> QED
            BY <1>1, <1>2, <3>1
    <2>6. crowded' \in [Device -> SUBSET (1 .. last)]
        <3>1. crowded' = [d \in Device |-> crowded'[d]]
            BY <1>1
        <3>2. \A d \in Device : crowded'[d] \in SUBSET (1 .. last)
            BY <2>4, <2>5
        <3> QED
            BY <3>1, <3>2
    <2> QED
        BY <2>1, <2>2, <2>3, <2>4, <2>5, <2>6 DEF BusTypeOK
<1>6. \A g \in Call : CallFits(g)'
    <2>1. ASSUME NEW d \in Device
          PROVE  0 \notin crowded'[d] /\ \A g \in Call \ {c} : req[g].row \notin crowded'[d]
        <3>1. \A g \in Call : req[g].row \notin crowded[d]
            BY Typed DEF CallFits
        <3>2. \A g \in Call \ {c} : req[g].row \notin CrowdedOut(d, c)
            BY DEF CrowdedOut
        <3>3. 0 \notin due[d] /\ crowded[d] \subseteq due[d] /\ CrowdedOut(d, c) \subseteq due[d]
            BY <1>0 DEF CrowdedOut
        <3> QED
            BY <1>1, <3>1, <3>2, <3>3
    <2> QED
        BY <1>1, <1>2, <2>1, OthersFit
<1>7. ASSUME NEW d \in Device
      PROVE  LinkFits(d)'
    <2>1. due'[d] \subseteq due[d] /\ LinkFits(d)
        BY <1>0, <1>2
    <2>2. link[d].state # "on" => crowded'[d] = crowded[d]
        BY <1>1
    <2> QED
        BY <1>4, <2>1, <2>2 DEF LinkFits
\* The counts before and after.
<1>8. ASSUME NEW i \in Nat
      PROVE  /\ Cardinality(Stale(i)) \in Nat /\ Cardinality(Stale(i)') \in Nat
             /\ Stale(i)' \subseteq Stale(i)
             /\ 0 < x /\ x < i => Cardinality(Stale(i)') = Cardinality(Stale(i)) - 1
             /\ x = 0 \/ i <= x => Cardinality(Stale(i)') = Cardinality(Stale(i))
    <2>1. Stale(i)' = Stale(i) \ {c}
        BY <1>1, EndDoes
    <2>2. IsFiniteSet(Stale(i)) /\ Cardinality(Stale(i)) \in Nat
        BY StaleType
    <2>3. IsFiniteSet(Stale(i) \ {c}) /\ Cardinality(Stale(i) \ {c})
                = IF c \in Stale(i) THEN Cardinality(Stale(i)) - 1 ELSE Cardinality(Stale(i))
        BY <2>2, FS_RemoveElement
    <2>4. Cardinality(Stale(i) \ {c}) \in Nat
        BY <2>3, FS_CardinalityType
    <2>5. c \in Stale(i) <=> 0 < x /\ x < i
        BY <1>0 DEF Stale
    <2>6. ~ (0 < x /\ x < i /\ (x = 0 \/ i <= x))
        BY <1>0
    <2> QED
        BY <2>1, <2>2, <2>3, <2>4, <2>5, <2>6
<1>9. ASSUME NEW d \in Device, NEW i \in due'[d]
      PROVE  /\ FewAreStale(d, i)'
             /\ \/ i \in crowded'[d]
                \/ \E g \in Call : req'[g].row = i
                \/ \E k \in DOMAIN link'[d].queue : i <= link'[d].queue[k]
    <2> DEFINE n == Cardinality(Stale(i))
               m == Cardinality(Stale(i)')
    <2>1. i \in due[d] /\ i \in Nat /\ FewAreStale(d, i) /\ link[d].queue \in Seq(Nat)
          /\ Len(link[d].queue) <= Capacity
        BY <1>0, <1>2 DEF BusTypeOK
    <2>2. /\ n \in Nat /\ m \in Nat /\ Stale(i)' \subseteq Stale(i)
          /\ 0 < x /\ x < i => m = n - 1
          /\ x = 0 \/ i <= x => m = n
        BY <1>8, <2>1
    <2>3. /\ n < b
          /\ \A k \in DOMAIN link[d].queue : i <= link[d].queue[k] =>
                Cardinality(Behind(link[d].queue, k, i)) + n < b
        BY <2>1 DEF FewAreStale, Few
    <2>4. \/ i \in crowded[d]
          \/ \E g \in Call : req[g].row = i
          \/ \E k \in DOMAIN link[d].queue : i <= link[d].queue[k]
        BY <2>1 DEF IInv, EveryRowIsAnnounced
    <2>5. (\E g \in Call \ {c} : req[g].row = i) => \E g \in Call : req'[g].row = i
        <3>1. \A g \in Call \ {c} : req'[g] = req[g]
            BY <1>1, EndDoes
        <3> QED
            BY <3>1
    <2>6. CASE link[d].state = "on"
        <3> DEFINE s == link[d].queue
        <3>1. link'[d].queue = Sent(s, x)
            BY <1>4, <2>6
        <3>2. /\ \A k \in DOMAIN Sent(s, x) : i <= Sent(s, x)[k] =>
                        Cardinality(Behind(Sent(s, x), k, i)) + m < b
              /\ \/ \A k \in DOMAIN s : ~ (i <= s[k])
                 \/ \E k \in DOMAIN Sent(s, x) : i <= Sent(s, x)[k]
                 \/ /\ Len(s) = Capacity /\ i <= Head(s) /\ x < i
                    /\ \A k \in DOMAIN s : k # 1 => s[k] < i
            <4> HIDE DEF n, m, b, x
            <4> QED
                BY <1>0, <1>3, <2>1, <2>2, <2>3, QueueKeeps
        <3>3. m < b
            BY <1>0, <1>3, <2>1, <2>2, <2>3
        <3>4. FewAreStale(d, i)'
            BY <1>1, <3>1, <3>2, <3>3 DEF FewAreStale, Few, Behind
        <3>5. req[c].row = i => i <= x
            BY <1>0, <2>1 DEF CallFits
        <3>6. i <= x => \E k \in DOMAIN Sent(s, x) : i <= Sent(s, x)[k]
            <4>1. PICK base \in Seq(Nat) : Sent(s, x) = Append(base, x)
                BY <1>0, <1>3, <2>1, SentDoes
            <4>2. Len(base) + 1 \in DOMAIN Append(base, x) /\ Append(base, x)[Len(base) + 1] = x
                <5>1. /\ Len(base) \in Nat /\ DOMAIN Append(base, x) = 1 .. Len(base) + 1
                      /\ Append(base, x)[Len(base) + 1] = x
                    BY <1>0, QueueAppend
                <5> QED
                    BY <5>1
            <4> QED
                BY <4>1, <4>2
        <3>7. \/ \E g \in Call \ {c} : req[g].row = i
              \/ i \in crowded'[d]
              \/ \E k \in DOMAIN Sent(s, x) : i <= Sent(s, x)[k]
            <4>1. crowded'[d] = {p \in crowded[d] : x < p} \union CrowdedOut(d, c)
                BY <1>1, <2>6
            <4>2. i <= x \/ x < i
                BY <1>0, <2>1
            <4>3. CASE i \in crowded[d] \/ req[c].row = i
                BY <3>5, <3>6, <4>1, <4>2, <4>3
            <4>4. CASE \E k \in DOMAIN s : i <= s[k]
                <5>1. \/ \E k \in DOMAIN Sent(s, x) : i <= Sent(s, x)[k]
                      \/ \E g \in Call \ {c} : req[g].row = i
                      \/ i \in CrowdedOut(d, c)
                    BY <2>1, <3>2, <4>4 DEF CrowdedOut
                <5> QED
                    BY <4>1, <5>1
            <4> QED
                BY <2>4, <4>3, <4>4
        <3> QED
            BY <2>5, <3>1, <3>4, <3>7
    <2>7. CASE link[d].state # "on"
        <3>1. link'[d] = link[d] /\ crowded'[d] = crowded[d]
            BY <1>1, <1>4, <2>7
        <3>2. FewAreStale(d, i)'
            BY <1>0, <2>1, <2>2, <3>1, FewKept
        <3>3. link[d].state = "greeted"
            <4>1. link[d].state \in {"off", "greeted", "on"} /\ LinkFits(d)
                BY <1>0 DEF BusTypeOK, LinkRow
            <4> QED
                BY <2>1, <2>7, <4>1 DEF LinkFits
        <3>4. req[c].row # i
            BY <1>2, <1>9, <3>3
        <3> QED
            BY <2>4, <2>5, <3>1, <3>2, <3>4
    <2> QED
        BY <2>6, <2>7
<1>10. EveryRowIsAnnounced'
    BY <1>9 DEF EveryRowIsAnnounced
<1> QED
    BY <1>1, <1>5, <1>6, <1>7, <1>9, <1>10 DEF IInv

\* A device is greeted with the end of the log, and subscribes; neither changes what it is owed.
LEMMA GreetStep ==
    ASSUME IInv, NEW d \in Device, Greet(d) \/ Subscribe(d)
    PROVE  IInv'
<1>0. /\ BusTypeOK /\ last \in Nat /\ link \in [Device -> LinkRow]
      /\ \A c \in Call : CallFits(c)
      /\ \A e \in Device : LinkFits(e)
    BY Typed DEF BusTypeOK
<1>1. PICK state \in {"greeted", "on"} : link' = [link EXCEPT ![d] = [link[d] EXCEPT !.state = state]]
    BY DEF Greet, Subscribe
<1>2. /\ last' = last /\ pc' = pc /\ req' = req /\ zeros' = zeros /\ due' = due
      /\ crowded' = crowded
      /\ greetings' \in {greetings, greetings + 1}
      /\ heard' \in {heard, [heard EXCEPT ![d] = last]}
      /\ link[d].state # "on"
    BY DEF Greet, Subscribe
<1>3. /\ link' \in [Device -> LinkRow] /\ link'[d].state = state
      /\ \A e \in Device : link'[e].queue = link[e].queue /\ (e # d => link'[e] = link[e])
    <2>1. [link[d] EXCEPT !.state = state] \in LinkRow /\ [link[d] EXCEPT !.state = state].queue = link[d].queue
          /\ [link[d] EXCEPT !.state = state].state = state
        BY <1>0 DEF LinkRow
    <2> QED
        BY <1>0, <1>1, <2>1
<1>4. BusTypeOK'
    <2>1. greetings' \in Nat /\ heard' \in [Device -> 0 .. last]
        <3>1. greetings \in Nat /\ heard \in [Device -> 0 .. last]
            BY <1>0 DEF BusTypeOK
        <3>2. last \in 0 .. last
            BY <1>0
        <3>3. [heard EXCEPT ![d] = last] \in [Device -> 0 .. last]
            BY <3>1, <3>2
        <3>4. greetings + 1 \in Nat
            BY <3>1
        <3> QED
            BY <1>2, <3>1, <3>3, <3>4
    <2>2. /\ last' \in Nat /\ last' = last /\ zeros' \in Nat
          /\ pc' \in [Call -> {"idle", "hint", "publish"}] /\ req' \in [Call -> RequestRow]
          /\ due' \in [Device -> SUBSET (1 .. last)] /\ crowded' \in [Device -> SUBSET (1 .. last)]
        BY <1>0, <1>2 DEF BusTypeOK
    <2>3. \A e \in Device :
            /\ crowded'[e] \subseteq due'[e]
            /\ Len(link'[e].queue) <= Capacity
            /\ \A k \in DOMAIN link'[e].queue : link'[e].queue[k] <= last
        BY <1>0, <1>2, <1>3 DEF BusTypeOK
    <2> QED
        BY <1>3, <2>1, <2>2, <2>3 DEF BusTypeOK
<1>5. \A e \in Device : LinkFits(e)'
    BY <1>0, <1>2, <1>3 DEF LinkFits
<1>6. \A c \in Call : CallFits(c)'
    BY <1>0, <1>2 DEF CallFits
<1>7. ASSUME NEW e \in Device, NEW i \in due'[e]
      PROVE  FewAreStale(e, i)'
    <2>1. FewAreStale(e, i) /\ link'[e].queue = link[e].queue
        BY <1>2, <1>3, <1>7 DEF IInv
    <2>2. Stale(i)' = Stale(i)
        BY <1>2 DEF Stale
    <2> QED
        BY <1>2, <2>1, <2>2 DEF FewAreStale, Few, Behind
<1>8. EveryRowIsAnnounced'
    BY <1>2, <1>3 DEF IInv, EveryRowIsAnnounced
<1> QED
    BY <1>2, <1>4, <1>5, <1>6, <1>7, <1>8 DEF IInv

\* A hint goes to the device, which is owed what the hint does not tell.
LEMMA ForwardStep ==
    ASSUME IInv, NEW d \in Device, Forward(d)
    PROVE  IInv'
<1> DEFINE s == link[d].queue
           told == Greater(heard[d], Head(s))
<1>0. /\ BusTypeOK /\ last \in Nat /\ link \in [Device -> LinkRow] /\ heard[d] \in 0 .. last
      /\ zeros \in Nat
      /\ \A c \in Call : CallFits(c)
      /\ \A e \in Device : LinkFits(e) /\ due[e] \subseteq 1 .. last /\ crowded[e] \subseteq due[e]
    BY Typed DEF BusTypeOK
<1>1. /\ link[d].state = "on" /\ s # << >>
      /\ last' = last /\ pc' = pc /\ req' = req /\ zeros' = zeros /\ greetings' = greetings
      /\ heard' = [heard EXCEPT ![d] = told]
      /\ due' = [due EXCEPT ![d] = {i \in due[d] : told < i}]
      /\ crowded' = [crowded EXCEPT ![d] = {i \in crowded[d] : told < i}]
      /\ link' = [link EXCEPT ![d] = [link[d] EXCEPT !.queue = Tail(s)]]
    BY DEF Forward
<1>2. /\ s \in Seq(Nat) /\ Len(s) <= Capacity /\ \A k \in DOMAIN s : s[k] <= last
    BY <1>0 DEF BusTypeOK, LinkRow
<1>3. /\ Tail(s) \in Seq(Nat) /\ Len(s) \in Nat \ {0} /\ Len(Tail(s)) = Len(s) - 1
      /\ Head(s) = s[1] /\ Head(s) \in Nat
      /\ DOMAIN s = 1 .. Len(s) /\ DOMAIN Tail(s) = 1 .. Len(s) - 1
      /\ \A p \in 1 .. Len(s) - 1 : Tail(s)[p] = s[p + 1] /\ p + 1 \in 1 .. Len(s)
    BY <1>1, <1>2, QueueTail
<1>4. told \in 0 .. last /\ Head(s) <= told
    <2>1. Head(s) <= last
        BY <1>2, <1>3
    <2> QED
        BY <1>0, <1>3, <2>1 DEF Greater
<1>5. /\ link' \in [Device -> LinkRow] /\ link'[d].state = "on" /\ link'[d].queue = Tail(s)
      /\ \A e \in Device \ {d} : link'[e] = link[e] /\ due'[e] = due[e]
      /\ due'[d] = {i \in due[d] : told < i}
      /\ crowded'[d] = {i \in crowded[d] : told < i}
      /\ \A e \in Device \ {d} : crowded'[e] = crowded[e]
    <2>1. [link[d] EXCEPT !.queue = Tail(s)] \in LinkRow /\ [link[d] EXCEPT !.queue = Tail(s)].state = "on"
          /\ [link[d] EXCEPT !.queue = Tail(s)].queue = Tail(s)
        BY <1>0, <1>1, <1>3 DEF LinkRow
    <2>2. due \in [Device -> SUBSET (1 .. last)] /\ crowded \in [Device -> SUBSET (1 .. last)]
        BY <1>0 DEF BusTypeOK
    <2> HIDE DEF told, s
    <2> QED
        BY <1>0, <1>1, <2>1, <2>2
<1>6. BusTypeOK'
    <2>1. Len(Tail(s)) <= Capacity /\ \A k \in DOMAIN Tail(s) : Tail(s)[k] <= last
        <3>1. Len(s) - 1 <= Capacity
            BY <1>2, <1>3, HintAssumption
        <3> QED
            BY <1>2, <1>3, <3>1
    <2>2. ASSUME NEW e \in Device
          PROVE  /\ Len(link'[e].queue) <= Capacity
                 /\ \A k \in DOMAIN link'[e].queue : link'[e].queue[k] <= last
                 /\ due'[e] \in SUBSET (1 .. last) /\ crowded'[e] \in SUBSET (1 .. last)
                 /\ crowded'[e] \subseteq due'[e]
        <3>1. CASE e = d
            BY <1>0, <1>5, <2>1, <3>1
        <3>2. CASE e # d
            BY <1>0, <1>5, <3>2 DEF BusTypeOK
        <3> QED
            BY <3>1, <3>2
    <2>3. /\ last' \in Nat /\ greetings' \in Nat /\ zeros' \in Nat /\ last' = last
          /\ pc' \in [Call -> {"idle", "hint", "publish"}] /\ req' \in [Call -> RequestRow]
        BY <1>0, <1>1 DEF BusTypeOK
    <2>4. heard' \in [Device -> 0 .. last]
        <3> HIDE DEF told
        <3> QED
            BY <1>0, <1>1, <1>4 DEF BusTypeOK
    <2>5. due' \in [Device -> SUBSET (1 .. last)]
        <3>1. DOMAIN due' = Device /\ due' = [e \in Device |-> due'[e]]
            <4> HIDE DEF told
            <4> QED
                BY <1>0, <1>1 DEF BusTypeOK
        <3> QED
            BY <2>2, <3>1
    <2>6. crowded' \in [Device -> SUBSET (1 .. last)]
        <3>1. DOMAIN crowded' = Device /\ crowded' = [e \in Device |-> crowded'[e]]
            <4> HIDE DEF told
            <4> QED
                BY <1>0, <1>1 DEF BusTypeOK
        <3> QED
            BY <2>2, <3>1
    <2> QED
        BY <1>5, <2>2, <2>3, <2>4, <2>5, <2>6 DEF BusTypeOK
<1>7. \A c \in Call : CallFits(c)'
    <2>1. \A e \in Device : due'[e] \subseteq due[e] /\ crowded'[e] \subseteq crowded[e]
        BY <1>5
    <2>2. ASSUME NEW c \in Call
          PROVE  CallFits(c)'
        <3>1. \A e \in Device : /\ req[c].row \notin due[e] => req[c].row \notin due'[e]
                                /\ req[c].row \notin crowded[e] => req[c].row \notin crowded'[e]
            BY <2>1
        <3> QED
            BY <1>0, <1>1, <3>1 DEF CallFits
    <2> QED
        BY <2>2
<1>8. \A e \in Device : LinkFits(e)'
    BY <1>0, <1>5 DEF LinkFits
<1>9. ASSUME NEW e \in Device, NEW i \in due'[e]
      PROVE  /\ FewAreStale(e, i)'
             /\ \/ i \in crowded'[e]
                \/ \E g \in Call : req'[g].row = i
                \/ \E k \in DOMAIN link'[e].queue : i <= link'[e].queue[k]
    <2>1. i \in due[e] /\ i \in Nat
        BY <1>0, <1>5
    <2>2. /\ FewAreStale(e, i)
          /\ \/ i \in crowded[e]
             \/ \E g \in Call : req[g].row = i
             \/ \E k \in DOMAIN link[e].queue : i <= link[e].queue[k]
          /\ i \in crowded[e] => i \in crowded'[e]
        BY <1>5, <1>9, <2>1 DEF IInv, EveryRowIsAnnounced
    <2>3. Stale(i)' = Stale(i)
        BY <1>1 DEF Stale
    <2>4. CASE e # d
        <3>1. link'[e] = link[e]
            BY <1>5, <2>4
        <3> QED
            BY <1>1, <2>2, <2>3, <3>1 DEF FewAreStale, Few, Behind
    <2>5. CASE e = d
        <3> DEFINE n == Cardinality(Stale(i))
                   b == Cardinality(Call)
        <3>1. n \in Nat /\ b \in Nat
            BY <1>0, StaleType
        <3>2. n < b /\ \A k \in DOMAIN s : i <= s[k] => Cardinality(Behind(s, k, i)) + n < b
            BY <2>2, <2>5 DEF FewAreStale, Few
        <3>3. \A k \in DOMAIN Tail(s) : i <= Tail(s)[k] => Cardinality(Behind(Tail(s), k, i)) + n < b
            <4> HIDE DEF n, b, s
            <4> QED
                BY <1>1, <1>2, <2>1, <3>1, <3>2, HintGone
        <3>4. FewAreStale(e, i)'
            BY <1>1, <1>5, <2>3, <2>5, <3>2, <3>3 DEF FewAreStale, Few, Behind
        <3>5. ASSUME NEW k \in DOMAIN s, i <= s[k]
              PROVE  \E p \in DOMAIN Tail(s) : i <= Tail(s)[p]
            <4>1. told < i
                BY <1>5, <1>9, <2>5
            <4>2. k # 1
                BY <1>3, <1>4, <2>1, <3>5, <4>1
            <4>3. k - 1 \in 1 .. Len(s) - 1 /\ (k - 1) + 1 = k
                BY <1>3, <4>2, PlaceBefore
            <4>4. Tail(s)[k - 1] = s[k]
                BY <1>3, <4>3
            <4> QED
                BY <1>3, <3>5, <4>3, <4>4
        <3> QED
            BY <1>1, <1>5, <2>2, <2>5, <3>4, <3>5
    <2> QED
        BY <2>4, <2>5
<1>10. EveryRowIsAnnounced'
    BY <1>9 DEF EveryRowIsAnnounced
<1> QED
    BY <1>6, <1>7, <1>8, <1>9, <1>10 DEF IInv

\* A device that goes is owed nothing.
LEMMA DisconnectStep ==
    ASSUME IInv, NEW d \in Device, Disconnect(d)
    PROVE  IInv'
<1>0. /\ BusTypeOK /\ last \in Nat
      /\ \A c \in Call : CallFits(c)
      /\ \A e \in Device : LinkFits(e)
    BY Typed
<1>1. /\ last' = last /\ pc' = pc /\ req' = req /\ zeros' = zeros /\ greetings' = greetings
      /\ link' = [link EXCEPT ![d] = Off] /\ heard' = [heard EXCEPT ![d] = 0]
      /\ due' = [due EXCEPT ![d] = {}] /\ crowded' = [crowded EXCEPT ![d] = {}]
    BY DEF Disconnect
<1>2. Off \in LinkRow /\ Off.queue = << >> /\ Off.state = "off"
    BY DEF Off, LinkRow
<1>3. /\ link'[d] = Off /\ due'[d] = {} /\ crowded'[d] = {}
      /\ \A e \in Device \ {d} : link'[e] = link[e] /\ due'[e] = due[e] /\ crowded'[e] = crowded[e]
    BY <1>0, <1>1 DEF BusTypeOK
<1>4. BusTypeOK'
    <2>1. /\ link' \in [Device -> LinkRow] /\ heard' \in [Device -> 0 .. last]
          /\ due' \in [Device -> SUBSET (1 .. last)] /\ crowded' \in [Device -> SUBSET (1 .. last)]
        BY <1>0, <1>1, <1>2 DEF BusTypeOK
    <2>2. ASSUME NEW e \in Device
          PROVE  /\ crowded'[e] \subseteq due'[e]
                 /\ Len(link'[e].queue) <= Capacity
                 /\ \A k \in DOMAIN link'[e].queue : link'[e].queue[k] <= last
        <3>1. CASE e = d
            <4>1. link'[e].queue = << >>
                BY <1>2, <1>3, <3>1
            <4>2. Len(link'[e].queue) = 0 /\ DOMAIN link'[e].queue = {}
                BY <4>1
            <4> QED
                BY <1>3, <3>1, <4>2, HintAssumption
        <3>2. CASE e # d
            BY <1>0, <1>3, <3>2 DEF BusTypeOK
        <3> QED
            BY <3>1, <3>2
    <2> QED
        BY <1>0, <1>1, <2>1, <2>2 DEF BusTypeOK
<1>5. \A c \in Call : CallFits(c)'
    <2>1. \A e \in Device : due'[e] \subseteq due[e] /\ crowded'[e] \subseteq crowded[e]
        BY <1>3
    <2> QED
        BY <1>0, <1>1, <2>1 DEF CallFits
<1>6. \A e \in Device : LinkFits(e)'
    BY <1>0, <1>2, <1>3 DEF LinkFits
<1>7. ASSUME NEW e \in Device, NEW i \in due'[e]
      PROVE  FewAreStale(e, i)'
    <2>1. e # d /\ link'[e] = link[e] /\ FewAreStale(e, i)
        BY <1>3, <1>7 DEF IInv
    <2> QED
        BY <1>1, <2>1 DEF FewAreStale, Few, Stale, Behind
<1>8. EveryRowIsAnnounced'
    BY <1>1, <1>3 DEF IInv, EveryRowIsAnnounced
<1> QED
    BY <1>4, <1>5, <1>6, <1>7, <1>8 DEF IInv

\* After a restart nothing of this is left.
LEMMA RestartStep ==
    ASSUME IInv, BusRestart
    PROVE  IInv'
<1>1. /\ pc' = [c \in Call |-> "idle"] /\ req' = [c \in Call |-> NoRequest]
      /\ link' = [d \in Device |-> Off] /\ heard' = [d \in Device |-> 0]
      /\ due' = [d \in Device |-> {}] /\ crowded' = [d \in Device |-> {}]
      /\ last' = last /\ greetings' = greetings /\ zeros' = zeros
    BY DEF BusRestart
<1>2. BusTypeOK'
    BY <1>1, HintAssumption DEF IInv, BusTypeOK, RequestRow, NoRequest, LinkRow, Off
<1>3. (\A c \in Call : CallFits(c)') /\ (\A d \in Device : LinkFits(d)')
    BY <1>1, Typed DEF CallFits, NoRequest, LinkFits, Off
<1>4. \A d \in Device : due'[d] = {}
    BY <1>1
<1> QED
    BY <1>1, <1>2, <1>3, <1>4 DEF IInv, EveryRowIsAnnounced

-----------------------------------------------------------------------------
(* What it takes to crowd a row out. *)

\* Where all hints behind the first are older than i, each of them is without a cursor or has
\* a smaller one.
LEMMA BlankOrBehind ==
    ASSUME NEW s \in Seq(Nat), s # << >>, NEW i \in Nat, \A p \in DOMAIN s : p # 1 => s[p] < i
    PROVE  Len(s) - 1 <= Cardinality(Blank(Tail(s))) + Cardinality(Behind(s, 1, i))
<1> DEFINE t == Tail(s)
           rest == 1 .. Len(t)
           told == {p \in rest : 0 < t[p]}
           f == [p \in told |-> p + 1]
<1>1. /\ DOMAIN s = 1 .. Len(s) /\ DOMAIN t = rest /\ t \in Seq(Nat)
      /\ Len(s) \in Nat \ {0} /\ Len(t) = Len(s) - 1 /\ Len(t) \in Nat
      /\ \A p \in rest : t[p] = s[p + 1] /\ p + 1 \in 1 .. Len(s) /\ p \in Nat /\ t[p] \in Nat
    BY QueueTail
<1>2. IsFiniteSet(rest) /\ Cardinality(rest) = Len(t)
    <2>1. 1 \in Int /\ Len(t) \in Int
        BY <1>1
    <2>2. /\ IsFiniteSet(rest)
          /\ Cardinality(rest) = IF 1 > Len(t) THEN 0 ELSE Len(t) - 1 + 1
        BY <2>1, FS_Interval
    <2> QED
        BY <1>1, <2>2
<1>3. ASSUME NEW p \in told
      PROVE  p \in Nat /\ p + 1 \in Behind(s, 1, i)
    <2>1. p \in rest /\ p + 1 \in DOMAIN s /\ t[p] = s[p + 1] /\ 0 < s[p + 1] /\ p \in Nat /\ 1 <= p
        BY <1>1
    <2>2. 1 < p + 1 /\ p + 1 # 1
        BY <2>1
    <2> QED
        BY <2>1, <2>2 DEF Behind
<1>4. f \in Injection(told, Behind(s, 1, i))
    <2>1. f \in [told -> Behind(s, 1, i)]
        BY <1>3
    <2>2. \A p, q \in told : f[p] = f[q] => p = q
        BY <1>3
    <2> HIDE DEF f
    <2> QED
        BY <2>1, <2>2 DEF Injection, IsInjective
<1>5. Cardinality(told) <= Cardinality(Behind(s, 1, i))
    <2>1. IsFiniteSet(Behind(s, 1, i))
        BY BehindType
    <2> HIDE DEF f, told
    <2> QED
        BY <1>4, <2>1, FS_Injection
<1>6. rest = told \union Blank(t) /\ told \subseteq rest /\ Blank(t) \subseteq rest
    BY <1>1 DEF Blank
<1>7. Cardinality(rest) <= Cardinality(told) + Cardinality(Blank(t))
    <2>1. /\ IsFiniteSet(told) /\ IsFiniteSet(Blank(t)) /\ IsFiniteSet(told \cap Blank(t))
          /\ Cardinality(told) \in Nat /\ Cardinality(Blank(t)) \in Nat
          /\ Cardinality(told \cap Blank(t)) \in Nat
        <3>1. told \cap Blank(t) \subseteq rest
            BY <1>6
        <3> HIDE DEF rest, told, t
        <3> QED
            BY <1>2, <1>6, <3>1, FS_Subset, FS_CardinalityType
    <2>2. Cardinality(told \union Blank(t))
            = Cardinality(told) + Cardinality(Blank(t)) - Cardinality(told \cap Blank(t))
        <3> HIDE DEF rest, told, t
        <3> QED
            BY <2>1, FS_Union
    <2> HIDE DEF rest, told, t
    <2> QED
        BY <1>6, <2>1, <2>2
<1>8. Cardinality(told) \in Nat /\ Cardinality(Behind(s, 1, i)) \in Nat /\ Cardinality(Blank(t)) \in Nat
    <2>1. IsFiniteSet(told) /\ IsFiniteSet(Blank(t))
        <3> HIDE DEF rest, told, t
        <3> QED
            BY <1>2, <1>6, FS_Subset
    <2> QED
        BY <2>1, BehindType, FS_CardinalityType
<1> HIDE DEF rest, told
<1> QED
    BY <1>1, <1>2, <1>5, <1>7, <1>8

\* A step that crowds a row out sends a hint over a full channel.
LEMMA CrowdingStep ==
    ASSUME IInv, NEW c \in Call, Publish(c), NEW d \in Device, ~ (crowded'[d] \subseteq crowded[d])
    PROVE  Capacity < Cardinality(Blank(link'[d].queue)) + Cardinality(Call)
<1> DEFINE x == req[c].cursor
           s == link[d].queue
           b == Cardinality(Call)
<1>1. /\ link[d] \in LinkRow /\ s \in Seq(Nat) /\ due[d] \subseteq 1 .. last /\ last \in Nat
      /\ x \in Nat /\ Capacity \in Nat \ {0} /\ pc[c] = "publish"
    BY Typed, HintAssumption DEF BusTypeOK, Publish
<1>2. link[d].state = "on" /\ link'[d] = [link[d] EXCEPT !.queue = Sent(s, x)] /\ End(c)
    BY DEF Publish
<1>3. link'[d].queue = Sent(s, x)
    BY <1>1, <1>2 DEF LinkRow
<1>4. PICK i \in CrowdedOut(d, c) : TRUE
    BY DEF Publish
<1>5. /\ i \in due[d] /\ i \in Nat /\ Len(s) = Capacity /\ i <= Head(s) /\ x < i
      /\ \A k \in DOMAIN s : k # 1 => s[k] < i
    BY <1>1, <1>4 DEF CrowdedOut
<1>6. /\ s # << >> /\ Head(s) = s[1] /\ 1 \in DOMAIN s
      /\ Len(s) \in Nat \ {0} /\ DOMAIN s = 1 .. Len(s)
    BY <1>1, <1>5
<1> DEFINE t == Append(s, x)
<1>7. /\ t \in Seq(Nat) /\ t # << >> /\ Len(t) = Capacity + 1 /\ Tail(t) = Sent(s, x)
      /\ DOMAIN t = 1 .. Len(s) + 1 /\ t[1] = s[1]
      /\ \A p \in DOMAIN t : p # 1 => t[p] < i
    <2>1. /\ t \in Seq(Nat) /\ Len(t) = Len(s) + 1 /\ DOMAIN t = 1 .. Len(s) + 1
          /\ t[Len(s) + 1] = x /\ \A p \in 1 .. Len(s) : t[p] = s[p]
        BY <1>1, QueueAppend
    <2>2. Tail(t) = Append(Tail(s), x)
        BY <1>1, <1>6, HeadTailAppend
    <2>3. ASSUME NEW p \in DOMAIN t, p # 1
          PROVE  t[p] < i
        <3>1. p \in 1 .. Len(s) \/ p = Len(s) + 1
            BY <1>6, <2>1
        <3> HIDE DEF t
        <3> QED
            BY <1>5, <1>6, <2>1, <2>3, <3>1
    <2>4. Tail(t) = Sent(s, x)
        BY <1>5, <2>2 DEF Sent
    <2>5. t # << >> /\ Len(t) = Capacity + 1 /\ t[1] = s[1]
        <3> HIDE DEF t
        <3> QED
            BY <1>5, <1>6, <2>1
    <2> HIDE DEF t
    <2> QED
        BY <2>1, <2>3, <2>4, <2>5
<1>8. Capacity <= Cardinality(Blank(Sent(s, x))) + Cardinality(Behind(t, 1, i))
    <2>1. Len(t) - 1 <= Cardinality(Blank(Tail(t))) + Cardinality(Behind(t, 1, i))
        BY <1>5, <1>7, BlankOrBehind
    <2>2. Len(t) - 1 = Capacity /\ Tail(t) = Sent(s, x)
        BY <1>1, <1>7
    <2> HIDE DEF t, x, s
    <2> QED
        BY <2>1, <2>2
<1>9. Cardinality(Behind(t, 1, i)) < b
    <2> DEFINE n == Cardinality(Stale(i))
               m == Cardinality(Stale(i) \ {c})
    <2>1. FewAreStale(d, i)
        BY <1>5 DEF IInv
    <2>2. /\ IsFiniteSet(Stale(i)) /\ n \in Nat /\ b \in Nat /\ m \in Nat
          /\ m = IF c \in Stale(i) THEN n - 1 ELSE n
        <3>1. IsFiniteSet(Stale(i)) /\ n \in Nat /\ b \in Nat
            BY StaleType
        <3>2. IsFiniteSet(Stale(i) \ {c}) /\ m = IF c \in Stale(i) THEN n - 1 ELSE n
            BY <3>1, FS_RemoveElement
        <3> QED
            BY <3>1, <3>2, FS_CardinalityType
    <2>3. c \in Stale(i) <=> 0 < x /\ x < i
        BY <1>1 DEF Stale
    <2>4. n < b /\ \A k \in DOMAIN s : i <= s[k] => Cardinality(Behind(s, k, i)) + n < b
        BY <2>1 DEF FewAreStale, Few
    <2>5. /\ 0 < x /\ x < i => m = n - 1
          /\ x = 0 \/ i <= x => m = n /\ n < b
        BY <1>1, <1>5, <2>2, <2>3, <2>4
    <2>6. \A k \in DOMAIN t : i <= t[k] => Cardinality(Behind(t, k, i)) + m < b
        <3> HIDE DEF n, m, b, x, s
        <3> QED
            BY <1>1, <1>5, <2>2, <2>4, <2>5, HintSent
    <2>7. 1 \in DOMAIN t /\ i <= t[1]
        BY <1>5, <1>6, <1>7
    <2>8. Cardinality(Behind(t, 1, i)) + m < b
        BY <2>6, <2>7
    <2>9. Cardinality(Behind(t, 1, i)) \in Nat
        BY <1>7, BehindType
    <2> HIDE DEF t, m, b
    <2> QED
        BY <2>2, <2>8, <2>9
<1>10. /\ Cardinality(Blank(Sent(s, x))) \in Nat /\ Cardinality(Behind(t, 1, i)) \in Nat /\ b \in Nat
    <2>1. Sent(s, x) \in Seq(Nat)
        <3>1. Tail(t) \in Seq(Nat)
            BY <1>7, QueueTail
        <3> QED
            BY <1>7, <3>1
    <2>2. IsFiniteSet(DOMAIN Sent(s, x)) /\ Blank(Sent(s, x)) \subseteq DOMAIN Sent(s, x)
        BY <2>1, FS_Interval DEF Blank
    <2>3. IsFiniteSet(Blank(Sent(s, x)))
        BY <2>2, FS_Subset
    <2> QED
        BY <1>7, <2>3, FS_CardinalityType, BehindType, StaleType
<1> HIDE DEF t, x, s
<1> QED
    BY <1>1, <1>3, <1>8, <1>9, <1>10

-----------------------------------------------------------------------------
(* The invariant, and what follows. *)

LEMMA NextIInv == IInv /\ [BusNext]_busVars => IInv'
<1> SUFFICES ASSUME IInv, [BusNext]_busVars PROVE IInv'
    OBVIOUS
<1>1. CASE \E c \in Call : ChangeAndTell(c) \/ CallStep(c) \/ Drop(c)
    BY <1>1, ChangeStep, ReadCursorStep, PublishStep, DropStep DEF CallStep
<1>2. CASE ChangeSilently
    BY <1>2, SilentChangeStep
<1>3. CASE \E d \in Device : Greet(d) \/ LinkStep(d) \/ Disconnect(d)
    BY <1>3, GreetStep, ForwardStep, DisconnectStep DEF LinkStep
<1>4. CASE BusRestart
    BY <1>4, RestartStep
<1>5. CASE UNCHANGED busVars
    <2>1. UNCHANGED <<last, pc, req, link, heard, greetings, zeros, due, crowded>>
        BY <1>5 DEF busVars
    <2>2. BusTypeOK' /\ EveryRowIsAnnounced'
        BY <2>1 DEF IInv, BusTypeOK, EveryRowIsAnnounced
    <2>3. (\A c \in Call : CallFits(c)') /\ \A d \in Device : LinkFits(d)'
        BY <2>1 DEF IInv, CallFits, LinkFits
    <2>4. ASSUME NEW d \in Device, NEW i \in due'[d]
          PROVE  FewAreStale(d, i)'
        <3>1. FewAreStale(d, i)
            BY <2>1, <2>4 DEF IInv
        <3>2. Stale(i)' = Stale(i)
            BY <2>1 DEF Stale
        <3> QED
            BY <2>1, <3>1, <3>2 DEF FewAreStale, Few, Behind
    <2> QED
        BY <2>2, <2>3, <2>4 DEF IInv
<1> QED
    BY <1>1, <1>2, <1>3, <1>4, <1>5 DEF BusNext

\* The invariant: behind a hint that tells of a row there are fewer stale ones than calls,
\* however small the channel is (the broadcast channel of sync/src/lib.rs).
THEOREM AlwaysFewAreStale == BusSpec => []IInv
<1>1. BusInit => IInv
    BY InitIInv
<1>2. IInv /\ [BusNext]_busVars => IInv'
    BY NextIInv
<1> QED
    BY <1>1, <1>2, PTL DEF BusSpec

\* Every call and every websocket has its type, and no queue holds more than the channel.
THEOREM BusTyped == BusSpec => []BusTypeOK
<1>1. IInv => BusTypeOK
    BY DEF IInv
<1> QED
    BY <1>1, AlwaysFewAreStale, PTL

\* A device on the bus is told of every change that a call announces and a full channel has not
\* crowded out, whatever hints overtake each other (hint_after_change, the loop of handle_ws).
THEOREM NoRowIsMissed == BusSpec => []EveryRowIsAnnounced
<1>1. IInv => EveryRowIsAnnounced
    BY DEF IInv
<1> QED
    BY <1>1, AlwaysFewAreStale, PTL

\* A row is crowded out only when the hints without a cursor in the channel and the calls are
\* more than its places: 256 of them, in sync/src/lib.rs.
THEOREM CrowdingNeedsMany == BusSpec => CrowdingTakesMany
<1> DEFINE Step == \A d \in Device : ~ (crowded'[d] \subseteq crowded[d]) =>
                        Capacity < Cardinality(Blank(link'[d].queue)) + Cardinality(Call)
<1>1. IInv /\ BusNext => Step
    <2> SUFFICES ASSUME IInv, BusNext, NEW d \in Device, ~ (crowded'[d] \subseteq crowded[d])
                 PROVE  Capacity < Cardinality(Blank(link'[d].queue)) + Cardinality(Call)
        OBVIOUS
    <2>1. CASE \E c \in Call : Publish(c)
        BY <2>1, CrowdingStep
    <2>2. CASE \E c \in Call : ChangeAndTell(c) \/ ReadCursor(c) \/ Drop(c)
        BY <2>2 DEF ChangeAndTell, ReadCursor, Drop
    <2>3. CASE ChangeSilently
        BY <2>3 DEF ChangeSilently
    <2>4. CASE \E e \in Device : Greet(e) \/ Subscribe(e)
        BY <2>4 DEF Greet, Subscribe
    <2>5. CASE \E e \in Device : Forward(e) \/ Disconnect(e)
        <3>1. crowded \in [Device -> SUBSET (1 .. last)]
            BY DEF IInv, BusTypeOK
        <3> QED
            BY <2>5, <3>1 DEF Forward, Disconnect
    <2>6. CASE BusRestart
        BY <2>6 DEF BusRestart
    <2> QED
        BY <2>1, <2>2, <2>3, <2>4, <2>5, <2>6 DEF BusNext, CallStep, LinkStep
<1> QED
    BY <1>1, AlwaysFewAreStale, PTL DEF BusSpec, CrowdingTakesMany

=============================================================================
