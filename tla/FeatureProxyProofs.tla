------------------------- MODULE FeatureProxyProofs -------------------------
(* Proofs about the proxy for feature reports for every size of the cache, *)
(* the ring and the queues and every number of reports and connections.    *)
EXTENDS FeatureProxy, FiniteSetTheorems, SequenceTheorems, WellFoundedInduction, TLAPS

(* The sizes are numbers, and no report is called NoId.                    *)
LEMMA Sizes ==
  /\ CacheSlots \in Nat \ {0} /\ GetDepth \in Nat \ {0} /\ SetDepth \in Nat \ {0}
  /\ PerTick \in Nat \ {0} /\ WireDepth \in Nat \ {0}
  /\ MaxSets \in Nat /\ MaxSessions \in Nat /\ MaxUsbResets \in Nat
  /\ NoId \notin Ids /\ "PAGE" \in Ids
BY FeatureAssumption DEF Ids, NoId

-----------------------------------------------------------------------------
(* Numbers                                                                 *)

(* A set of numbers has a least one, which Min names.                      *)
LEMMA LeastNat ==
  ASSUME NEW T, T \subseteq Nat, T # {}
  PROVE  \E x \in T : \A y \in T : x <= y
<1>1. PICK x \in T : \A y \in T : ~(<<y, x>> \in OpToRel(<, Nat))
  BY NatLessThanWellFounded, WFMin, Zenon
<1>2. \A y \in T : ~(y < x)
  BY <1>1 DEF OpToRel
<1> QED
  BY <1>2

LEMMA MinOf ==
  ASSUME NEW T, T \subseteq Nat, T # {}
  PROVE  Min(T) \in T
BY LeastNat, Zenon DEF Min

(* Positions of a ring wrap at most once.                                  *)
LEMMA Wrap ==
  ASSUME NEW D \in Nat \ {0}, NEW t \in 0 .. D - 1, NEW i \in 0 .. D
  PROVE  /\ (t + i) % D = IF t + i < D THEN t + i ELSE t + i - D
         /\ (t + i) % D \in 0 .. D - 1
OBVIOUS

LEMMA PlaceIs ==
  ASSUME getTail \in Places, NEW i \in 0 .. GetDepth
  PROVE  /\ Place(i) = IF getTail + i < GetDepth THEN getTail + i ELSE getTail + i - GetDepth
         /\ Place(i) \in Places
<1>1. GetDepth \in Nat \ {0} /\ getTail \in 0 .. GetDepth - 1 /\ i \in 0 .. GetDepth
  BY Sizes DEF Places
<1>2. \A D \in Nat \ {0} : \A t \in 0 .. D - 1 : \A k \in 0 .. D :
         /\ (t + k) % D = IF t + k < D THEN t + k ELSE t + k - D
         /\ (t + k) % D \in 0 .. D - 1
  BY Wrap
<1>3. /\ (getTail + i) % GetDepth =
            IF getTail + i < GetDepth THEN getTail + i ELSE getTail + i - GetDepth
      /\ (getTail + i) % GetDepth \in 0 .. GetDepth - 1
  BY ONLY <1>1, <1>2, Zenon
<1> QED
  BY <1>3 DEF Place, Places

LEMMA PlaceDistinct ==
  ASSUME getTail \in Places, NEW i \in 0 .. GetDepth - 1, NEW j \in 0 .. GetDepth - 1,
         Place(i) = Place(j)
  PROVE  i = j
<1>1. GetDepth \in Nat \ {0} /\ getTail \in 0 .. GetDepth - 1
  BY Sizes DEF Places
<1>2. i \in 0 .. GetDepth /\ j \in 0 .. GetDepth /\ Place(i) = Place(j)
        /\ i \in 0 .. GetDepth - 1 /\ j \in 0 .. GetDepth - 1
  BY <1>1
<1>3. /\ Place(i) = IF getTail + i < GetDepth THEN getTail + i ELSE getTail + i - GetDepth
      /\ Place(j) = IF getTail + j < GetDepth THEN getTail + j ELSE getTail + j - GetDepth
  BY <1>2, PlaceIs
<1>4. /\ i \in Int /\ j \in Int /\ getTail \in Int /\ GetDepth \in Int
      /\ 0 <= i /\ i < GetDepth /\ 0 <= j /\ j < GetDepth /\ 0 <= getTail /\ getTail < GetDepth
  BY <1>1, <1>2
<1>5. (IF getTail + i < GetDepth THEN getTail + i ELSE getTail + i - GetDepth)
          = (IF getTail + j < GetDepth THEN getTail + j ELSE getTail + j - GetDepth)
  BY ONLY <1>2, <1>3, Zenon
<1> QED
  BY ONLY <1>4, <1>5

-----------------------------------------------------------------------------
(* The compaction of the ring                                              *)

(* The loop of Compact: where it starts and what it does with the entry at *)
(* position i - 1.                                                         *)
CompactStart == [ring |-> getRing, kept |-> 0]
CompactNext(before, id, i) ==
    LET entry == before.ring[Place(i - 1)]
    IN  IF entry = id THEN before
        ELSE [ring |-> [before.ring EXCEPT ![Place(before.kept)] = entry],
              kept |-> before.kept + 1]

CompactAt(f, id, i) == IF i = 0 THEN CompactStart ELSE CompactNext(f[i - 1], id, i)

LEMMA CompactExists ==
  ASSUME NEW n \in Nat, NEW id
  PROVE  \E f : f = [i \in 0 .. n |-> CompactAt(f, id, i)]
<1> DEFINE Bad == {m \in Nat : ~\E f : f = [i \in 0 .. m |-> CompactAt(f, id, i)]}
<1>1. SUFFICES ASSUME Bad # {} PROVE FALSE
  OBVIOUS
<1>2. PICK m \in Bad : \A k \in Bad : m <= k
  BY <1>1, LeastNat
<1>3. m \in Nat /\ ~\E f : f = [i \in 0 .. m |-> CompactAt(f, id, i)]
  OBVIOUS
<1>4. CASE m = 0
  <2> DEFINE f == [i \in 0 .. 0 |-> CompactStart]
  <2>1. f = [i \in 0 .. 0 |-> CompactAt(f, id, i)]
    BY DEF CompactAt
  <2> QED
    BY <1>3, <1>4, <2>1
<1>5. CASE m # 0
  <2>1. m - 1 \in Nat /\ m - 1 \notin Bad
    BY <1>2, <1>3, <1>5
  <2>2. PICK g : g = [i \in 0 .. m - 1 |-> CompactAt(g, id, i)]
    BY <2>1
  <2> DEFINE f == [i \in 0 .. m |-> CompactAt(g, id, i)]
  <2>3. \A i \in 0 .. m - 1 : f[i] = g[i]
    BY <2>2, <1>3
  <2>4. \A i \in 0 .. m : CompactAt(g, id, i) = CompactAt(f, id, i)
    <3> TAKE i \in 0 .. m
    <3>1. CASE i = 0
      BY <3>1 DEF CompactAt
    <3>2. CASE i # 0
      <4>1. i - 1 \in 0 .. m - 1
        BY <3>2, <1>3
      <4>2. f[i - 1] = g[i - 1]
        BY <4>1, <2>3
      <4> QED
        BY <3>2, <4>2 DEF CompactAt
    <3> QED
      BY <3>1, <3>2
  <2>5. f = [i \in 0 .. m |-> CompactAt(f, id, i)]
    BY <2>4
  <2> QED
    BY <1>3, <2>5
<1> QED
  BY <1>4, <1>5

(* After i entries: the ring holds what stays of them at its first places, *)
(* in order (f says which they were), and the entries to come untouched.   *)
Compacted(ring, kept, id, i) ==
    /\ kept \in 0 .. i /\ ring \in [Places -> Ids \cup {NoId}]
    /\ \A j \in i .. getCount - 1 : ring[Place(j)] = getRing[Place(j)]
    /\ \E f \in [1 .. kept -> 1 .. i] :
          /\ \A k, l \in 1 .. kept : k < l => f[k] < f[l]
          /\ \A k \in 1 .. kept : ring[Place(k - 1)] = getRing[Place(f[k] - 1)]
          /\ \A l \in 1 .. i : getRing[Place(l - 1)] # id <=> \E k \in 1 .. kept : f[k] = l

LEMMA CompactedStart ==
  ASSUME getRing \in [Places -> Ids \cup {NoId}], NEW id
  PROVE  Compacted(getRing, 0, id, 0)
<1> DEFINE f == [k \in 1 .. 0 |-> 1]
<1>0. 1 .. 0 = {}
  OBVIOUS
<1>1. f \in [1 .. 0 -> 1 .. 0]
  OBVIOUS
<1>2. \E h \in [1 .. 0 -> 1 .. 0] :
          /\ \A k, l \in 1 .. 0 : k < l => h[k] < h[l]
          /\ \A k \in 1 .. 0 : getRing[Place(k - 1)] = getRing[Place(h[k] - 1)]
          /\ \A l \in 1 .. 0 : getRing[Place(l - 1)] # id <=> \E k \in 1 .. 0 : h[k] = l
  BY ONLY <1>0, <1>1
<1>3. 0 \in 0 .. 0
  OBVIOUS
<1> QED
  BY <1>2, <1>3, Zenon DEF Compacted

LEMMA CompactedNext ==
  ASSUME getTail \in Places, getCount \in 0 .. GetDepth, NEW id,
         NEW i \in 1 .. getCount, NEW s, Compacted(s.ring, s.kept, id, i - 1)
  PROVE  Compacted(CompactNext(s, id, i).ring, CompactNext(s, id, i).kept, id, i)
<1> DEFINE entry == s.ring[Place(i - 1)]
           n == s.kept
<1>1. n \in 0 .. i - 1 /\ s.ring \in [Places -> Ids \cup {NoId}]
  BY DEF Compacted
<1>0. GetDepth \in Nat \ {0} /\ getCount \in 0 .. GetDepth /\ i \in 1 .. getCount
  BY Sizes
<1>2. entry = getRing[Place(i - 1)] /\ Place(i - 1) \in Places
  <2>1. i - 1 \in 0 .. GetDepth /\ i - 1 \in i - 1 .. getCount - 1
    BY <1>0
  <2> QED
    BY <2>1, PlaceIs DEF Compacted
<1>3. PICK f \in [1 .. n -> 1 .. i - 1] :
          /\ \A k, l \in 1 .. n : k < l => f[k] < f[l]
          /\ \A k \in 1 .. n : s.ring[Place(k - 1)] = getRing[Place(f[k] - 1)]
          /\ \A l \in 1 .. i - 1 : getRing[Place(l - 1)] # id <=> \E k \in 1 .. n : f[k] = l
  BY DEF Compacted
<1>4. CASE entry = id
  <2>1. CompactNext(s, id, i) = s
    BY <1>4 DEF CompactNext
  <2>2. f \in [1 .. n -> 1 .. i] /\ \A k \in 1 .. n : f[k] # i
    BY <1>1, <1>3
  <2>3. \A l \in 1 .. i : getRing[Place(l - 1)] # id <=> \E k \in 1 .. n : f[k] = l
    <3> TAKE l \in 1 .. i
    <3>1. CASE l = i
      BY <1>2, <1>4, <2>2, <3>1
    <3>2. CASE l # i
      BY <1>3, <3>2
    <3> QED
      BY <3>1, <3>2
  <2>4. \A j \in i .. getCount - 1 : s.ring[Place(j)] = getRing[Place(j)]
    BY DEF Compacted
  <2>5. n \in 0 .. i
    BY <1>1
  <2>6. \E h \in [1 .. n -> 1 .. i] :
          /\ \A k, l \in 1 .. n : k < l => h[k] < h[l]
          /\ \A k \in 1 .. n : s.ring[Place(k - 1)] = getRing[Place(h[k] - 1)]
          /\ \A l \in 1 .. i : getRing[Place(l - 1)] # id <=> \E k \in 1 .. n : h[k] = l
    BY <1>3, <2>2, <2>3
  <2>7. Compacted(s.ring, n, id, i)
    BY <1>1, <2>4, <2>5, <2>6, Zenon DEF Compacted
  <2> QED
    BY <2>1, <2>7
<1>5. CASE entry # id
  <2> DEFINE ring == [s.ring EXCEPT ![Place(n)] = entry]
             g == [k \in 1 .. n + 1 |-> IF k = n + 1 THEN i ELSE f[k]]
  <2>1. CompactNext(s, id, i) = [ring |-> ring, kept |-> n + 1]
    BY <1>5 DEF CompactNext
  <2>2. Place(n) \in Places /\ n \in 0 .. GetDepth - 1
    <3>1. n \in 0 .. GetDepth - 1 /\ n \in 0 .. GetDepth
      BY <1>1, <1>0
    <3> QED
      BY <3>1, PlaceIs
  <2>3. ring \in [Places -> Ids \cup {NoId}]
    BY <1>1, <1>2, <2>2
  <2>4. \A j \in 0 .. getCount - 1 : j # n => ring[Place(j)] = s.ring[Place(j)]
    <3> TAKE j \in 0 .. getCount - 1
    <3> HAVE j # n
    <3>1. Place(j) # Place(n) /\ Place(j) \in Places
      <4>1. j \in 0 .. GetDepth - 1 /\ j \in 0 .. GetDepth
        BY <1>0
      <4> QED
        BY <2>2, <4>1, PlaceDistinct, PlaceIs
    <3> QED
      BY <1>1, <3>1
  <2>5. ring[Place(n)] = entry
    BY <1>1, <2>2
  <2> HIDE DEF ring
  <2>6. \A j \in i .. getCount - 1 : ring[Place(j)] = getRing[Place(j)]
    BY <1>1, <2>4 DEF Compacted
  <2>7. g \in [1 .. n + 1 -> 1 .. i] /\ g[n + 1] = i /\ \A k \in 1 .. n : g[k] = f[k]
    BY <1>1, <1>3
  <2>8. \A k, l \in 1 .. n + 1 : k < l => g[k] < g[l]
    <3> TAKE k, l \in 1 .. n + 1
    <3> HAVE k < l
    <3>1. k \in 1 .. n /\ g[k] = f[k] /\ f[k] \in 1 .. i - 1
      <4>1. k \in 1 .. n
        BY <1>1
      <4> QED
        BY <1>3, <2>7, <4>1
    <3>2. CASE l = n + 1
      BY <2>7, <3>1, <3>2
    <3>3. CASE l # n + 1
      <4>1. l \in 1 .. n
        BY <1>1, <3>3
      <4> QED
        BY <1>3, <2>7, <3>1, <4>1
    <3> QED
      BY <3>2, <3>3
  <2>9. \A k \in 1 .. n + 1 : ring[Place(k - 1)] = getRing[Place(g[k] - 1)]
    <3> TAKE k \in 1 .. n + 1
    <3>1. CASE k = n + 1
      BY <1>1, <1>2, <2>5, <2>7, <3>1
    <3>2. CASE k # n + 1
      <4>1. k \in 1 .. n /\ k - 1 \in 0 .. getCount - 1 /\ k - 1 # n
        BY <1>1, <3>2
      <4> QED
        BY <1>3, <2>4, <2>7, <4>1
    <3> QED
      BY <3>1, <3>2
  <2>10. \A l \in 1 .. i : getRing[Place(l - 1)] # id <=> \E k \in 1 .. n + 1 : g[k] = l
    <3> TAKE l \in 1 .. i
    <3>1. CASE l = i
      <4>1. n + 1 \in 1 .. n + 1
        BY <1>1
      <4> QED
        BY <1>2, <1>5, <2>7, <3>1, <4>1
    <3>2. CASE l # i
      <4>1. getRing[Place(l - 1)] # id <=> \E k \in 1 .. n : f[k] = l
        BY <1>3, <3>2
      <4>2. \A k \in 1 .. n + 1 : k \in 1 .. n \/ k = n + 1
        BY <1>1
      <4>3. \A k \in 1 .. n : k \in 1 .. n + 1
        BY <1>1
      <4>4. g[n + 1] # l /\ \A k \in 1 .. n : g[k] = f[k]
        BY <2>7, <3>2
      <4>5. (\E k \in 1 .. n : f[k] = l) <=> \E k \in 1 .. n + 1 : g[k] = l
        BY ONLY <4>2, <4>3, <4>4
      <4> QED
        BY <4>1, <4>5
    <3> QED
      BY <3>1, <3>2
  <2>11. n + 1 \in 0 .. i
    BY <1>1
  <2> HIDE DEF g
  <2>12. \E h \in [1 .. n + 1 -> 1 .. i] :
          /\ \A k, l \in 1 .. n + 1 : k < l => h[k] < h[l]
          /\ \A k \in 1 .. n + 1 : ring[Place(k - 1)] = getRing[Place(h[k] - 1)]
          /\ \A l \in 1 .. i : getRing[Place(l - 1)] # id <=> \E k \in 1 .. n + 1 : h[k] = l
    BY <2>7, <2>8, <2>9, <2>10
  <2>13. Compacted(ring, n + 1, id, i)
    BY <2>3, <2>6, <2>11, <2>12, Zenon DEF Compacted
  <2>14. CompactNext(s, id, i).ring = ring /\ CompactNext(s, id, i).kept = n + 1
    BY <2>1
  <2> QED
    BY <2>13, <2>14
<1> QED
  BY <1>4, <1>5

(* What the compaction leaves, for every size of the ring.                 *)
LEMMA CompactIs ==
  ASSUME getTail \in Places, getCount \in 0 .. GetDepth,
         getRing \in [Places -> Ids \cup {NoId}], NEW id
  PROVE  Compacted(Compact(id).ring, Compact(id).kept, id, getCount)
<1> DEFINE N == getCount
           step == CHOOSE f : f = [i \in 0 .. N |-> CompactAt(f, id, i)]
<1>1. N \in Nat
  OBVIOUS
<1>2. step = [i \in 0 .. N |-> CompactAt(step, id, i)]
  BY <1>1, CompactExists
<1>3. Compact(id) = step[N]
  BY DEF Compact, CompactAt, CompactStart, CompactNext
<1> HIDE DEF step
<1> DEFINE Bad == {m \in 0 .. N : ~Compacted(step[m].ring, step[m].kept, id, m)}
<1>4. Bad = {}
  <2>1. SUFFICES ASSUME Bad # {} PROVE FALSE
    OBVIOUS
  <2>2. PICK m \in Bad : \A k \in Bad : m <= k
    <3>1. Bad \subseteq Nat
      BY <1>1
    <3> QED
      BY <2>1, <3>1, LeastNat
  <2>3. m \in 0 .. N /\ ~Compacted(step[m].ring, step[m].kept, id, m)
    OBVIOUS
  <2>4. step[m] = CompactAt(step, id, m)
    BY <1>2, <2>3
  <2>5. CASE m = 0
    BY <2>3, <2>4, <2>5, CompactedStart DEF CompactAt, CompactStart
  <2>6. CASE m # 0
    <3>1. m - 1 \in 0 .. N /\ m - 1 \notin Bad /\ m \in 1 .. N
      BY <1>1, <2>2, <2>3, <2>6
    <3>2. Compacted(step[m - 1].ring, step[m - 1].kept, id, m - 1)
      BY <3>1
    <3>3. Compacted(CompactNext(step[m - 1], id, m).ring,
                   CompactNext(step[m - 1], id, m).kept, id, m)
      BY <3>1, <3>2, CompactedNext
    <3>4. step[m] = CompactNext(step[m - 1], id, m)
      BY <2>4, <2>6 DEF CompactAt
    <3> QED
      BY <2>3, <3>3, <3>4
  <2> QED
    BY <2>5, <2>6
<1>5. N \notin Bad /\ N \in 0 .. N
  BY <1>1, <1>4
<1> QED
  BY <1>3, <1>5

-----------------------------------------------------------------------------
(* The operations of the ring                                              *)

RingOK ==
    /\ getRing \in [Places -> Ids \cup {NoId}]
    /\ getHead \in Places /\ getTail \in Places /\ getCount \in 0 .. GetDepth
    /\ RingOfRequests

(* What RequestsKept says of a step.                                       *)
RingChange ==
    \/ Waiting' \in {Waiting, <<>>}
    \/ \E id \in Ids : Without(id, Waiting, Waiting')
    \/ \E id \in Ids : ~Queued(id) /\ Waiting' = Append(Waiting, id)

(* The sequence a function on 1 .. n is.                                   *)
LEMMA SeqOf ==
  ASSUME NEW n \in Nat, NEW S, NEW w, w \in [1 .. n -> S]
  PROVE  w \in Seq(S) /\ Len(w) = n
<1>1. w \in Seq(S)
  BY SeqDef
<1>2. Len(w) \in Nat /\ 1 .. Len(w) = 1 .. n
  BY <1>1, LenProperties
<1> QED
  BY <1>1, <1>2

(* The place after a place, and the places after the tail has moved on.    *)
LEMMA WrapNext ==
  ASSUME NEW D \in Nat \ {0}, NEW t \in 0 .. D - 1, NEW i \in 0 .. D - 1
  PROVE  /\ (((t + i) % D) + 1) % D = (t + (i + 1)) % D
         /\ (((t + 1) % D) + i) % D = (t + (i + 1)) % D
OBVIOUS

LEMMA PlaceNext ==
  ASSUME getTail \in Places, NEW i \in 0 .. GetDepth - 1
  PROVE  /\ (Place(i) + 1) % GetDepth = Place(i + 1)
         /\ (((getTail + 1) % GetDepth) + i) % GetDepth = Place(i + 1)
<1>1. GetDepth \in Nat \ {0} /\ getTail \in 0 .. GetDepth - 1 /\ i \in 0 .. GetDepth - 1
  BY Sizes DEF Places
<1>2. \A D \in Nat \ {0} : \A t \in 0 .. D - 1 : \A k \in 0 .. D - 1 :
         /\ (((t + k) % D) + 1) % D = (t + (k + 1)) % D
         /\ (((t + 1) % D) + k) % D = (t + (k + 1)) % D
  BY WrapNext
<1> QED
  BY ONLY <1>1, <1>2, Zenon DEF Place

LEMMA WaitingSeq ==
  ASSUME RingOK
  PROVE  /\ Waiting \in Seq(Ids \cup {NoId}) /\ Len(Waiting) = getCount
         /\ \A i \in 1 .. getCount : Waiting[i] = getRing[Place(i - 1)]
         /\ getCount \in Nat
<1>1. GetDepth \in Nat /\ getCount \in Nat
  BY Sizes DEF RingOK
<1>2. \A i \in 1 .. getCount : getRing[Place(i - 1)] \in Ids \cup {NoId}
  <2> TAKE i \in 1 .. getCount
  <2>1. i - 1 \in 0 .. GetDepth
    BY <1>1 DEF RingOK
  <2> QED
    BY <2>1, PlaceIs DEF RingOK
<1>3. Waiting \in [1 .. getCount -> Ids \cup {NoId}]
  BY <1>2 DEF Waiting
<1> QED
  BY <1>1, <1>3, SeqOf DEF Waiting

LEMMA SameRing ==
  ASSUME RingOK, UNCHANGED getVars
  PROVE  RingOK' /\ RingChange
<1>1. \A i : Place(i)' = Place(i)
  BY DEF Place, getVars
<1>2. Waiting' = Waiting
  BY <1>1 DEF Waiting, getVars
<1> QED
  BY <1>1, <1>2 DEF RingOK, RingOfRequests, RingChange, getVars

LEMMA ClearRing ==
  ASSUME RingOK, ClearRequests
  PROVE  RingOK' /\ RingChange
<1>1. GetDepth \in Nat \ {0} /\ 0 \in Places
  BY Sizes DEF Places
<1>2. Waiting' = <<>>
  BY DEF Waiting, ClearRequests
<1>3. Place(0)' = 0
  <2>1. \A D \in Nat \ {0} : (0 + 0) % D = 0
    OBVIOUS
  <2> QED
    BY <1>1, <2>1 DEF Place, ClearRequests
<1>4. RingOfRequests'
  BY <1>3 DEF RingOfRequests, ClearRequests
<1> QED
  BY <1>1, <1>2, <1>4 DEF RingOK, RingChange, ClearRequests

LEMMA RequestRing ==
  ASSUME RingOK, NEW id \in Ids, Request(id)
  PROVE  RingOK' /\ RingChange
<1>1. CASE Queued(id) \/ QueueFull
  BY <1>1, SameRing DEF Request
<1>2. CASE ~Queued(id) /\ ~QueueFull
  <2> DEFINE c == getCount
             h == Place(c)
  <2>1. /\ GetDepth \in Nat \ {0} /\ c \in 0 .. GetDepth - 1 /\ c \in 0 .. GetDepth
        /\ c + 1 \in 0 .. GetDepth
    BY <1>2, Sizes DEF RingOK, QueueFull
  <2>2. h \in Places /\ getHead = h
    BY <2>1, PlaceIs DEF RingOK, RingOfRequests
  <2>3. /\ getRing' = [getRing EXCEPT ![h] = id] /\ getHead' = (h + 1) % GetDepth
        /\ getCount' = c + 1 /\ getTail' = getTail
    BY <1>2, <2>2 DEF Request
  <2>4. \A i : Place(i)' = Place(i)
    BY <2>3 DEF Place
  <2>5. getHead' = Place(c + 1) /\ getHead' \in Places
    BY <2>1, <2>3, PlaceNext, PlaceIs DEF RingOK
  <2>6. \A i \in 0 .. c - 1 : getRing'[Place(i)] = getRing[Place(i)]
    <3> TAKE i \in 0 .. c - 1
    <3>1. i \in 0 .. GetDepth - 1 /\ i \in 0 .. GetDepth /\ i # c
      BY <2>1
    <3>2. Place(i) # h /\ Place(i) \in Places
      BY <2>1, <3>1, PlaceDistinct, PlaceIs DEF RingOK
    <3> QED
      BY <2>3, <3>2 DEF RingOK
  <2>7. getRing'[h] = id /\ getRing' \in [Places -> Ids \cup {NoId}]
    BY <2>2, <2>3 DEF RingOK
  <2> HIDE DEF c
  <2>8. \A i \in 0 .. c - 1 : getRing[Place(i)] # id
    BY <1>2 DEF Queued, c
  <2>9. RingOfRequests'
    <3>1. getHead' = Place(getCount)'
      BY <2>3, <2>4, <2>5 DEF c
    <3>2. \A i, j \in 0 .. c : /\ getRing'[Place(i)] # NoId
                               /\ getRing'[Place(i)] = getRing'[Place(j)] => i = j
      <4>1. \A i \in 0 .. c : i = c \/ i \in 0 .. c - 1
        BY <2>1
      <4>2. id # NoId
        BY Sizes
      <4>3. \A i, j \in 0 .. c - 1 : /\ getRing[Place(i)] # NoId
                                     /\ getRing[Place(i)] = getRing[Place(j)] => i = j
        BY DEF RingOK, RingOfRequests, c
      <4> QED
        BY <2>6, <2>7, <2>8, <4>1, <4>2, <4>3
    <3>3. 0 .. (c + 1) - 1 = 0 .. c
      BY <2>1
    <3> QED
      BY <2>3, <2>4, <3>1, <3>2, <3>3 DEF RingOfRequests, c
  <2>10. RingOK'
    BY <2>1, <2>3, <2>5, <2>7, <2>9 DEF RingOK, c
  <2>11. Waiting' = Append(Waiting, id)
    <3> DEFINE S == Ids \cup {NoId}
    <3>1. /\ Waiting \in Seq(S) /\ Len(Waiting) = c /\ c \in Nat
          /\ \A i \in 1 .. c : Waiting[i] = getRing[Place(i - 1)]
      BY WaitingSeq DEF c
    <3>2. Waiting' = [i \in 1 .. c + 1 |-> getRing'[Place(i - 1)]]
      BY <2>3, <2>4 DEF Waiting, c
    <3>3. \A i \in 1 .. c : i - 1 \in 0 .. c - 1 /\ i \in 1 .. c + 1
      BY <3>1
    <3>4. \A i \in 1 .. c : Waiting'[i] = Waiting[i]
      BY <2>6, <3>1, <3>2, <3>3
    <3>5. Waiting'[c + 1] = id
      BY <2>7, <3>1, <3>2
    <3>6. Waiting' \in [1 .. c + 1 -> S]
      <4>1. \A i \in 1 .. c + 1 : i \in 1 .. c \/ i = c + 1
        BY <3>1
      <4>2. \A i \in 1 .. c : Waiting[i] \in S
        BY <3>1, ElementOfSeq
      <4>3. \A i \in 1 .. c + 1 : getRing'[Place(i - 1)] \in S
        BY <3>2, <3>4, <3>5, <4>1, <4>2
      <4> QED
        BY <3>2, <4>3
    <3>7. Waiting' \in Seq(S) /\ Len(Waiting') = c + 1
      BY <3>1, <3>6, SeqOf
    <3>8. /\ Append(Waiting, id) \in Seq(S) /\ Len(Append(Waiting, id)) = c + 1
          /\ \A i \in 1 .. c : Append(Waiting, id)[i] = Waiting[i]
          /\ Append(Waiting, id)[c + 1] = id
      BY <3>1, AppendProperties
    <3>9. \A i \in 1 .. c + 1 : Waiting'[i] = Append(Waiting, id)[i]
      <4>1. \A i \in 1 .. c + 1 : i \in 1 .. c \/ i = c + 1
        BY <3>1
      <4> QED
        BY <3>4, <3>5, <3>8, <4>1
    <3> QED
      BY <3>7, <3>8, <3>9, SeqEqual
  <2> QED
    BY <1>2, <2>10, <2>11 DEF RingChange
<1> QED
  BY <1>1, <1>2

LEMMA RemoveRing ==
  ASSUME RingOK, NEW id \in Ids, Remove(id)
  PROVE  RingOK' /\ RingChange
<1> DEFINE N == getCount
           K == Compact(id).kept
           ring == Compact(id).ring
<1>1. Compacted(ring, K, id, N)
  BY CompactIs DEF RingOK
<1>2. getRing' = ring /\ getCount' = K /\ getHead' = Place(K) /\ getTail' = getTail
  BY DEF Remove
<1>3. \A i : Place(i)' = Place(i)
  BY <1>2 DEF Place
<1>4. PICK f \in [1 .. K -> 1 .. N] :
          /\ \A k, l \in 1 .. K : k < l => f[k] < f[l]
          /\ \A k \in 1 .. K : ring[Place(k - 1)] = getRing[Place(f[k] - 1)]
          /\ \A l \in 1 .. N : getRing[Place(l - 1)] # id <=> \E k \in 1 .. K : f[k] = l
  BY <1>1 DEF Compacted
<1>5. K \in 0 .. N /\ ring \in [Places -> Ids \cup {NoId}] /\ N \in 0 .. GetDepth /\ GetDepth \in Nat
  BY <1>1, Sizes DEF Compacted, RingOK
<1> HIDE DEF K, ring, N
<1>6. Place(K) \in Places
  BY <1>5, PlaceIs DEF RingOK
<1>7. RingOfRequests'
  <2>1. ASSUME NEW i \in 0 .. K - 1
        PROVE  /\ i + 1 \in 1 .. K /\ f[i + 1] - 1 \in 0 .. N - 1
               /\ ring[Place(i)] = getRing[Place(f[i + 1] - 1)]
    <3>1. i + 1 \in 1 .. K /\ (i + 1) - 1 = i
      BY <1>5
    <3>2. f[i + 1] \in 1 .. N
      BY <1>4, <3>1
    <3> QED
      BY <1>4, <1>5, <3>1, <3>2
  <2>2. ASSUME NEW i \in 0 .. K - 1, NEW j \in 0 .. K - 1
        PROVE  ring[Place(i)] # NoId /\ (ring[Place(i)] = ring[Place(j)] => i = j)
    <3>1. /\ getRing[Place(f[i + 1] - 1)] # NoId
          /\ getRing[Place(f[i + 1] - 1)] = getRing[Place(f[j + 1] - 1)]
                => f[i + 1] - 1 = f[j + 1] - 1
      BY <2>1 DEF RingOK, RingOfRequests, N
    <3>2. f[i + 1] = f[j + 1] => i = j
      <4>1. f[i + 1] \in 1 .. N /\ f[j + 1] \in 1 .. N /\ i + 1 \in 1 .. K /\ j + 1 \in 1 .. K
        BY <1>4, <2>1
      <4>2. i + 1 < j + 1 => f[i + 1] < f[j + 1]
        BY <1>4, <4>1
      <4>3. j + 1 < i + 1 => f[j + 1] < f[i + 1]
        BY <1>4, <4>1
      <4> QED
        BY <1>5, <4>1, <4>2, <4>3
    <3>3. f[i + 1] \in Int /\ f[j + 1] \in Int
      BY <1>4, <1>5, <2>1
    <3> QED
      BY <2>1, <3>1, <3>2, <3>3
  <2> QED
    BY <1>2, <1>3, <2>2 DEF RingOfRequests
<1>8. RingOK'
  BY <1>2, <1>5, <1>6, <1>7 DEF RingOK
<1>9. Without(id, Waiting, Waiting')
  <2>1. /\ Len(Waiting) = N /\ \A i \in 1 .. N : Waiting[i] = getRing[Place(i - 1)]
    BY WaitingSeq DEF N
  <2>2. Waiting' = [i \in 1 .. K |-> ring[Place(i - 1)]]
    BY <1>2, <1>3 DEF Waiting
  <2>3. Len(Waiting') = K
    <3>1. \A i \in 1 .. K : ring[Place(i - 1)] \in Ids \cup {NoId}
      <4> TAKE i \in 1 .. K
      <4>1. i - 1 \in 0 .. GetDepth
        BY <1>5
      <4> QED
        BY <1>5, <4>1, PlaceIs DEF RingOK
    <3>2. Waiting' \in [1 .. K -> Ids \cup {NoId}]
      BY <2>2, <3>1
    <3> QED
      BY <1>5, <3>2, SeqOf
  <2>4. \A i \in 1 .. K : Waiting'[i] = Waiting[f[i]]
    BY <1>4, <2>1, <2>2
  <2>5. \A k \in 1 .. N : Waiting[k] # id <=> \E i \in 1 .. K : f[i] = k
    BY <1>4, <2>1
  <2> QED
    BY <1>4, <2>1, <2>3, <2>4, <2>5 DEF Without
<1> QED
  BY <1>8, <1>9 DEF RingChange

(* The oldest request leaves the ring.                                     *)
LEMMA PopRing ==
  ASSUME RingOK, getCount > 0, getTail' = (getTail + 1) % GetDepth, getCount' = getCount - 1,
         UNCHANGED <<getRing, getHead>>
  PROVE  RingOK' /\ RingChange /\ NextRequest \in Ids
<1> DEFINE S == Ids \cup {NoId}
<1>0. PICK N : N = getCount
  OBVIOUS
<1>1. /\ GetDepth \in Nat \ {0} /\ N \in 1 .. GetDepth
      /\ getTail \in Places /\ getRing \in [Places -> S]
  BY <1>0, Sizes DEF RingOK
<1>2. \A i \in 0 .. GetDepth - 1 : Place(i)' = Place(i + 1)
  BY <1>1, PlaceNext DEF Place
<1>3. getTail' \in Places
  <2>1. Place(1) \in Places /\ 1 \in 0 .. GetDepth
    BY <1>1, PlaceIs
  <2> QED
    BY <2>1 DEF Place
<1>4. Place(0) = getTail
  <2>1. getTail \in 0 .. GetDepth - 1 /\ 0 \in 0 .. GetDepth
    BY <1>1 DEF Places
  <2> QED
    BY <1>1, <2>1, PlaceIs
<1>5. /\ getHead = Place(N)
      /\ \A i, j \in 0 .. N - 1 : /\ getRing[Place(i)] # NoId
                                  /\ getRing[Place(i)] = getRing[Place(j)] => i = j
  BY <1>0 DEF RingOK, RingOfRequests
<1>6. getCount' = N - 1 /\ N - 1 \in 0 .. GetDepth - 1 /\ N - 1 \in 0 .. GetDepth /\ (N - 1) + 1 = N
  BY <1>0, <1>1
<1>7. RingOfRequests'
  <2>1. getHead' = Place(getCount)'
    <3>1. Place(N - 1)' = Place((N - 1) + 1)
      BY <1>2, <1>6
    <3> QED
      BY <1>5, <1>6, <3>1 DEF Place
  <2>2. \A i \in 0 .. (N - 1) - 1 : i \in 0 .. GetDepth - 1 /\ i + 1 \in 0 .. N - 1
    BY <1>1
  <2>3. \A i, j \in 0 .. (N - 1) - 1 : i + 1 = j + 1 => i = j
    BY <1>1
  <2> QED
    BY <1>2, <1>5, <1>6, <2>1, <2>2, <2>3 DEF RingOfRequests
<1>8. RingOK'
  BY <1>1, <1>3, <1>6, <1>7 DEF RingOK
<1>9. NextRequest \in Ids
  <2>1. 0 \in 0 .. N - 1
    BY <1>1
  <2> QED
    BY <1>1, <1>4, <1>5, <2>1 DEF NextRequest
<1>10. Without(NextRequest, Waiting, Waiting')
  <2> DEFINE f == [k \in 1 .. N - 1 |-> k + 1]
  <2>1. /\ Len(Waiting) = N /\ \A i \in 1 .. N : Waiting[i] = getRing[Place(i - 1)]
        /\ Waiting \in Seq(S)
    BY <1>0, WaitingSeq
  <2>2. \A i \in 1 .. N - 1 : i - 1 \in 0 .. GetDepth - 1 /\ (i - 1) + 1 = i /\ i + 1 \in 1 .. N
                              /\ (i + 1) - 1 = i
    BY <1>1
  <2>3. Waiting' = [i \in 1 .. N - 1 |-> Waiting[i + 1]]
    BY SMTT(30), <1>2, <1>6, <2>1, <2>2 DEF Waiting
  <2>4. Len(Waiting') = N - 1
    <3>1. \A i \in 1 .. N - 1 : Waiting[i + 1] \in S
      BY <2>1, <2>2, ElementOfSeq
    <3>2. Waiting' \in [1 .. N - 1 -> S]
      BY <2>3, <3>1
    <3> QED
      BY <1>1, <3>2, SeqOf
  <2>5. f \in [1 .. N - 1 -> 1 .. N] /\ \A i \in 1 .. N - 1 : f[i] = i + 1
    BY <1>1
  <2> HIDE DEF f
  <2>6. \A i, j \in 1 .. N - 1 : i < j => f[i] < f[j]
    BY <1>1, <2>5
  <2>7. \A i \in 1 .. N - 1 : Waiting'[i] = Waiting[f[i]]
    BY <2>3, <2>5
  <2>8. \A k \in 1 .. N : Waiting[k] # NextRequest <=> \E i \in 1 .. N - 1 : f[i] = k
    <3> TAKE k \in 1 .. N
    <3>1. Waiting[1] = NextRequest
      BY <1>1, <1>4, <2>1 DEF NextRequest
    <3>2. CASE k = 1
      <4>1. \A i \in 1 .. N - 1 : f[i] # 1
        BY <1>1, <2>5
      <4> QED
        BY <3>1, <3>2, <4>1
    <3>3. CASE k # 1
      <4>1. k - 1 \in 1 .. N - 1 /\ (k - 1) + 1 = k /\ k - 1 \in 0 .. N - 1 /\ 0 \in 0 .. N - 1
              /\ k - 1 # 0
        BY <1>1, <3>3
      <4>2. f[k - 1] = k
        BY <2>5, <4>1
      <4>3. getRing[Place(k - 1)] # getRing[Place(0)]
        BY <1>5, <4>1
      <4> QED
        BY <1>4, <2>1, <4>1, <4>2, <4>3 DEF NextRequest
    <3> QED
      BY <3>2, <3>3
  <2>9. Len(Waiting) = N
    BY <2>1
  <2> QED
    BY ONLY <2>4, <2>5, <2>6, <2>7, <2>8, <2>9 DEF Without
<1> QED
  BY <1>8, <1>9, <1>10 DEF RingChange

-----------------------------------------------------------------------------
(* The cache                                                               *)

(* A report is in one slot at most, and comes from this connection.        *)
CacheOK ==
    /\ cache \in [CacheIndex -> Entries \cup {Invalid}] /\ replace \in CacheIndex
    /\ \A s, t \in CacheIndex : cache[s].id = cache[t].id /\ cache[s].id # NoId => s = t
    /\ \A s \in CacheIndex : cache[s] # Invalid => link # "none" /\ cache[s].session = session

LEMMA CacheUnique == CacheOK => CacheOfController
<1> SUFFICES ASSUME CacheOK, NEW id \in Ids PROVE Cardinality(Holding(id)) <= 1
  BY DEF CacheOK, CacheOfController
<1>1. id # NoId
  BY Sizes
<1>2. \A s, t \in Holding(id) : s = t
  BY <1>1 DEF CacheOK, Holding
<1>3. CASE Holding(id) = {}
  BY <1>3, FS_EmptySet
<1>4. CASE Holding(id) # {}
  <2>1. PICK s : Holding(id) = {s}
    BY <1>2, <1>4
  <2>2. Cardinality(Holding(id)) = 1
    BY <2>1, FS_Singleton
  <2> QED
    BY <2>2
<1> QED
  BY <1>3, <1>4

LEMMA CacheShrinks ==
  ASSUME CacheOK, cache' \in [CacheIndex -> Entries \cup {Invalid}], UNCHANGED <<link, session>>,
         \A s \in CacheIndex : cache'[s] \in {cache[s], Invalid}, replace' \in CacheIndex
  PROVE  CacheOK'
BY DEF CacheOK, Invalid

LEMMA Invalidated ==
  ASSUME CacheOK, NEW id, Invalidate(id), UNCHANGED <<link, session, replace>>
  PROVE  CacheOK'
<1>1. \A s \in CacheIndex : cache'[s] \in {cache[s], Invalid}
  BY DEF Invalidate
<1>2. cache' \in [CacheIndex -> Entries \cup {Invalid}]
  BY DEF Invalidate, CacheOK
<1> QED
  BY <1>1, <1>2, CacheShrinks DEF CacheOK

LEMMA Emptied ==
  ASSUME ClearReports
  PROVE  CacheOK'
<1>1. 0 \in CacheIndex
  BY Sizes DEF CacheIndex
<1> QED
  BY <1>1 DEF ClearReports, CacheOK, Invalid

LEMMA SlotOfStore ==
  ASSUME CacheOK, NEW id \in Ids
  PROVE  /\ StoreSlot(id) \in CacheIndex
         /\ \A s \in CacheIndex : cache[s].id = id => s = StoreSlot(id)
<1>1. \A i : Holding(i) \subseteq Nat /\ Holding(i) \subseteq CacheIndex
  BY Sizes DEF Holding, CacheIndex
<1>2. id # NoId
  BY Sizes
<1>3. CASE Cached(id)
  <2>1. StoreSlot(id) \in Holding(id)
    BY <1>1, <1>3, MinOf DEF StoreSlot, Cached
  <2> QED
    BY <1>1, <1>2, <2>1 DEF Holding, CacheOK
<1>4. CASE ~Cached(id)
  <2>1. \A s \in CacheIndex : cache[s].id # id
    BY <1>4 DEF Cached, Holding
  <2>2. CASE Holding(NoId) # {}
    <3>1. StoreSlot(id) \in Holding(NoId)
      BY <1>1, <1>4, <2>2, MinOf DEF StoreSlot
    <3> QED
      BY <1>1, <2>1, <3>1
  <2>3. CASE Holding(NoId) = {}
    <3>1. StoreSlot(id) = replace % CacheSlots
      BY <1>4, <2>3 DEF StoreSlot
    <3>2. replace % CacheSlots \in CacheIndex
      <4>1. CacheSlots \in Nat \ {0} /\ replace \in 0 .. CacheSlots - 1
        BY Sizes DEF CacheOK, CacheIndex
      <4>2. replace % CacheSlots \in 0 .. CacheSlots - 1
        BY ONLY <4>1
      <4> QED
        BY <4>2 DEF CacheIndex
    <3> QED
      BY <2>1, <3>1, <3>2
  <2> QED
    BY <2>2, <2>3
<1> QED
  BY <1>3, <1>4

LEMMA Stored ==
  ASSUME CacheOK, link # "none", NEW r \in Entries, r.session = session,
         cache' = [cache EXCEPT ![StoreSlot(r.id)] = r],
         replace' = IF Cached(r.id) \/ Holding(NoId) # {} THEN replace
                    ELSE (replace + 1) % CacheSlots,
         UNCHANGED <<link, session>>
  PROVE  CacheOK'
<1>1. r.id \in Ids
  BY DEF Entries
<1>2. /\ StoreSlot(r.id) \in CacheIndex
      /\ \A s \in CacheIndex : cache[s].id = r.id => s = StoreSlot(r.id)
  BY <1>1, SlotOfStore
<1>3. replace' \in CacheIndex
  <2>1. CacheSlots \in Nat \ {0} /\ replace \in 0 .. CacheSlots - 1
    BY Sizes DEF CacheOK, CacheIndex
  <2>2. (replace + 1) % CacheSlots \in 0 .. CacheSlots - 1
    BY ONLY <2>1
  <2> QED
    BY <2>1, <2>2 DEF CacheIndex
<1>4. cache' \in [CacheIndex -> Entries \cup {Invalid}]
  BY <1>2 DEF CacheOK
<1>5. \A s \in CacheIndex : cache'[s] = IF s = StoreSlot(r.id) THEN r ELSE cache[s]
  BY <1>2 DEF CacheOK
<1> QED
  BY <1>2, <1>3, <1>4, <1>5 DEF CacheOK

-----------------------------------------------------------------------------
(* The order of the SETs                                                   *)

(* The SETs of the queue q, the pending one p and those in w on their way  *)
(* to the controller, by their numbers; the last one the host sent.        *)
InOrder(q, p, w, last) ==
    /\ p <= last
    /\ \A i \in 1 .. Len(q) : 0 < q[i].n /\ q[i].n <= last /\ p < q[i].n
    /\ \A i, j \in 1 .. Len(q) : i < j => q[i].n < q[j].n
    /\ \A i \in 1 .. Len(w) :
          /\ w[i].set.n <= last
          /\ p # 0 => w[i].set.n < p
          /\ \A j \in 1 .. Len(q) : w[i].set.n < q[j].n
    /\ \A i, j \in 1 .. Len(w) :
          i < j /\ w[i].set.n # 0 /\ w[j].set.n # 0 => w[i].set.n < w[j].set.n

LEMMA MessageNumbers ==
  /\ \A s \in SetReports : s.n \in Nat /\ s.n # 0
  /\ \A s \in SetReports \cup {NoSet} : s.n \in Nat
  /\ \A m \in Messages : m.set.n \in Nat
  /\ NoSet.n = 0
<1>1. \A s \in SetReports \cup {NoSet} : s.n \in Nat
  BY Sizes DEF SetReports, NoSet
<1>2. \A m \in Messages : m.set \in SetReports \cup {NoSet}
  BY DEF Messages
<1>3. \A m \in Messages : m.set.n \in Nat
  BY <1>1, <1>2
<1> QED
  BY <1>1, <1>3, Sizes DEF SetReports, NoSet

(* The host sends one more, which is queued or lost.                       *)
LEMMA OrderHost ==
  ASSUME NEW q \in Seq(SetReports), NEW p \in Nat, NEW w \in Seq(Messages), NEW last \in Nat,
         InOrder(q, p, w, last), NEW x \in SetReports, x.n = last + 1
  PROVE  InOrder(q, p, w, last + 1) /\ InOrder(Append(q, x), p, w, last + 1)
<1>1. /\ Len(q) \in Nat /\ \A i \in 1 .. Len(q) : q[i].n \in Nat
      /\ Len(w) \in Nat /\ \A i \in 1 .. Len(w) : w[i].set.n \in Nat
  BY LenProperties, ElementOfSeq, MessageNumbers
<1>2. InOrder(q, p, w, last + 1)
  BY <1>1 DEF InOrder
<1> DEFINE r == Append(q, x)
<1>3. /\ Len(r) = Len(q) + 1 /\ \A i \in 1 .. Len(q) : r[i] = q[i]
      /\ r[Len(q) + 1] = x
  BY AppendProperties
<1> HIDE DEF r
<1>4. \A i \in 1 .. Len(r) : i \in 1 .. Len(q) \/ i = Len(q) + 1
  BY <1>1, <1>3
<1>5. \A i \in 1 .. Len(r) : 0 < r[i].n /\ r[i].n <= last + 1 /\ p < r[i].n
  BY SMTT(30), <1>1, <1>3, <1>4 DEF InOrder
<1>6. \A i, j \in 1 .. Len(r) : i < j => r[i].n < r[j].n
  <2> TAKE i, j \in 1 .. Len(r)
  <2> HAVE i < j
  <2>1. i \in 1 .. Len(q)
    BY <1>1, <1>3, <1>4
  <2>2. CASE j \in 1 .. Len(q)
    BY <1>3, <2>1, <2>2 DEF InOrder
  <2>3. CASE j = Len(q) + 1
    BY <1>1, <1>3, <2>1, <2>3 DEF InOrder
  <2> QED
    BY <1>4, <2>2, <2>3
<1>7. \A i \in 1 .. Len(w) :
          /\ w[i].set.n <= last + 1
          /\ p # 0 => w[i].set.n < p
          /\ \A j \in 1 .. Len(r) : w[i].set.n < r[j].n
  <2> TAKE i \in 1 .. Len(w)
  <2>1. w[i].set.n <= last /\ w[i].set.n \in Nat /\ last + 1 \in Nat
    BY <1>1 DEF InOrder
  <2>2. p # 0 => w[i].set.n < p
    BY DEF InOrder
  <2>3. w[i].set.n < last + 1
    BY <2>1
  <2>4. \A j \in 1 .. Len(r) : w[i].set.n < r[j].n
    <3> TAKE j \in 1 .. Len(r)
    <3>1. CASE j \in 1 .. Len(q)
      BY <1>3, <3>1 DEF InOrder
    <3>2. CASE j = Len(q) + 1
      BY <1>3, <2>3, <3>2
    <3> QED
      BY <1>4, <3>1, <3>2
  <2> QED
    BY <2>1, <2>2, <2>3, <2>4
<1>8. p <= last + 1
  BY DEF InOrder
<1>9. InOrder(r, p, w, last + 1)
  BY <1>5, <1>6, <1>7, <1>8 DEF InOrder
<1> QED
  BY <1>2, <1>9 DEF r

(* The queue is emptied, or the channel closes.                            *)
LEMMA OrderEmptied ==
  ASSUME NEW q, NEW p, NEW w, NEW last, InOrder(q, p, w, last)
  PROVE  InOrder(<<>>, p, w, last) /\ InOrder(q, p, <<>>, last)
BY DEF InOrder

(* The controller serves the first message.                                *)
LEMMA OrderServed ==
  ASSUME NEW q \in Seq(SetReports), NEW p \in Nat, NEW w \in Seq(Messages), NEW last \in Nat,
         InOrder(q, p, w, last), w # <<>>
  PROVE  InOrder(q, p, Tail(w), last)
<1> DEFINE v == Tail(w)
<1>1. Len(v) = Len(w) - 1 /\ \A i \in 1 .. Len(v) : v[i] = w[i + 1]
  BY HeadTailProperties
<1>2. Len(w) \in Nat
  BY LenProperties
<1> HIDE DEF v
<1>3. /\ \A i \in 1 .. Len(v) : i + 1 \in 1 .. Len(w)
      /\ \A i, j \in 1 .. Len(v) : i < j => i + 1 < j + 1
  BY <1>1, <1>2
<1>4. InOrder(q, p, v, last)
  BY <1>1, <1>3 DEF InOrder
<1> QED
  BY <1>4 DEF v

(* The bridge takes the oldest SET of the queue.                           *)
LEMMA OrderTaken ==
  ASSUME NEW q \in Seq(SetReports), NEW w \in Seq(Messages), NEW last \in Nat,
         InOrder(q, 0, w, last), q # <<>>
  PROVE  InOrder(Tail(q), Head(q).n, w, last)
<1> DEFINE r == Tail(q)
           h == Head(q).n
<1>1. /\ Len(r) = Len(q) - 1 /\ \A i \in 1 .. Len(r) : r[i] = q[i + 1]
      /\ Len(q) \in Nat /\ 1 \in 1 .. Len(q) /\ h = q[1].n
  BY HeadTailProperties, LenProperties, EmptySeq
<1> HIDE DEF r, h
<1>2. /\ \A i \in 1 .. Len(r) : i + 1 \in 1 .. Len(q) /\ 1 < i + 1
      /\ \A i, j \in 1 .. Len(r) : i < j => i + 1 < j + 1
  BY <1>1
<1>3. InOrder(r, h, w, last)
  BY <1>1, <1>2 DEF InOrder
<1> QED
  BY <1>3 DEF r, h

(* The pending SET is lost, or is the last on its way, or a message that   *)
(* is no SET is.                                                           *)
LEMMA OrderSent ==
  ASSUME NEW q \in Seq(SetReports), NEW p \in Nat, NEW w \in Seq(Messages), NEW last \in Nat,
         InOrder(q, p, w, last), NEW m \in Messages
  PROVE  /\ InOrder(q, 0, w, last)
         /\ m.set.n = p => InOrder(q, 0, Append(w, m), last)
         /\ m.set.n = 0 => InOrder(q, p, Append(w, m), last)
<1>1. /\ Len(q) \in Nat /\ \A i \in 1 .. Len(q) : q[i].n \in Nat
      /\ Len(w) \in Nat /\ \A i \in 1 .. Len(w) : w[i].set.n \in Nat
  BY LenProperties, ElementOfSeq, MessageNumbers
<1>2. InOrder(q, 0, w, last)
  BY <1>1 DEF InOrder
<1> DEFINE v == Append(w, m)
           n == m.set.n
<1>3. /\ Len(v) = Len(w) + 1 /\ \A i \in 1 .. Len(w) : v[i] = w[i]
      /\ v[Len(w) + 1] = m
  BY AppendProperties
<1> HIDE DEF v
<1>4. \A i \in 1 .. Len(v) : i \in 1 .. Len(w) \/ i = Len(w) + 1
  BY <1>1, <1>3
<1>5. ASSUME n = p \/ n = 0
      PROVE  \A i, j \in 1 .. Len(v) :
                i < j /\ v[i].set.n # 0 /\ v[j].set.n # 0 => v[i].set.n < v[j].set.n
  <2> TAKE i, j \in 1 .. Len(v)
  <2> HAVE i < j /\ v[i].set.n # 0 /\ v[j].set.n # 0
  <2>1. i \in 1 .. Len(w)
    BY <1>1, <1>3, <1>4
  <2>2. CASE j \in 1 .. Len(w)
    BY <1>3, <2>1, <2>2 DEF InOrder
  <2>3. CASE j = Len(w) + 1
    BY <1>3, <1>5, <2>1, <2>3 DEF InOrder
  <2> QED
    BY <1>4, <2>2, <2>3
<1>6. ASSUME n = p PROVE InOrder(q, 0, v, last)
  <2>1. \A i \in 1 .. Len(v) :
          /\ v[i].set.n <= last
          /\ \A j \in 1 .. Len(q) : v[i].set.n < q[j].n
    BY <1>3, <1>4, <1>6 DEF InOrder
  <2> QED
    BY <1>2, <1>5, <1>6, <2>1 DEF InOrder
<1>7. ASSUME n = 0 PROVE InOrder(q, p, v, last)
  <2>1. \A i \in 1 .. Len(v) :
          /\ v[i].set.n <= last
          /\ p # 0 => v[i].set.n < p
          /\ \A j \in 1 .. Len(q) : v[i].set.n < q[j].n
    BY <1>1, <1>3, <1>4, <1>7 DEF InOrder
  <2> QED
    BY <1>5, <1>7, <2>1 DEF InOrder
<1> QED
  BY <1>2, <1>6, <1>7 DEF v

SetOK ==
    /\ setQueue \in Seq(SetReports) /\ Len(setQueue) <= SetDepth
    /\ setPending \in SetReports \cup {NoSet}
    /\ lastSet \in 0 .. MaxSets /\ toPad \in Seq(Messages)
    /\ InOrder(setQueue, setPending.n, toPad, lastSet)

LEMMA OrderShown == SetOK => SetsInOrder
<1> SUFFICES ASSUME SetOK PROVE SetsInOrder
  OBVIOUS
<1> DEFINE A == [i \in 1 .. Len(toPad) |-> toPad[i].set.n]
           B == [i \in 1 .. Len(setQueue) |-> setQueue[i].n]
           p == setPending.n
           N == Len(toPad)
           Q == Len(setQueue)
<1>1. /\ N \in Nat /\ \A i \in 1 .. N : toPad[i].set.n \in Nat
      /\ Q \in Nat /\ \A i \in 1 .. Q : setQueue[i].n \in Nat /\ setQueue[i].n # 0
      /\ p \in Nat
  BY LenProperties, ElementOfSeq, MessageNumbers DEF SetOK
<1>2. A \in Seq(Nat) /\ Len(A) = N /\ B \in Seq(Nat) /\ Len(B) = Q
  <2>1. A \in [1 .. N -> Nat] /\ B \in [1 .. Q -> Nat]
    BY <1>1
  <2> HIDE DEF A, B
  <2> QED
    BY <1>1, <2>1, SeqOf
<1>3. /\ \A i \in 1 .. N : A[i] = toPad[i].set.n
      /\ \A i \in 1 .. Q : B[i] = setQueue[i].n
  OBVIOUS
<1>4. SetNumbers = (A \o <<p>>) \o B
  BY DEF SetNumbers
<1> HIDE DEF A, B, p, N, Q
<1>5. <<p>> \in Seq(Nat) /\ Len(<<p>>) = 1 /\ <<p>>[1] = p
  BY <1>1
<1> DEFINE C == A \o <<p>>
<1>6. C \in Seq(Nat) /\ Len(C) = N + 1 /\ (\A i \in 1 .. N : C[i] = A[i]) /\ C[N + 1] = p
  <2>1. C \in Seq(Nat) /\ Len(C) = N + 1
        /\ \A i \in 1 .. N + 1 : C[i] = IF i <= N THEN A[i] ELSE <<p>>[i - N]
    BY <1>2, <1>5, ConcatProperties
  <2>2. N + 1 \in 1 .. N + 1 /\ ~(N + 1 <= N) /\ (N + 1) - N = 1
        /\ \A i \in 1 .. N : i <= N /\ i \in 1 .. N + 1
    BY <1>1
  <2> QED
    BY <1>5, <2>1, <2>2
<1> HIDE DEF C
<1> DEFINE D == C \o B
<1>7. /\ Len(D) = N + 1 + Q
      /\ \A i \in 1 .. N + 1 + Q : D[i] = IF i <= N + 1 THEN C[i] ELSE B[i - (N + 1)]
  <2>1. /\ Len(D) = Len(C) + Len(B)
        /\ \A i \in 1 .. Len(C) + Len(B) : D[i] = IF i <= Len(C) THEN C[i] ELSE B[i - Len(C)]
    BY <1>2, <1>6, ConcatProperties
  <2>2. Len(C) = N + 1 /\ Len(B) = Q
    BY <1>2, <1>6
  <2> HIDE DEF D
  <2> QED
    BY <2>1, <2>2
<1> HIDE DEF D
<1>8. \A i \in 1 .. N + 1 + Q :
        \/ i \in 1 .. N /\ D[i] = toPad[i].set.n
        \/ i = N + 1 /\ D[i] = p
        \/ i \in N + 2 .. N + 1 + Q /\ i - (N + 1) \in 1 .. Q /\ D[i] = setQueue[i - (N + 1)].n
  <2> TAKE i \in 1 .. N + 1 + Q
  <2>1. CASE i \in 1 .. N
    <3>1. i <= N + 1
      BY <1>1, <2>1
    <3> QED
      BY <1>3, <1>6, <1>7, <2>1, <3>1
  <2>2. CASE i = N + 1
    <3>1. i <= N + 1
      BY <1>1, <2>2
    <3> QED
      BY <1>6, <1>7, <2>2, <3>1
  <2>3. CASE i \in N + 2 .. N + 1 + Q
    <3>1. ~(i <= N + 1) /\ i - (N + 1) \in 1 .. Q
      BY <1>1, <2>3
    <3> QED
      BY <1>3, <1>7, <2>3, <3>1
  <2> QED
    BY <1>1, <2>1, <2>2, <2>3
<1>9. \A i, j \in 1 .. N + 1 + Q : i < j /\ D[i] # 0 /\ D[j] # 0 => D[i] < D[j]
  <2> TAKE i, j \in 1 .. N + 1 + Q
  <2> HAVE i < j /\ D[i] # 0 /\ D[j] # 0
  <2>0. InOrder(setQueue, p, toPad, lastSet)
    BY DEF SetOK, p
  <2>1. CASE i \in 1 .. N /\ D[i] = toPad[i].set.n
    BY <1>8, <2>0, <2>1 DEF InOrder, N, Q
  <2>2. CASE i = N + 1 /\ D[i] = p
    <3>1. j - (N + 1) \in 1 .. Q /\ D[j] = setQueue[j - (N + 1)].n
      BY <1>1, <1>8, <2>2
    <3> QED
      BY <2>0, <2>2, <3>1 DEF InOrder, Q
  <2>3. CASE i \in N + 2 .. N + 1 + Q /\ i - (N + 1) \in 1 .. Q /\ D[i] = setQueue[i - (N + 1)].n
    <3>1. j - (N + 1) \in 1 .. Q /\ D[j] = setQueue[j - (N + 1)].n /\ i - (N + 1) < j - (N + 1)
      BY <1>1, <1>8, <2>3
    <3> QED
      BY <2>0, <2>3, <3>1 DEF InOrder, Q
  <2> QED
    BY <1>8, <2>1, <2>2, <2>3
<1> QED
  BY <1>4, <1>7, <1>9 DEF SetsInOrder, C, D

-----------------------------------------------------------------------------
(* The steps                                                               *)

Requests == {m \in Messages : m.set = NoSet => m.id # NoId}
Answers == {e \in Entries : e.session = session}

WireOK ==
    /\ link \in {"none", "acl", "open"} /\ session \in 0 .. MaxSessions
    /\ toPad \in Seq(Requests) /\ fromPad \in Seq(Answers)
    /\ link # "open" => toPad = <<>> /\ fromPad = <<>>
    /\ link # "none" => session # 0

LocalsOK ==
    /\ pc \in {"host", "set", "refresh", "get", "send"}
    /\ getPending \in Ids \cup {NoId} /\ (pc = "send" => getPending # NoId)
    /\ sentNow \in 0 .. PerTick /\ (pc = "send" => sentNow < PerTick)
    /\ page \in 0 .. MaxSets /\ usbResets \in 0 .. MaxUsbResets

IInv == CacheOK /\ RingOK /\ WireOK /\ SetOK /\ LocalsOK

LEMMA IInvSound == IInv => CacheSound
<1> SUFFICES ASSUME IInv PROVE CacheSound
  OBVIOUS
<1>1. Requests \subseteq Messages /\ Answers \subseteq Entries
  BY DEF Requests, Answers
<1>2. toPad \in Seq(Messages) /\ fromPad \in Seq(Entries)
  BY <1>1, SeqMonotonic DEF IInv, WireOK
<1>3. TypeOK
  BY <1>2 DEF IInv, TypeOK, CacheOK, RingOK, WireOK, SetOK, LocalsOK
<1>4. /\ \A i \in 1 .. Len(fromPad) : fromPad[i] \in Answers
      /\ \A i \in 1 .. Len(toPad) : toPad[i] \in Requests
  BY ElementOfSeq DEF IInv, WireOK
<1>5. OnTheWay
  BY <1>4 DEF IInv, OnTheWay, WireOK, LocalsOK, Requests, Answers
<1> QED
  BY <1>3, <1>5, CacheUnique DEF IInv, CacheSound, RingOK

LEMMA InitIInv == Init => IInv
<1> SUFFICES ASSUME Init PROVE IInv
  OBVIOUS
<1> USE Sizes DEF Init
<1>1. 0 \in CacheIndex /\ 0 \in Places
  BY DEF CacheIndex, Places
<1>2. CacheOK
  BY <1>1 DEF CacheOK, Invalid
<1>3. RingOK
  <2>1. Place(0) = 0
    BY <1>1, PlaceIs DEF Places
  <2> QED
    BY <1>1, <2>1 DEF RingOK, RingOfRequests
<1>4. WireOK
  BY EmptySeq DEF WireOK
<1>5. SetOK
  BY EmptySeq, MessageNumbers DEF SetOK, InOrder
<1>6. LocalsOK
  BY DEF LocalsOK
<1> QED
  BY <1>2, <1>3, <1>4, <1>5, <1>6 DEF IInv

(* The parts a step leaves alone.                                          *)
LEMMA CacheKept ==
  ASSUME CacheOK, UNCHANGED <<cacheVars, session>>, link # "none" => link' # "none"
  PROVE  CacheOK'
BY DEF CacheOK, cacheVars

LEMMA WireKept ==
  ASSUME WireOK, UNCHANGED <<link, session, toPad, fromPad>>
  PROVE  WireOK'
BY DEF WireOK, Answers

LEMMA SetKept ==
  ASSUME SetOK, UNCHANGED <<setQueue, setPending, lastSet, toPad>>
  PROVE  SetOK'
BY DEF SetOK

LEMMA LocalsKept ==
  ASSUME LocalsOK, UNCHANGED <<pc, getPending, sentNow, page, usbResets>>
  PROVE  LocalsOK'
BY DEF LocalsOK

LEMMA HostStep ==
  ASSUME IInv, Host
  PROVE  IInv' /\ RingChange
<1> USE DEF IInv
<1>1. ASSUME NEW id \in Ids, HostGets(id) PROVE IInv' /\ RingChange
  BY <1>1, RequestRing, CacheKept, WireKept, SetKept, LocalsKept
  DEF HostGets, bridgeVars, padVars
<1>2. ASSUME NEW kind \in {"SELECT", "OTHER"}, HostSets(kind) PROVE IInv' /\ RingChange
  <2>1. CacheOK'
    BY <1>2, CacheKept, Invalidated DEF HostSets, padVars, cacheVars
  <2>2. RingOK' /\ RingChange
    BY <1>2, SameRing DEF HostSets
  <2>3. WireOK' /\ LocalsOK'
    BY <1>2, WireKept, LocalsKept DEF HostSets, bridgeVars, padVars
  <2>4. SetOK'
    <3> DEFINE x == [n |-> lastSet + 1, kind |-> kind]
    <3>1. /\ lastSet \in Nat /\ lastSet + 1 \in 1 .. MaxSets /\ lastSet' = lastSet + 1
          /\ setPending.n \in Nat
      BY <1>2, Sizes, MessageNumbers DEF HostSets, SetOK
    <3>2. x \in SetReports /\ x.n = lastSet + 1
      BY <3>1 DEF SetReports
    <3>3. /\ setQueue' = IF Len(setQueue) < SetDepth THEN Append(setQueue, x) ELSE setQueue
          /\ UNCHANGED <<setPending, toPad>>
      BY <1>2 DEF HostSets, bridgeVars, padVars
    <3> HIDE DEF x
    <3>4. /\ InOrder(setQueue, setPending.n, toPad, lastSet + 1)
          /\ InOrder(Append(setQueue, x), setPending.n, toPad, lastSet + 1)
      BY <3>1, <3>2, OrderHost DEF SetOK
    <3>5. setQueue' \in Seq(SetReports) /\ Len(setQueue') <= SetDepth
      <4>1. Append(setQueue, x) \in Seq(SetReports) /\ Len(Append(setQueue, x)) = Len(setQueue) + 1
              /\ Len(setQueue) \in Nat /\ SetDepth \in Nat
        BY <3>2, AppendProperties, LenProperties, Sizes DEF SetOK
      <4> QED
        BY <3>3, <4>1 DEF SetOK
    <3> QED
      BY <3>1, <3>3, <3>4, <3>5, Sizes DEF SetOK
  <2> QED
    BY <2>1, <2>2, <2>3, <2>4
<1>3. CASE UsbReset
  <2>1. CacheOK'
    BY <1>3, Invalidated DEF UsbReset, padVars
  <2>2. RingOK' /\ RingChange
    BY <1>3, ClearRing DEF UsbReset
  <2>3. WireOK'
    BY <1>3, WireKept DEF UsbReset, padVars
  <2>4. SetOK'
    BY <1>3, OrderEmptied, EmptySeq, Sizes DEF UsbReset, SetOK, bridgeVars, padVars
  <2>5. LocalsOK'
    BY <1>3, Sizes DEF UsbReset, LocalsOK, bridgeVars, padVars
  <2> QED
    BY <2>1, <2>2, <2>3, <2>4, <2>5
<1> QED
  BY <1>1, <1>2, <1>3 DEF Host

LEMMA BluetoothStep ==
  ASSUME IInv, Bluetooth
  PROVE  IInv' /\ RingChange
<1> USE DEF IInv
<1>1. CASE Connected
  <2>1. CacheOK' /\ RingOK' /\ RingChange
    BY <1>1, Emptied, ClearRing DEF Connected, ClearReports
  <2>2. WireOK'
    <3>1. toPad = <<>> /\ fromPad = <<>> /\ UNCHANGED <<toPad, fromPad>>
      BY <1>1 DEF Connected, WireOK
    <3>2. session' \in 0 .. MaxSessions /\ session' # 0 /\ link' = "acl"
      BY <1>1, Sizes DEF Connected, WireOK
    <3> QED
      BY <3>1, <3>2, EmptySeq DEF WireOK
  <2>3. SetOK'
    BY <1>1, SetKept DEF Connected, bridgeVars, history
  <2>4. LocalsOK'
    BY <1>1, Sizes DEF Connected, LocalsOK, bridgeVars, history
  <2> QED
    BY <2>1, <2>2, <2>3, <2>4
<1>2. CASE ChannelOpens
  <2>1. CacheOK' /\ RingOK' /\ RingChange
    BY <1>2, CacheKept, SameRing DEF ChannelOpens
  <2>2. WireOK' /\ SetOK' /\ LocalsOK'
    BY <1>2, SetKept, LocalsKept DEF ChannelOpens, WireOK, Answers, bridgeVars, history
  <2> QED
    BY <2>1, <2>2
<1>3. CASE ChannelCloses
  <2>1. CacheOK' /\ RingOK' /\ RingChange
    BY <1>3, CacheKept, SameRing DEF ChannelCloses
  <2>2. WireOK'
    BY <1>3, EmptySeq DEF ChannelCloses, WireOK
  <2>3. SetOK' /\ LocalsOK'
    BY <1>3, OrderEmptied, LocalsKept, EmptySeq DEF ChannelCloses, SetOK, bridgeVars, history
  <2> QED
    BY <2>1, <2>2, <2>3
<1>4. CASE Disconnected
  <2>1. CacheOK' /\ RingOK' /\ RingChange
    BY <1>4, Emptied, ClearRing DEF Disconnected, ClearReports
  <2>2. WireOK'
    BY <1>4, EmptySeq DEF Disconnected, WireOK
  <2>3. SetOK' /\ LocalsOK'
    BY <1>4, OrderEmptied, LocalsKept, EmptySeq DEF Disconnected, SetOK, bridgeVars, history
  <2> QED
    BY <2>1, <2>2, <2>3
<1>5. CASE Store
  <2> DEFINE r == Head(fromPad)
  <2>1. r \in Answers /\ Tail(fromPad) \in Seq(Answers)
    BY <1>5, HeadTailProperties DEF Store, WireOK
  <2>2. link = "open"
    BY <1>5 DEF Store, WireOK
  <2>3. r \in Entries /\ r.session = session /\ r.id \in Ids
    BY <2>1 DEF Answers, Entries
  <2>4. CacheOK'
    <3>1. /\ cache' = [cache EXCEPT ![StoreSlot(r.id)] = r]
          /\ replace' = (IF Cached(r.id) \/ Holding(NoId) # {} THEN replace
                         ELSE (replace + 1) % CacheSlots)
          /\ UNCHANGED <<link, session>>
      BY <1>5 DEF Store
    <3> HIDE DEF r
    <3> QED
      BY <2>2, <2>3, <3>1, Stored
  <2>5. RingOK' /\ RingChange
    BY <1>5, <2>3, RemoveRing DEF Store
  <2>6. WireOK'
    BY <1>5, <2>1, <2>2 DEF Store, WireOK, Answers
  <2>7. SetOK' /\ LocalsOK'
    BY <1>5, SetKept, LocalsKept DEF Store, bridgeVars, history
  <2> QED
    BY <2>4, <2>5, <2>6, <2>7
<1>6. CASE Serve
  <2> DEFINE m == Head(toPad)
  <2>1. m \in Requests /\ Tail(toPad) \in Seq(Requests) /\ toPad # <<>>
    BY <1>6, HeadTailProperties DEF Serve, WireOK
  <2>2. link = "open"
    BY <1>6 DEF Serve, WireOK
  <2>3. CacheOK' /\ RingOK' /\ RingChange
    BY <1>6, CacheKept, SameRing DEF Serve
  <2>4. SetOK'
    <3>1. setPending.n \in Nat /\ lastSet \in Nat
      BY MessageNumbers, Sizes DEF SetOK
    <3>2. InOrder(setQueue, setPending.n, Tail(toPad), lastSet) /\ Tail(toPad) \in Seq(Messages)
      BY <2>1, <3>1, OrderServed, HeadTailProperties DEF SetOK
    <3> QED
      BY <1>6, <3>2 DEF Serve, SetOK, bridgeVars, history
  <2>5. page' \in 0 .. MaxSets /\ fromPad' \in Seq(Answers)
    <3>1. CASE m.set # NoSet
      <4>1. m.set \in SetReports
        BY <2>1, <3>1 DEF Requests, Messages
      <4>2. m.set.n \in 0 .. MaxSets
        BY <4>1, Sizes DEF SetReports
      <4> QED
        BY <1>6, <3>1, <4>2 DEF Serve, LocalsOK, WireOK
    <3>2. CASE m.set = NoSet
      <4> DEFINE e == [id |-> m.id, session |-> session, page |-> IF m.id = "PAGE" THEN page ELSE 0]
      <4>1. m.id \in Ids
        BY <2>1, <3>2 DEF Requests, Messages
      <4>2. session \in 1 .. MaxSessions /\ page \in 0 .. MaxSets /\ 0 \in 0 .. MaxSets
        BY <2>2, Sizes DEF WireOK, LocalsOK
      <4>3. e \in Answers
        BY <4>1, <4>2 DEF Answers, Entries
      <4>4. fromPad' = Append(fromPad, e) /\ page' = page
        BY <1>6, <3>2 DEF Serve
      <4> HIDE DEF e
      <4> QED
        BY <4>3, <4>4, AppendProperties DEF WireOK, LocalsOK
    <3> QED
      BY <3>1, <3>2
  <2>6. WireOK'
    BY <1>6, <2>1, <2>2, <2>5 DEF Serve, WireOK, Answers
  <2>7. LocalsOK'
    BY <1>6, <2>5 DEF Serve, LocalsOK, bridgeVars, history
  <2> QED
    BY <2>3, <2>4, <2>6, <2>7
<1> QED
  BY <1>1, <1>2, <1>3, <1>4, <1>5, <1>6 DEF Bluetooth

(* A message the bridge sends.                                             *)
LEMMA MessageSent ==
  ASSUME WireOK, NEW r \in SendResults, NEW m \in Requests, SendMessage(r, m),
         UNCHANGED <<link, session, fromPad>>
  PROVE  WireOK'
<1>1. CASE r = "SUCCESS"
  <2>1. link = "open"
    BY <1>1 DEF SendResults
  <2>2. toPad' \in Seq(Requests)
    BY <1>1, AppendProperties DEF SendMessage, WireOK
  <2> QED
    BY <2>1, <2>2 DEF WireOK, Answers
<1>2. CASE r # "SUCCESS"
  BY <1>2, WireKept DEF SendMessage
<1> QED
  BY <1>1, <1>2

LEMMA SetStep ==
  ASSUME IInv, TakeSet \/ NoSetPending \/ \E r \in Results : ForwardSet(r)
  PROVE  IInv' /\ RingChange
<1> USE DEF IInv
<1>1. CacheOK' /\ RingOK' /\ RingChange
  BY CacheKept, SameRing DEF TakeSet, NoSetPending, ForwardSet, padVars
<1>2. CASE TakeSet
  <2>1. WireOK'
    BY <1>2, WireKept DEF TakeSet, padVars
  <2>2. LocalsOK'
    BY <1>2, Sizes DEF TakeSet, LocalsOK, padVars, history
  <2>3. CASE setPending = NoSet /\ setQueue # <<>>
    <3>1. setPending' = Head(setQueue) /\ setQueue' = Tail(setQueue) /\ UNCHANGED <<toPad, lastSet>>
      BY <1>2, <2>3 DEF TakeSet, padVars, history
    <3>2. /\ Head(setQueue) \in SetReports /\ Tail(setQueue) \in Seq(SetReports)
          /\ Len(Tail(setQueue)) = Len(setQueue) - 1 /\ Len(setQueue) \in Nat
      BY <2>3, HeadTailProperties, LenProperties DEF SetOK
    <3>3. InOrder(setQueue, 0, toPad, lastSet) /\ lastSet \in Nat
      BY <2>3, MessageNumbers, Sizes DEF SetOK
    <3>4. InOrder(Tail(setQueue), Head(setQueue).n, toPad, lastSet)
      BY <2>3, <3>3, OrderTaken DEF SetOK
    <3>5. Len(Tail(setQueue)) <= SetDepth
      BY <3>2, Sizes DEF SetOK
    <3>6. SetOK'
      BY <3>1, <3>2, <3>4, <3>5 DEF SetOK
    <3> QED
      BY <1>1, <2>1, <2>2, <3>6
  <2>4. CASE ~(setPending = NoSet /\ setQueue # <<>>)
    <3>1. SetOK'
      BY <1>2, <2>4, SetKept DEF TakeSet, padVars, history
    <3> QED
      BY <1>1, <2>1, <2>2, <3>1
  <2> QED
    BY <2>3, <2>4
<1>3. CASE NoSetPending
  BY <1>1, <1>3, WireKept, SetKept DEF NoSetPending, LocalsOK, padVars, history
<1>4. ASSUME NEW r \in Results, ForwardSet(r) PROVE IInv' /\ RingChange
  <2> DEFINE m == [set |-> setPending, id |-> NoId]
  <2>1. m \in Requests /\ m \in Messages /\ m.set = setPending /\ setPending # NoSet
    BY <1>4 DEF ForwardSet, SetOK, Requests, Messages
  <2>2. r \in SendResults /\ SendMessage(r, m) /\ UNCHANGED <<link, session, fromPad>>
    BY <1>4 DEF ForwardSet
  <2> HIDE DEF m
  <2>3. WireOK'
    BY <2>1, <2>2, MessageSent
  <2>4. LocalsOK'
    BY <1>4 DEF ForwardSet, LocalsOK, history
  <2>5. SetOK'
    <3>1. setPending.n \in Nat /\ lastSet \in Nat /\ NoSet.n = 0
      BY MessageNumbers, Sizes DEF SetOK
    <3>2. /\ InOrder(setQueue, 0, toPad, lastSet)
          /\ InOrder(setQueue, 0, Append(toPad, m), lastSet)
      BY <2>1, <3>1, OrderSent DEF SetOK
    <3>3. Append(toPad, m) \in Seq(Messages)
      BY <2>1, AppendProperties DEF SetOK
    <3>4. CASE r = "SUCCESS"
      BY <1>4, <2>2, <3>1, <3>2, <3>3, <3>4 DEF ForwardSet, SetStays, SendMessage, SetOK, history
    <3>5. CASE r = "NOMEM"
      BY <1>4, <2>2, <3>5 DEF ForwardSet, SetStays, SendMessage, SetOK, history
    <3>6. CASE r # "SUCCESS" /\ r # "NOMEM"
      BY <1>4, <2>2, <3>1, <3>2, <3>6 DEF ForwardSet, SetStays, SendMessage, SetOK, history
    <3> QED
      BY <3>4, <3>5, <3>6
  <2> QED
    BY <1>1, <2>3, <2>4, <2>5
<1> QED
  BY <1>2, <1>3, <1>4

LEMMA GetStep ==
  ASSUME IInv, Refresh \/ TakeGet \/ TurnEnds \/ \E r \in Results : SendGet(r)
  PROVE  IInv' /\ RingChange
<1> USE DEF IInv
<1>1. CASE Refresh
  <2>1. RingOK' /\ RingChange
    BY <1>1, RequestRing, Sizes DEF Refresh
  <2> QED
    BY <1>1, <2>1, CacheKept, WireKept, SetKept DEF Refresh, LocalsOK, padVars, history
<1>2. CASE TakeGet
  <2>1. CacheOK' /\ WireOK' /\ SetOK'
    BY <1>2, CacheKept, WireKept, SetKept DEF TakeGet, padVars, history
  <2>2. CASE getPending # NoId
    <3>1. RingOK' /\ RingChange
      BY <1>2, <2>2, SameRing DEF TakeGet
    <3> QED
      BY <1>2, <2>1, <2>2, <3>1 DEF TakeGet, LocalsOK, padVars, history
  <2>3. CASE getPending = NoId
    <3>1. RingOK' /\ RingChange /\ NextRequest \in Ids
      BY <1>2, <2>3, PopRing DEF TakeGet
    <3>2. getPending' \in Ids /\ getPending' # NoId /\ pc' = "send"
      BY <1>2, <2>3, <3>1, Sizes DEF TakeGet
    <3>3. LocalsOK'
      BY <1>2, <3>2 DEF TakeGet, LocalsOK, padVars, history
    <3> QED
      BY <2>1, <3>1, <3>3
  <2> QED
    BY <2>2, <2>3
<1>3. CASE TurnEnds
  BY <1>3, SameRing, CacheKept, WireKept, SetKept DEF TurnEnds, LocalsOK, padVars, history
<1>4. ASSUME NEW r \in Results, SendGet(r) PROVE IInv' /\ RingChange
  <2> DEFINE m == [set |-> NoSet, id |-> getPending]
  <2>1. m \in Requests /\ m \in Messages /\ m.set.n = 0
    BY <1>4, MessageNumbers DEF SendGet, LocalsOK, Requests, Messages
  <2>2. r \in SendResults /\ SendMessage(r, m) /\ UNCHANGED <<link, session, fromPad>>
    BY <1>4 DEF SendGet
  <2> HIDE DEF m
  <2>3. WireOK'
    BY <2>1, <2>2, MessageSent
  <2>4. CacheOK' /\ RingOK' /\ RingChange
    BY <1>4, CacheKept, SameRing DEF SendGet
  <2>5. LocalsOK'
    <3>1. CASE r = "SUCCESS"
      <4>1. sentNow' \in 0 .. PerTick
        BY <1>4, <3>1, Sizes DEF SendGet, LocalsOK
      <4> QED
        BY <1>4, <3>1, <4>1 DEF SendGet, LocalsOK, history
    <3>2. CASE r # "SUCCESS"
      BY <1>4, <3>2 DEF SendGet, LocalsOK, history
    <3> QED
      BY <3>1, <3>2
  <2>6. SetOK'
    <3>1. setPending.n \in Nat /\ lastSet \in Nat
      BY MessageNumbers, Sizes DEF SetOK
    <3>2. InOrder(setQueue, setPending.n, Append(toPad, m), lastSet)
      BY <2>1, <3>1, OrderSent DEF SetOK
    <3>3. Append(toPad, m) \in Seq(Messages)
      BY <2>1, AppendProperties DEF SetOK
    <3> QED
      BY <1>4, <2>2, <3>2, <3>3 DEF SendGet, SendMessage, SetOK, history
  <2> QED
    BY <2>3, <2>4, <2>5, <2>6
<1> QED
  BY <1>1, <1>2, <1>3, <1>4

LEMMA NextIInv ==
  ASSUME IInv, [Next]_vars
  PROVE  IInv' /\ RingChange
<1>1. CASE Next
  BY <1>1, HostStep, BluetoothStep, SetStep, GetStep DEF Next, Step
<1>2. CASE UNCHANGED vars
  BY <1>2, SameRing, CacheKept, WireKept, SetKept, LocalsKept
  DEF IInv, vars, bridgeVars, padVars, history
<1> QED
  BY <1>1, <1>2

-----------------------------------------------------------------------------
(* The theorems                                                            *)

(* The cache holds a report at most once and only of the controller that   *)
(* is connected; the ring and the queues stay in their bounds              *)
(* (m61_usb_gamepad.c:2592).                                               *)
THEOREM FeatureCacheSound == Spec => []CacheSound
<1>1. IInv /\ [Next]_vars => IInv'
  BY NextIInv
<1> QED
  BY InitIInv, <1>1, IInvSound, PTL DEF Spec

(* SETs reach the controller in the order in which the host sent them,     *)
(* none of them twice (main.c:2686-2725).                                  *)
THEOREM FeatureSetsInOrder == Spec => []SetsInOrder
<1>1. IInv /\ [Next]_vars => IInv'
  BY NextIInv
<1>2. IInv => SetsInOrder
  BY OrderShown DEF IInv
<1> QED
  BY InitIInv, <1>1, <1>2, PTL DEF Spec

(* The ring of requests changes like a sequence without duplicates,        *)
(* whatever is removed in place while it wraps (m61_usb_gamepad.c:1838).   *)
THEOREM FeatureRequestsKept == Spec => RequestsKept
<1>1. IInv /\ [Next]_vars => IInv'
  BY NextIInv
<1>2. IInv /\ [Next]_vars =>
        [\/ Waiting' \in {Waiting, <<>>}
         \/ \E id \in Ids : Without(id, Waiting, Waiting')
         \/ \E id \in Ids : ~Queued(id) /\ Waiting' = Append(Waiting, id)]_vars
  BY NextIInv DEF RingChange
<1> QED
  BY InitIInv, <1>1, <1>2, PTL DEF Spec, RequestsKept
=============================================================================
