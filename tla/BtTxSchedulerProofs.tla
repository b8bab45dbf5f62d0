-------------------------- MODULE BtTxSchedulerProofs --------------------------
(* Proofs about the transmit scheduler for every number of slots, burst,   *)
(* version modulus and bound.                                              *)
EXTENDS BtTxScheduler, FiniteSetTheorems, SequenceTheorems, WellFoundedInduction, TLAPS

USE DepthAssumption, VersionAssumption, LimitAssumption
    DEF rtVars, stVars, metrics, sel, history, schedVars

LEMMA PendingFinite ==
  ASSUME NEW S \in SUBSET RtSlots
  PROVE  IsFiniteSet(S) /\ Cardinality(S) \in Nat
<1>1. IsFiniteSet(RtSlots)
  BY FS_Interval DEF RtSlots
<1> QED
  BY <1>1, FS_Subset, FS_CardinalityType

(* Slots leave the pending ones: what is left and what left add up.        *)
LEMMA PendingSplit ==
  ASSUME NEW S \in SUBSET RtSlots, NEW T \in SUBSET S
  PROVE  /\ Cardinality(S \ T) = Cardinality(S) - Cardinality(T)
         /\ Cardinality(T) <= Cardinality(S)
<1>1. /\ IsFiniteSet(S) /\ IsFiniteSet(T) /\ IsFiniteSet(S \ T)
      /\ Cardinality(S) \in Nat /\ Cardinality(T) \in Nat /\ Cardinality(S \ T) \in Nat
  BY PendingFinite
<1>2. S = (S \ T) \cup T /\ (S \ T) \cap T = {}
  OBVIOUS
<1>3. Cardinality((S \ T) \cup T) =
        Cardinality(S \ T) + Cardinality(T) - Cardinality((S \ T) \cap T)
  BY <1>1, FS_Union
<1> QED
  BY <1>1, <1>2, <1>3, FS_EmptySet, FS_Subset

(* The versions of two publications fewer than VersionModulus - 1 apart    *)
(* differ.                                                                 *)
LEMMA VersionsDiffer ==
  ASSUME NEW p, NEW q, NEW v, TypeOK, Carries(p, v), Carries(q, v),
         q < p, Published - q < VersionModulus - 1
  PROVE  FALSE
<1>1. Published \in Nat /\ version \in Nat /\ VersionModulus \in Nat
  BY DEF TypeOK, Published, Counters, Classes, Mailboxes
<1>2. p \in Nat /\ q \in Nat /\ v \in Nat
  BY <1>1 DEF Carries
<1>3. /\ version - v = Published - q \/ version - v + VersionModulus - 1 = Published - q
      /\ version - v = Published - p \/ version - v + VersionModulus - 1 = Published - p
      /\ p <= Published /\ version < VersionModulus /\ v >= 1 /\ 1 <= q
  BY <1>1, <1>2 DEF Carries, TypeOK
<1> QED
  BY <1>1, <1>2, <1>3

(* A selection that passes for current names what was selected.            *)
LEMMA CurrentNames == IInv => SelectionNames
<1> SUFFICES ASSUME IInv, SelectionIsCurrent
             PROVE  selPub = IF selClass = "REALTIME" THEN rtPub[selSlot] ELSE stPub[selClass]
  BY DEF SelectionNames
<1> USE DEF IInv
<1>0. Published \in Nat /\ selPub \in Nat
  BY DEF TypeOK, Published, Counters, Classes, Mailboxes
<1>1. selClass # "NONE" /\ Carries(selPub, selVersion)
  BY DEF SelectionIsCurrent, VersionInv, Mailboxes
<1>2. ASSUME NEW pub \in Nat, Carries(pub, selVersion), Follows(pub) PROVE pub = selPub
  <2> SUFFICES ASSUME pub > selPub, Published - selPub <= MaxHeld PROVE FALSE
    BY <1>2 DEF Follows
  <2> QED
    BY <1>0, <1>1, <1>2, VersionsDiffer
<1>3. CASE selClass = "REALTIME"
  <2>1. rtPending[selSlot] /\ rtVersion[selSlot] = selVersion /\ selSlot \in RtSlots
    BY <1>3 DEF SelectionIsCurrent, TypeOK
  <2>2. Carries(rtPub[selSlot], selVersion) /\ Follows(rtPub[selSlot])
    BY <1>3, <2>1 DEF VersionInv, SelectionInv
  <2> QED
    BY <1>2, <1>3, <2>1, <2>2 DEF TypeOK
<1>4. CASE selClass # "REALTIME"
  <2>1. stPending[selClass] /\ stVersion[selClass] = selVersion /\ selClass \in Mailboxes
    BY <1>4 DEF SelectionIsCurrent, TypeOK
  <2>2. Carries(stPub[selClass], selVersion) /\ Follows(stPub[selClass])
    BY <2>1 DEF VersionInv, SelectionInv
  <2> QED
    BY <1>2, <1>4, <2>1, <2>2 DEF TypeOK
<1> QED
  BY <1>3, <1>4

LEMMA InitIInv == Init => IInv
<1> SUFFICES ASSUME Init PROVE IInv
  OBVIOUS
<1> USE DEF Init, Classes, Mailboxes, Zero
<1>1. TypeOK
  BY DEF TypeOK, Counters, RtSlots
<1>2. Conserved
  BY FS_EmptySet DEF Conserved, RtPendingSlots
<1>3. VersionInv
  BY DEF VersionInv, Published
<1> QED
  BY <1>1, <1>2, <1>3
  DEF IInv, SelectionInv, OrderInv, BurstInv, TurnInv, PairSelected, ReportSelected

-----------------------------------------------------------------------------
(* Publication                                                             *)

(* What a publication does to the version and the count.                   *)
LEMMA PublishCount ==
  ASSUME IInv, MayPublish, NEW c \in Classes, accepted' = Bump(accepted, c),
         version' = NextVersion, UNCHANGED sel
  PROVE  /\ Published' = Published + 1 /\ Published \in Nat
         /\ version' \in 1 .. VersionModulus - 1
         /\ \A pub, ver : Carries(pub, ver) => Carries(pub, ver)'
         /\ \A pub, ver : pub = Published' /\ ver = version' => Carries(pub, ver)'
         /\ selClass # "NONE" => Published' - selPub <= MaxHeld /\ selPub <= Published
<1> USE DEF IInv
<1>1. Published' = Published + 1 /\ Published \in Nat
  BY DEF TypeOK, Published, Counters, Classes, Mailboxes, Bump
<1>2. /\ version \in 0 .. VersionModulus - 1 /\ version' \in 1 .. VersionModulus - 1
      /\ VersionModulus \in Nat /\ VersionModulus > 1
  BY DEF TypeOK, NextVersion
<1>3. ASSUME NEW pub, NEW ver, Carries(pub, ver) PROVE Carries(pub, ver)'
  <2>1. pub \in Nat /\ ver \in Nat /\ pub <= Published /\ ver >= 1 /\ ver < VersionModulus
    BY <1>1, <1>2, <1>3 DEF Carries
  <2>2. pub \in 1 .. Published' /\ ver \in 1 .. VersionModulus - 1
    BY <1>1, <1>3 DEF Carries
  <2>3. ASSUME Published' - pub < VersionModulus - 1
        PROVE  \/ version' - ver = Published' - pub
               \/ version' - ver + VersionModulus - 1 = Published' - pub
    <3>1. \/ version - ver = Published - pub
          \/ version - ver + VersionModulus - 1 = Published - pub
      BY <1>1, <1>3, <2>1, <2>3 DEF Carries
    <3> QED
      BY <1>1, <1>2, <2>1, <2>3, <3>1 DEF NextVersion
  <2> QED
    BY <2>2, <2>3 DEF Carries
<1>4. \A pub, ver : pub = Published' /\ ver = version' => Carries(pub, ver)'
  BY <1>1, <1>2 DEF Carries
<1>5. selClass # "NONE" => Published' - selPub <= MaxHeld /\ selPub <= Published
  BY <1>1, <1>2 DEF MayPublish, VersionInv, Carries, TypeOK
<1> QED
  BY <1>1, <1>2, <1>3, <1>4, <1>5

LEMMA PublishStateStep ==
  ASSUME IInv, MayPublish, NEW c \in Mailboxes, PublishState(c)
  PROVE  IInv' /\ lastRt' = lastRt
<1> USE DEF PublishState, IInv
<1>0. c \in Classes /\ c # "REALTIME" /\ UNCHANGED sel
  BY DEF Classes, Mailboxes
<1>1. /\ Published' = Published + 1 /\ Published \in Nat
      /\ version' \in 1 .. VersionModulus - 1
      /\ \A pub, ver : Carries(pub, ver) => Carries(pub, ver)'
      /\ \A pub, ver : pub = Published' /\ ver = version' => Carries(pub, ver)'
      /\ selClass # "NONE" => Published' - selPub <= MaxHeld /\ selPub <= Published
  BY <1>0, PublishCount
<1>2. TypeOK'
  BY <1>0, <1>1 DEF TypeOK, Counters, Bump
<1>3. Conserved'
  <2>1. RtPendingSlots' = RtPendingSlots
    BY DEF RtPendingSlots
  <2>2. \A d \in Classes : accepted'[d] = settled'[d] + pending'[d]
    BY <1>0 DEF Conserved, TypeOK, Counters, Bump
  <2>3. \A d \in Mailboxes : pending'[d] = IF stPending'[d] THEN 1 ELSE 0
    BY <1>0 DEF Conserved, TypeOK, Counters, Bump, Classes
  <2>4. pending'["REALTIME"] = pending["REALTIME"]
    BY <1>0 DEF Bump, TypeOK, Counters, Classes
  <2> QED
    BY <2>1, <2>2, <2>3, <2>4 DEF Conserved
<1>a. \A d \in Mailboxes :
        IF d = c THEN stPub'[d] = Published' /\ stVersion'[d] = version' /\ stPending'[d]
        ELSE stPub'[d] = stPub[d] /\ stVersion'[d] = stVersion[d] /\ stPending'[d] = stPending[d]
  BY <1>1 DEF TypeOK
<1>4. VersionInv'
  <2>1. ASSUME NEW d \in Mailboxes, stPending'[d] PROVE Carries(stPub[d], stVersion[d])'
    <3>1. \A pub, ver : pub = stPub'[d] /\ ver = stVersion'[d] => Carries(pub, ver)'
      BY <1>1, <1>a, <2>1 DEF VersionInv
    <3> QED
      BY <3>1 DEF Carries
  <2>2. ASSUME NEW s \in RtSlots, rtPending'[s] PROVE Carries(rtPub[s], rtVersion[s])'
    <3>1. \A pub, ver : pub = rtPub'[s] /\ ver = rtVersion'[s] => Carries(pub, ver)'
      BY <1>1, <2>2 DEF VersionInv
    <3> QED
      BY <3>1 DEF Carries
  <2>3. ASSUME selClass' # "NONE" PROVE Carries(selPub, selVersion)'
    <3>1. \A pub, ver : pub = selPub' /\ ver = selVersion' => Carries(pub, ver)'
      BY <1>0, <1>1, <2>3 DEF VersionInv
    <3> QED
      BY <3>1 DEF Carries
  <2>4. version' > 0
    BY <1>1
  <2> QED
    BY <2>1, <2>2, <2>3, <2>4 DEF VersionInv
<1>5. SelectionInv'
  <2>1. ASSUME selClass' = "REALTIME", rtPending'[selSlot'] PROVE Follows(rtPub[selSlot])'
    BY <1>0, <1>1, <2>1 DEF SelectionInv, Follows
  <2>2. ASSUME NEW d \in Mailboxes, selClass' = d, stPending'[d] PROVE Follows(stPub[d])'
    <3>1. selClass # "NONE" /\ selPub \in Nat
      BY <1>0, <2>2 DEF Mailboxes, TypeOK
    <3> QED
      BY <1>0, <1>1, <1>a, <2>2, <3>1 DEF SelectionInv, Follows
  <2> QED
    BY <2>1, <2>2 DEF SelectionInv
<1>6. OrderInv' /\ BurstInv'
  BY <1>0 DEF OrderInv, BurstInv, PairSelected, Bump, TypeOK, Counters
<1>7. TurnInv'
  <2>1. ASSUME NEW d \in Mailboxes, ReportSelected(d)' PROVE ReportSelected(d)
    BY <1>1, <2>1 DEF ReportSelected, TypeOK, Mailboxes
  <2> QED
    BY <2>1 DEF TurnInv
<1> QED
  BY <1>2, <1>3, <1>4, <1>5, <1>6, <1>7

LEMMA FillSlotStep ==
  ASSUME IInv, MayPublish, NEW s \in RtSlots, NEW t \in 0 .. now, FillSlot(s, t),
         IF rtPending[s] THEN settled' = Bump(settled, "REALTIME") /\ UNCHANGED pending
         ELSE pending' = Bump(pending, "REALTIME") /\ UNCHANGED settled
  PROVE  IInv' /\ lastRt' = lastRt
<1> USE DEF FillSlot, IInv
<1>0. "REALTIME" \in Classes /\ UNCHANGED sel
  BY DEF Classes
<1>1. /\ Published' = Published + 1 /\ Published \in Nat
      /\ version' \in 1 .. VersionModulus - 1
      /\ \A pub, ver : Carries(pub, ver) => Carries(pub, ver)'
      /\ \A pub, ver : pub = Published' /\ ver = version' => Carries(pub, ver)'
      /\ selClass # "NONE" => Published' - selPub <= MaxHeld /\ selPub <= Published
  BY <1>0, PublishCount
<1>2. TypeOK'
  BY <1>0, <1>1 DEF TypeOK, Counters, Bump
<1>3. Conserved'
  <2>1. RtPendingSlots' = RtPendingSlots \cup {s} /\ (s \in RtPendingSlots <=> rtPending[s])
    BY DEF RtPendingSlots, TypeOK
  <2>2. IsFiniteSet(RtPendingSlots) /\ Cardinality(RtPendingSlots) \in Nat
    BY PendingFinite DEF RtPendingSlots
  <2>3. Cardinality(RtPendingSlots') =
          IF rtPending[s] THEN Cardinality(RtPendingSlots) ELSE Cardinality(RtPendingSlots) + 1
    BY <2>1, <2>2, FS_AddElement
  <2> QED
    BY <1>0, <2>2, <2>3 DEF Conserved, TypeOK, Counters, Bump, Mailboxes, Classes
<1>a. \A u \in RtSlots :
        IF u = s THEN rtPub'[u] = Published' /\ rtVersion'[u] = version' /\ rtPending'[u]
        ELSE rtPub'[u] = rtPub[u] /\ rtVersion'[u] = rtVersion[u] /\ rtPending'[u] = rtPending[u]
  BY <1>1 DEF TypeOK
<1>4. VersionInv'
  <2>1. ASSUME NEW u \in RtSlots, rtPending'[u] PROVE Carries(rtPub[u], rtVersion[u])'
    <3>1. \A pub, ver : pub = rtPub'[u] /\ ver = rtVersion'[u] => Carries(pub, ver)'
      BY <1>1, <1>a, <2>1 DEF VersionInv
    <3> QED
      BY <3>1 DEF Carries
  <2>2. ASSUME NEW c \in Mailboxes, stPending'[c] PROVE Carries(stPub[c], stVersion[c])'
    <3>1. \A pub, ver : pub = stPub'[c] /\ ver = stVersion'[c] => Carries(pub, ver)'
      BY <1>1, <2>2 DEF VersionInv
    <3> QED
      BY <3>1 DEF Carries
  <2>3. ASSUME selClass' # "NONE" PROVE Carries(selPub, selVersion)'
    <3>1. \A pub, ver : pub = selPub' /\ ver = selVersion' => Carries(pub, ver)'
      BY <1>0, <1>1, <2>3 DEF VersionInv
    <3> QED
      BY <3>1 DEF Carries
  <2>4. version' > 0
    BY <1>1
  <2> QED
    BY <2>1, <2>2, <2>3, <2>4 DEF VersionInv
<1>5. SelectionInv'
  <2>1. ASSUME NEW c \in Mailboxes, selClass' = c, stPending'[c] PROVE Follows(stPub[c])'
    <3>1. selClass # "NONE"
      BY <1>0, <2>1 DEF Mailboxes
    <3> QED
      BY <1>0, <1>1, <2>1, <3>1 DEF SelectionInv, Follows
  <2>2. ASSUME selClass' = "REALTIME", rtPending'[selSlot'] PROVE Follows(rtPub[selSlot])'
    <3>1. selClass # "NONE" /\ selPub \in Nat /\ selSlot \in RtSlots
      BY <1>0, <2>2 DEF TypeOK
    <3> QED
      BY <1>0, <1>1, <1>a, <2>2, <3>1 DEF SelectionInv, Follows
  <2> QED
    BY <2>1, <2>2 DEF SelectionInv
<1>6. PairSelected' => PairSelected /\ selSlot # s
  BY <1>1 DEF PairSelected, TypeOK
<1>7. OrderInv'
  <2>1. accepted'["REALTIME"] = accepted["REALTIME"] + 1 /\ accepted["REALTIME"] \in Nat
    BY <1>0 DEF TypeOK, Counters, Bump
  <2>2. \A u \in RtSlots : u # s => rtSeq'[u] = rtSeq[u] /\ rtPending'[u] = rtPending[u]
    BY DEF TypeOK
  <2>3. rtSeq'[s] = accepted["REALTIME"] /\ rtPending'[s]
    BY DEF TypeOK
  <2>4. selSlot \in RtSlots /\ \A u \in RtSlots : rtSeq[u] \in Nat
    BY DEF TypeOK
  <2>5. PairSelected' => \A u \in RtSlots : rtPending'[u] => rtSeq'[selSlot'] <= rtSeq'[u]
    <3>1. SUFFICES ASSUME PairSelected', NEW u \in RtSlots, rtPending'[u]
                   PROVE  rtSeq'[selSlot] <= rtSeq'[u]
      BY <1>0
    <3>2. PairSelected /\ selSlot # s
      BY <1>6, <3>1
    <3>3. rtSeq'[selSlot] = rtSeq[selSlot] /\ rtSeq[selSlot] < accepted["REALTIME"]
      BY <2>2, <2>4, <3>2 DEF OrderInv, PairSelected
    <3>4. CASE u = s
      BY <2>1, <2>3, <2>4, <3>3, <3>4
    <3>5. CASE u # s
      BY <2>2, <3>1, <3>2, <3>3, <3>5 DEF OrderInv
    <3> QED
      BY <3>4, <3>5
  <2>6. lastRt \in Int
    BY DEF TypeOK
  <2>7. \A u \in RtSlots : rtPending'[u] => lastRt < rtSeq'[u] /\ rtSeq'[u] < accepted'["REALTIME"]
    BY <2>1, <2>2, <2>3, <2>4, <2>6 DEF OrderInv
  <2>8. \A u, w \in RtSlots : rtPending'[u] /\ rtPending'[w] /\ rtSeq'[u] = rtSeq'[w] => u = w
    BY <2>1, <2>2, <2>3, <2>4 DEF OrderInv
  <2>9. lastRt' < accepted'["REALTIME"] /\ lastRt' = lastRt
    BY <2>1, <2>6 DEF OrderInv
  <2> QED
    BY <2>5, <2>7, <2>8, <2>9 DEF OrderInv
<1>8. BurstInv' /\ TurnInv'
  BY <1>6 DEF BurstInv, TurnInv, ReportSelected
<1> QED
  BY <1>2, <1>3, <1>4, <1>5, <1>7, <1>8

LEMMA PublishRealtimeStep ==
  ASSUME IInv, MayPublish, NEW s \in RtSlots, NEW t \in 0 .. now,
         IngestPair(s, t) \/ PublishRealtime(s, t)
  PROVE  IInv' /\ lastRt' = lastRt
<1>1. CASE IngestPair(s, t)
  <2>1. /\ FillSlot(s, t) /\ ~rtPending[s]
        /\ pending' = Bump(pending, "REALTIME") /\ UNCHANGED settled
    BY <1>1 DEF IngestPair
  <2> QED
    BY <2>1, FillSlotStep
<1>2. CASE PublishRealtime(s, t) /\ RtPendingSlots = RtSlots
  <2>1. /\ FillSlot(s, t) /\ rtPending[s]
        /\ settled' = Bump(settled, "REALTIME") /\ UNCHANGED pending
    BY <1>2 DEF PublishRealtime, RtPendingSlots
  <2> QED
    BY <2>1, FillSlotStep
<1>3. PublishRealtime(s, t) /\ RtPendingSlots # RtSlots => IngestPair(s, t)
  BY DEF PublishRealtime
<1> QED
  BY <1>1, <1>2, <1>3

-----------------------------------------------------------------------------
(* Reset, selection and the clock                                          *)

LEMMA ResetStep ==
  ASSUME IInv, NEW g \in generation .. MaxGeneration, Reset(g)
  PROVE  IInv' /\ lastRt' = lastRt
<1> USE DEF Reset, IInv
<1>1. \A c \in Classes : RetiredByReset(c) = pending[c]
  BY DEF Conserved, RetiredByReset, Classes
<1>2. \A c \in Classes : settled'[c] = settled[c] + pending[c] /\ pending'[c] = 0
  BY <1>1 DEF TypeOK, Counters, Less
<1>3. TypeOK'
  <2>1. settled' \in Counters /\ pending' \in Counters
    BY <1>1, <1>2 DEF TypeOK, Counters
  <2>2. g \in Nat
    BY DEF TypeOK
  <2> QED
    BY <2>1, <2>2 DEF TypeOK, Mailboxes
<1>4. Conserved'
  <2>1. RtPendingSlots' = {}
    BY DEF RtPendingSlots
  <2>2. Cardinality(RtPendingSlots') = 0
    BY <2>1, FS_EmptySet
  <2>3. \A c \in Classes : accepted'[c] = settled'[c] + pending'[c]
    BY <1>2 DEF Conserved, TypeOK, Counters
  <2>4. pending'["REALTIME"] = 0
    BY <1>2 DEF Classes
  <2>5. \A c \in Mailboxes : pending'[c] = 0 /\ ~stPending'[c]
    BY <1>2 DEF Classes
  <2> QED
    BY <2>2, <2>3, <2>4, <2>5 DEF Conserved
<1>5. VersionInv' /\ SelectionInv'
  BY DEF VersionInv, SelectionInv, Carries, Published, TypeOK
<1>6. OrderInv'
  BY DEF OrderInv, PairSelected, TypeOK
<1>7. BurstInv' /\ TurnInv'
  BY DEF BurstInv, TurnInv, PairSelected, ReportSelected, TypeOK
<1> QED
  BY <1>3, <1>4, <1>5, <1>6, <1>7

LEMMA SelectStep ==
  ASSUME IInv, NEW eligible \in SUBSET Classes, Select(eligible)
  PROVE  IInv' /\ lastRt' = lastRt
<1> USE DEF Select, IInv
<1> DEFINE live == RtPendingSlots \ StaleRt
           waiting == Waiting(eligible)
<1>1. /\ StaleRt \subseteq RtPendingSlots /\ StaleSt \subseteq Mailboxes
      /\ RtPendingSlots \subseteq RtSlots /\ RtPendingSlots' = live
      /\ \A s \in RtSlots : s \in live <=> rtPending'[s]
      /\ \A s \in RtSlots : rtPending'[s] => rtPending[s]
  BY DEF RtPendingSlots, StaleRt, StaleSt, TypeOK
<1>2. /\ \A c \in Mailboxes : stPending'[c] <=> stPending[c] /\ c \notin StaleSt
      /\ waiting \subseteq Mailboxes
      /\ \A c \in waiting : stPending[c] /\ stPending'[c]
  BY DEF Waiting
<1>3. \/ ClearSelection
      \/ \E s \in live :
            /\ Oldest(s, live) /\ RealtimeFirst(waiting)
            /\ selClass' = "REALTIME" /\ selSlot' = s
            /\ selGen' = rtGen[s] /\ selVersion' = rtVersion[s] /\ selPub' = rtPub[s]
            /\ selWaiting' = waiting
      \/ \E c \in waiting :
            /\ c = Turn(waiting)
            /\ selClass' = c /\ selSlot' = 0
            /\ selGen' = stGen[c] /\ selVersion' = stVersion[c] /\ selPub' = stPub[c]
            /\ selWaiting' = waiting
  <2>1. waiting # {} => Turn(waiting) \in waiting
    BY <1>2 DEF Turn, Other, Mailboxes, TypeOK
  <2> QED
    BY <2>1 DEF Choose
<1>4. TypeOK' /\ Conserved'
  <2> DEFINE retired(c) == IF c = "REALTIME" THEN Cardinality(StaleRt)
                           ELSE IF c \in StaleSt THEN 1 ELSE 0
  <2>1. /\ Cardinality(live) = Cardinality(RtPendingSlots) - Cardinality(StaleRt)
        /\ Cardinality(StaleRt) <= Cardinality(RtPendingSlots)
        /\ Cardinality(StaleRt) \in Nat /\ Cardinality(RtPendingSlots) \in Nat
    BY <1>1, PendingSplit, PendingFinite
  <2>2. \A c \in Classes : retired(c) \in Nat /\ retired(c) <= pending[c]
    BY <2>1 DEF Conserved, Classes, StaleSt
  <2>3. \A c \in Classes : /\ settled'[c] = settled[c] + retired(c)
                           /\ pending'[c] = pending[c] - retired(c)
    BY <2>2 DEF Less, TypeOK, Counters
  <2>4. settled' \in Counters /\ pending' \in Counters
    BY <2>2, <2>3 DEF TypeOK, Counters, Less
  <2>5. /\ selClass' \in Classes \cup {"NONE"} /\ selSlot' \in RtSlots /\ selGen' \in Nat
        /\ selVersion' \in 0 .. VersionModulus - 1 /\ selPub' \in Nat
        /\ selWaiting' \subseteq Mailboxes
    <3>1. 0 \in RtSlots /\ 0 \in 0 .. VersionModulus - 1
      BY DEF RtSlots
    <3> QED
      BY <1>1, <1>2, <1>3, <3>1 DEF ClearSelection, TypeOK, Classes
  <2>6. TypeOK'
    BY <2>4, <2>5 DEF TypeOK
  <2>7. Conserved'
    <3>1. \A c \in Classes : accepted'[c] = settled'[c] + pending'[c]
      BY <2>2, <2>3 DEF Conserved, TypeOK, Counters
    <3>2. pending'["REALTIME"] = Cardinality(RtPendingSlots')
      BY <1>1, <2>1, <2>3 DEF Conserved, Classes
    <3>3. \A c \in Mailboxes : pending'[c] = IF stPending'[c] THEN 1 ELSE 0
      BY <1>2, <2>3 DEF Conserved, Classes, Mailboxes, StaleSt
    <3> QED
      BY <3>1, <3>2, <3>3 DEF Conserved
  <2> QED
    BY <2>6, <2>7
<1>5. \A pub, ver : Carries(pub, ver)' <=> Carries(pub, ver)
  BY DEF Carries, Published
<1>6. VersionInv'
  BY <1>1, <1>2, <1>3, <1>5 DEF VersionInv, Published, ClearSelection
<1>7. SelectionInv'
  BY <1>2, <1>3 DEF SelectionInv, Follows, ClearSelection, Mailboxes
<1>8. OrderInv'
  <2>1. PairSelected' => Oldest(selSlot', live)
    BY <1>2, <1>3 DEF PairSelected, ClearSelection, Mailboxes
  <2> QED
    BY <1>1, <2>1 DEF OrderInv, Oldest
<1>9. BurstInv'
  BY <1>2, <1>3 DEF BurstInv, PairSelected, ClearSelection, RealtimeFirst, Mailboxes
<1>10. TurnInv'
  <2>1. ASSUME NEW c \in Mailboxes, ReportSelected(c)', Other(c) \in selWaiting'
        PROVE  nextState = c
    <3>1. c \in Mailboxes /\ c = Turn(waiting) /\ selWaiting' = waiting
      BY <1>3, <2>1 DEF ReportSelected, ClearSelection, Mailboxes
    <3> QED
      BY <2>1, <3>1 DEF Turn, Other, Mailboxes, TypeOK
  <2> QED
    BY <2>1 DEF TurnInv
<1> QED
  BY <1>4, <1>6, <1>7, <1>8, <1>9, <1>10

LEMMA TickStep ==
  ASSUME IInv, Tick PROVE IInv' /\ lastRt' = lastRt
<1> USE DEF Tick, IInv
<1>1. TypeOK' /\ Conserved'
  BY DEF TypeOK, Conserved, RtPendingSlots
<1>2. VersionInv' /\ SelectionInv'
  BY DEF VersionInv, SelectionInv, Carries, Follows, Published
<1>3. OrderInv' /\ BurstInv' /\ TurnInv'
  BY DEF OrderInv, BurstInv, TurnInv, PairSelected, ReportSelected
<1> QED
  BY <1>1, <1>2, <1>3

-----------------------------------------------------------------------------
(* Finish                                                                  *)

LEMMA KeepOrClear ==
  ASSUME IInv, NEW keep \in BOOLEAN, IF keep THEN UNCHANGED sel ELSE ClearSelection
  PROVE  /\ UNCHANGED sel \/ selClass' = "NONE"
         /\ selClass' \in Classes \cup {"NONE"} /\ selSlot' \in RtSlots /\ selGen' \in Nat
         /\ selVersion' \in 0 .. VersionModulus - 1 /\ selPub' \in Nat
         /\ selWaiting' \subseteq Mailboxes
<1>1. 0 \in RtSlots /\ 0 \in 0 .. VersionModulus - 1
  BY DEF RtSlots
<1> QED
  BY <1>1 DEF ClearSelection, IInv, TypeOK

(* The publication that was selected leaves its place; what the class does *)
(* besides is up to the three kinds of Finish.                             *)
LEMMA LeavesPlace ==
  ASSUME IInv, NEW keep \in BOOLEAN, IF keep THEN UNCHANGED sel ELSE ClearSelection,
         SelectionIsCurrent,
         settled' = Bump(settled, selClass),
         pending' = [pending EXCEPT ![selClass] = Less(@, 1)],
         IF selClass = "REALTIME"
         THEN rtPending' = [rtPending EXCEPT ![selSlot] = FALSE] /\ UNCHANGED stPending
         ELSE stPending' = [stPending EXCEPT ![selClass] = FALSE] /\ UNCHANGED rtPending,
         UNCHANGED <<generation, version, rtVersion, rtSeq, rtGen, rtCreated, rtPub,
                     stVersion, stGen, stPub, accepted, now>>
  PROVE  /\ settled' \in Counters /\ pending' \in Counters
         /\ rtPending' \in [RtSlots -> BOOLEAN] /\ stPending' \in [Mailboxes -> BOOLEAN]
         /\ \A s \in RtSlots : rtPending'[s] => rtPending[s]
         /\ \A c \in Mailboxes : stPending'[c] => stPending[c]
         /\ Conserved' /\ VersionInv' /\ SelectionInv'
         /\ ~PairSelected' /\ \A c \in Mailboxes : ~ReportSelected(c)'
<1> USE DEF IInv
<1>1. UNCHANGED sel \/ selClass' = "NONE"
  BY KeepOrClear
<1>2. /\ selClass \in Classes /\ selSlot \in RtSlots
      /\ selClass = "REALTIME" => rtPending[selSlot]
      /\ selClass # "REALTIME" => selClass \in Mailboxes /\ stPending[selClass]
  BY DEF SelectionIsCurrent, TypeOK, Classes
<1>3. /\ rtPending' \in [RtSlots -> BOOLEAN] /\ stPending' \in [Mailboxes -> BOOLEAN]
      /\ \A s \in RtSlots : rtPending'[s] => rtPending[s]
      /\ \A c \in Mailboxes : stPending'[c] => stPending[c]
      /\ selClass = "REALTIME" => ~rtPending'[selSlot] /\ stPending' = stPending
      /\ selClass # "REALTIME" => ~stPending'[selClass] /\ rtPending' = rtPending
  BY <1>2 DEF TypeOK
<1>4. ~PairSelected' /\ \A c \in Mailboxes : ~ReportSelected(c)'
  BY <1>1, <1>2, <1>3 DEF PairSelected, ReportSelected, Mailboxes
<1>5. pending[selClass] >= 1 /\ \A c \in Classes : pending[c] \in Nat /\ settled[c] \in Nat
  <2>1. \A c \in Classes : pending[c] \in Nat /\ settled[c] \in Nat
    BY DEF TypeOK, Counters
  <2>2. CASE selClass = "REALTIME"
    <3>1. selSlot \in RtPendingSlots
      BY <1>2, <2>2 DEF RtPendingSlots
    <3>2. Cardinality(RtPendingSlots) # 0 /\ Cardinality(RtPendingSlots) \in Nat
      BY <3>1, PendingFinite, FS_EmptySet DEF RtPendingSlots
    <3> QED
      BY <2>1, <2>2, <3>2 DEF Conserved
  <2>3. CASE selClass # "REALTIME"
    BY <1>2, <2>1, <2>3 DEF Conserved
  <2> QED
    BY <2>1, <2>2, <2>3
<1>6. \A c \in Classes : IF c = selClass THEN settled'[c] = settled[c] + 1 /\ pending'[c] = pending[c] - 1
                          ELSE settled'[c] = settled[c] /\ pending'[c] = pending[c]
  BY <1>2, <1>5 DEF TypeOK, Counters, Bump, Less
<1>7. settled' \in Counters /\ pending' \in Counters
  BY <1>2, <1>5, <1>6 DEF TypeOK, Counters, Bump, Less
<1>8. Conserved'
  <2>1. \A c \in Classes : accepted'[c] = settled'[c] + pending'[c]
    BY <1>5, <1>6 DEF Conserved, TypeOK, Counters
  <2>2. pending'["REALTIME"] = Cardinality(RtPendingSlots')
    <3>1. CASE selClass = "REALTIME"
      <4>1. RtPendingSlots' = RtPendingSlots \ {selSlot} /\ selSlot \in RtPendingSlots
        BY <1>2, <3>1 DEF RtPendingSlots, TypeOK
      <4>2. IsFiniteSet(RtPendingSlots)
        BY PendingFinite DEF RtPendingSlots
      <4>3. Cardinality(RtPendingSlots') = Cardinality(RtPendingSlots) - 1
        BY <4>1, <4>2, FS_RemoveElement
      <4> QED
        BY <1>2, <1>6, <3>1, <4>3 DEF Conserved
    <3>2. CASE selClass # "REALTIME"
      <4>1. RtPendingSlots' = RtPendingSlots
        BY <1>3, <3>2 DEF RtPendingSlots
      <4> QED
        BY <1>6, <3>2, <4>1 DEF Conserved, Classes
    <3> QED
      BY <3>1, <3>2
  <2>3. ASSUME NEW c \in Mailboxes PROVE pending'[c] = IF stPending'[c] THEN 1 ELSE 0
    <3>1. c \in Classes /\ c # "REALTIME" /\ pending[c] = IF stPending[c] THEN 1 ELSE 0
      BY DEF Conserved, Classes, Mailboxes
    <3>2. CASE c = selClass
      BY <1>2, <1>3, <1>6, <3>1, <3>2
    <3>3. CASE c # selClass
      <4>1. stPending'[c] = stPending[c]
        BY <3>3 DEF TypeOK
      <4> QED
        BY <1>6, <3>1, <3>3, <4>1
    <3> QED
      BY <3>2, <3>3
  <2> QED
    BY <2>1, <2>2, <2>3 DEF Conserved
<1>9. VersionInv'
  BY <1>1, <1>3 DEF VersionInv, Carries, Published
<1>10. SelectionInv'
  BY <1>1, <1>3 DEF SelectionInv, Follows, Published, Mailboxes
<1> QED
  BY <1>3, <1>4, <1>7, <1>8, <1>9, <1>10

LEMMA FinishStep ==
  ASSUME IInv, NEW result \in Results, NEW keep \in BOOLEAN, Finish(result, keep)
  PROVE  IInv' /\ (lastRt' = lastRt \/ lastRt' > lastRt)
<1> USE DEF IInv
<1>a. /\ selClass' \in Classes \cup {"NONE"} /\ selSlot' \in RtSlots /\ selGen' \in Nat
      /\ selVersion' \in 0 .. VersionModulus - 1 /\ selPub' \in Nat
      /\ selWaiting' \subseteq Mailboxes /\ (UNCHANGED sel \/ selClass' = "NONE")
  BY KeepOrClear DEF Finish
<1>b. selSlot \in RtSlots /\ lastRt \in Int /\ \A s \in RtSlots : rtSeq[s] \in Nat
  BY DEF TypeOK
<1>1. CASE SelectionIsCurrent /\ result # "RETRY" /\ FinishRealtime
  <2> USE <1>1 DEF FinishRealtime, Finish, FinishOnly
  <2>1. /\ settled' \in Counters /\ pending' \in Counters
        /\ rtPending' \in [RtSlots -> BOOLEAN] /\ stPending' \in [Mailboxes -> BOOLEAN]
        /\ \A s \in RtSlots : rtPending'[s] => rtPending[s]
        /\ Conserved' /\ VersionInv' /\ SelectionInv'
        /\ ~PairSelected' /\ \A c \in Mailboxes : ~ReportSelected(c)'
    BY LeavesPlace
  <2>2. PairSelected
    BY CurrentNames DEF SelectionNames, SelectionIsCurrent, PairSelected
  <2>3. lastRt' = rtSeq[selSlot] /\ lastRt < rtSeq[selSlot]
    BY <1>b, <2>2 DEF OrderInv, PairSelected
  <2>4. TypeOK'
    BY <1>a, <1>b, <2>1, <2>3 DEF TypeOK
  <2>5. OrderInv'
    <3>1. lastRt' < accepted'["REALTIME"]
      BY <1>b, <2>2, <2>3 DEF OrderInv, PairSelected
    <3>2. ASSUME NEW s \in RtSlots, rtPending'[s]
          PROVE  lastRt' < rtSeq'[s] /\ rtSeq'[s] < accepted'["REALTIME"]
      <4>1. s # selSlot /\ rtPending[s] /\ rtPending[selSlot]
        BY <1>b, <2>1, <2>2, <3>2 DEF TypeOK, PairSelected
      <4>2. rtSeq[selSlot] <= rtSeq[s] /\ rtSeq[selSlot] # rtSeq[s]
        BY <1>b, <2>2, <4>1 DEF OrderInv
      <4> QED
        BY <1>b, <2>3, <4>1, <4>2 DEF OrderInv
    <3> QED
      BY <2>1, <3>1, <3>2 DEF OrderInv
  <2>6. BurstInv'
    BY <2>1, <2>2 DEF BurstInv, TypeOK
  <2>7. TurnInv'
    BY <2>1 DEF TurnInv
  <2> QED
    BY <1>b, <2>1, <2>3, <2>4, <2>5, <2>6, <2>7
<1>2. CASE SelectionIsCurrent /\ result # "RETRY" /\ (SendState \/ DropState)
  <2> USE <1>2 DEF SendState, DropState, Finish, FinishOnly
  <2>0. selClass \in Mailboxes /\ selClass # "REALTIME"
    BY DEF Mailboxes
  <2>1. /\ settled' \in Counters /\ pending' \in Counters
        /\ rtPending' \in [RtSlots -> BOOLEAN] /\ stPending' \in [Mailboxes -> BOOLEAN]
        /\ \A s \in RtSlots : rtPending'[s] => rtPending[s]
        /\ Conserved' /\ VersionInv' /\ SelectionInv'
        /\ ~PairSelected' /\ \A c \in Mailboxes : ~ReportSelected(c)'
    BY <2>0, LeavesPlace
  <2>2. ReportSelected(selClass)
    BY <2>0, CurrentNames DEF SelectionNames, SelectionIsCurrent, ReportSelected
  <2>3. overtaken' \in [Mailboxes -> Nat] /\ rtBurst' \in 0 .. BurstCap /\ rtWaited' \in Nat
        /\ nextState' \in Mailboxes
    BY <2>0 DEF TypeOK, Other, Mailboxes
  <2>4. TypeOK'
    BY <1>a, <2>1, <2>3 DEF TypeOK
  <2>5. OrderInv'
    BY <2>1 DEF OrderInv
  <2>6. BurstInv'
    BY <2>1 DEF BurstInv, TypeOK
  <2>7. TurnInv'
    <3>1. CASE SendState
      <4>1. ASSUME NEW c \in Mailboxes
            PROVE  overtaken'[c] <= 1 /\ (overtaken'[c] = 1 => nextState' = c)
        <5>1. CASE c = selClass
          BY <3>1, <4>1, <5>1
        <5>2. CASE c # selClass
          <6>1. c = Other(selClass) /\ nextState' = c /\ overtaken[c] \in Nat
            BY <2>0, <3>1, <5>2 DEF Other, Mailboxes, TypeOK
          <6>2. c \in selWaiting => nextState = selClass
            BY <2>0, <2>2, <6>1 DEF TurnInv
          <6>3. overtaken[c] <= 1 /\ (overtaken[c] = 1 => nextState = c)
            BY DEF TurnInv
          <6> QED
            BY <3>1, <5>2, <6>1, <6>2, <6>3
        <5> QED
          BY <5>1, <5>2
      <4> QED
        BY <2>1, <4>1 DEF TurnInv
    <3>2. CASE DropState
      BY <2>0, <2>1, <3>2 DEF TurnInv, TypeOK
    <3> QED
      BY <3>1, <3>2
  <2>8. lastRt' = lastRt
    OBVIOUS
  <2> QED
    BY <2>1, <2>4, <2>5, <2>6, <2>7, <2>8
<1>3. CASE UNCHANGED <<generation, version, rtBurst, nextState, rtVars, stVars,
                       metrics, now, history>>
  <2>1. TypeOK' /\ Conserved'
    BY <1>a, <1>3 DEF TypeOK, Conserved, RtPendingSlots
  <2>2. VersionInv' /\ SelectionInv'
    BY <1>a, <1>3 DEF VersionInv, SelectionInv, Carries, Follows, Published, Mailboxes
  <2>3. OrderInv' /\ BurstInv' /\ TurnInv'
    BY <1>a, <1>3 DEF OrderInv, BurstInv, TurnInv, PairSelected, ReportSelected, Mailboxes
  <2> QED
    BY <1>3, <2>1, <2>2, <2>3
<1> QED
  BY <1>1, <1>2, <1>3 DEF Finish, FinishOnly

-----------------------------------------------------------------------------
(* The theorems                                                            *)

LEMMA NextIInv ==
  ASSUME IInv, [Next]_schedVars
  PROVE  IInv' /\ (lastRt' # lastRt => lastRt' > lastRt)
<1>1. CASE Next
  BY <1>1, ResetStep, PublishRealtimeStep, PublishStateStep, SelectStep, FinishStep, TickStep
  DEF Next
<1>2. CASE UNCHANGED schedVars
  <2> USE <1>2 DEF IInv
  <2>1. TypeOK' /\ Conserved'
    BY DEF TypeOK, Conserved, RtPendingSlots
  <2>2. VersionInv' /\ SelectionInv'
    BY DEF VersionInv, SelectionInv, Carries, Follows, Published
  <2>3. OrderInv' /\ BurstInv' /\ TurnInv'
    BY DEF OrderInv, BurstInv, TurnInv, PairSelected, ReportSelected
  <2> QED
    BY <2>1, <2>2, <2>3
<1> QED
  BY <1>1, <1>2

(* The inductive invariant of the scheduler holds, whatever the depth, the *)
(* burst, the modulus of the versions and the bounds.                      *)
THEOREM SchedulerInvariant == Spec => []IInv
<1>1. IInv /\ [Next]_schedVars => IInv'
  BY NextIInv
<1> QED
  BY InitIInv, <1>1, PTL DEF Spec

(* Every publication is pending in one place or settled once.              *)
THEOREM PublicationsConserved == Spec => []Conserved
<1>1. IInv => Conserved
  BY DEF IInv
<1> QED
  BY <1>1, SchedulerInvariant, PTL

(* A selection that is accepted names what was selected, wrapped versions  *)
(* or not.                                                                 *)
THEOREM NoStaleSelection == Spec => []SelectionNames
BY CurrentNames, SchedulerInvariant, PTL

(* Neither realtime nor the other mailbox holds up a report for long.      *)
THEOREM ReportsGoOut == Spec => []FairTurns
<1>1. IInv => FairTurns
  BY DEF IInv, BurstInv, TurnInv, FairTurns, BurstBound, Alternates
<1> QED
  BY <1>1, SchedulerInvariant, PTL

(* Pairs are finished in the order they were published.                    *)
THEOREM PairsInOrder == Spec => RealtimeInOrder
<1>1. IInv /\ [Next]_schedVars => [lastRt' # lastRt => lastRt' > lastRt]_schedVars
  BY NextIInv
<1> QED
  BY <1>1, SchedulerInvariant, PTL DEF Spec, RealtimeInOrder

-----------------------------------------------------------------------------
(* Lists of slots                                                          *)

(* A set of numbers has a least one.                                       *)
LEMMA LeastNat ==
  ASSUME NEW T, T \subseteq Nat, T # {}
  PROVE  \E x \in T : \A y \in T : x <= y
<1>1. PICK x \in T : \A y \in T : ~(<<y, x>> \in OpToRel(<, Nat))
  BY NatLessThanWellFounded, WFMin, Zenon
<1>2. \A y \in T : ~(y < x)
  BY <1>1 DEF OpToRel
<1> QED
  BY <1>2

(* What Lists says, in the form the proofs use.                            *)
LEMMA ListFacts ==
  ASSUME NEW S, NEW num, NEW o, Lists(o, S, num), \A s \in S : num[s] \in Nat
  PROVE  /\ o \in Seq(S) /\ Len(o) \in Nat /\ o \in [1 .. Len(o) -> S]
         /\ \A i \in 1 .. Len(o) : o[i] \in S /\ num[o[i]] \in Nat
         /\ \A i, j \in 1 .. Len(o) : i < j => num[o[i]] < num[o[j]]
         /\ \A i, j \in 1 .. Len(o) : o[i] = o[j] => i = j
<1>1. o \in Seq(S) /\ Len(o) \in Nat /\ o \in [1 .. Len(o) -> S]
  BY LenProperties DEF Lists
<1>2. \A i \in 1 .. Len(o) : o[i] \in S /\ num[o[i]] \in Nat
  BY <1>1
<1>3. \A i, j \in 1 .. Len(o) : i < j => num[o[i]] < num[o[j]]
  BY DEF Lists
<1>4. ASSUME NEW i \in 1 .. Len(o), NEW j \in 1 .. Len(o), o[i] = o[j] PROVE i = j
  <2>1. ~(i < j) /\ ~(j < i)
    BY <1>2, <1>3, <1>4
  <2> QED
    BY <1>1, <2>1
<1> QED
  BY <1>1, <1>2, <1>3, <1>4

(* Two lists of a set agree as far as the first one goes, which is no      *)
(* further than the second one.                                            *)
LEMMA ListAgrees ==
  ASSUME NEW S, NEW num, NEW o, NEW p, Lists(o, S, num), Lists(p, S, num),
         \A s \in S : num[s] \in Nat
  PROVE  Len(o) <= Len(p) /\ \A i \in 1 .. Len(o) : o[i] = p[i]
<1>1. /\ Len(o) \in Nat /\ Len(p) \in Nat
      /\ \A i \in 1 .. Len(o) : o[i] \in S /\ num[o[i]] \in Nat
      /\ \A i, j \in 1 .. Len(o) : i < j => num[o[i]] < num[o[j]]
      /\ \A i \in 1 .. Len(p) : p[i] \in S /\ num[p[i]] \in Nat
      /\ \A i, j \in 1 .. Len(p) : i < j => num[p[i]] < num[p[j]]
  BY ListFacts
<1> DEFINE Bad == {i \in 1 .. Len(o) : ~(i <= Len(p) /\ o[i] = p[i])}
<1>2. Bad = {}
  <2>1. SUFFICES ASSUME Bad # {} PROVE FALSE
    OBVIOUS
  <2>2. PICK m \in Bad : \A i \in Bad : m <= i
    <3>1. Bad \subseteq Nat
      BY <1>1
    <3> QED
      BY <2>1, <3>1, LeastNat
  <2>3. m \in 1 .. Len(o) /\ ~(m <= Len(p) /\ o[m] = p[m])
    OBVIOUS
  <2>4. \A i \in 1 .. Len(o) : i < m => i <= Len(p) /\ o[i] = p[i]
    BY <1>1, <2>2, <2>3
  <2>5. PICK k \in 1 .. Len(p) : p[k] = o[m]
    BY <1>1, <2>3 DEF Lists
  <2>6. ~(k < m)
    <3>1. SUFFICES ASSUME k < m PROVE FALSE
      OBVIOUS
    <3>2. k \in 1 .. Len(o) /\ o[k] = p[k]
      BY <1>1, <2>3, <2>4, <3>1
    <3>3. num[o[k]] < num[o[m]] /\ num[o[m]] \in Nat
      BY <1>1, <2>3, <3>1, <3>2
    <3> QED
      BY <2>5, <3>2, <3>3
  <2>7. k # m
    BY <1>1, <2>3, <2>5
  <2>8. m < k /\ m \in 1 .. Len(p)
    BY <1>1, <2>3, <2>6, <2>7
  <2>9. num[p[m]] < num[o[m]] /\ num[p[m]] \in Nat /\ num[o[m]] \in Nat
    BY <1>1, <2>3, <2>5, <2>8
  <2>10. PICK l \in 1 .. Len(o) : o[l] = p[m]
    BY <1>1, <2>8 DEF Lists
  <2>11. CASE l < m
    <3>1. o[l] = p[l] /\ l \in 1 .. Len(p)
      BY <1>1, <2>4, <2>11
    <3>2. num[p[l]] < num[p[m]] /\ num[p[m]] \in Nat
      BY <1>1, <2>8, <2>11, <3>1
    <3> QED
      BY <2>10, <3>1, <3>2
  <2>12. CASE l = m
    BY <2>9, <2>10, <2>12
  <2>13. CASE m < l
    <3>1. num[o[m]] < num[o[l]]
      BY <1>1, <2>3, <2>13
    <3> QED
      BY <2>9, <2>10, <3>1
  <2> QED
    BY <1>1, <2>3, <2>11, <2>12, <2>13
<1>3. \A i \in 1 .. Len(o) : i <= Len(p) /\ o[i] = p[i]
  BY <1>2
<1>4. Len(o) <= Len(p)
  <2>1. CASE Len(o) = 0
    BY <1>1, <2>1
  <2>2. CASE Len(o) # 0
    <3>1. Len(o) \in 1 .. Len(o)
      BY <1>1, <2>2
    <3> QED
      BY <1>3, <3>1
  <2> QED
    BY <2>1, <2>2
<1> QED
  BY <1>3, <1>4

(* A set has one list, and it is as long as the set is large: ListOf finds *)
(* it.                                                                     *)
LEMMA ListOfIs ==
  ASSUME NEW S, NEW num, NEW o, Lists(o, S, num), \A s \in S : num[s] \in Nat
  PROVE  ListOf(S, num) = o /\ Len(o) = Cardinality(S)
<1>1. /\ o \in Seq(S) /\ Len(o) \in Nat /\ o \in [1 .. Len(o) -> S]
      /\ \A i, j \in 1 .. Len(o) : o[i] = o[j] => i = j
  BY ListFacts
<1>2. Len(o) = Cardinality(S)
  <2>1. o \in Bijection(1 .. Len(o), S)
    BY <1>1 DEF Lists, Bijection, Injection, Surjection, IsInjective
  <2>2. ExistsBijection(1 .. Len(o), S)
    BY <2>1 DEF ExistsBijection
  <2>3. IsFiniteSet(1 .. Len(o)) /\ Cardinality(1 .. Len(o)) = Len(o)
    BY <1>1, FS_Interval
  <2> QED
    BY <2>2, <2>3, FS_Bijection
<1>3. o \in [1 .. Cardinality(S) -> S]
  BY <1>1, <1>2
<1> DEFINE p == ListOf(S, num)
<1>4. p \in [1 .. Cardinality(S) -> S] /\ Lists(p, S, num)
  BY <1>3 DEF ListOf
<1> HIDE DEF p
<1>5. p \in Seq(S) /\ Len(p) = Len(o) /\ \A i \in 1 .. Len(p) : p[i] = o[i]
  <2>1. Len(o) <= Len(p) /\ \A i \in 1 .. Len(o) : o[i] = p[i]
    <3>1. Lists(p, S, num)
      BY <1>4
    <3> QED
      BY <3>1, ListAgrees
  <2>2. Len(p) <= Len(o) /\ Len(p) \in Nat /\ p \in Seq(S)
    BY <1>4, ListAgrees, ListFacts
  <2> QED
    BY <1>1, <2>1, <2>2
<1>6. p = o
  BY <1>1, <1>5, SeqEqual
<1> QED
  BY <1>2, <1>6 DEF p

(* The empty list.                                                         *)
LEMMA NoneListed ==
  ASSUME NEW num, NEW pub
  PROVE  Lists(<<>>, {}, num) /\ Named(<<>>, pub) = <<>>
<1>1. <<>> \in Seq({}) /\ Len(<<>>) = 0
  BY EmptySeq
<1>2. Named(<<>>, pub) = [i \in 1 .. 0 |-> pub[<<>>[i]]]
  BY <1>1 DEF Named
<1> QED
  BY <1>1, <1>2 DEF Lists

(* The items of a list of slots.                                           *)
LEMMA NamedType ==
  ASSUME NEW S, NEW o \in Seq(S), NEW pub, NEW P, \A s \in S : pub[s] \in P
  PROVE  Named(o, pub) \in Seq(P)
<1>1. Len(o) \in Nat /\ \A i \in 1 .. Len(o) : o[i] \in S
  BY LenProperties, ElementOfSeq
<1>2. Named(o, pub) \in [1 .. Len(o) -> P]
  BY <1>1 DEF Named
<1> QED
  BY <1>1, <1>2, SeqDef

LEMMA NamedFacts ==
  ASSUME NEW S, NEW o \in Seq(S), NEW pub
  PROVE  /\ Len(Named(o, pub)) = Len(o)
         /\ \A i \in 1 .. Len(o) : Named(o, pub)[i] = pub[o[i]]
<1> DEFINE P == {pub[s] : s \in S}
<1>1. Len(o) \in Nat
  BY LenProperties
<1>2. \A s \in S : pub[s] \in P
  OBVIOUS
<1> HIDE DEF P
<1>3. Named(o, pub) \in Seq(P)
  BY <1>2, NamedType
<1>4. DOMAIN Named(o, pub) = 1 .. Len(o)
  BY DEF Named
<1>5. DOMAIN Named(o, pub) = 1 .. Len(Named(o, pub)) /\ Len(Named(o, pub)) \in Nat
  BY <1>3, LenProperties
<1>6. Len(Named(o, pub)) = Len(o)
  BY <1>1, <1>4, <1>5
<1> QED
  BY <1>6 DEF Named

(* A slot with the largest number goes to the end.                         *)
LEMMA ListAppend ==
  ASSUME NEW S, NEW num, NEW o, Lists(o, S, num),
         NEW T, NEW seq, NEW s, T = S \cup {s}, s \notin S,
         \A t \in S : seq[t] = num[t] /\ seq[t] \in Nat /\ seq[t] < seq[s],
         seq[s] \in Nat
  PROVE  Lists(Append(o, s), T, seq)
<1> DEFINE q == Append(o, s)
<1>1. /\ o \in Seq(S) /\ Len(o) \in Nat
      /\ \A i \in 1 .. Len(o) : o[i] \in S /\ num[o[i]] \in Nat
      /\ \A i, j \in 1 .. Len(o) : i < j => num[o[i]] < num[o[j]]
  BY ListFacts
<1>2. o \in Seq(T) /\ s \in T
  BY <1>1, SeqMonotonic
<1>3. /\ q \in Seq(T) /\ Len(q) = Len(o) + 1
      /\ \A i \in 1 .. Len(o) : q[i] = o[i]
      /\ q[Len(o) + 1] = s
  BY <1>2, AppendProperties
<1> HIDE DEF q
<1>4. \A t \in T : \E i \in 1 .. Len(q) : q[i] = t
  <2> TAKE t \in T
  <2>1. CASE t = s
    <3>1. Len(o) + 1 \in 1 .. Len(q)
      BY <1>1, <1>3
    <3> QED
      BY <1>3, <2>1, <3>1
  <2>2. CASE t # s
    <3>1. PICK i \in 1 .. Len(o) : o[i] = t
      BY <2>2 DEF Lists
    <3>2. i \in 1 .. Len(q)
      BY <1>1, <1>3
    <3> QED
      BY <1>3, <3>1, <3>2
  <2> QED
    BY <2>1, <2>2
<1>5. ASSUME NEW i \in 1 .. Len(q), NEW j \in 1 .. Len(q), i < j PROVE seq[q[i]] < seq[q[j]]
  <2>1. i \in 1 .. Len(o) /\ q[i] = o[i] /\ o[i] \in S
    BY <1>1, <1>3, <1>5
  <2>2. CASE j \in 1 .. Len(o)
    BY <1>1, <1>3, <1>5, <2>1, <2>2
  <2>3. CASE j \notin 1 .. Len(o)
    <3>1. j = Len(o) + 1
      BY <1>1, <1>3, <2>3
    <3> QED
      BY <1>3, <2>1, <3>1
  <2> QED
    BY <2>2, <2>3
<1>6. Lists(q, T, seq)
  BY <1>3, <1>4, <1>5 DEF Lists
<1> QED
  BY <1>6 DEF q

(* Its item goes to the end too.  (With stands for Append where the        *)
(* provers need not know what Append does.)                                *)
With(q, x) == Append(q, x)
LEMMA NamedAppend ==
  ASSUME NEW S, NEW o \in Seq(S), NEW s, NEW pub, NEW new,
         \A t \in S : new[t] = pub[t]
  PROVE  Named(With(o, s), new) = With(Named(o, pub), new[s])
<1> DEFINE T == S \cup {s}
           q == Append(o, s)
           P == {new[t] : t \in T}
<1>1. Len(o) \in Nat /\ \A i \in 1 .. Len(o) : o[i] \in S
  BY LenProperties, ElementOfSeq
<1>2. o \in Seq(T) /\ s \in T
  BY SeqMonotonic
<1>3. /\ q \in Seq(T) /\ Len(q) = Len(o) + 1
      /\ \A i \in 1 .. Len(o) : q[i] = o[i]
      /\ q[Len(o) + 1] = s
  BY <1>2, AppendProperties
<1>4. /\ \A t \in T : new[t] \in P
      /\ \A t \in S : pub[t] \in P
      /\ new[s] \in P
  OBVIOUS
<1> HIDE DEF q, P, T
<1>5. Named(q, new) = Append(Named(o, pub), new[s])
  <2>1. /\ Named(o, pub) \in Seq(P) /\ Len(Named(o, pub)) = Len(o)
        /\ \A i \in 1 .. Len(o) : Named(o, pub)[i] = pub[o[i]]
    <3>1. Named(o, pub) \in Seq(P)
      BY <1>4, NamedType
    <3> QED
      BY <3>1, NamedFacts
  <2> DEFINE a == Append(Named(o, pub), new[s])
  <2>2. /\ a \in Seq(P) /\ Len(a) = Len(o) + 1
        /\ \A i \in 1 .. Len(o) : a[i] = pub[o[i]]
        /\ a[Len(o) + 1] = new[s]
    BY <1>4, <2>1, AppendProperties
  <2>3. /\ Named(q, new) \in Seq(P) /\ Len(Named(q, new)) = Len(q)
        /\ \A i \in 1 .. Len(q) : Named(q, new)[i] = new[q[i]]
    <3>1. q \in Seq(T)
      BY <1>3
    <3>2. Named(q, new) \in Seq(P)
      BY <1>4, <3>1, NamedType
    <3> QED
      BY <3>1, <3>2, NamedFacts
  <2> HIDE DEF a
  <2>4. \A i \in 1 .. Len(q) : Named(q, new)[i] = a[i]
    <3> TAKE i \in 1 .. Len(q)
    <3>1. CASE i \in 1 .. Len(o)
      BY <1>1, <1>3, <2>2, <2>3, <3>1
    <3>2. CASE i \notin 1 .. Len(o)
      <4>1. i = Len(o) + 1
        BY <1>1, <1>3, <3>2
      <4> QED
        BY <1>3, <2>2, <2>3, <4>1
    <3> QED
      BY <3>1, <3>2
  <2>5. Named(q, new) = a
    BY <1>3, <2>2, <2>3, <2>4, SeqEqual
  <2> QED
    BY <2>5 DEF a
<1> QED
  BY <1>5 DEF q, With

(* The first slot of a list has the least number; without it the rest is   *)
(* listed.                                                                 *)
LEMMA ListTail ==
  ASSUME NEW S, NEW num, NEW o, Lists(o, S, num), \A t \in S : num[t] \in Nat, S # {}
  PROVE  /\ o # <<>> /\ o[1] \in S /\ \A t \in S : num[o[1]] <= num[t]
         /\ Lists(Tail(o), S \ {o[1]}, num)
<1>1. /\ o \in Seq(S) /\ Len(o) \in Nat
      /\ \A i \in 1 .. Len(o) : o[i] \in S /\ num[o[i]] \in Nat
      /\ \A i, j \in 1 .. Len(o) : i < j => num[o[i]] < num[o[j]]
      /\ \A i, j \in 1 .. Len(o) : o[i] = o[j] => i = j
  BY ListFacts
<1>2. Len(o) > 0 /\ 1 \in 1 .. Len(o) /\ o # <<>>
  <2>1. PICK t \in S : TRUE
    OBVIOUS
  <2>2. PICK i \in 1 .. Len(o) : o[i] = t
    BY DEF Lists
  <2>3. Len(o) > 0
    BY <1>1, <2>2
  <2> QED
    BY <1>1, <2>3, EmptySeq
<1>3. ASSUME NEW t \in S PROVE num[o[1]] <= num[t]
  <2>1. PICK i \in 1 .. Len(o) : o[i] = t
    BY DEF Lists
  <2>2. i = 1 \/ 1 < i
    BY <1>1
  <2> QED
    BY <1>1, <1>2, <2>1, <2>2
<1> DEFINE q == Tail(o)
<1>4. /\ Len(q) = Len(o) - 1 /\ Len(q) \in Nat /\ q \in Seq(S)
      /\ \A i \in 1 .. Len(q) : q[i] = o[i + 1] /\ i + 1 \in 1 .. Len(o)
  <2>1. q \in Seq(S) /\ Len(q) = Len(o) - 1 /\ \A i \in 1 .. Len(q) : q[i] = o[i + 1]
    BY <1>1, <1>2, HeadTailProperties
  <2> QED
    BY <1>1, <1>2, <2>1
<1> HIDE DEF q
<1>5. Lists(q, S \ {o[1]}, num)
  <2>1. \A i \in 1 .. Len(q) : q[i] \in S \ {o[1]}
    <3> TAKE i \in 1 .. Len(q)
    <3>1. i + 1 # 1
      BY <1>4
    <3> QED
      BY <1>1, <1>2, <1>4, <3>1
  <2>2. q \in Seq(S \ {o[1]})
    <3>1. q \in [1 .. Len(q) -> S]
      BY <1>4, LenProperties
    <3>2. q \in [1 .. Len(q) -> S \ {o[1]}]
      BY <2>1, <3>1
    <3>3. q \in UNION {[1 .. n -> S \ {o[1]}] : n \in Nat}
      BY <1>4, <3>2
    <3> QED
      BY <3>3, SeqDef
  <2>3. ASSUME NEW t \in S \ {o[1]} PROVE \E i \in 1 .. Len(q) : q[i] = t
    <3>1. PICK i \in 1 .. Len(o) : o[i] = t
      BY DEF Lists
    <3>2. i # 1
      BY <3>1
    <3>3. i - 1 \in 1 .. Len(q) /\ (i - 1) + 1 = i
      BY <1>1, <1>4, <3>2
    <3> QED
      BY <1>4, <3>1, <3>3
  <2>4. ASSUME NEW i \in 1 .. Len(q), NEW j \in 1 .. Len(q), i < j PROVE num[q[i]] < num[q[j]]
    <3>1. /\ i + 1 < j + 1 /\ i + 1 \in 1 .. Len(o) /\ j + 1 \in 1 .. Len(o)
          /\ q[i] = o[i + 1] /\ q[j] = o[j + 1]
      BY <1>4, <2>4
    <3>2. num[o[i + 1]] < num[o[j + 1]]
      BY <1>1, <3>1
    <3> QED
      BY <3>1, <3>2
  <2> QED
    BY <2>2, <2>3, <2>4 DEF Lists
<1> QED
  BY <1>1, <1>2, <1>3, <1>5 DEF q

(* Its first item is that of the first slot.                               *)
LEMMA NamedTail ==
  ASSUME NEW S, NEW o \in Seq(S), o # <<>>, NEW pub
  PROVE  /\ Named(o, pub) # <<>> /\ Head(Named(o, pub)) = pub[o[1]]
         /\ Named(Tail(o), pub) = Tail(Named(o, pub))
<1> DEFINE n == Named(o, pub)
           q == Tail(o)
           P == {pub[t] : t \in S}
<1>1. Len(o) \in Nat \ {0} /\ 1 \in 1 .. Len(o)
  BY EmptySeq
<1>2. /\ q \in Seq(S) /\ Len(q) = Len(o) - 1 /\ Len(q) \in Nat
      /\ \A i \in 1 .. Len(q) : q[i] = o[i + 1] /\ i + 1 \in 1 .. Len(o)
  <2>1. q \in Seq(S) /\ Len(q) = Len(o) - 1 /\ \A i \in 1 .. Len(q) : q[i] = o[i + 1]
    BY HeadTailProperties
  <2> QED
    BY <1>1, <2>1
<1>3. \A t \in S : pub[t] \in P
  OBVIOUS
<1> HIDE DEF q, P
<1>4. n \in Seq(P) /\ Len(n) = Len(o) /\ \A i \in 1 .. Len(o) : n[i] = pub[o[i]]
  BY <1>3, NamedType, NamedFacts
<1> HIDE DEF n
<1>5. n # <<>> /\ Head(n) = pub[o[1]]
  <2>1. n # <<>>
    BY <1>1, <1>4, EmptySeq
  <2>2. Head(n) = n[1]
    BY <1>4, <2>1
  <2> QED
    BY <1>1, <1>4, <2>1, <2>2
<1>6. Named(q, pub) = Tail(n)
  <2>1. /\ Tail(n) \in Seq(P) /\ Len(Tail(n)) = Len(o) - 1
        /\ \A i \in 1 .. Len(Tail(n)) : Tail(n)[i] = n[i + 1]
    BY <1>4, <1>5, HeadTailProperties
  <2>2. /\ Named(q, pub) \in Seq(P) /\ Len(Named(q, pub)) = Len(q)
        /\ \A i \in 1 .. Len(q) : Named(q, pub)[i] = pub[q[i]]
    BY <1>2, <1>3, NamedType, NamedFacts
  <2>3. ASSUME NEW i \in 1 .. Len(q) PROVE Named(q, pub)[i] = Tail(n)[i]
    <3>1. Named(q, pub)[i] = pub[o[i + 1]] /\ i + 1 \in 1 .. Len(o)
      BY <1>2, <2>2
    <3>2. Tail(n)[i] = n[i + 1]
      BY <1>2, <2>1
    <3> QED
      BY <1>4, <3>1, <3>2
  <2> QED
    BY <1>2, <2>1, <2>2, <2>3, SeqEqual
<1> QED
  BY <1>5, <1>6 DEF q, n

-----------------------------------------------------------------------------
(* What is kept of a queue when items expire                               *)

(* One step of TxQueue's Kept: what is kept of the first i items of q.     *)
KeepStep(q, f, expired, i) ==
    IF i = 0 THEN <<>>
    ELSE IF i \in expired THEN f[i - 1]
    ELSE Append(f[i - 1], q[i])

(* The recursive function of Kept exists for every queue.                  *)
IsKeep(keep, q, n, expired) == keep = [i \in 0 .. n |-> KeepStep(q, keep, expired, i)]
LEMMA KeepExists ==
  ASSUME NEW q, NEW n \in Nat, NEW expired
  PROVE  \E f : f = [i \in 0 .. n |-> KeepStep(q, f, expired, i)]
<1> DEFINE Bad == {m \in Nat : ~\E f : f = [i \in 0 .. m |-> KeepStep(q, f, expired, i)]}
<1>1. SUFFICES ASSUME Bad # {} PROVE FALSE
  OBVIOUS
<1>2. PICK m \in Bad : \A k \in Bad : m <= k
  BY <1>1, LeastNat
<1>3. m \in Nat /\ ~\E f : f = [i \in 0 .. m |-> KeepStep(q, f, expired, i)]
  OBVIOUS
<1>4. CASE m = 0
  <2> DEFINE f == [i \in 0 .. 0 |-> <<>>]
  <2>1. f = [i \in 0 .. 0 |-> KeepStep(q, f, expired, i)]
    BY DEF KeepStep
  <2> QED
    BY <1>3, <1>4, <2>1
<1>5. CASE m # 0
  <2>1. m - 1 \in Nat /\ m - 1 \notin Bad
    BY <1>2, <1>3, <1>5
  <2>2. PICK g : g = [i \in 0 .. m - 1 |-> KeepStep(q, g, expired, i)]
    BY <2>1
  <2> DEFINE f == [i \in 0 .. m |-> KeepStep(q, g, expired, i)]
  <2>3. ASSUME NEW i \in 0 .. m - 1 PROVE f[i] = g[i]
    <3>1. i \in 0 .. m
      BY <1>3
    <3>2. f[i] = KeepStep(q, g, expired, i)
      BY <3>1
    <3>3. g[i] = KeepStep(q, g, expired, i)
      BY <2>2, Zenon
    <3> QED
      BY <3>2, <3>3
  <2>4. \A i \in 0 .. m : KeepStep(q, g, expired, i) = KeepStep(q, f, expired, i)
    <3> TAKE i \in 0 .. m
    <3>1. CASE i = 0
      BY <3>1 DEF KeepStep
    <3>2. CASE i # 0
      <4>1. i - 1 \in 0 .. m - 1
        BY <3>2, <1>3
      <4>2. f[i - 1] = g[i - 1]
        BY <4>1, <2>3
      <4> QED
        BY <3>2, <4>2 DEF KeepStep
    <3> QED
      BY <3>1, <3>2
  <2>5. f = [i \in 0 .. m |-> KeepStep(q, f, expired, i)]
    BY <2>4
  <2> QED
    BY <1>3, <2>5
<1> QED
  BY <1>4, <1>5

Remaining(o, expired) == {o[i] : i \in (1 .. Len(o)) \ expired}

(* What is kept names, in order, the listed slots that do not expire.      *)
LEMMA ListKept ==
  ASSUME NEW S, NEW num, NEW o, Lists(o, S, num), \A t \in S : num[t] \in Nat,
         NEW pub, NEW expired, NEW keep, IsKeep(keep, Named(o, pub), Len(o), expired)
  PROVE  \E k : Lists(k, Remaining(o, expired), num) /\ Named(k, pub) = keep[Len(o)]
<1> DEFINE N == Len(o)
           L(m) == {o[i] : i \in (1 .. m) \ expired}
           Bad == {m \in 0 .. N : ~\E k : Lists(k, L(m), num) /\ Named(k, pub) = keep[m]}
<1>1. /\ o \in Seq(S) /\ N \in Nat
      /\ \A i \in 1 .. N : o[i] \in S /\ num[o[i]] \in Nat
      /\ \A i, j \in 1 .. N : i < j => num[o[i]] < num[o[j]]
      /\ \A i, j \in 1 .. N : o[i] = o[j] => i = j
  BY ListFacts
<1>2. \A i \in 1 .. N : Named(o, pub)[i] = pub[o[i]]
  BY <1>1, NamedFacts
<1>3. Bad = {}
  <2>1. SUFFICES ASSUME Bad # {} PROVE FALSE
    OBVIOUS
  <2>2. PICK m \in Bad : \A k \in Bad : m <= k
    <3>1. Bad \subseteq Nat
      BY <1>1
    <3> QED
      BY <2>1, <3>1, LeastNat
  <2>3. m \in 0 .. N /\ ~\E k : Lists(k, L(m), num) /\ Named(k, pub) = keep[m]
    OBVIOUS
  <2>4. keep[m] = KeepStep(Named(o, pub), keep, expired, m)
    BY <2>3 DEF IsKeep
  <2>5. CASE m = 0
    <3>1. L(m) = {} /\ keep[m] = <<>>
      BY <2>4, <2>5 DEF KeepStep
    <3> QED
      BY <2>3, <3>1, NoneListed
  <2>6. CASE m # 0
    <3>1. m - 1 \in 0 .. N /\ m - 1 \notin Bad /\ m \in 1 .. N
      <4>1. m - 1 \in 0 .. N /\ m \in 1 .. N /\ m \in Nat /\ ~(m <= m - 1)
        BY <1>1, <2>3, <2>6
      <4> QED
        BY <2>2, <4>1, Zenon
    <3>2. PICK k : Lists(k, L(m - 1), num) /\ Named(k, pub) = keep[m - 1]
      BY <3>1
    <3>3. CASE m \in expired
      <4>1. keep[m] = keep[m - 1]
        BY <2>4, <2>6, <3>3 DEF KeepStep
      <4>2. L(m) = L(m - 1)
        <5>1. (1 .. m) \ expired = (1 .. m - 1) \ expired
          BY <3>1, <3>3
        <5> QED
          BY <5>1
      <4> QED
        BY <2>3, <3>2, <4>1, <4>2
    <3>4. CASE m \notin expired
      <4>1. keep[m] = Append(keep[m - 1], pub[o[m]])
        BY <1>2, <2>4, <2>6, <3>1, <3>4 DEF KeepStep
      <4>2. L(m) = L(m - 1) \cup {o[m]}
        <5>1. (1 .. m) \ expired = ((1 .. m - 1) \ expired) \cup {m}
          BY <3>1, <3>4
        <5> QED
          BY <5>1
      <4>3. \A t \in L(m - 1) : t \in S /\ num[t] \in Nat /\ num[t] < num[o[m]]
        <5> TAKE t \in L(m - 1)
        <5>1. PICK i \in (1 .. m - 1) \ expired : t = o[i]
          OBVIOUS
        <5>2. i \in 1 .. N /\ i < m
          BY <1>1, <3>1, <5>1
        <5> QED
          BY <1>1, <3>1, <5>1, <5>2
      <4>4. o[m] \in S /\ num[o[m]] \in Nat /\ o[m] \notin L(m - 1)
        BY <1>1, <3>1, <4>3
      <4>5. /\ Lists(Append(k, o[m]), L(m), num)
            /\ Named(Append(k, o[m]), pub) = Append(Named(k, pub), pub[o[m]])
        <5> HIDE DEF L
        <5>1. Lists(Append(k, o[m]), L(m), num)
          BY <3>2, <4>2, <4>3, <4>4, ListAppend
        <5>2. k \in Seq(L(m - 1))
          BY <3>2 DEF Lists
        <5>3. Named(With(k, o[m]), pub) = With(Named(k, pub), pub[o[m]])
          <6> DEFINE s == o[m]
          <6> HIDE DEF s
          <6>1. \A t \in L(m - 1) : pub[t] = pub[t]
            OBVIOUS
          <6>2. Named(With(k, s), pub) = With(Named(k, pub), pub[s])
            BY <5>2, <6>1, NamedAppend
          <6> QED
            BY <6>2 DEF s
        <5> QED
          BY <5>1, <5>3 DEF With
      <4> QED
        BY <2>3, <3>2, <4>1, <4>5
    <3> QED
      BY <3>3, <3>4
  <2> QED
    BY <2>5, <2>6
<1>4. N \in 0 .. N
  BY <1>1
<1>5. \E k : Lists(k, L(N), num) /\ Named(k, pub) = keep[N]
  BY <1>3, <1>4, Zenon
<1> QED
  BY <1>5, Zenon DEF Remaining

-----------------------------------------------------------------------------
(* The scheduler implements TxQueue                                        *)

LEMMA Listed ==
  ASSUME IInv, RefinementInv
  PROVE  /\ Lists(PendingInOrder, RtPendingSlots, rtSeq)
         /\ PendingInOrder \in Seq(RtPendingSlots)
         /\ Len(PendingInOrder) = Cardinality(RtPendingSlots)
         /\ Len(Named(PendingInOrder, rtPub)) = Cardinality(RtPendingSlots)
         /\ RtPendingSlots \subseteq RtSlots
         /\ \A s \in RtPendingSlots : rtSeq[s] \in Nat /\ rtPub[s] \in Nat
         /\ \A c \in Mailboxes : stPending[c] => stPub[c] \in Nat \ {0}
<1>1. /\ RtPendingSlots \subseteq RtSlots
      /\ \A s \in RtPendingSlots : rtSeq[s] \in Nat /\ rtPub[s] \in Nat
  BY DEF RtPendingSlots, IInv, TypeOK
<1>2. Lists(PendingInOrder, RtPendingSlots, rtSeq)
  BY DEF RefinementInv
<1>3. PendingInOrder \in Seq(RtPendingSlots) /\ Len(PendingInOrder) = Cardinality(RtPendingSlots)
  BY <1>1, <1>2, ListOfIs, ListFacts
<1>4. Len(Named(PendingInOrder, rtPub)) = Len(PendingInOrder)
  BY <1>1, <1>3, NamedFacts
<1>5. \A c \in Mailboxes : stPending[c] => stPub[c] \in Nat \ {0}
  BY DEF IInv, VersionInv, Carries, TypeOK
<1> QED
  BY <1>1, <1>2, <1>3, <1>4, <1>5

(* The queue holds as many items as slots are in use.                      *)
LEMMA QueueFull ==
  ASSUME IInv, RefinementInv
  PROVE  /\ RtPendingSlots = RtSlots => Len(Named(PendingInOrder, rtPub)) = RtDepth
         /\ RtPendingSlots # RtSlots => Len(Named(PendingInOrder, rtPub)) < RtDepth
<1>1. IsFiniteSet(RtSlots) /\ Cardinality(RtSlots) = RtDepth
  BY FS_Interval DEF RtSlots
<1>2. RtPendingSlots \subseteq RtSlots /\ Len(Named(PendingInOrder, rtPub)) = Cardinality(RtPendingSlots)
  BY Listed
<1>3. RtPendingSlots # RtSlots => Cardinality(RtPendingSlots) < Cardinality(RtSlots)
  BY <1>1, <1>2, FS_Subset
<1> QED
  BY <1>1, <1>2, <1>3

LEMMA InitRefines ==
  ASSUME Init PROVE RefinementInv /\ Queue!QueueInit
<1> USE DEF Init
<1>1. RtPendingSlots = {}
  BY DEF RtPendingSlots
<1>2. PendingInOrder = <<>> /\ Lists(<<>>, {}, rtSeq) /\ Named(<<>>, rtPub) = <<>>
  BY <1>1, NoneListed, ListOfIs DEF PendingInOrder
<1>3. RefinementInv
  BY <1>1, <1>2 DEF RefinementInv
<1>4. Queue!QueueInit
  BY <1>2 DEF Queue!QueueInit, Queue!Boxes, Queue!NoChoice, Mailboxes
<1> QED
  BY <1>3, <1>4

LEMMA ResetRefines ==
  ASSUME NEW g, Reset(g) PROVE RefinementInv' /\ Queue!Clear
<1> USE DEF Reset
<1>1. RtPendingSlots' = {}
  BY DEF RtPendingSlots
<1>2. PendingInOrder' = <<>> /\ Lists(<<>>, {}, rtSeq') /\ Named(<<>>, rtPub') = <<>>
  BY <1>1, NoneListed, ListOfIs DEF PendingInOrder
<1>3. RefinementInv'
  BY <1>1, <1>2 DEF RefinementInv
<1>4. Queue!Clear
  BY <1>2 DEF Queue!Clear, Queue!Empty, Queue!Boxes, Mailboxes
<1> QED
  BY <1>3, <1>4

(* A publication into slot s goes to the end of what the other slots hold. *)
LEMMA FillList ==
  ASSUME IInv, NEW s \in RtSlots, NEW t, FillSlot(s, t),
         NEW o, Lists(o, RtPendingSlots \ {s}, rtSeq)
  PROVE  /\ PendingInOrder' = Append(o, s) /\ Lists(Append(o, s), RtPendingSlots', rtSeq')
         /\ Named(PendingInOrder, rtPub)' = Append(Named(o, rtPub), Published + 1)
<1> DEFINE S == RtPendingSlots \ {s}
           n == Published + 1
<1>1. Published \in Nat /\ accepted["REALTIME"] \in Nat
  BY DEF IInv, TypeOK, Published, Counters, Classes, Mailboxes
<1>2. RtPendingSlots' = S \cup {s} /\ s \notin S
  BY DEF FillSlot, RtPendingSlots, IInv, TypeOK
<1>3. \A u \in S : /\ rtSeq'[u] = rtSeq[u] /\ rtSeq'[u] \in Nat /\ rtSeq'[u] < rtSeq'[s]
                   /\ rtPub'[u] = rtPub[u] /\ rtPub[u] \in Nat
  BY DEF FillSlot, RtPendingSlots, IInv, TypeOK, OrderInv
<1>4. rtSeq'[s] \in Nat /\ rtPub'[s] = n /\ n \in Nat
  BY <1>1 DEF FillSlot, IInv, TypeOK
<1> HIDE DEF n, S
<1>5. /\ Lists(Append(o, s), RtPendingSlots', rtSeq')
      /\ Named(Append(o, s), rtPub') = Append(Named(o, rtPub), n)
  <2>1. Lists(o, S, rtSeq)
    BY DEF S
  <2>2. o \in Seq(S)
    BY <2>1 DEF Lists
  <2>3. Lists(Append(o, s), RtPendingSlots', rtSeq')
    BY <1>2, <1>3, <1>4, <2>1, ListAppend
  <2>4. Named(With(o, s), rtPub') = With(Named(o, rtPub), rtPub'[s])
    <3>1. \A u \in S : rtPub'[u] = rtPub[u]
      BY <1>3
    <3> QED
      BY <2>2, <3>1, NamedAppend
  <2> QED
    BY <1>4, <2>3, <2>4 DEF With
<1>6. \A u \in RtPendingSlots' : rtSeq'[u] \in Nat
  BY <1>2, <1>3, <1>4
<1>7. PendingInOrder' = Append(o, s)
  BY <1>5, <1>6, ListOfIs DEF PendingInOrder
<1> QED
  BY <1>5, <1>7 DEF n

(* A pair in a free slot is one more item.                                 *)
LEMMA IngestRefines ==
  ASSUME IInv, RefinementInv, NEW s \in RtSlots, NEW t, IngestPair(s, t)
  PROVE  RefinementInv' /\ Queue!Enqueue(Published + 1)
<1>1. s \notin RtPendingSlots /\ RtPendingSlots \ {s} = RtPendingSlots /\ FillSlot(s, t)
  BY DEF IngestPair, RtPendingSlots
<1>2. /\ Lists(PendingInOrder', RtPendingSlots', rtSeq')
      /\ Named(PendingInOrder, rtPub)' = Append(Named(PendingInOrder, rtPub), Published + 1)
  BY <1>1, Listed, FillList
<1>3. Len(Named(PendingInOrder, rtPub)) < RtDepth
  BY <1>1, QueueFull
<1>4. RefinementInv'
  BY <1>1, <1>2 DEF RefinementInv, FillSlot
<1>5. Queue!Enqueue(Published + 1)
  BY <1>1, <1>2, <1>3 DEF Queue!Enqueue, FillSlot
<1> QED
  BY <1>4, <1>5

(* A pair that replaces the oldest one is an item the full queue takes.    *)
LEMMA ReplaceRefines ==
  ASSUME IInv, RefinementInv, NEW s \in RtSlots, NEW t,
         RtPendingSlots = RtSlots, PublishRealtime(s, t)
  PROVE  RefinementInv' /\ Queue!Push(Published + 1)
<1> DEFINE o == PendingInOrder
<1>1. Oldest(s, RtSlots) /\ FillSlot(s, t)
  BY DEF PublishRealtime
<1>2. /\ Lists(o, RtSlots, rtSeq) /\ RtSlots # {}
      /\ \A u \in RtSlots : rtSeq[u] \in Nat /\ rtPub[u] \in Nat
      /\ Len(Named(o, rtPub)) = RtDepth
  BY Listed, QueueFull
<1>3. /\ o[1] \in RtSlots /\ \A u \in RtSlots : rtSeq[o[1]] <= rtSeq[u]
      /\ Lists(Tail(o), RtSlots \ {o[1]}, rtSeq)
      /\ Named(Tail(o), rtPub) = Tail(Named(o, rtPub))
  <2>1. /\ o # <<>> /\ o[1] \in RtSlots /\ \A u \in RtSlots : rtSeq[o[1]] <= rtSeq[u]
        /\ Lists(Tail(o), RtSlots \ {o[1]}, rtSeq)
    BY <1>2, ListTail
  <2> QED
    BY <1>2, <2>1, NamedTail DEF Lists
<1>4. s = o[1]
  <2>1. rtSeq[s] = rtSeq[o[1]]
    BY <1>1, <1>2, <1>3 DEF Oldest
  <2>2. rtPending[s] /\ rtPending[o[1]]
    BY <1>3 DEF RtPendingSlots
  <2> QED
    BY <1>3, <2>1, <2>2 DEF IInv, OrderInv
<1>5. /\ Lists(PendingInOrder', RtPendingSlots', rtSeq')
      /\ Named(PendingInOrder, rtPub)' = Append(Tail(Named(o, rtPub)), Published + 1)
  BY <1>1, <1>3, <1>4, FillList
<1>6. RefinementInv'
  BY <1>1, <1>5 DEF RefinementInv, FillSlot
<1>7. Queue!Push(Published + 1)
  <2>1. ~(Len(Named(PendingInOrder, rtPub)) < RtDepth)
    BY <1>2
  <2>2. UNCHANGED <<stPending, stPub, rtBurst, nextState, selClass, selPub>>
    BY <1>1 DEF FillSlot
  <2> HIDE DEF o
  <2>3. Named(PendingInOrder, rtPub)' =
          IF Len(Named(PendingInOrder, rtPub)) < RtDepth
          THEN Append(Named(PendingInOrder, rtPub), Published + 1)
          ELSE Append(Tail(Named(PendingInOrder, rtPub)), Published + 1)
    BY <1>5, <2>1, Zenon DEF o
  <2>4. UNCHANGED <<[c \in Mailboxes |-> IF stPending[c] THEN stPub[c] ELSE 0],
                    rtBurst, nextState, [class |-> selClass, item |-> selPub]>>
    BY <2>2
  <2> QED
    BY <2>3, <2>4, Zenon DEF Queue!Push
<1> QED
  BY <1>6, <1>7

LEMMA PublishStateRefines ==
  ASSUME IInv, RefinementInv, NEW c \in Mailboxes, PublishState(c)
  PROVE  RefinementInv' /\ Queue!Post(c, Published + 1)
<1> USE DEF PublishState
<1>1. RtPendingSlots' = RtPendingSlots /\ PendingInOrder' = PendingInOrder
  BY DEF RtPendingSlots, PendingInOrder
<1>2. \A d \in Mailboxes :
        IF d = c THEN stPending'[d] /\ stPub'[d] = Published + 1 /\ stGen'[d] = generation
        ELSE stPending'[d] = stPending[d] /\ stPub'[d] = stPub[d] /\ stGen'[d] = stGen[d]
  BY DEF IInv, TypeOK
<1>3. RefinementInv'
  BY <1>1, <1>2 DEF RefinementInv
<1>4. Queue!Post(c, Published + 1)
  BY <1>1, <1>2 DEF Queue!Post
<1> QED
  BY <1>3, <1>4

LEMMA TickRefines ==
  ASSUME RefinementInv, Tick \/ UNCHANGED schedVars
  PROVE  RefinementInv' /\ UNCHANGED Queue!queueVars
<1> USE DEF Tick
<1>1. RtPendingSlots' = RtPendingSlots /\ PendingInOrder' = PendingInOrder
  BY DEF RtPendingSlots, PendingInOrder
<1> QED
  BY <1>1 DEF RefinementInv, Queue!queueVars

(* Selection: the pairs that went stale are the items that expire, and the *)
(* choice is the one TxQueue makes.                                        *)
LEMMA SelectRefines ==
  ASSUME IInv, RefinementInv, NEW eligible \in SUBSET Classes, Select(eligible)
  PROVE  /\ RefinementInv'
         /\ \E expired \in SUBSET (1 .. Len(Named(PendingInOrder, rtPub))) :
               Queue!ChooseNext(eligible, expired)
<1> DEFINE o == PendingInOrder
           q == Named(o, rtPub)
           N == Len(q)
           live == RtPendingSlots \ StaleRt
           expired == {i \in 1 .. N : o[i] \in StaleRt}
           keep == CHOOSE f : f = [i \in 0 .. N |-> KeepStep(q, f, expired, i)]
<1>1. /\ Lists(o, RtPendingSlots, rtSeq) /\ o \in Seq(RtPendingSlots) /\ Len(o) = N /\ N \in Nat
      /\ \A s \in RtPendingSlots : rtSeq[s] \in Nat /\ rtPub[s] \in Nat
  BY Listed, LenProperties
<1>2. StaleSt = {}
  BY DEF StaleSt, RefinementInv
<1>3. RtPendingSlots' = live
  BY DEF Select, RtPendingSlots, StaleRt
<1>4. keep = [i \in 0 .. N |-> KeepStep(q, keep, expired, i)]
  <2>1. N \in Nat
    BY <1>1
  <2> HIDE DEF N, q, expired
  <2> QED
    BY <2>1, KeepExists
<1>5. Queue!Kept(expired) = keep[N]
  BY DEF Queue!Kept, KeepStep
<1> HIDE DEF keep
<1>6. live = Remaining(o, expired)
  <2>1. \A i \in 1 .. Len(o) : o[i] \in RtPendingSlots
    BY <1>1, ElementOfSeq
  <2>2. \A s \in RtPendingSlots : \E i \in 1 .. Len(o) : o[i] = s
    BY <1>1 DEF Lists
  <2> QED
    BY <1>1, <2>1, <2>2 DEF Remaining
<1>7. PICK k : Lists(k, live, rtSeq) /\ Named(k, rtPub) = keep[N]
  <2>1. IsKeep(keep, Named(o, rtPub), Len(o), expired)
    BY <1>1, <1>4 DEF IsKeep
  <2>2. \A s \in RtPendingSlots : rtSeq[s] \in Nat
    BY <1>1
  <2>3. Lists(o, RtPendingSlots, rtSeq)
    BY <1>1
  <2> HIDE DEF expired, live, o
  <2>4. \E k : Lists(k, Remaining(o, expired), rtSeq) /\ Named(k, rtPub) = keep[Len(o)]
    BY <2>1, <2>2, <2>3, ListKept
  <2> QED
    BY <1>1, <1>6, <2>4
<1>8. PendingInOrder' = k /\ Named(PendingInOrder, rtPub)' = keep[N]
  <2>1. \A s \in live : rtSeq'[s] \in Nat
    BY <1>1 DEF Select
  <2>2. rtSeq' = rtSeq /\ rtPub' = rtPub
    BY DEF Select
  <2>3. ListOf(live, rtSeq) = k
    BY <1>7, <2>1, <2>2, ListOfIs
  <2> QED
    BY <1>3, <1>7, <2>2, <2>3 DEF PendingInOrder
<1>9. RefinementInv'
  BY <1>3, <1>7, <1>8 DEF RefinementInv, Select
<1> DEFINE waiting == Waiting(eligible)
<1>10. Queue!WaitingBoxes(eligible) = waiting /\ waiting \subseteq Mailboxes
  <2>1. \A c \in Mailboxes :
          stPending[c] <=> [d \in Mailboxes |-> IF stPending[d] THEN stPub[d] ELSE 0][c] # 0
    BY Listed
  <2> QED
    BY <1>2, <2>1 DEF Queue!WaitingBoxes, Queue!Boxes, Waiting, Mailboxes
<1>a. ASSUME live # {}
      PROVE  /\ k # <<>> /\ k[1] \in live /\ \A t \in live : rtSeq[k[1]] <= rtSeq[t]
             /\ keep[N] # <<>> /\ Head(keep[N]) = rtPub[k[1]]
  <2>1. Lists(k, live, rtSeq)
    BY <1>7
  <2>2. \A t \in live : rtSeq[t] \in Nat
    BY <1>1
  <2> HIDE DEF live
  <2>3. k # <<>> /\ k[1] \in live /\ \A t \in live : rtSeq[k[1]] <= rtSeq[t]
    BY <1>a, <2>1, <2>2, ListTail
  <2>4. k \in Seq(live)
    BY <2>1 DEF Lists
  <2>5. Named(k, rtPub) # <<>> /\ Head(Named(k, rtPub)) = rtPub[k[1]]
    BY <2>3, <2>4, NamedTail
  <2> QED
    BY <1>7, <2>3, <2>5
<1>11. keep[N] # <<>> <=> live # {}
  <2>1. CASE live = {}
    <3>1. k \in Seq({})
      BY <1>7, <2>1 DEF Lists
    <3>2. k = <<>>
      <4>1. SUFFICES ASSUME k # <<>> PROVE FALSE
        OBVIOUS
      <4>2. 1 \in 1 .. Len(k)
        BY <3>1, <4>1, EmptySeq
      <4> QED
        BY <3>1, <4>2, ElementOfSeq
    <3>3. Named(<<>>, rtPub) = <<>>
      BY NoneListed
    <3> QED
      BY <1>7, <2>1, <3>2, <3>3
  <2>2. CASE live # {}
    BY <1>a, <2>2
  <2> QED
    BY <2>1, <2>2
<1>12. ASSUME NEW s \in live, Oldest(s, live) PROVE rtPub[s] = Head(keep[N])
  <2>1. /\ k # <<>> /\ k[1] \in live /\ \A t \in live : rtSeq[k[1]] <= rtSeq[t]
        /\ Head(keep[N]) = rtPub[k[1]]
    BY <1>12, <1>a
  <2>3. rtSeq[s] = rtSeq[k[1]]
    BY <1>1, <1>12, <2>1 DEF Oldest
  <2>4. s = k[1]
    BY <1>12, <2>1, <2>3 DEF RtPendingSlots, IInv, OrderInv
  <2> QED
    BY <2>1, <2>4
<1> DEFINE chosen == [class |-> selClass, item |-> selPub]
           mail == [c \in Mailboxes |-> IF stPending[c] THEN stPub[c] ELSE 0]
<1>13. chosen' = Queue!Choice(eligible, keep[N])
  <2>1. Choose(live, waiting, eligible)
    BY DEF Select
  <2>2. \A c \in waiting : mail[c] = stPub[c]
    BY DEF Waiting
  <2>3. waiting # {} => Turn(waiting) \in waiting
    BY <1>10 DEF Turn, Other, Mailboxes, IInv, TypeOK
  <2>4. Turn(waiting) = IF nextState \in waiting THEN nextState ELSE Queue!OtherBox(nextState)
    BY DEF Turn, Other, Queue!OtherBox
  <2>5. Queue!RealtimeGoes(eligible, keep[N]) <=>
          "REALTIME" \in eligible /\ live # {} /\ RealtimeFirst(waiting)
    BY <1>10, <1>11 DEF Queue!RealtimeGoes, RealtimeFirst
  <2> HIDE DEF live, waiting, keep, mail
  <2>6. CASE Queue!RealtimeGoes(eligible, keep[N])
    <3>1. PICK s \in live : Oldest(s, live) /\ selClass' = "REALTIME" /\ selPub' = rtPub[s]
      BY <2>1, <2>5, <2>6 DEF Choose
    <3>2. selPub' = Head(keep[N])
      BY <1>12, <3>1
    <3> QED
      BY <2>6, <3>1, <3>2 DEF Queue!Choice
  <2>7. CASE ~Queue!RealtimeGoes(eligible, keep[N]) /\ waiting # {}
    <3>1. selClass' = Turn(waiting) /\ selPub' = stPub[Turn(waiting)]
      BY <2>1, <2>5, <2>7 DEF Choose
    <3>2. selPub' = mail[Turn(waiting)]
      BY <2>2, <2>3, <2>7, <3>1
    <3> QED
      BY <1>10, <2>4, <2>7, <3>1, <3>2 DEF Queue!Choice, mail
  <2>8. CASE ~Queue!RealtimeGoes(eligible, keep[N]) /\ waiting = {}
    <3>1. selClass' = "NONE" /\ selPub' = 0
      BY <2>1, <2>5, <2>8 DEF Choose, ClearSelection
    <3> QED
      BY <1>10, <2>8, <3>1 DEF Queue!Choice, Queue!NoChoice
  <2> QED
    BY <2>6, <2>7, <2>8
<1>14. mail' = mail /\ UNCHANGED <<rtBurst, nextState>>
  BY <1>2 DEF Select, IInv, TypeOK
<1>15. Queue!ChooseNext(eligible, expired)
  <2> HIDE DEF expired, N, q, o
  <2> QED
    BY <1>5, <1>8, <1>13, <1>14 DEF Queue!ChooseNext
<1>16. expired \in SUBSET (1 .. N)
  OBVIOUS
<1> QED
  BY <1>9, <1>15, <1>16

(* What is settled is what TxQueue lets leave.                             *)
LEMMA FinishRefines ==
  ASSUME IInv, RefinementInv, NEW result \in Results, NEW keep \in BOOLEAN, Finish(result, keep)
  PROVE  RefinementInv' /\ \E taken, sent \in BOOLEAN : Queue!Settle(taken, sent)
<1> DEFINE o == PendingInOrder
           q == Named(o, rtPub)
           mail == [c \in Mailboxes |-> IF stPending[c] THEN stPub[c] ELSE 0]
           chosen == [class |-> selClass, item |-> selPub]
<1>1. /\ Lists(o, RtPendingSlots, rtSeq) /\ o \in Seq(RtPendingSlots)
      /\ \A s \in RtPendingSlots : rtSeq[s] \in Nat
  BY Listed
<1>2. chosen # Queue!NoChoice /\ chosen' \in {chosen, Queue!NoChoice}
  <2>1. selClass # "NONE" /\ (UNCHANGED sel \/ ClearSelection)
    BY DEF Finish
  <2> QED
    BY <2>1 DEF Queue!NoChoice, ClearSelection
<1>3. CASE SelectionIsCurrent /\ result # "RETRY" /\ FinishRealtime
  <2>1. /\ selClass = "REALTIME" /\ selSlot \in RtPendingSlots /\ rtPub[selSlot] = selPub
        /\ \A t \in RtPendingSlots : rtSeq[selSlot] <= rtSeq[t]
    BY <1>3, CurrentNames
    DEF SelectionNames, SelectionIsCurrent, FinishRealtime, IInv, TypeOK, OrderInv,
        PairSelected, RtPendingSlots
  <2>2. /\ o # <<>> /\ o[1] \in RtPendingSlots
        /\ \A t \in RtPendingSlots : rtSeq[o[1]] <= rtSeq[t]
        /\ Lists(Tail(o), RtPendingSlots \ {o[1]}, rtSeq)
    <3>1. RtPendingSlots # {}
      BY <2>1
    <3> QED
      BY <1>1, <3>1, ListTail
  <2>3. selSlot = o[1]
    <3>1. rtSeq[selSlot] = rtSeq[o[1]]
      BY <1>1, <2>1, <2>2
    <3> QED
      BY <2>1, <2>2, <3>1 DEF IInv, OrderInv, RtPendingSlots
  <2>4. q # <<>> /\ Head(q) = selPub /\ Named(Tail(o), rtPub) = Tail(q)
    BY <1>1, <2>1, <2>2, <2>3, NamedTail
  <2>5. /\ RtPendingSlots' = RtPendingSlots \ {o[1]} /\ rtSeq' = rtSeq /\ rtPub' = rtPub
        /\ UNCHANGED <<nextState, stPending, stPub, stGen, generation>>
        /\ rtBurst' = IF rtBurst < BurstCap THEN rtBurst + 1 ELSE rtBurst
    BY <1>3, <2>3 DEF Finish, FinishOnly, FinishRealtime, RtPendingSlots, IInv, TypeOK
  <2>6. PendingInOrder' = Tail(o) /\ Lists(Tail(o), RtPendingSlots', rtSeq')
    <3>1. \A s \in RtPendingSlots' : rtSeq'[s] \in Nat
      BY <1>1, <2>5
    <3>2. Lists(Tail(o), RtPendingSlots', rtSeq')
      BY <2>2, <2>5
    <3> QED
      BY <3>1, <3>2, ListOfIs DEF PendingInOrder
  <2>7. RefinementInv'
    BY <2>5, <2>6 DEF RefinementInv
  <2>8. Named(PendingInOrder, rtPub)' = Tail(q) /\ mail' = mail
    BY <2>4, <2>5, <2>6
  <2> HIDE DEF o
  <2>9. Queue!Settle(TRUE, TRUE)
    BY <1>2, <2>1, <2>4, <2>5, <2>8 DEF Queue!Settle, Queue!Take, Queue!ChosenIsThere, o
  <2> QED
    BY <2>7, <2>9
<1>4. ASSUME UNCHANGED <<rtPending, rtSeq, rtPub>>
      PROVE  RtPendingSlots' = RtPendingSlots /\ PendingInOrder' = o /\ q' = q
  BY <1>4 DEF RtPendingSlots, PendingInOrder
<1>5. CASE SelectionIsCurrent /\ result # "RETRY" /\ (SendState \/ DropState)
  <2>1. /\ selClass \in Mailboxes /\ selClass # "REALTIME"
        /\ stPending[selClass] /\ stPub[selClass] = selPub
    BY <1>5, CurrentNames
    DEF SelectionNames, SelectionIsCurrent, SendState, DropState, Mailboxes
  <2>2. /\ UNCHANGED <<rtPending, rtSeq, rtPub, stPub, stGen, generation>>
        /\ stPending' = [stPending EXCEPT ![selClass] = FALSE]
        /\ \/ SendState /\ rtBurst' = 0 /\ nextState' = Other(selClass)
           \/ DropState /\ UNCHANGED <<rtBurst, nextState>>
    BY <1>5 DEF Finish, FinishOnly, SendState, DropState
  <2>3. RtPendingSlots' = RtPendingSlots /\ PendingInOrder' = o /\ q' = q
    BY <1>4, <2>2
  <2>4. RefinementInv'
    BY <2>2, <2>3 DEF RefinementInv, IInv, TypeOK
  <2>5. mail' = [mail EXCEPT ![selClass] = 0]
    BY <2>1, <2>2 DEF IInv, TypeOK
  <2>6. mail[selClass] = selPub
    BY <2>1
  <2>7. Other(selClass) = Queue!OtherBox(selClass)
    BY DEF Other, Queue!OtherBox
  <2> HIDE DEF mail
  <2>8. CASE SendState /\ rtBurst' = 0 /\ nextState' = Other(selClass)
    <3>1. Queue!Settle(TRUE, TRUE)
      BY <1>2, <2>1, <2>3, <2>5, <2>6, <2>7, <2>8
      DEF Queue!Settle, Queue!Take, Queue!ChosenIsThere, Queue!Boxes, Mailboxes, mail
    <3> QED
      BY <2>4, <3>1
  <2>9. CASE UNCHANGED <<rtBurst, nextState>>
    <3>1. Queue!Settle(TRUE, FALSE)
      BY <1>2, <2>1, <2>3, <2>5, <2>6, <2>9
      DEF Queue!Settle, Queue!Take, Queue!ChosenIsThere, Queue!Boxes, Mailboxes, mail
    <3> QED
      BY <2>4, <3>1
  <2> QED
    BY <2>2, <2>8, <2>9
<1>6. CASE UNCHANGED <<generation, version, rtBurst, nextState, rtVars, stVars,
                       metrics, now, history>>
  <2>1. RtPendingSlots' = RtPendingSlots /\ PendingInOrder' = o /\ q' = q /\ mail' = mail
    BY <1>4, <1>6
  <2>2. RefinementInv'
    BY <1>6, <2>1 DEF RefinementInv
  <2>3. Queue!Settle(FALSE, FALSE)
    BY <1>2, <1>6, <2>1 DEF Queue!Settle
  <2> QED
    BY <2>2, <2>3
<1> QED
  BY <1>3, <1>5, <1>6 DEF Finish, FinishOnly

(* Every step of the scheduler is a step of TxQueue or none.               *)
LEMMA NextRefines ==
  ASSUME IInv, RefinementInv, [Next]_schedVars
  PROVE  RefinementInv' /\ [Queue!QueueNext(1 .. MaxPublications)]_(Queue!queueVars)
<1> DEFINE Items == 1 .. MaxPublications
<1>0. ASSUME MayPublish PROVE Published + 1 \in Items
  <2>1. Published \in Nat
    BY DEF IInv, TypeOK, Published, Counters, Classes, Mailboxes
  <2> QED
    BY <1>0, <2>1 DEF MayPublish
<1> HIDE DEF Items
<1>1. ASSUME NEW g \in generation .. MaxGeneration, Reset(g)
      PROVE  RefinementInv' /\ Queue!QueueNext(Items)
  BY <1>1, ResetRefines DEF Queue!QueueNext
<1>2. ASSUME MayPublish, NEW s \in RtSlots, NEW t \in 0 .. now, IngestPair(s, t)
      PROVE  RefinementInv' /\ Queue!QueueNext(Items)
  <2>1. RefinementInv' /\ Queue!Enqueue(Published + 1)
    BY <1>2, IngestRefines
  <2> QED
    BY <1>0, <1>2, <2>1 DEF Queue!QueueNext
<1>3. ASSUME MayPublish, NEW s \in RtSlots, NEW t \in 0 .. now, PublishRealtime(s, t)
      PROVE  RefinementInv' /\ Queue!QueueNext(Items)
  <2>1. CASE RtPendingSlots = RtSlots
    <3>1. RefinementInv' /\ Queue!Push(Published + 1)
      BY <1>3, <2>1, ReplaceRefines
    <3> QED
      BY <1>0, <1>3, <3>1 DEF Queue!QueueNext
  <2>2. CASE RtPendingSlots # RtSlots
    BY <1>2, <1>3, <2>2 DEF PublishRealtime
  <2> QED
    BY <2>1, <2>2
<1>4. ASSUME MayPublish, NEW c \in Mailboxes, PublishState(c)
      PROVE  RefinementInv' /\ Queue!QueueNext(Items)
  <2>1. RefinementInv' /\ Queue!Post(c, Published + 1)
    BY <1>4, PublishStateRefines
  <2>2. Published + 1 \in Items /\ c \in Queue!Boxes
    BY <1>0, <1>4 DEF Queue!Boxes, Mailboxes
  <2> QED
    <3> DEFINE x == Published + 1
    <3> HIDE DEF x
    <3>1. x \in Items /\ \E d \in Queue!Boxes : Queue!Post(d, x)
      BY <2>1, <2>2 DEF x
    <3> QED
      BY <2>1, <3>1, Zenon DEF Queue!QueueNext, Queue!Post
<1>5. ASSUME NEW eligible \in SUBSET Classes, Select(eligible)
      PROVE  RefinementInv' /\ Queue!QueueNext(Items)
  BY <1>5, SelectRefines
  DEF Queue!QueueNext, Queue!TxClasses, Queue!Boxes, Classes, Mailboxes
<1>6. ASSUME NEW result \in Results, NEW keep \in BOOLEAN, Finish(result, keep)
      PROVE  RefinementInv' /\ Queue!QueueNext(Items)
  BY <1>6, FinishRefines DEF Queue!QueueNext
<1>7. CASE Tick \/ UNCHANGED schedVars
  BY <1>7, TickRefines
<1> QED
  BY <1>1, <1>2, <1>3, <1>4, <1>5, <1>6, <1>7 DEF Next, Items

(* The scheduler is a short queue of pairs and two mailboxes, for every    *)
(* number of slots, burst, version modulus and bound: slots, versions,     *)
(* sequence numbers and generations never do what TxQueue would not.       *)
THEOREM SchedulerImplementsQueue == Spec => ImplementsTxQueue
<1>1. Init => IInv /\ RefinementInv /\ Queue!QueueInit
  BY InitIInv, InitRefines
<1>2. IInv /\ RefinementInv /\ [Next]_schedVars => IInv' /\ RefinementInv'
  BY NextIInv, NextRefines
<1>3. IInv /\ RefinementInv /\ [Next]_schedVars
        => [Queue!QueueNext(1 .. MaxPublications)]_(Queue!queueVars)
  BY NextRefines
<1> QED
  BY <1>1, <1>2, <1>3, PTL DEF Spec, ImplementsTxQueue
=============================================================================
