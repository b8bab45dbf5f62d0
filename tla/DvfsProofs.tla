----------------------------- MODULE DvfsProofs -----------------------------
(* Proofs about the clock governor, for any modulus of the tick counter,   *)
(* any durations, frequencies and bounds.                                  *)
EXTENDS Dvfs, TLAPS

-----------------------------------------------------------------------------
(* The tick counter.  Times are a turn of it; half a turn decides whether  *)
(* a time is still to come.                                                *)

H == Modulus \div 2
Holds == BoostHolds \cup {AudioHold}

LEMMA ConstantsNat ==
  /\ AudioHold \in Nat \ {0} /\ Delay \in Nat \ {0} /\ Residency \in Nat \ {0}
  /\ Residency <= Delay
  /\ MaxLag \in Nat /\ MaxTicks \in Nat /\ Modulus \in Nat
  /\ H \in Nat /\ Modulus = 2 * H /\ MaxTicks + Delay < H
  /\ \A n \in Holds : n \in Nat \ {0} /\ MaxTicks + n < H
<1>1. AudioHold \in {AudioHold, Delay, Residency} \cup BoostHolds
      /\ Delay \in {AudioHold, Delay, Residency} \cup BoostHolds
      /\ Residency \in {AudioHold, Delay, Residency} \cup BoostHolds
  OBVIOUS
<1>2. AudioHold \in Nat \ {0} /\ Delay \in Nat \ {0} /\ Residency \in Nat \ {0}
  BY <1>1, DvfsAssumption, Zenon
<1>3. MaxLag \in Nat /\ MaxTicks \in Nat
  BY DvfsAssumption
<1>4. Modulus \in Nat /\ Modulus % 2 = 0 /\ Residency <= Delay
  BY DvfsAssumption
<1>5. H \in Nat /\ Modulus = 2 * H
  BY <1>4 DEF H
<1>6. MaxTicks + Delay < Modulus \div 2
      /\ \A n \in Holds : MaxTicks + n < Modulus \div 2
  BY DvfsAssumption, Zenon DEF Holds
<1>7. \A n \in Holds : n \in Nat \ {0}
  BY DvfsAssumption, Zenon DEF Holds
<1> QED
  BY ONLY <1>2, <1>3, <1>4, <1>5, <1>6, <1>7 DEF H

LEMMA MhzRange ==
  /\ \A m \in Frequencies : m \in 320 .. 400
  /\ \A m \in Boosts \cup {0} : m = 0 \/ m \in 320 .. 400
  /\ \A m \in Experimental : m \in 401 .. 480
  /\ \A m \in Mhz : m = 0 \/ m \in 320 .. 480
  /\ {DefaultMhz, OneStream, BothStreams} \subseteq Mhz \ {0}
  /\ Frequencies \cup Experimental \subseteq Mhz \ {0} /\ Boosts \subseteq Mhz
<1>1. /\ \A m \in Frequencies : m \in 320 .. 400
      /\ \A m \in Boosts \cup {0} : m = 0 \/ m \in 320 .. 400
  BY DvfsAssumption DEF DefaultMhz, BothStreams
<1>2. \A m \in Experimental : m \in 401 .. 480
  BY DvfsAssumption DEF BothStreams, ExperimentalMax
<1>3. DefaultMhz = 320 /\ OneStream = 384 /\ BothStreams = 400
  BY DEF DefaultMhz, OneStream, BothStreams
<1>4. \A m \in Mhz : m = 0 \/ m \in 320 .. 480
  BY <1>1, <1>2, <1>3 DEF Mhz
<1>5. Frequencies \subseteq Mhz \ {0} /\ Experimental \subseteq Mhz \ {0}
  BY <1>1, <1>2 DEF Mhz
<1> QED
  BY <1>1, <1>2, <1>3, <1>4, <1>5 DEF Mhz

LEMMA Remainders ==
  ASSUME NEW D \in Nat, NEW t \in 0 .. D - 1, NEW n \in 0 .. D - 1
  PROVE  /\ (t + n) % D = IF t + n < D THEN t + n ELSE t + n - D
         /\ (t - n + D) % D = IF n <= t THEN t - n ELSE t - n + D
OBVIOUS

LEMMA PlusIs ==
  ASSUME NEW t \in Times, NEW n \in 0 .. H
  PROVE  /\ Plus(t, n) = IF t + n < Modulus THEN t + n ELSE t + n - Modulus
         /\ Plus(t, n) \in Times
<1>1. n \in 0 .. Modulus - 1 /\ t \in 0 .. Modulus - 1 /\ Modulus \in Nat
  BY ConstantsNat DEF Times
<1>2. Plus(t, n) = IF t + n < Modulus THEN t + n ELSE t + n - Modulus
  <2>1. (t + n) % Modulus = IF t + n < Modulus THEN t + n ELSE t + n - Modulus
    BY ONLY <1>1, Remainders
  <2> QED
    BY <2>1 DEF Plus
<1> QED
  BY <1>1, <1>2, ConstantsNat DEF Times

LEMMA SinceIs ==
  ASSUME NEW t \in Times, NEW u \in Times
  PROVE  /\ Since(t, u) = IF u <= t THEN t - u ELSE t - u + Modulus
         /\ Since(t, u) \in 0 .. Modulus - 1
         /\ Before(t, u) <=> Since(t, u) >= H
<1>1. Since(t, u) = IF u <= t THEN t - u ELSE t - u + Modulus
  <2>1. t \in 0 .. Modulus - 1 /\ u \in 0 .. Modulus - 1 /\ Modulus \in Nat
    BY ConstantsNat DEF Times
  <2>2. (t - u + Modulus) % Modulus = IF u <= t THEN t - u ELSE t - u + Modulus
    BY ONLY <2>1, Remainders
  <2> QED
    BY <2>2 DEF Since
<1> QED
  BY <1>1, ConstantsNat DEF Before, Times, H

(* A time that was set a hold ahead at most, k ticks ago at most.          *)
Lease(u, t, k) ==
    u \in Times /\ (Since(t, u) <= k \/ \E n \in Holds : Since(u, t) <= n)

LEMMA LeaseAhead ==
  ASSUME NEW t \in Times, NEW n \in Holds, NEW k \in Nat
  PROVE  /\ Plus(t, n) \in Times /\ Lease(Plus(t, n), t, k)
         /\ Since(Plus(t, n), t) = n /\ Before(t, Plus(t, n))
<1>1. n \in 0 .. H /\ n < H /\ n # 0
  BY ConstantsNat
<1>2. Plus(t, n) \in Times
      /\ Plus(t, n) = IF t + n < Modulus THEN t + n ELSE t + n - Modulus
  BY <1>1, PlusIs
<1>3. /\ Since(t, Plus(t, n)) =
            IF Plus(t, n) <= t THEN t - Plus(t, n) ELSE t - Plus(t, n) + Modulus
      /\ Since(Plus(t, n), t) =
            IF t <= Plus(t, n) THEN Plus(t, n) - t ELSE Plus(t, n) - t + Modulus
      /\ Before(t, Plus(t, n)) <=> Since(t, Plus(t, n)) >= H
  BY <1>2, SinceIs
<1>4. Since(Plus(t, n), t) = n /\ Since(t, Plus(t, n)) >= H
  BY ONLY <1>1, <1>2, <1>3, ConstantsNat, t \in Times DEF Times
<1> QED
  BY <1>1, <1>2, <1>3, <1>4 DEF Lease

(* Before is what it says of a lease: time that is left goes by, and what  *)
(* has ended does not come back.                                           *)
LEMMA LeaseIs ==
  ASSUME NEW t \in Times, NEW k \in 0 .. MaxTicks, NEW u, Lease(u, t, k)
  PROVE  /\ Before(t, u) => Since(u, t) \in 1 .. H - 1
         /\ ~Before(t, u) => Since(t, u) \in 0 .. k
<1>1. u \in Times
  BY DEF Lease
<1>2. /\ Since(t, u) = IF u <= t THEN t - u ELSE t - u + Modulus
      /\ Since(u, t) = IF t <= u THEN u - t ELSE u - t + Modulus
      /\ Before(t, u) <=> Since(t, u) >= H
  BY <1>1, SinceIs
<1>3. CASE Since(t, u) <= k
  BY <1>1, <1>2, <1>3, ConstantsNat DEF Times
<1>4. CASE \E n \in Holds : Since(u, t) <= n
  <2>1. Since(u, t) < H
    <3>1. PICK n \in Holds : Since(u, t) <= n
      BY <1>4
    <3>2. n \in Nat /\ n < H
      BY ConstantsNat
    <3> QED
      BY <3>1, <3>2, <1>1, SinceIs, ConstantsNat DEF Times
  <2> QED
    BY <2>1, <1>1, <1>2, ConstantsNat DEF Times
<1> QED
  BY <1>3, <1>4 DEF Lease

LEMMA LeaseTick ==
  ASSUME NEW t \in Times, NEW k \in 0 .. MaxTicks - 1, NEW u, Lease(u, t, k)
  PROVE  /\ Lease(u, Plus(t, 1), k + 1)
         /\ Before(Plus(t, 1), u) => Before(t, u)
         /\ Before(t, u) => Since(u, Plus(t, 1)) = Since(u, t) - 1
         /\ Before(t, u) /\ Since(u, t) > 1 => Before(Plus(t, 1), u)
<1>1. u \in Times /\ Plus(t, 1) \in Times
      /\ Plus(t, 1) = IF t + 1 < Modulus THEN t + 1 ELSE t + 1 - Modulus
  BY PlusIs, ConstantsNat DEF Lease
<1>2. /\ Since(t, u) = IF u <= t THEN t - u ELSE t - u + Modulus
      /\ Since(u, t) = IF t <= u THEN u - t ELSE u - t + Modulus
      /\ Before(t, u) <=> Since(t, u) >= H
  BY <1>1, SinceIs
<1>3. /\ Since(Plus(t, 1), u) = IF u <= Plus(t, 1) THEN Plus(t, 1) - u ELSE Plus(t, 1) - u + Modulus
      /\ Since(u, Plus(t, 1)) = IF Plus(t, 1) <= u THEN u - Plus(t, 1) ELSE u - Plus(t, 1) + Modulus
      /\ Before(Plus(t, 1), u) <=> Since(Plus(t, 1), u) >= H
  BY <1>1, SinceIs
<1>4. k \in 0 .. MaxTicks /\ MaxTicks < H /\ k + 1 \in 0 .. MaxTicks
  BY ConstantsNat
<1>5. /\ Before(t, u) => Since(u, t) \in 1 .. H - 1
      /\ ~Before(t, u) => Since(t, u) \in 0 .. k
  BY <1>4, LeaseIs
<1>6. CASE Before(t, u)
  <2>1. Since(u, Plus(t, 1)) = Since(u, t) - 1
    BY ONLY <1>1, <1>2, <1>3, <1>4, <1>5, <1>6, ConstantsNat DEF Times
  <2>2. Since(u, t) > 1 => Before(Plus(t, 1), u)
    BY ONLY <1>1, <1>2, <1>3, <1>4, <1>5, <1>6, ConstantsNat DEF Times
  <2>3. Lease(u, Plus(t, 1), k + 1)
    <3>1. CASE \E n \in Holds : Since(u, t) <= n
      <4>1. PICK n \in Holds : Since(u, t) <= n
        BY <3>1
      <4>2. n \in Nat
        BY ConstantsNat
      <4>3. Since(u, Plus(t, 1)) <= n
        BY <2>1, <4>1, <4>2, <1>5, <1>6, ConstantsNat
      <4> QED
        BY <4>3, <1>1 DEF Lease
    <3>2. CASE Since(t, u) <= k
      BY <3>2, <1>6, <1>2, <1>1, <1>4, ConstantsNat DEF Times
    <3> QED
      BY <3>1, <3>2 DEF Lease
  <2> QED
    BY <2>1, <2>2, <2>3, <1>6
<1>7. CASE ~Before(t, u)
  <2>1. Since(Plus(t, 1), u) = Since(t, u) + 1 /\ Since(t, u) + 1 <= k + 1
    BY ONLY <1>1, <1>2, <1>3, <1>4, <1>5, <1>7, ConstantsNat DEF Times
  <2>2. ~Before(Plus(t, 1), u)
    BY <2>1, <1>3, <1>4, <1>5, <1>7, ConstantsNat
  <2> QED
    BY <2>1, <2>2, <1>1, <1>7 DEF Lease
<1> QED
  BY <1>6, <1>7

(* The age of a time that is k ticks past at most.                         *)
LEMMA AgeTick ==
  ASSUME NEW t \in Times, NEW u \in Times, NEW k \in 0 .. MaxTicks - 1,
         Since(t, u) <= k
  PROVE  Since(Plus(t, 1), u) = Since(t, u) + 1
<1>1. Plus(t, 1) \in Times
      /\ Plus(t, 1) = IF t + 1 < Modulus THEN t + 1 ELSE t + 1 - Modulus
  BY PlusIs, ConstantsNat
<1>2. /\ Since(t, u) = IF u <= t THEN t - u ELSE t - u + Modulus
      /\ Since(Plus(t, 1), u) = IF u <= Plus(t, 1) THEN Plus(t, 1) - u ELSE Plus(t, 1) - u + Modulus
  BY <1>1, SinceIs
<1> QED
  BY ONLY <1>1, <1>2, ConstantsNat, t \in Times, u \in Times, Since(t, u) <= k,
          k \in 0 .. MaxTicks - 1 DEF Times

LEMMA AgesCompare ==
  ASSUME NEW t \in Times, NEW u \in Times, NEW v \in Times,
         Since(t, v) <= Since(t, u), Since(t, u) < H
  PROVE  Since(v, u) = Since(t, u) - Since(t, v)
<1>1. /\ Since(t, u) = IF u <= t THEN t - u ELSE t - u + Modulus
      /\ Since(t, v) = IF v <= t THEN t - v ELSE t - v + Modulus
      /\ Since(v, u) = IF u <= v THEN v - u ELSE v - u + Modulus
  BY SinceIs
<1> QED
  BY ONLY <1>1, ConstantsNat, t \in Times, u \in Times, v \in Times,
          Since(t, v) <= Since(t, u), Since(t, u) < H DEF Times

LEMMA NoAge == ASSUME NEW t \in Times PROVE Since(t, t) = 0
BY SinceIs, ConstantsNat DEF Times

(* The deadline of a delay that began at u.                                *)
LEMMA DeadlineIs ==
  ASSUME NEW t \in Times, NEW u \in Times, Since(t, u) <= MaxTicks
  PROVE  /\ Before(t, Plus(u, Delay)) <=> Since(t, u) < Delay
         /\ Since(t, u) < Delay => Since(Plus(u, Delay), t) = Delay - Since(t, u)
<1>1. Delay \in 0 .. H /\ MaxTicks + Delay < H
  BY ConstantsNat
<1>2. Plus(u, Delay) \in Times
      /\ Plus(u, Delay) = IF u + Delay < Modulus THEN u + Delay ELSE u + Delay - Modulus
  BY <1>1, PlusIs
<1>3. /\ Since(t, u) = IF u <= t THEN t - u ELSE t - u + Modulus
      /\ Before(t, Plus(u, Delay)) <=> Since(t, Plus(u, Delay)) >= H
      /\ Since(t, Plus(u, Delay)) =
            IF Plus(u, Delay) <= t THEN t - Plus(u, Delay) ELSE t - Plus(u, Delay) + Modulus
      /\ Since(Plus(u, Delay), t) =
            IF t <= Plus(u, Delay) THEN Plus(u, Delay) - t ELSE Plus(u, Delay) - t + Modulus
  BY <1>2, SinceIs
<1> QED
  BY ONLY <1>1, <1>2, <1>3, ConstantsNat, t \in Times, u \in Times, Since(t, u) <= MaxTicks DEF Times

-----------------------------------------------------------------------------
(* What is asked for                                                       *)

LEMMA MinOfTwo ==
  ASSUME NEW a \in Int, NEW b \in Int
  PROVE  /\ Min({a, b}) \in {a, b} /\ Min({a, b}) <= a /\ Min({a, b}) <= b
         /\ Max({a, b}) \in {a, b} /\ Max({a, b}) >= a /\ Max({a, b}) >= b
<1>1. \E x \in {a, b} : \A y \in {a, b} : x <= y
  <2>1. CASE a <= b
    BY <2>1
  <2>2. CASE b <= a
    BY <2>2
  <2> QED
    BY <2>1, <2>2
<1>2. \E x \in {a, b} : \A y \in {a, b} : x >= y
  <2>1. CASE a >= b
    BY <2>1
  <2>2. CASE b >= a
    BY <2>2
  <2> QED
    BY <2>1, <2>2
<1> QED
  BY <1>1, <1>2 DEF Min, Max

LEMMA MinOfOne == ASSUME NEW a \in Int PROVE Min({a}) = a
BY DEF Min

(* The greatest of what the governor asks for.                             *)
LEMMA FloorMax ==
  ASSUME NEW a \in Int, NEW b \in Int, NEW c \in BOOLEAN
  PROVE  LET S == {DefaultMhz, a} \cup (IF c THEN {b} ELSE {})
         IN  Max(S) \in S /\ \A x \in S : Max(S) >= x
<1> DEFINE S == {DefaultMhz, a} \cup (IF c THEN {b} ELSE {})
<1>1. \E x \in S : \A y \in S : x >= y
  <2>1. DefaultMhz \in Int
    BY DEF DefaultMhz
  <2>2. CASE c
    <3>1. S = {DefaultMhz, a, b}
      BY <2>2
    <3>2. \E x \in {DefaultMhz, a, b} : \A y \in {DefaultMhz, a, b} : x >= y
      <4>1. CASE DefaultMhz >= a /\ DefaultMhz >= b
        BY <4>1, <2>1
      <4>2. CASE a >= DefaultMhz /\ a >= b
        BY <4>2, <2>1
      <4>3. CASE b >= DefaultMhz /\ b >= a
        BY <4>3, <2>1
      <4> QED
        BY <4>1, <4>2, <4>3, <2>1
    <3> QED
      BY <3>1, <3>2
  <2>3. CASE ~c
    <3>1. S = {DefaultMhz, a}
      BY <2>3
    <3>2. \E x \in {DefaultMhz, a} : \A y \in {DefaultMhz, a} : x >= y
      <4>1. CASE DefaultMhz >= a
        BY <4>1, <2>1
      <4>2. CASE a >= DefaultMhz
        BY <4>2, <2>1
      <4> QED
        BY <4>1, <4>2, <2>1
    <3> QED
      BY <3>1, <3>2
  <2> QED
    BY <2>2, <2>3
<1>2. Max(S) \in S /\ \A x \in S : Max(S) >= x
  BY <1>1 DEF Max
<1> QED
  BY <1>2

(* More streams ask for more, and fewer never for as much.                 *)
LEMMA AudioFloorGrows ==
  ASSUME NEW A \in SUBSET Streams, NEW B \in SUBSET A
  PROVE  /\ AudioFloor(A) \in {0, OneStream, BothStreams}
         /\ AudioFloor(B) <= AudioFloor(A)
         /\ AudioFloor(B) = AudioFloor(A) => B = A
<1>1. A \in {{}, {"SPEAKER"}, {"MIC"}, Streams} /\ B \in {{}, {"SPEAKER"}, {"MIC"}, Streams}
  <2>1. \A X \in SUBSET Streams : X \in {{}, {"SPEAKER"}, {"MIC"}, Streams}
    <3>1. SUFFICES ASSUME NEW X \in SUBSET Streams
                   PROVE  X \in {{}, {"SPEAKER"}, {"MIC"}, Streams}
      OBVIOUS
    <3>2. CASE "SPEAKER" \in X /\ "MIC" \in X
      BY <3>2 DEF Streams
    <3>3. CASE "SPEAKER" \in X /\ "MIC" \notin X
      BY <3>3 DEF Streams
    <3>4. CASE "SPEAKER" \notin X /\ "MIC" \in X
      BY <3>4 DEF Streams
    <3>5. CASE "SPEAKER" \notin X /\ "MIC" \notin X
      BY <3>5 DEF Streams
    <3> QED
      BY <3>2, <3>3, <3>4, <3>5
  <2> QED
    BY <2>1
<1>2. /\ AudioFloor({}) = 0 /\ AudioFloor(Streams) = BothStreams
      /\ AudioFloor({"SPEAKER"}) = OneStream /\ AudioFloor({"MIC"}) = OneStream
  <2>1. {} # Streams /\ {"SPEAKER"} # Streams /\ {"MIC"} # Streams
        /\ {"SPEAKER"} # {} /\ {"MIC"} # {}
    BY DEF Streams
  <2> QED
    BY <2>1 DEF AudioFloor
<1>3. 0 < OneStream /\ OneStream < BothStreams
      /\ OneStream \in Nat /\ BothStreams \in Nat
  BY DEF OneStream, BothStreams
<1>5. CASE A = Streams
  BY <1>1, <1>2, <1>3, <1>5
<1>6. CASE A = {}
  BY <1>2, <1>3, <1>6
<1>7. CASE A = {"SPEAKER"}
  <2>1. B = {} \/ B = A
    BY <1>7
  <2>2. CASE B = {}
    BY ONLY <2>2, <1>2, <1>3, <1>7
  <2>3. CASE B = A
    BY ONLY <2>3, <1>2, <1>3, <1>7
  <2> QED
    BY <2>1, <2>2, <2>3
<1>8. CASE A = {"MIC"}
  <2>1. B = {} \/ B = A
    BY <1>8
  <2>2. CASE B = {}
    BY ONLY <2>2, <1>2, <1>3, <1>8
  <2>3. CASE B = A
    BY ONLY <2>3, <1>2, <1>3, <1>8
  <2> QED
    BY <2>1, <2>2, <2>3
<1> QED
  BY <1>1, <1>5, <1>6, <1>7, <1>8

LEMMA FloorIs ==
  ASSUME Running(now) \in SUBSET Streams, boost \in Int
  PROVE  /\ Floor(now) \in Int
         /\ \/ Floor(now) = DefaultMhz \/ Floor(now) = AudioFloor(Running(now))
            \/ Boosted(now) /\ Floor(now) = boost
         /\ Floor(now) >= DefaultMhz /\ Floor(now) >= AudioFloor(Running(now))
         /\ Boosted(now) => Floor(now) >= boost
<1> DEFINE a == AudioFloor(Running(now))
           c == Boosted(now)
<1>1. a \in Int /\ DefaultMhz \in Int
  BY AudioFloorGrows DEF OneStream, BothStreams, DefaultMhz
<1>2. c \in BOOLEAN
  BY DEF Boosted
<1> DEFINE S == {DefaultMhz, a} \cup (IF c THEN {boost} ELSE {})
<1>3. Floor(now) = Max(S)
  BY DEF Floor
<1> HIDE DEF a, c
<1>4. Max(S) \in S /\ \A x \in S : Max(S) >= x
  BY <1>1, <1>2, FloorMax
<1>5. S \subseteq Int /\ DefaultMhz \in S /\ a \in S /\ (c => boost \in S)
      /\ \A x \in S : x = DefaultMhz \/ x = a \/ (c /\ x = boost)
  BY <1>1
<1> HIDE DEF S
<1> QED
  BY <1>3, <1>4, <1>5 DEF a, c

LEMMA FloorIsNext ==
  ASSUME Running(now)' \in SUBSET Streams, boost' \in Int
  PROVE  /\ Floor(now)' \in Int
         /\ \/ Floor(now)' = DefaultMhz \/ Floor(now)' = AudioFloor(Running(now)')
            \/ Boosted(now)' /\ Floor(now)' = boost'
         /\ Floor(now)' >= DefaultMhz /\ Floor(now)' >= AudioFloor(Running(now)')
         /\ Boosted(now)' => Floor(now)' >= boost'
<1> DEFINE a == AudioFloor(Running(now)')
           c == Boosted(now)'
<1>1. a \in Int /\ DefaultMhz \in Int
  BY AudioFloorGrows DEF OneStream, BothStreams, DefaultMhz
<1>2. c \in BOOLEAN
  BY DEF Boosted
<1> DEFINE S == {DefaultMhz, a} \cup (IF c THEN {boost'} ELSE {})
<1>3. Floor(now)' = Max(S)
  BY DEF Floor, AudioFloor
<1> HIDE DEF a, c
<1>4. Max(S) \in S /\ \A x \in S : Max(S) >= x
  BY <1>1, <1>2, FloorMax
<1>5. S \subseteq Int /\ DefaultMhz \in S /\ a \in S /\ (c => boost' \in S)
      /\ \A x \in S : x = DefaultMhz \/ x = a \/ (c /\ x = boost')
  BY <1>1
<1> HIDE DEF S
<1> QED
  BY <1>3, <1>4, <1>5 DEF a, c

-----------------------------------------------------------------------------
(* The inductive invariant                                                 *)

Speeds == Mhz \ {0}
Workers ==
    [pc : {"ASLEEP", "APPLY", "WAIT"}, seenAt : Times, target : Mhz \cup {0},
     expiry : Times, manual : BOOLEAN, lastTransition : Times, since : Times,
     pending : Mhz \cup {0}]
Notes == [op : {"NOTE"}, work : SUBSET Streams, floor : {0, OneStream, BothStreams}]
ShellCalls == [op : {"MANUAL"}] \cup [op : {"BOOST"}, until : Times]

TimeType == now \in Times /\ ticks \in 0 .. MaxTicks /\ late \in 0 .. MaxLag
RequestType ==
    /\ governor \in {"MANUAL", "REALTIME"} /\ manualMhz \in Frequencies \cup Experimental
    /\ boost \in Boosts \cup {0} /\ boostUntil \in Times
    /\ enabled \in SUBSET Streams /\ active \in [Streams -> BOOLEAN]
    /\ activeUntil \in [Streams -> Times]
ClockType ==
    /\ current \in Speeds /\ hardware \in Speeds
    /\ failure \in {"NONE", "EARLY", "LATE"}
WorkerType ==
    /\ worker \in Workers
    /\ worker.pc = "APPLY" => worker.target \in Speeds
    /\ sleep = Forever \/ sleep \in 0 .. H
    /\ notified \in BOOLEAN
CallType == codec \in Notes \cup {Idle} /\ shell \in ShellCalls \cup {Idle}
HistoryType == calm \in Nat /\ quiet \in Nat /\ missed \in BOOLEAN
Typed ==
    TimeType /\ RequestType /\ ClockType /\ WorkerType /\ CallType /\ HistoryType

(* A failed change leaves the default frequency on record.                 *)
Recorded ==
    /\ failure # "NONE" => current = DefaultMhz
    /\ HardwareKnown

LEMMA WantedType ==
  ASSUME Typed
  PROVE  /\ Running(now) \in SUBSET Streams /\ boost \in Int /\ manualMhz \in Int
         /\ Wanted \in Speeds /\ Floor(now) \in Speeds
<1>1. Running(now) \in SUBSET Streams
  BY DEF Running, RunningOf
<1>2. boost \in Int /\ manualMhz \in Speeds /\ manualMhz \in Int
  BY MhzRange DEF Typed, RequestType, Speeds
<1>3. Floor(now) \in Speeds
  <2>1. CASE Floor(now) = DefaultMhz
    BY <2>1, MhzRange DEF Speeds
  <2>2. CASE Floor(now) = AudioFloor(Running(now))
    BY <2>2, <1>1, <1>2, FloorIs, AudioFloorGrows, MhzRange DEF Speeds, DefaultMhz
  <2>3. CASE Boosted(now) /\ Floor(now) = boost
    BY <2>3, <1>1, <1>2, FloorIs, MhzRange
    DEF Speeds, DefaultMhz, Typed, RequestType, Mhz, Boosted
  <2> QED
    BY <2>1, <2>2, <2>3, <1>1, <1>2, FloorIs
<1> QED
  BY <1>1, <1>2, <1>3 DEF Wanted

LEMMA SpeedsInt ==
  /\ \A m \in Speeds : m \in Int /\ m >= DefaultMhz
  /\ \A m \in Mhz \cup {0} : m \in Int /\ (m # 0 => m >= DefaultMhz)
BY MhzRange DEF Speeds, DefaultMhz

LEMMA EarlierIs ==
  ASSUME NEW a \in Times, NEW b \in Times PROVE Earlier(a, b) \in {a, b}
BY DEF Earlier

LEMMA ExpiryType ==
  ASSUME Typed PROVE NextExpiry(now) \in Times /\ AudioExpiry(now) \in Times
<1>1. 0 \in Times /\ boostUntil \in Times /\ activeUntil["SPEAKER"] \in Times
      /\ activeUntil["MIC"] \in Times
  BY ConstantsNat DEF Typed, RequestType, Times, Streams
<1>2. AudioExpiry(now) \in Times
  BY <1>1, EarlierIs, Zenon DEF AudioExpiry
<1> QED
  BY <1>1, <1>2, EarlierIs, Zenon DEF NextExpiry

LEMMA InitTyped == Init => Typed /\ Recorded
<1> SUFFICES ASSUME Init PROVE Typed /\ Recorded
  OBVIOUS
<1>1. now \in Times /\ 0 \in Times /\ 0 \in Nat
  BY DvfsAssumption, ConstantsNat DEF Init, Times
<1>2. TimeType
  BY <1>1, ConstantsNat DEF Init, TimeType
<1>3. RequestType
  BY <1>1 DEF Init, RequestType
<1>4. ClockType
  BY MhzRange DEF Init, ClockType, Speeds
<1>5. WorkerType
  <2>1. worker \in Workers /\ worker.pc = "ASLEEP"
    BY <1>1 DEF Init, Workers
  <2>2. sleep = 0 /\ 0 \in 0 .. H /\ notified = FALSE
    BY ConstantsNat DEF Init
  <2> QED
    BY <2>1, <2>2 DEF WorkerType
<1>6. CallType
  BY DEF Init, CallType
<1>7. HistoryType
  BY ConstantsNat DEF Init, HistoryType
<1> QED
  BY <1>2, <1>3, <1>4, <1>5, <1>6, <1>7 DEF Typed, Recorded, HardwareKnown, Init

LEMMA TypedStutter ==
  ASSUME Typed, Recorded, UNCHANGED vars PROVE Typed' /\ Recorded'
BY DEF Typed, Recorded, HardwareKnown, TimeType, RequestType, ClockType, WorkerType,
       CallType, HistoryType, vars, time, requests, manualVars, boostVars, streamVars, clock

(* The histories.                                                          *)
LEMMA ObserveType ==
  ASSUME HistoryType, Observe
  PROVE  /\ HistoryType'
         /\ \/ calm' = 0
            \/ /\ Wanted' = Wanted /\ shell' = shell /\ ~Overslept
               /\ calm' <= calm + (IF now' = now THEN 0 ELSE 1)
         /\ \/ Looks /\ Wanted # asked
            \/ IF now' = now THEN quiet' = quiet ELSE quiet' \in {quiet + 1, Delay}
         /\ asked' = IF Looks THEN Wanted ELSE asked
<1>1. Patience + 1 \in Int
  <2>1. Delay \in Int /\ MaxLag + 1 \in Int /\ MaxLag \in Int
    BY ConstantsNat
  <2>2. Max({Delay, MaxLag + 1}) \in Int
    BY <2>1, MinOfTwo
  <2> QED
    BY <2>1, <2>2 DEF Patience
<1>2. calm \in Nat /\ calm + 1 \in Int /\ quiet \in Nat
  BY DEF HistoryType
<1>3. Patience + 1 \in Nat
  <2>1. Delay \in Nat /\ MaxLag + 1 \in Int /\ MaxLag \in Nat
    BY ConstantsNat
  <2>2. Max({Delay, MaxLag + 1}) >= Delay /\ Max({Delay, MaxLag + 1}) \in Int
    BY <2>1, MinOfTwo
  <2> QED
    BY <2>1, <2>2 DEF Patience
<1>4. OneMore(calm, Patience + 1) \in Nat
      /\ OneMore(calm, Patience + 1) <= calm + (IF now' = now THEN 0 ELSE 1)
  <2>1. Min({calm + 1, Patience + 1}) \in {calm + 1, Patience + 1}
        /\ Min({calm + 1, Patience + 1}) <= calm + 1
    BY <1>1, <1>2, MinOfTwo
  <2>2. CASE now' = now
    BY <2>2, <1>2 DEF OneMore
  <2>3. CASE now' # now
    <3>1. OneMore(calm, Patience + 1) = Min({calm + 1, Patience + 1})
      BY <2>3 DEF OneMore
    <3> QED
      BY <3>1, <2>1, <2>3, <1>2, <1>3
  <2> QED
    BY <2>2, <2>3
<1>5. /\ OneMore(quiet, Delay) \in Nat
      /\ IF now' = now THEN OneMore(quiet, Delay) = quiet
         ELSE OneMore(quiet, Delay) \in {quiet + 1, Delay}
  <2>1. quiet + 1 \in Int /\ Delay \in Int /\ quiet + 1 \in Nat /\ Delay \in Nat
    BY <1>2, ConstantsNat
  <2>2. Min({quiet + 1, Delay}) \in {quiet + 1, Delay}
    BY <2>1, MinOfTwo
  <2> QED
    BY <1>2, <2>1, <2>2 DEF OneMore
<1>6. calm' = IF Wanted' # Wanted \/ shell' # shell \/ Overslept THEN 0
              ELSE OneMore(calm, Patience + 1)
  BY DEF Observe
<1>7. /\ quiet' = IF Looks /\ Wanted # asked THEN 0 ELSE OneMore(quiet, Delay)
      /\ asked' = IF Looks THEN Wanted ELSE asked
  BY DEF Observe
<1>8. missed' \in BOOLEAN
  <2>1. InForce(0) \in BOOLEAN /\ Passed \in BOOLEAN /\ missed \in BOOLEAN
    BY DEF InForce, Passed, HistoryType
  <2>2. missed' = IF Looks THEN InForce(0)
                  ELSE missed \/ (worker.pc = "WAIT" /\ worker'.pc = "ASLEEP" /\ Passed)
    BY DEF Observe
  <2> QED
    BY <2>1, <2>2
<1>9. calm' \in Nat /\ quiet' \in Nat
  BY <1>4, <1>5, <1>6, <1>7
<1>10. \/ Looks /\ Wanted # asked
       \/ IF now' = now THEN quiet' = quiet ELSE quiet' \in {quiet + 1, Delay}
  BY <1>5, <1>7
<1> QED
  BY <1>4, <1>6, <1>7, <1>8, <1>9, <1>10 DEF HistoryType

LEMMA TypedLook ==
  ASSUME Typed, Look
  PROVE  TimeType' /\ RequestType' /\ ClockType' /\ WorkerType' /\ CallType'
<1> USE DEF Typed
<1>1. TimeType' /\ ClockType' /\ CallType'
  BY DEF Look, TimeType, ClockType, CallType, time, clock
<1>2. RequestType'
  BY DEF Look, RequestType, ClearEndedBoost, manualVars, streamVars
<1>3. Wanted \in Speeds /\ NextExpiry(now) \in Times /\ now \in Times /\ 0 \in Times
  BY WantedType, ExpiryType, ConstantsNat DEF TimeType, Times
<1>4. worker' = [worker EXCEPT
         !.pc = "APPLY", !.seenAt = now, !.target = Wanted,
         !.manual = governor = "MANUAL",
         !.expiry = IF governor = "MANUAL" THEN 0 ELSE NextExpiry(now)]
  BY DEF Look
<1>5. worker' \in Workers /\ worker'.target = Wanted
  BY <1>3, <1>4, Speeds \subseteq Mhz \cup {0} DEF WorkerType, Workers, Speeds
<1>6. sleep' = sleep /\ notified' = FALSE
  BY DEF Look
<1> QED
  BY <1>1, <1>2, <1>3, <1>5, <1>6 DEF WorkerType

LEMMA PendingSinceType == ASSUME Typed PROVE PendingSince \in Times
BY DEF Typed, WorkerType, Workers, PendingSince

LEMMA TypedApply ==
  ASSUME Typed, Apply
  PROVE  TimeType' /\ RequestType' /\ ClockType' /\ WorkerType' /\ CallType'
<1> USE DEF Typed
<1>1. TimeType' /\ CallType' /\ RequestType'
  BY DEF Apply, TimeType, CallType, RequestType, time, requests, manualVars,
         boostVars, streamVars
<1>2. worker \in Workers /\ worker.target \in Speeds /\ PendingSince \in Times
      /\ 0 \in Times /\ DefaultMhz \in Speeds
  BY PendingSinceType, ConstantsNat, MhzRange DEF Apply, WorkerType, Times, Speeds
<1>3. CASE Transition
  <2>1. ClockType'
    BY <1>2, <1>3 DEF Transition, Change, ClockType
  <2>2. worker' \in Workers /\ worker'.pc = "WAIT"
    BY <1>2, <1>3 DEF Transition, Workers
  <2> QED
    BY <2>1, <2>2, <1>1 DEF Apply, WorkerType
<1>4. CASE ~(AtOnce \/ (worker.target < current /\ MayLower))
  <2>1. ClockType'
    BY <1>4 DEF Apply, ClockType, clock
  <2>2. worker' = IF worker.target < current
              THEN [worker EXCEPT !.pc = "WAIT", !.pending = worker.target,
                                  !.since = PendingSince]
              ELSE [worker EXCEPT !.pc = "WAIT", !.pending = 0, !.since = 0]
    BY <1>4 DEF Apply
  <2>3. worker' \in Workers /\ worker'.pc = "WAIT"
    BY <1>2, <2>2 DEF Workers
  <2> QED
    BY <2>1, <2>3, <1>1 DEF Apply, WorkerType
<1> QED
  BY <1>3, <1>4 DEF Apply

(* How long the worker goes to sleep.                                      *)
LEMMA WaitsAre ==
  ASSUME Typed
  PROVE  /\ Waits \in SUBSET (1 .. H)
         /\ Waits # {} => Min(Waits) \in Waits /\ \A n \in Waits : Min(Waits) <= n
<1>1. worker.since \in Times /\ now \in Times /\ worker.expiry \in Times
  BY DEF Typed, WorkerType, Workers, TimeType
<1>2. Deadline \in Times
  <2>1. Delay \in 0 .. H
    BY ConstantsNat
  <2> QED
    BY <1>1, <2>1, PlusIs DEF Deadline
<1>3. \A u \in Times : Before(now, u) => Since(u, now) \in 1 .. H
  <2> SUFFICES ASSUME NEW u \in Times, Before(now, u) PROVE Since(u, now) \in 1 .. H
    OBVIOUS
  <2>1. /\ Since(now, u) = IF u <= now THEN now - u ELSE now - u + Modulus
        /\ Since(u, now) = IF now <= u THEN u - now ELSE u - now + Modulus
        /\ Since(now, u) >= H
    BY <1>1, SinceIs
  <2> QED
    BY ONLY <2>1, <1>1, u \in Times, ConstantsNat DEF Times
<1>4. 1 \in 1 .. H
  BY ConstantsNat
<1>5. /\ PendingWait = {} \/ \E a \in 1 .. H : PendingWait = {a}
      /\ ExpiryWait = {} \/ \E a \in 1 .. H : ExpiryWait = {a}
  BY <1>1, <1>2, <1>3, <1>4 DEF PendingWait, ExpiryWait
<1>6. CASE PendingWait = {} /\ ExpiryWait = {}
  BY <1>6 DEF Waits
<1>7. CASE PendingWait # {} \/ ExpiryWait # {}
  <2>1. PICK a \in 1 .. H, b \in 1 .. H : Waits = {a, b}
    <3>1. CASE PendingWait = {}
      BY <3>1, <1>5, <1>7 DEF Waits
    <3>2. CASE ExpiryWait = {}
      BY <3>2, <1>5, <1>7 DEF Waits
    <3>3. CASE PendingWait # {} /\ ExpiryWait # {}
      BY <3>3, <1>5 DEF Waits
    <3> QED
      BY <3>1, <3>2, <3>3
  <2>2. a \in Int /\ b \in Int
    OBVIOUS
  <2> QED
    BY <2>1, <2>2, MinOfTwo
<1> QED
  BY <1>6, <1>7

LEMMA TypedWait ==
  ASSUME Typed, Wait
  PROVE  TimeType' /\ RequestType' /\ ClockType' /\ WorkerType' /\ CallType'
<1> USE DEF Typed
<1>1. TimeType' /\ CallType' /\ RequestType' /\ ClockType'
  BY ConstantsNat
  DEF Wait, TimeType, CallType, RequestType, ClockType, clock, requests, manualVars,
      boostVars, streamVars
<1>2. sleep' = Forever \/ sleep' \in 0 .. H
  <2>1. Waits # {} => Min(Waits) \in 0 .. H
    BY WaitsAre
  <2> QED
    BY <2>1 DEF Wait
<1>3. worker' \in Workers /\ worker'.pc = "ASLEEP"
  <2>1. 0 \in Times
    BY ConstantsNat DEF Times
  <2> QED
    BY <2>1 DEF Wait, WorkerType, Workers
<1> QED
  BY <1>1, <1>2, <1>3 DEF Wait, WorkerType

LEMMA TypedRequest ==
  ASSUME Typed, Request
  PROVE  TimeType' /\ RequestType' /\ ClockType' /\ WorkerType' /\ CallType'
<1> USE DEF Typed
<1>0. now \in Times /\ 0 \in Times
  BY ConstantsNat DEF TimeType, Times
<1>1. ASSUME NEW on \in SUBSET Streams, SetAudioEnabled(on)
      PROVE  TimeType' /\ RequestType' /\ ClockType' /\ WorkerType' /\ CallType'
  <2>1. TimeType' /\ ClockType' /\ CallType'
    BY <1>1 DEF SetAudioEnabled, TimeType, ClockType, CallType, time, clock
  <2>2. RequestType'
    BY <1>0, <1>1 DEF SetAudioEnabled, RequestType, manualVars, boostVars
  <2>3. WorkerType'
    BY <1>1 DEF SetAudioEnabled, WorkerType
  <2> QED
    BY <2>1, <2>2, <2>3
<1>2. ASSUME NEW work \in SUBSET Streams, NoteBegin(work)
      PROVE  TimeType' /\ RequestType' /\ ClockType' /\ WorkerType' /\ CallType'
  <2>1. TimeType' /\ ClockType' /\ RequestType' /\ WorkerType'
    BY <1>2 DEF NoteBegin, TimeType, ClockType, RequestType, WorkerType, time, clock,
                requests, manualVars, boostVars, streamVars
  <2>2. AudioFloor(Running(now)) \in {0, OneStream, BothStreams}
    BY WantedType, AudioFloorGrows
  <2>3. CallType'
    BY <1>2, <2>2 DEF NoteBegin, CallType, Notes
  <2> QED
    BY <2>1, <2>3
<1>3. CASE NoteEnd
  <2>1. TimeType' /\ ClockType' /\ CallType'
    BY <1>3 DEF NoteEnd, TimeType, ClockType, CallType, time, clock
  <2>2. Plus(now, AudioHold) \in Times
    BY <1>0, LeaseAhead DEF Holds
  <2>3. RequestType'
    BY <1>3, <2>2 DEF NoteEnd, RequestType, manualVars, boostVars
  <2>4. WorkerType'
    BY <1>3 DEF NoteEnd, WorkerType, Raises
  <2> QED
    BY <2>1, <2>3, <2>4
<1>4. ASSUME NEW mhz \in Frequencies, NEW g \in {"MANUAL", "REALTIME"}, ApplyConfig(mhz, g)
      PROVE  TimeType' /\ RequestType' /\ ClockType' /\ WorkerType' /\ CallType'
  BY <1>4 DEF ApplyConfig, TimeType, RequestType, ClockType, WorkerType, CallType,
              time, clock, boostVars, streamVars
<1>5. ASSUME NEW mhz \in Frequencies \cup Experimental, ShellManual(mhz)
      PROVE  TimeType' /\ RequestType' /\ ClockType' /\ WorkerType' /\ CallType'
  BY <1>5 DEF ShellManual, TimeType, RequestType, ClockType, WorkerType, CallType,
              ShellCalls, time, clock, boostVars, streamVars
<1>6. ASSUME NEW g \in {"MANUAL", "REALTIME"}, ShellGovernor(g)
      PROVE  TimeType' /\ RequestType' /\ ClockType' /\ WorkerType' /\ CallType'
  BY <1>6 DEF ShellGovernor, TimeType, RequestType, ClockType, WorkerType, CallType,
              time, clock, boostVars, streamVars
<1>7. ASSUME NEW mhz \in Boosts, NEW hold \in BoostHolds, ShellBoost(mhz, hold)
      PROVE  TimeType' /\ RequestType' /\ ClockType' /\ WorkerType' /\ CallType'
  <2>1. Plus(now, hold) \in Times
    BY <1>0, LeaseAhead DEF Holds
  <2>2. TimeType' /\ RequestType' /\ ClockType' /\ WorkerType'
    BY <1>7 DEF ShellBoost, TimeType, RequestType, ClockType, WorkerType,
                time, clock, manualVars, streamVars
  <2>3. CallType'
    BY <1>0, <1>7, <2>1 DEF ShellBoost, CallType, ShellCalls
  <2> QED
    BY <2>2, <2>3
<1>8. CASE ShellBoostEnd
  <2>1. shell.until \in Times
    BY <1>8 DEF ShellBoostEnd, CallType, ShellCalls, Idle
  <2>2. TimeType' /\ ClockType' /\ WorkerType' /\ CallType'
    BY <1>8 DEF ShellBoostEnd, TimeType, ClockType, WorkerType, CallType, time, clock
  <2>3. RequestType'
    BY <1>8, <2>1 DEF ShellBoostEnd, RequestType, manualVars, streamVars
  <2> QED
    BY <2>2, <2>3
<1>9. CASE GetStatus
  BY <1>9 DEF GetStatus, ClearEndedBoost, TimeType, RequestType, ClockType, WorkerType,
              CallType, time, clock, manualVars, streamVars
<1> QED
  BY <1>1, <1>2, <1>3, <1>4, <1>5, <1>6, <1>7, <1>8, <1>9 DEF Request

LEMMA TypedTick ==
  ASSUME Typed, Tick
  PROVE  TimeType' /\ RequestType' /\ ClockType' /\ WorkerType' /\ CallType'
<1> USE DEF Typed
<1>1. now' \in Times
  <2>1. 1 \in 0 .. H /\ now \in Times
    BY ConstantsNat DEF TimeType
  <2> QED
    BY <2>1, PlusIs DEF Tick
<1>2. ticks' \in 0 .. MaxTicks /\ late' \in 0 .. MaxLag
  BY ConstantsNat DEF Tick, TimeType
<1>3. sleep' = Forever \/ sleep' \in 0 .. H
  <2>1. Resting => sleep # 0
    BY DEF Resting, Due
  <2> QED
    BY <2>1, ConstantsNat DEF Tick, WorkerType, Forever
<1>4. RequestType' /\ ClockType' /\ CallType'
  BY DEF Tick, RequestType, ClockType, CallType, requests, clock, manualVars, boostVars,
         streamVars
<1>5. WorkerType'
  BY <1>3 DEF Tick, WorkerType
<1> QED
  BY <1>1, <1>2, <1>4, <1>5 DEF TimeType

LEMMA TypedNext == ASSUME Typed, Recorded, Next PROVE Typed' /\ Recorded'
<1>1. HistoryType'
  BY ObserveType DEF Next, Typed
<1>2. TimeType' /\ RequestType' /\ ClockType' /\ WorkerType' /\ CallType'
  BY TypedLook, TypedApply, TypedWait, TypedRequest, TypedTick DEF Next, WorkerStep
<1>3. Recorded'
  <2>1. CASE UNCHANGED <<current, hardware, failure>>
    BY <2>1 DEF Recorded, HardwareKnown
  <2>2. CASE Change(worker.target)
    BY <2>2 DEF Recorded, HardwareKnown, Change
  <2>3. Apply => UNCHANGED <<current, hardware, failure>> \/ Change(worker.target)
    BY DEF Apply, Transition, clock
  <2>4. Look \/ Wait \/ Tick \/ Request => UNCHANGED <<current, hardware, failure>>
    BY DEF Look, Wait, Tick, Request, SetAudioEnabled, NoteBegin, NoteEnd, ApplyConfig,
           ShellManual, ShellGovernor, ShellBoost, ShellBoostEnd, GetStatus, clock
  <2> QED
    BY <2>1, <2>2, <2>3, <2>4 DEF Next, WorkerStep
<1> QED
  BY <1>1, <1>2, <1>3 DEF Typed

-----------------------------------------------------------------------------
(* What is asked for, from step to step                                    *)

(* Every request in force ends a hold from now at most, and none of them   *)
(* ended longer ago than the behaviour lasts; while the shell has written  *)
(* half of a boost, that is so of what it is about to write.               *)
Leased ==
    /\ \A s \in Streams : active[s] => Lease(activeUntil[s], now, ticks)
    /\ boost # 0 /\ shell.op # "BOOST" => Lease(boostUntil, now, ticks)
    /\ shell.op = "BOOST" => Lease(shell.until, now, ticks)

(* What a call of the codec found asked for is still asked for, unless the *)
(* worker was notified.                                                    *)
Noted ==
    codec # Idle => notified \/ codec.floor <= AudioFloor(Running(now))

LEMMA LeasedKept ==
  ASSUME Leased, UNCHANGED <<now, ticks, shell, boostUntil, active, activeUntil>>,
         boost' \in {boost, 0}
  PROVE  Leased'
BY DEF Leased

LEMMA OpsDiffer ==
  ASSUME Typed
  PROVE  /\ shell = Idle <=> shell.op = "IDLE"
         /\ shell.op = "BOOST" => shell.until \in Times
         /\ codec # Idle => codec \in Notes
BY DEF Typed, CallType, ShellCalls, Idle

LEMMA LeasedNext == ASSUME Typed, Leased, Next PROVE Leased'
<1>0. now \in Times /\ ticks \in Nat /\ ticks \in 0 .. MaxTicks
  BY DEF Typed, TimeType
<1>1. CASE WorkerStep \/ GetStatus \/ \E work \in SUBSET Streams : NoteBegin(work)
  <2>1. UNCHANGED <<now, ticks, shell, boostUntil, active, activeUntil>>
        /\ boost' \in {boost, 0}
    BY <1>1 DEF WorkerStep, Look, Apply, Wait, GetStatus, NoteBegin, ClearEndedBoost,
                time, requests, manualVars, boostVars, streamVars
  <2> QED
    BY <2>1, LeasedKept
<1>2. ASSUME NEW on \in SUBSET Streams, SetAudioEnabled(on) PROVE Leased'
  BY <1>2 DEF SetAudioEnabled, Leased, time, boostVars
<1>3. CASE NoteEnd
  <2>1. Lease(Plus(now, AudioHold), now, ticks)
    BY <1>0, LeaseAhead DEF Holds
  <2> QED
    BY <1>3, <2>1 DEF NoteEnd, Leased, time, boostVars
<1>4. ASSUME NEW mhz, NEW g, ApplyConfig(mhz, g) PROVE Leased'
  BY <1>4 DEF ApplyConfig, Leased, time, boostVars, streamVars
<1>5. ASSUME NEW mhz, ShellManual(mhz) PROVE Leased'
  BY <1>5 DEF ShellManual, Leased, time, boostVars, streamVars, Idle
<1>6. ASSUME NEW g, ShellGovernor(g) PROVE Leased'
  BY <1>6 DEF ShellGovernor, Leased, time, boostVars, streamVars, Idle
<1>7. ASSUME NEW mhz, NEW hold \in BoostHolds, ShellBoost(mhz, hold) PROVE Leased'
  <2>1. Lease(Plus(now, hold), now, ticks)
    BY <1>0, LeaseAhead DEF Holds
  <2>2. Lease(now, now, ticks)
    BY <1>0, NoAge DEF Lease
  <2>3. shell' = [op |-> "BOOST", until |-> IF mhz = 0 THEN now ELSE Plus(now, hold)]
        /\ UNCHANGED <<now, ticks, active, activeUntil>>
    BY <1>7 DEF ShellBoost, time, streamVars
  <2> QED
    BY <2>1, <2>2, <2>3 DEF Leased
<1>8. CASE ShellBoostEnd
  BY <1>8 DEF ShellBoostEnd, Leased, time, streamVars, Idle
<1>9. CASE Tick
  <2>1. ticks \in 0 .. MaxTicks - 1 /\ now' = Plus(now, 1) /\ ticks' = ticks + 1
    BY <1>0, <1>9, ConstantsNat DEF Tick
  <2>2. \A u : Lease(u, now, ticks) => Lease(u, now', ticks')
    BY <2>1, <1>0, LeaseTick
  <2>3. UNCHANGED <<boost, boostUntil, active, activeUntil, shell>>
    BY <1>9 DEF Tick, requests, boostVars, streamVars
  <2> QED
    BY <2>2, <2>3 DEF Leased
<1> QED
  BY <1>1, <1>2, <1>3, <1>4, <1>5, <1>6, <1>7, <1>8, <1>9 DEF Next, Request

(* A step that leaves what is asked for as it is.                          *)
Same ==
    /\ UNCHANGED <<now, governor, manualMhz, boostUntil>>
    /\ Running(now)' = Running(now)
    /\ Boosted(now)' = Boosted(now)
    /\ Boosted(now) => boost' = boost

LEMMA SameWanted == ASSUME Same PROVE Wanted' = Wanted
<1>1. AudioFloor(Running(now))' = AudioFloor(Running(now))
  BY DEF Same, AudioFloor
<1>2. Floor(now)' = Max({DefaultMhz, AudioFloor(Running(now))'}
                       \cup (IF Boosted(now)' THEN {boost'} ELSE {}))
  BY DEF Floor
<1>3. Floor(now)' = Floor(now)
  BY <1>1, <1>2 DEF Same, Floor
<1> QED
  BY <1>3 DEF Wanted, Same

LEMMA LookSame == ASSUME Look PROVE Same
BY DEF Look, Same, ClearEndedBoost, time, manualVars, streamVars, Running, RunningOf,
       Boosted

LEMMA RequestsSame ==
  ASSUME UNCHANGED <<now, governor, manualMhz, boost, boostUntil, active, activeUntil>>
  PROVE  Same
BY DEF Same, Running, RunningOf, Boosted

(* A call of the codec that notifies nobody renews leases only.            *)
LEMMA NoteEndSame ==
  ASSUME Typed, Noted, NoteEnd, ~notified'
  PROVE  /\ Running(now)' = Running(now)
         /\ codec.work \subseteq Running(now)
<1>1. codec \in Notes /\ now \in Times
  BY OpsDiffer DEF NoteEnd, Typed, TimeType
<1>2. now' = now
  BY DEF NoteEnd, time
<1>3. Before(now, Plus(now, AudioHold))
  BY <1>1, LeaseAhead DEF Holds, Typed
<1>4. /\ active' = [s \in Streams |-> active[s] \/ s \in codec.work]
      /\ activeUntil' = [s \in Streams |->
           IF s \in codec.work THEN Plus(now, AudioHold) ELSE activeUntil[s]]
      /\ notified' = (notified \/ Raises(codec.floor,
                       AudioFloor(RunningOf(active', activeUntil', now))))
  BY DEF NoteEnd
<1>5. /\ codec.work \subseteq Streams
      /\ RunningOf(active', activeUntil', now) =
            {s \in Streams : s \in Running(now) \/ s \in codec.work}
  BY <1>1, <1>3, <1>4 DEF Running, RunningOf, Notes
<1>6. ~notified /\ ~Raises(codec.floor, AudioFloor(RunningOf(active', activeUntil', now)))
  BY <1>4, Zenon
<1>7. codec.floor <= AudioFloor(Running(now))
  BY <1>6, NoteEnd DEF Noted, NoteEnd
<1> DEFINE A == RunningOf(active', activeUntil', now)
           B == Running(now)
<1>8. A \in SUBSET Streams /\ B \in SUBSET A /\ codec.work \subseteq A
  BY <1>5, WantedType
<1>9. ~(AudioFloor(A) > codec.floor)
  BY <1>6 DEF Raises
<1>10. codec.floor \in Int
  BY <1>1 DEF Notes, OneStream, BothStreams
<1>11. Running(now)' = A
  BY <1>2 DEF Running
<1> HIDE DEF A, B
<1>12. AudioFloor(A) \in Int /\ AudioFloor(B) \in Int /\ AudioFloor(B) <= AudioFloor(A)
       /\ (AudioFloor(B) = AudioFloor(A) => B = A)
  <2>1. AudioFloor(A) \in {0, OneStream, BothStreams}
        /\ AudioFloor(B) \in {0, OneStream, BothStreams}
    BY <1>8, AudioFloorGrows
  <2> QED
    BY <2>1, <1>8, AudioFloorGrows DEF OneStream, BothStreams
<1>13. codec.floor <= AudioFloor(B)
  BY <1>7 DEF B
<1>14. B = A
  BY <1>9, <1>10, <1>12, <1>13
<1> QED
  BY <1>8, <1>11, <1>14 DEF B

LEMMA EnabledSame ==
  ASSUME Typed, NEW on, SetAudioEnabled(on), ~notified'
  PROVE  ~notified /\ active' = active /\ activeUntil' = activeUntil
<1> DEFINE off == {s \in Streams \ on : active[s]}
<1>1. ~notified /\ off = {}
  BY DEF SetAudioEnabled
<1>2. active' = [s \in Streams |-> active[s] /\ s \notin off]
      /\ activeUntil' = [s \in Streams |-> IF s \in off THEN 0 ELSE activeUntil[s]]
  BY DEF SetAudioEnabled
<1>3. active \in [Streams -> BOOLEAN] /\ activeUntil \in [Streams -> Times]
  BY DEF Typed, RequestType
<1> HIDE DEF off
<1>4. \A s \in Streams : (active[s] /\ s \notin off) = active[s]
  BY <1>1, <1>3
<1>5. active' = [s \in Streams |-> active[s]]
      /\ activeUntil' = [s \in Streams |-> activeUntil[s]]
  BY <1>1, <1>2, <1>4
<1> QED
  BY <1>1, <1>3, <1>5

(* A request that leaves the shell idle and the worker not notified        *)
(* changes nothing of what is asked for, except that it may renew leases.  *)
LEMMA QuietRequest ==
  ASSUME Typed, Noted, Request, shell' = Idle, ~notified'
  PROVE  /\ Same /\ shell = Idle /\ ~notified
         /\ \A s \in Running(now) :
              activeUntil'[s] = activeUntil[s] \/ activeUntil'[s] = Plus(now, AudioHold)
         /\ \A s \in Streams \ Running(now) :
              active'[s] = active[s] /\ activeUntil'[s] = activeUntil[s]
<1> DEFINE Leases ==
      /\ \A s \in Running(now) :
           activeUntil'[s] = activeUntil[s] \/ activeUntil'[s] = Plus(now, AudioHold)
      /\ \A s \in Streams \ Running(now) :
           active'[s] = active[s] /\ activeUntil'[s] = activeUntil[s]
<1>1. ASSUME NEW on, SetAudioEnabled(on)
      PROVE  Same /\ shell = Idle /\ ~notified /\ Leases
  <2>1. ~notified /\ active' = active /\ activeUntil' = activeUntil
    BY <1>1, EnabledSame
  <2>2. Same
    BY <1>1, <2>1, RequestsSame DEF SetAudioEnabled, time, manualVars, boostVars
  <2> QED
    BY <1>1, <2>1, <2>2 DEF SetAudioEnabled
<1>2. ASSUME NEW work, NoteBegin(work)
      PROVE  Same /\ shell = Idle /\ ~notified /\ Leases
  <2>1. UNCHANGED <<now, governor, manualMhz, boost, boostUntil, active, activeUntil,
                    shell, notified>>
    BY <1>2 DEF NoteBegin, time, requests, manualVars, boostVars, streamVars
  <2> QED
    BY <2>1, RequestsSame
<1>3. ASSUME NoteEnd PROVE Same /\ shell = Idle /\ ~notified /\ Leases
  <2>1. Running(now)' = Running(now) /\ codec.work \subseteq Running(now)
    BY <1>3, NoteEndSame
  <2>2. UNCHANGED <<now, governor, manualMhz, boost, boostUntil, shell>> /\ ~notified
    BY <1>3 DEF NoteEnd, time, manualVars, boostVars
  <2>3. Same
    BY <2>1, <2>2 DEF Same, Boosted
  <2>4. \A s \in Streams :
          /\ activeUntil'[s] = IF s \in codec.work THEN Plus(now, AudioHold) ELSE activeUntil[s]
          /\ s \notin codec.work => active'[s] = active[s]
    <3>1. active \in [Streams -> BOOLEAN]
      BY DEF Typed, RequestType
    <3> QED
      BY <1>3, <3>1 DEF NoteEnd
  <2>5. Running(now) \subseteq Streams
    BY DEF Running, RunningOf
  <2> QED
    BY <2>1, <2>2, <2>3, <2>4, <2>5
<1>4. ASSUME NEW mhz, NEW g, ApplyConfig(mhz, g)
      PROVE  FALSE
  BY <1>4 DEF ApplyConfig
<1>5. ASSUME NEW mhz, ShellManual(mhz) PROVE FALSE
  BY <1>5 DEF ShellManual, Idle
<1>6. ASSUME NEW g, ShellGovernor(g) PROVE FALSE
  BY <1>6 DEF ShellGovernor
<1>7. ASSUME NEW mhz, NEW hold, ShellBoost(mhz, hold) PROVE FALSE
  <2>1. shell' = [op |-> "BOOST", until |-> IF mhz = 0 THEN now ELSE Plus(now, hold)]
    BY <1>7 DEF ShellBoost
  <2>2. shell'.op = "BOOST" /\ Idle.op = "IDLE"
    BY <2>1 DEF Idle
  <2> QED
    BY <2>2
<1>8. ASSUME ShellBoostEnd PROVE FALSE
  BY <1>8 DEF ShellBoostEnd
<1>9. ASSUME GetStatus PROVE Same /\ shell = Idle /\ ~notified /\ Leases
  <2>1. UNCHANGED <<now, governor, manualMhz, boostUntil, active, activeUntil, shell, notified>>
        /\ boost' = 0 /\ ~Boosted(now)
    BY <1>9 DEF GetStatus, ClearEndedBoost, time, manualVars, streamVars
  <2>2. Same
    BY <2>1 DEF Same, Running, RunningOf, Boosted
  <2> QED
    BY <2>1, <2>2
<1> HIDE DEF Leases
<1>10. Same /\ shell = Idle /\ ~notified /\ Leases
  BY <1>1, <1>2, <1>3, <1>4, <1>5, <1>6, <1>7, <1>8, <1>9 DEF Request
<1> QED
  BY <1>10 DEF Leases

LEMMA NotedNext == ASSUME Typed, Noted, Next PROVE Noted'
<1>1. CASE codec' = Idle
  BY <1>1 DEF Noted
<1>2. ASSUME codec' # Idle, NEW work, NoteBegin(work) PROVE Noted'
  <2>1. Same
    BY <1>2, RequestsSame DEF NoteBegin, time, requests, manualVars, boostVars, streamVars
  <2>2. codec'.floor = AudioFloor(Running(now))
    BY <1>2 DEF NoteBegin
  <2>3. AudioFloor(Running(now)) \in Int
    BY WantedType, AudioFloorGrows DEF OneStream, BothStreams
  <2>4. AudioFloor(Running(now))' = AudioFloor(Running(now))
    BY <2>1 DEF Same, AudioFloor
  <2> QED
    BY <2>2, <2>3, <2>4 DEF Noted
<1>3. ASSUME codec' # Idle, NEW on, SetAudioEnabled(on) PROVE Noted'
  <2>1. CASE notified'
    BY <2>1 DEF Noted
  <2>2. CASE ~notified'
    <3>1. active' = active /\ activeUntil' = activeUntil /\ ~notified
      BY <1>3, <2>2, EnabledSame
    <3>2. UNCHANGED <<codec, now>>
      BY <1>3 DEF SetAudioEnabled, time
    <3>3. AudioFloor(Running(now))' = AudioFloor(Running(now))
      BY <3>1, <3>2 DEF Running, RunningOf, AudioFloor
    <3> QED
      BY <1>3, <3>1, <3>2, <3>3 DEF Noted
  <2> QED
    BY <2>1, <2>2
<1>4. ASSUME codec' # Idle, GetStatus PROVE Noted'
  <2>1. UNCHANGED <<codec, now, notified, active, activeUntil>>
    BY <1>4 DEF GetStatus, time, streamVars
  <2>2. AudioFloor(Running(now))' = AudioFloor(Running(now))
    BY <2>1 DEF Running, RunningOf, AudioFloor
  <2> QED
    BY <1>4, <2>1, <2>2 DEF Noted
<1>5. ASSUME codec' # Idle, codec = Idle, UNCHANGED codec PROVE FALSE
  BY <1>5
<1>6. WorkerStep \/ Tick => codec = Idle /\ UNCHANGED codec
  BY DEF WorkerStep, Look, Apply, Wait, Tick
<1>7. ASSUME NEW mhz, NEW g, ApplyConfig(mhz, g) PROVE codec = Idle /\ UNCHANGED codec
  BY <1>7 DEF ApplyConfig
<1>8. ASSUME NEW mhz, ShellManual(mhz) PROVE codec = Idle /\ UNCHANGED codec
  BY <1>8 DEF ShellManual, ShellRuns
<1>9. ASSUME NEW g, ShellGovernor(g) PROVE codec = Idle /\ UNCHANGED codec
  BY <1>9 DEF ShellGovernor, ShellRuns
<1>10. ASSUME NEW mhz, NEW hold, ShellBoost(mhz, hold) PROVE codec = Idle /\ UNCHANGED codec
  BY <1>10 DEF ShellBoost, ShellRuns
<1>11. ShellBoostEnd => codec = Idle /\ UNCHANGED codec
  BY DEF ShellBoostEnd, ShellRuns
<1>12. NoteEnd => codec' = Idle
  BY DEF NoteEnd
<1> QED
  BY <1>1, <1>2, <1>3, <1>4, <1>5, <1>6, <1>7, <1>8, <1>9, <1>10, <1>11, <1>12
  DEF Next, Request

(* Time only ends requests.                                                *)
LEMMA TickFalls ==
  ASSUME Typed, Leased, Tick, shell = Idle
  PROVE  /\ Wanted' <= Wanted
         /\ governor = "MANUAL" => Wanted' = Wanted
         /\ Running(now)' \subseteq Running(now)
         /\ Boosted(now)' => Boosted(now) /\ boost' = boost
         /\ (Running(now)' = Running(now) /\ Boosted(now)' = Boosted(now)) => Wanted' = Wanted
<1>1. /\ ticks \in 0 .. MaxTicks - 1 /\ now' = Plus(now, 1) /\ now \in Times
      /\ UNCHANGED <<governor, manualMhz, boost, boostUntil, active, activeUntil, shell>>
  BY ConstantsNat
  DEF Tick, Typed, TimeType, requests, manualVars, boostVars, streamVars
<1>2. \A u : Lease(u, now, ticks) /\ Before(now', u) => Before(now, u)
  BY <1>1, LeaseTick
<1>3. Running(now)' \subseteq Running(now)
  BY <1>1, <1>2 DEF Running, RunningOf, Leased
<1>4. Boosted(now)' => Boosted(now)
  BY <1>1, <1>2, OpsDiffer DEF Boosted, Leased
<1>5. Floor(now) \in Int /\ Floor(now) >= DefaultMhz
      /\ Floor(now) >= AudioFloor(Running(now)) /\ (Boosted(now) => Floor(now) >= boost)
      /\ Running(now) \in SUBSET Streams /\ manualMhz \in Int
  BY WantedType, FloorIs
<1>6. boost' \in Int /\ Running(now)' \in SUBSET Streams
  BY <1>1, <1>3, WantedType
<1>7. Floor(now)' \in Int /\ (\/ Floor(now)' = DefaultMhz \/ Floor(now)' = AudioFloor(Running(now)')
                              \/ Boosted(now)' /\ Floor(now)' = boost')
  BY <1>6, FloorIsNext
<1>8. AudioFloor(Running(now)') <= AudioFloor(Running(now))
      /\ AudioFloor(Running(now)) \in Int /\ AudioFloor(Running(now)') \in Int
  <2>1. AudioFloor(Running(now)') \in {0, OneStream, BothStreams}
        /\ AudioFloor(Running(now)) \in {0, OneStream, BothStreams}
    BY <1>5, <1>6, AudioFloorGrows
  <2>2. AudioFloor(Running(now)') <= AudioFloor(Running(now))
    BY <1>3, <1>5, AudioFloorGrows
  <2> QED
    BY <2>1, <2>2 DEF OneStream, BothStreams
<1>9. DefaultMhz \in Int
  BY DEF DefaultMhz
<1>10. Floor(now)' <= Floor(now)
  BY <1>1, <1>4, <1>5, <1>7, <1>8, <1>9
<1>11. Wanted' = IF governor = "MANUAL" THEN manualMhz ELSE Floor(now)'
  BY <1>1 DEF Wanted
<1>12. ASSUME Running(now)' = Running(now), Boosted(now)' = Boosted(now)
       PROVE  Wanted' = Wanted
  <2>1. AudioFloor(Running(now))' = AudioFloor(Running(now))
    BY <1>12 DEF AudioFloor
  <2>2. Floor(now)' = Max({DefaultMhz, AudioFloor(Running(now))'}
                         \cup (IF Boosted(now)' THEN {boost'} ELSE {}))
    BY DEF Floor
  <2>3. Floor(now)' = Floor(now)
    BY <1>1, <1>12, <2>1, <2>2 DEF Floor
  <2> QED
    BY <2>3, <1>11 DEF Wanted
<1> QED
  BY <1>1, <1>3, <1>4, <1>5, <1>10, <1>11, <1>12 DEF Wanted

-----------------------------------------------------------------------------
(* The clock meets the demand                                              *)

(* Without news for it, the worker aims high enough, and unless the last   *)
(* change failed the clock is fast enough when it does not aim.            *)
Enough(mhz) == IF governor = "MANUAL" THEN mhz = manualMhz ELSE mhz >= Wanted
Aimed ==
    shell = Idle /\ ~notified =>
        /\ worker.pc = "APPLY" =>
              (worker.manual <=> governor = "MANUAL") /\ Enough(worker.target)
        /\ worker.pc # "APPLY" /\ failure = "NONE" => Enough(current)

Demand == Typed /\ Recorded /\ Leased /\ Noted /\ Aimed

LEMMA InitDemand == Init => Demand
<1> SUFFICES ASSUME Init PROVE Demand
  OBVIOUS
<1>1. Typed /\ Recorded
  BY InitTyped
<1>2. Running(now) = {} /\ ~Boosted(now)
  BY DEF Init, Running, RunningOf, Boosted, Streams
<1>3. Enough(current)
  <2>1. CASE governor = "MANUAL"
    BY <2>1 DEF Init, Enough
  <2>2. CASE governor # "MANUAL"
    <3>1. AudioFloor({}) = 0
      BY DEF AudioFloor, Streams
    <3>2. Floor(now) = DefaultMhz
      BY <1>1, <1>2, <3>1, WantedType, FloorIs DEF DefaultMhz
    <3>3. current \in Speeds
      BY <1>1 DEF Typed, ClockType
    <3> QED
      BY <2>2, <3>2, <3>3, SpeedsInt DEF Enough, Wanted
  <2> QED
    BY <2>1, <2>2
<1>4. Leased /\ Noted
  BY DEF Init, Leased, Noted, Idle
<1>5. Aimed
  BY <1>3 DEF Init, Aimed
<1> QED
  BY <1>1, <1>4, <1>5 DEF Demand

LEMMA AimedLook == ASSUME Demand, Look PROVE Aimed'
<1>1. Same /\ Wanted' = Wanted /\ Wanted \in Int
  BY LookSame, SameWanted, WantedType, SpeedsInt DEF Demand
<1>2. worker'.pc = "APPLY" /\ worker'.target = Wanted /\ worker'.manual = (governor = "MANUAL")
  BY DEF Look, Demand, Typed, WorkerType, Workers
<1>3. Enough(worker.target)'
  <2>1. worker'.target = IF governor = "MANUAL" THEN manualMhz ELSE Wanted
    BY <1>2 DEF Wanted
  <2> QED
    BY <1>1, <2>1 DEF Enough, Same
<1> QED
  BY <1>1, <1>2, <1>3 DEF Aimed, Same

LEMMA ApplyIs ==
  ASSUME Typed, Apply
  PROVE  /\ worker.pc = "APPLY" /\ worker'.pc = "WAIT" /\ Same
         /\ UNCHANGED <<now, ticks, late, shell, notified, sleep>>
         /\ UNCHANGED <<requests>>
         /\ worker'.seenAt = worker.seenAt /\ worker'.expiry = worker.expiry
         /\ worker'.manual = worker.manual
         /\ \/ Transition /\ (AtOnce \/ (worker.target < current /\ MayLower))
               /\ worker'.pending = 0 /\ worker'.lastTransition = worker.seenAt
            \/ /\ UNCHANGED clock /\ worker'.lastTransition = worker.lastTransition
               /\ ~AtOnce /\ worker.target < current /\ ~MayLower
               /\ worker'.pending = worker.target /\ worker'.since = PendingSince
            \/ /\ UNCHANGED clock /\ worker'.lastTransition = worker.lastTransition
               /\ ~AtOnce /\ ~(worker.target < current)
               /\ worker'.pending = 0
<1>1. worker \in Workers
  BY DEF Typed, WorkerType
<1>2. worker.pc = "APPLY" /\ UNCHANGED <<now, ticks, late, shell, notified, sleep>>
      /\ UNCHANGED requests
  BY DEF Apply, time
<1>3. Same
  BY <1>2, RequestsSame DEF requests, manualVars, boostVars, streamVars
<1>4. CASE Transition
  <2>1. CASE AtOnce \/ (worker.target < current /\ MayLower)
    BY <1>1, <1>2, <1>3, <1>4, <2>1 DEF Transition, Workers
  <2>2. CASE ~(AtOnce \/ (worker.target < current /\ MayLower))
    <3>1. worker' = (IF worker.target < current
              THEN [worker EXCEPT !.pc = "WAIT", !.pending = worker.target,
                                  !.since = PendingSince]
              ELSE [worker EXCEPT !.pc = "WAIT", !.pending = 0, !.since = 0])
          /\ UNCHANGED clock
      BY <2>2 DEF Apply
    <3> QED
      BY <1>1, <1>2, <1>3, <2>2, <3>1 DEF Workers
  <2> QED
    BY <2>1, <2>2
<1>5. CASE ~Transition
  <2>1. ~(AtOnce \/ (worker.target < current /\ MayLower))
    BY <1>5 DEF Apply
  <2>2. worker' = (IF worker.target < current
              THEN [worker EXCEPT !.pc = "WAIT", !.pending = worker.target,
                                  !.since = PendingSince]
              ELSE [worker EXCEPT !.pc = "WAIT", !.pending = 0, !.since = 0])
        /\ UNCHANGED clock
    BY <2>1 DEF Apply
  <2> QED
    BY <1>1, <1>2, <1>3, <2>1, <2>2 DEF Workers
<1> QED
  BY <1>4, <1>5

LEMMA AimedApply == ASSUME Demand, Apply PROVE Aimed'
<1> SUFFICES ASSUME shell' = Idle, ~notified', failure' = "NONE"
             PROVE  Enough(current)'
  BY ApplyIs DEF Aimed, Demand
<1>1. shell = Idle /\ ~notified /\ worker.pc = "APPLY" /\ Same
      /\ UNCHANGED <<governor, manualMhz>>
  BY ApplyIs DEF Demand, Same
<1>2. Wanted' = Wanted /\ Wanted \in Int
  BY <1>1, SameWanted, WantedType, SpeedsInt DEF Demand
<1>3. (worker.manual <=> governor = "MANUAL") /\ Enough(worker.target)
  BY <1>1 DEF Demand, Aimed
<1>4. worker.target \in Int /\ current \in Int
  BY <1>1, SpeedsInt DEF Demand, Typed, WorkerType, ClockType
<1>5. current' = worker.target \/ (current' = current /\ ~AtOnce)
  <2>1. Transition => current' = worker.target
    BY DEF Transition, Change
  <2> QED
    BY <2>1, ApplyIs DEF Demand, clock
<1>6. ~AtOnce => worker.target <= current /\ (worker.manual => worker.target = current)
  BY <1>4 DEF AtOnce
<1>7. Enough(current')
  BY <1>2, <1>3, <1>4, <1>5, <1>6 DEF Enough
<1> QED
  BY <1>1, <1>2, <1>7 DEF Enough

LEMMA AimedNext == ASSUME Demand, Next PROVE Aimed'
<1>1. CASE Look
  BY <1>1, AimedLook
<1>2. CASE Apply
  BY <1>2, AimedApply
<1>3. CASE Wait
  <2>1. Same
    BY <1>3, RequestsSame DEF Wait, requests, manualVars, boostVars, streamVars
  <2>2. Wanted' = Wanted /\ UNCHANGED <<shell, notified, failure, current>>
    BY <1>3, <2>1, SameWanted DEF Wait, clock
  <2>3. worker.pc = "WAIT" /\ worker'.pc = "ASLEEP"
    BY <1>3 DEF Wait, Demand, Typed, WorkerType, Workers
  <2> QED
    BY <2>1, <2>2, <2>3 DEF Demand, Aimed, Enough, Same
<1>4. CASE Request
  <2> SUFFICES ASSUME shell' = Idle, ~notified' PROVE Aimed'
    BY DEF Aimed
  <2>1. Same /\ shell = Idle /\ ~notified
    BY <1>4, QuietRequest DEF Demand
  <2>2. UNCHANGED <<worker, current, failure>>
    BY <1>4 DEF Request, SetAudioEnabled, NoteBegin, NoteEnd, ApplyConfig,
           ShellManual, ShellGovernor, ShellBoost, ShellBoostEnd, GetStatus, clock
  <2>3. Wanted' = Wanted
    BY <2>1, SameWanted
  <2> QED
    BY <2>1, <2>2, <2>3 DEF Demand, Aimed, Enough, Same
<1>5. CASE Tick
  <2> SUFFICES ASSUME shell' = Idle, ~notified' PROVE Aimed'
    BY DEF Aimed
  <2>1. UNCHANGED <<worker, current, failure, shell, notified, governor, manualMhz>>
    BY <1>5 DEF Tick, requests, manualVars, clock
  <2>2. Wanted' <= Wanted
    BY <1>5, <2>1, TickFalls DEF Demand
  <2>3. Wanted \in Int /\ current \in Int /\ (worker.pc = "APPLY" => worker.target \in Int)
    BY WantedType, SpeedsInt DEF Demand, Typed, WorkerType, ClockType
  <2>4. Wanted' \in Int
    <3>1. Typed'
      BY TypedNext DEF Demand
    <3>2. Running(now)' \in SUBSET Streams /\ boost' \in Int
      <4>1. boost' = boost /\ Running(now)' \subseteq Running(now)
        BY <1>5, <2>1, TickFalls DEF Demand, Tick, requests, boostVars
      <4> QED
        BY <4>1, WantedType DEF Demand
    <3>3. Wanted' = IF governor' = "MANUAL" THEN manualMhz' ELSE Floor(now)'
      BY DEF Wanted
    <3> QED
      BY <2>1, <3>2, <3>3, FloorIsNext, WantedType DEF Demand
  <2>5. ASSUME NEW m \in Int, Enough(m) PROVE Enough(m)'
    BY <2>1, <2>2, <2>3, <2>4, <2>5 DEF Enough
  <2>6. Aimed
    BY DEF Demand
  <2>7. worker'.pc = "APPLY" => (worker'.manual <=> governor' = "MANUAL") /\ Enough(worker.target)'
    <3>1. Enough(worker.target)' <=> (IF governor' = "MANUAL" THEN worker.target = manualMhz' ELSE worker.target >= Wanted')
      BY <2>1 DEF Enough
    <3> QED
      BY <2>1, <2>2, <2>3, <2>4, <2>6, <3>1 DEF Aimed, Enough
  <2>8. worker'.pc # "APPLY" /\ failure' = "NONE" => Enough(current)'
    BY <2>1, <2>2, <2>3, <2>4, <2>6 DEF Aimed, Enough
  <2> QED
    BY <2>7, <2>8 DEF Aimed
<1> QED
  BY <1>1, <1>2, <1>3, <1>4, <1>5 DEF Next, WorkerStep

LEMMA DemandStep == ASSUME Demand, [Next]_vars PROVE Demand'
<1>1. CASE Next
  BY <1>1, TypedNext, LeasedNext, NotedNext, AimedNext DEF Demand
<1>2. CASE UNCHANGED vars
  <2>1. Typed' /\ Recorded'
    BY <1>2, TypedStutter DEF Demand
  <2>2. UNCHANGED <<now, ticks, governor, manualMhz, boost, boostUntil, active, activeUntil,
                    shell, codec, notified, worker, current, failure>>
    BY <1>2 DEF vars, time, requests, manualVars, boostVars, streamVars, clock
  <2>3. Same /\ Wanted' = Wanted
    BY <2>2, RequestsSame, SameWanted
  <2>4. Leased'
    BY <2>2, LeasedKept DEF Demand
  <2>5. AudioFloor(Running(now))' = AudioFloor(Running(now))
    BY <2>3 DEF Same, AudioFloor
  <2>6. Noted'
    BY <2>2, <2>5 DEF Demand, Noted
  <2>7. Aimed'
    BY <2>2, <2>3 DEF Demand, Aimed, Enough
  <2> QED
    BY <2>1, <2>4, <2>6, <2>7 DEF Demand
<1> QED
  BY <1>1, <1>2

LEMMA DemandClock == Demand => ClockMeets
<1> SUFFICES ASSUME Demand PROVE ClockMeets
  OBVIOUS
<1> USE DEF Demand, Typed
<1>1. TypeOK
  <2>1. {now, boostUntil, worker.seenAt, worker.lastTransition, worker.since} \subseteq Times
        /\ \A s \in Streams : activeUntil[s] \in Times
    BY DEF TimeType, RequestType, WorkerType, Workers
  <2>2. {current, hardware, manualMhz} \subseteq Mhz \ {0} /\ boost \in Boosts \cup {0}
    BY MhzRange DEF ClockType, RequestType, Speeds
  <2>3. worker.pc \in {"ASLEEP", "APPLY", "WAIT"}
    BY DEF WorkerType, Workers
  <2>4. sleep \in {Forever} \cup 0 .. Modulus \div 2
    BY DEF WorkerType, H
  <2>5. enabled \subseteq Streams /\ active \in [Streams -> BOOLEAN] /\ late \in 0 .. MaxLag
    BY DEF RequestType, TimeType
  <2> QED
    BY <2>1, <2>2, <2>3, <2>4, <2>5 DEF TypeOK
<1>2. DemandMet
  BY DEF DemandMet, Aimed, Enough, Resting, Due
<1>3. HardwareKnown
  BY DEF Recorded
<1> QED
  BY <1>1, <1>2, <1>3 DEF ClockMeets

(* Whenever the worker sleeps and nobody has woken it, the clock the CPU   *)
(* has is as fast as what is asked for (m61_dvfs.c:296-361 with its        *)
(* callers): the leases only run out, and a call that raises what they ask *)
(* for notifies the worker.                                                *)
THEOREM DvfsClockMeets == Spec => []ClockMeets
<1>1. Init => Demand
  BY InitDemand
<1>2. Demand /\ [Next]_vars => Demand'
  BY DemandStep
<1>3. Demand => ClockMeets
  BY DemandClock
<1> QED
  BY <1>1, <1>2, <1>3, PTL DEF Spec

-----------------------------------------------------------------------------
(* How old the worker's times are                                          *)

Age(u) == Since(now, u)
PendingAge ==
    /\ Age(worker.since) <= Age(worker.lastTransition)
    /\ worker.pc # "ASLEEP" => Age(worker.seenAt) <= Age(worker.since)
    /\ worker.pc = "APPLY" => Age(worker.since) <= Delay + MaxLag + late
    /\ worker.pc = "WAIT" => Age(worker.since) < Delay + late
    /\ worker.pc = "ASLEEP" =>
         IF Due THEN Age(worker.since) <= Delay + MaxLag + late
         ELSE sleep \in 1 .. Delay /\ Age(worker.since) + sleep <= Delay + MaxLag
Aged ==
    /\ Age(worker.lastTransition) <= ticks
    /\ worker.pc # "ASLEEP" =>
         Age(worker.seenAt) <= late /\ Age(worker.seenAt) <= Age(worker.lastTransition)
    /\ worker.pending # 0 => PendingAge

LEMMA AgeTypes ==
  ASSUME Typed
  PROVE  /\ worker.seenAt \in Times /\ worker.since \in Times
         /\ worker.lastTransition \in Times /\ now \in Times
         /\ Age(worker.seenAt) \in Nat /\ Age(worker.since) \in Nat
         /\ Age(worker.lastTransition) \in Nat
         /\ late \in Nat /\ late <= MaxLag /\ MaxLag \in Nat /\ Delay \in Nat /\ Delay > 0
         /\ ticks \in Nat /\ ticks <= MaxTicks /\ MaxTicks < H
         /\ (sleep = Forever \/ sleep \in Nat)
<1>1. worker.seenAt \in Times /\ worker.since \in Times
      /\ worker.lastTransition \in Times /\ now \in Times
  BY DEF Typed, WorkerType, Workers, TimeType
<1>2. \A u \in Times : Age(u) \in Nat
  BY <1>1, SinceIs DEF Age
<1>3. late \in Nat /\ late <= MaxLag /\ ticks \in Nat /\ ticks <= MaxTicks
  BY ConstantsNat DEF Typed, TimeType
<1>4. sleep = Forever \/ sleep \in Nat
  BY ConstantsNat DEF Typed, WorkerType
<1> QED
  BY <1>1, <1>2, <1>3, <1>4, ConstantsNat

LEMMA RequestKeeps ==
  ASSUME Request
  PROVE  /\ UNCHANGED <<now, ticks, late, worker, sleep, current, failure>>
         /\ notified => notified'
<1> DEFINE Kept == /\ UNCHANGED <<now, ticks, late, worker, sleep, current, failure>>
                   /\ notified => notified'
<1>1. (\E on \in SUBSET Streams : SetAudioEnabled(on)) => Kept
  BY DEF SetAudioEnabled, clock, time
<1>2. (\E work \in SUBSET Streams : NoteBegin(work)) \/ GetStatus => Kept
  BY DEF NoteBegin, GetStatus, clock, time
<1>3. NoteEnd => Kept
  <2>1. NoteEnd => UNCHANGED <<now, ticks, late, worker, sleep, current, failure>>
    BY DEF NoteEnd, clock, time
  <2>2. NoteEnd /\ notified => notified'
    BY Zenon DEF NoteEnd
  <2> QED
    BY <2>1, <2>2
<1>4. (\E mhz \in Frequencies, g \in {"MANUAL", "REALTIME"} : ApplyConfig(mhz, g)) => Kept
  BY DEF ApplyConfig, clock, time
<1>5. (\E mhz \in Frequencies \cup Experimental : ShellManual(mhz)) => Kept
  BY DEF ShellManual, clock, time
<1>6. (\E g \in {"MANUAL", "REALTIME"} : ShellGovernor(g)) => Kept
  BY DEF ShellGovernor, clock, time
<1>7. (\E mhz \in Boosts, hold \in BoostHolds : ShellBoost(mhz, hold)) => Kept
  BY DEF ShellBoost, clock, time
<1>8. ShellBoostEnd => Kept
  BY DEF ShellBoostEnd, clock, time
<1> HIDE DEF Kept
<1>9. Kept
  BY <1>1, <1>2, <1>3, <1>4, <1>5, <1>6, <1>7, <1>8 DEF Request
<1> QED
  BY <1>9 DEF Kept

LEMMA TickIs ==
  ASSUME Typed, Tick
  PROVE  /\ ticks \in 0 .. MaxTicks - 1 /\ now' = Plus(now, 1) /\ ticks' = ticks + 1
         /\ now' # now
         /\ UNCHANGED <<worker, shell, notified, current, failure>>
         /\ UNCHANGED requests
         /\ IF Resting
            THEN sleep' = (IF sleep = Forever THEN Forever ELSE sleep - 1) /\ late' = late
            ELSE late' = late + 1 /\ late < MaxLag /\ sleep' = sleep
         /\ \A u \in Times : Since(now, u) <= ticks => Since(now', u) = Since(now, u) + 1
<1>1. ticks \in 0 .. MaxTicks - 1 /\ now' = Plus(now, 1) /\ ticks' = ticks + 1
      /\ now \in Times
  BY ConstantsNat DEF Tick, Typed, TimeType
<1>2. \A u \in Times : Since(now, u) <= ticks => Since(now', u) = Since(now, u) + 1
  BY <1>1, AgeTick
<1>3. now' # now
  <2>1. 1 \in 0 .. H /\ Modulus > 1
    BY ConstantsNat
  <2>2. Plus(now, 1) = IF now + 1 < Modulus THEN now + 1 ELSE now + 1 - Modulus
    BY <1>1, <2>1, PlusIs
  <2> QED
    BY ONLY <1>1, <2>1, <2>2, ConstantsNat DEF Times
<1> QED
  BY <1>1, <1>2, <1>3 DEF Tick, clock

LEMMA AgedTick == ASSUME Typed, Aged, Tick PROVE Aged'
<1>1. /\ UNCHANGED worker /\ UNCHANGED notified /\ ticks' = ticks + 1
      /\ IF Resting
         THEN sleep' = (IF sleep = Forever THEN Forever ELSE sleep - 1) /\ late' = late
         ELSE late' = late + 1 /\ sleep' = sleep
  BY TickIs
<1>2. Age(worker.lastTransition)' = Age(worker.lastTransition) + 1
  BY <1>1, TickIs, AgeTypes DEF Aged, Age
<1>3. worker.pc # "ASLEEP" => Age(worker.seenAt)' = Age(worker.seenAt) + 1
  <2>1. worker.pc # "ASLEEP" => Since(now, worker.seenAt) <= ticks
    BY AgeTypes DEF Aged, Age
  <2> QED
    BY <1>1, <2>1, TickIs, AgeTypes DEF Age
<1>4. worker.pending # 0 => Age(worker.since)' = Age(worker.since) + 1
  <2>1. worker.pending # 0 => Since(now, worker.since) <= ticks
    BY AgeTypes DEF Aged, PendingAge, Age
  <2> QED
    BY <1>1, <2>1, TickIs, AgeTypes DEF Age
<1>5. worker.pc # "ASLEEP" => ~Resting
  BY DEF Resting
<1>6. ASSUME worker.pending # 0 PROVE PendingAge'
  <2>1. PendingAge
    BY <1>6 DEF Aged
  <2>2. CASE worker.pc # "ASLEEP"
    BY <1>1, <1>2, <1>3, <1>4, <1>5, <1>6, <2>1, <2>2, AgeTypes DEF PendingAge
  <2>3. CASE worker.pc = "ASLEEP" /\ Due
    <3>1. ~Resting /\ Due'
      BY <1>1, <2>3 DEF Resting, Due
    <3> QED
      BY <1>1, <1>2, <1>4, <1>6, <2>1, <2>3, <3>1, AgeTypes DEF PendingAge
  <2>4. CASE worker.pc = "ASLEEP" /\ ~Due
    <3>1. Resting /\ sleep \in 1 .. Delay /\ Age(worker.since) + sleep <= Delay + MaxLag
          /\ sleep # Forever
      BY <2>1, <2>4, AgeTypes DEF Resting, PendingAge, Forever
    <3>2. sleep' = sleep - 1 /\ late' = late
      BY <1>1, <3>1
    <3>3. Due' <=> (sleep' = 0 \/ notified')
      BY DEF Due
    <3> QED
      BY <1>1, <1>2, <1>4, <1>6, <2>1, <2>4, <3>1, <3>2, <3>3, AgeTypes DEF PendingAge, Due
  <2> QED
    BY <2>2, <2>3, <2>4
<1> QED
  BY <1>1, <1>2, <1>3, <1>5, <1>6, AgeTypes DEF Aged

LEMMA AgedLook == ASSUME Typed, Aged, Look PROVE Aged'
<1>1. /\ worker'.pc = "APPLY" /\ worker'.seenAt = now /\ worker'.since = worker.since
      /\ worker'.lastTransition = worker.lastTransition /\ worker'.pending = worker.pending
      /\ worker.pc = "ASLEEP" /\ Due /\ UNCHANGED <<now, ticks, late>>
  BY DEF Look, Typed, WorkerType, Workers, time
<1>2. Age(worker.seenAt)' = 0
  BY <1>1, AgeTypes, NoAge DEF Age
<1>3. Age(worker.since)' = Age(worker.since)
      /\ Age(worker.lastTransition)' = Age(worker.lastTransition)
  BY <1>1 DEF Age
<1> QED
  BY <1>1, <1>2, <1>3, AgeTypes DEF Aged, PendingAge

(* A drop that is put off has been waited for less than the delay.         *)
LEMMA PutOff ==
  ASSUME Typed, Aged, worker.pc = "APPLY", worker.target # 0, ~MayLower
  PROVE  /\ Age(PendingSince) < Delay + late
         /\ Age(worker.seenAt) <= Age(PendingSince)
         /\ Age(PendingSince) <= Age(worker.lastTransition)
<1>1. Age(worker.seenAt) <= late /\ Age(worker.seenAt) <= Age(worker.lastTransition)
      /\ Age(worker.lastTransition) <= ticks
  BY DEF Aged
<1>2. CASE worker.pending # worker.target
  BY <1>1, <1>2, AgeTypes DEF PendingSince
<1>3. CASE worker.pending = worker.target
  <2>1. PendingSince = worker.since /\ PendingAge
    BY <1>3 DEF PendingSince, Aged
  <2>2. Age(worker.since) <= Age(worker.lastTransition)
        /\ Age(worker.seenAt) <= Age(worker.since)
    BY <2>1 DEF PendingAge
  <2>3. Since(worker.seenAt, worker.since) = Age(worker.since) - Age(worker.seenAt)
    BY <1>1, <2>2, AgeTypes, AgesCompare, ConstantsNat DEF Age
  <2>4. Since(worker.seenAt, worker.lastTransition)
          = Age(worker.lastTransition) - Age(worker.seenAt)
    BY <1>1, AgeTypes, AgesCompare, ConstantsNat DEF Age
  <2>5. Age(worker.since) - Age(worker.seenAt) < Delay
    BY <2>1, <2>2, <2>3, <2>4, AgeTypes, ConstantsNat DEF MayLower
  <2> QED
    BY <1>1, <2>1, <2>2, <2>5, AgeTypes
<1> QED
  BY <1>2, <1>3

LEMMA AgedApply == ASSUME Typed, Aged, Apply PROVE Aged'
<1>1. /\ worker.pc = "APPLY" /\ worker'.pc = "WAIT" /\ UNCHANGED <<now, ticks, late>>
      /\ worker'.seenAt = worker.seenAt
  BY ApplyIs
<1>2. Age(worker.seenAt)' = Age(worker.seenAt)
  BY <1>1 DEF Age
<1>3. Age(worker.seenAt) <= late /\ Age(worker.seenAt) <= Age(worker.lastTransition)
      /\ Age(worker.lastTransition) <= ticks
  BY <1>1 DEF Aged
<1>4. CASE worker'.pending = 0 /\ worker'.lastTransition = worker.seenAt
  <2>1. Age(worker.lastTransition)' = Age(worker.seenAt)
    BY <1>1, <1>4 DEF Age
  <2> QED
    BY <1>1, <1>2, <1>3, <1>4, <2>1, AgeTypes DEF Aged
<1>5. CASE worker'.pending = 0 /\ worker'.lastTransition = worker.lastTransition
  <2>1. Age(worker.lastTransition)' = Age(worker.lastTransition)
    BY <1>1, <1>5 DEF Age
  <2> QED
    BY <1>1, <1>2, <1>3, <1>5, <2>1, AgeTypes DEF Aged
<1>6. CASE /\ worker'.pending = worker.target /\ worker'.since = PendingSince /\ ~MayLower
           /\ worker'.lastTransition = worker.lastTransition
  <2>1. Age(worker.lastTransition)' = Age(worker.lastTransition)
        /\ Age(worker.since)' = Age(PendingSince)
    BY <1>1, <1>6 DEF Age
  <2>2. worker.target # 0
    BY <1>1 DEF Typed, WorkerType, Speeds
  <2>3. /\ Age(PendingSince) < Delay + late
        /\ Age(worker.seenAt) <= Age(PendingSince)
        /\ Age(PendingSince) <= Age(worker.lastTransition)
    BY <1>1, <1>6, <2>2, PutOff
  <2> QED
    BY <1>1, <1>2, <1>3, <2>1, <2>3, AgeTypes DEF Aged, PendingAge
<1> QED
  BY <1>4, <1>5, <1>6, ApplyIs

(* The sleep of a worker with a drop pending.                              *)
LEMMA WaitIs ==
  ASSUME Typed, Wait
  PROVE  /\ worker.pc = "WAIT" /\ worker'.pc = "ASLEEP" /\ late' = 0
         /\ UNCHANGED <<now, ticks, shell, notified, current, failure>>
         /\ UNCHANGED requests
         /\ worker'.since = worker.since /\ worker'.pending = worker.pending
         /\ worker'.lastTransition = worker.lastTransition
         /\ worker.pending # 0 /\ Age(worker.since) <= ticks =>
              /\ sleep' \in 1 .. Delay
              /\ sleep' <= IF Age(worker.since) < Delay THEN Delay - Age(worker.since) ELSE 1
<1>1. worker.pc = "WAIT" /\ worker'.pc = "ASLEEP" /\ late' = 0
      /\ UNCHANGED <<now, ticks, shell, notified, current, failure>>
      /\ UNCHANGED requests
      /\ worker'.since = worker.since /\ worker'.pending = worker.pending
      /\ worker'.lastTransition = worker.lastTransition
  BY DEF Wait, clock, Typed, WorkerType, Workers
<1>2. ASSUME worker.pending # 0, Age(worker.since) <= ticks
      PROVE  /\ sleep' \in 1 .. Delay
             /\ sleep' <= IF Age(worker.since) < Delay THEN Delay - Age(worker.since) ELSE 1
  <2>1. /\ Before(now, Deadline) <=> Age(worker.since) < Delay
        /\ Age(worker.since) < Delay => Since(Deadline, now) = Delay - Age(worker.since)
    <3>1. Age(worker.since) <= MaxTicks
      BY <1>2, AgeTypes, ConstantsNat
    <3> QED
      BY <3>1, AgeTypes, DeadlineIs DEF Deadline, Age
  <2>2. PICK a \in Waits : a = IF Age(worker.since) < Delay THEN Delay - Age(worker.since) ELSE 1
    BY <1>2, <2>1 DEF Waits, PendingWait
  <2>3. sleep' = Min(Waits)
    BY <2>2 DEF Wait
  <2>4. Min(Waits) \in 1 .. H /\ Min(Waits) <= a
    BY <2>2, WaitsAre
  <2> QED
    BY <2>2, <2>3, <2>4, AgeTypes, ConstantsNat
<1> QED
  BY <1>1, <1>2

LEMMA AgedWait == ASSUME Typed, Aged, Wait PROVE Aged'
<1>1. /\ worker.pc = "WAIT" /\ worker'.pc = "ASLEEP" /\ late' = 0 /\ UNCHANGED <<now, ticks>>
      /\ worker'.since = worker.since /\ worker'.pending = worker.pending
      /\ worker'.lastTransition = worker.lastTransition
  BY WaitIs
<1>2. Age(worker.since)' = Age(worker.since)
      /\ Age(worker.lastTransition)' = Age(worker.lastTransition)
  BY <1>1 DEF Age
<1>3. ASSUME worker.pending # 0 PROVE PendingAge'
  <2>1. Age(worker.since) <= Age(worker.lastTransition) /\ Age(worker.since) < Delay + late
        /\ Age(worker.lastTransition) <= ticks
    BY <1>1, <1>3 DEF Aged, PendingAge
  <2>2. Age(worker.since) <= ticks
    BY <2>1, AgeTypes
  <2>3. /\ sleep' \in 1 .. Delay
        /\ sleep' <= IF Age(worker.since) < Delay THEN Delay - Age(worker.since) ELSE 1
    BY <1>3, <2>2, WaitIs
  <2> QED
    BY <1>1, <1>2, <2>1, <2>3, AgeTypes DEF PendingAge
<1> QED
  BY <1>1, <1>2, <1>3 DEF Aged

LEMMA AgedNext == ASSUME Typed, Aged, Next PROVE Aged'
<1>1. CASE Request
  <2>1. UNCHANGED <<now, ticks, late, worker, sleep>> /\ (notified => notified')
    BY <1>1, RequestKeeps
  <2>2. \A u : Age(u)' = Since(now', u)
    BY DEF Age
  <2>3. Age(worker.since)' = Age(worker.since) /\ Age(worker.seenAt)' = Age(worker.seenAt)
        /\ Age(worker.lastTransition)' = Age(worker.lastTransition)
    BY <2>1 DEF Age
  <2>4. Due => Due'
    BY <2>1 DEF Due
  <2>5. PendingAge => PendingAge'
    BY <2>1, <2>3, <2>4, AgeTypes DEF PendingAge
  <2> QED
    BY <2>1, <2>3, <2>5 DEF Aged
<1> QED
  BY <1>1, AgedLook, AgedApply, AgedWait, AgedTick DEF Next, WorkerStep

-----------------------------------------------------------------------------
(* The clock does not fall during a pause                                  *)

(* For as long as a drop is pending, up to the delay, all looks found the  *)
(* same frequency asked for.                                               *)
Counted(u) == quiet >= Delay \/ quiet >= Age(u)
Steady ==
    /\ worker.pc = "APPLY" =>
         /\ worker.target = asked /\ Counted(worker.seenAt)
         /\ ~worker.manual /\ worker.pending = worker.target => Counted(worker.since)
    /\ worker.pending # 0 /\ worker.pc # "APPLY" =>
         worker.pending = asked /\ Counted(worker.since)

LEMMA QuietKept ==
  ASSUME Typed, Observe, ~Looks
  PROVE  /\ now' = now => quiet' = quiet
         /\ now' # now => quiet' \in {quiet + 1, Delay}
         /\ asked' = asked
BY ObserveType DEF Typed

LEMMA SteadyLook == ASSUME Typed, Steady, Look, Observe PROVE Steady'
<1>1. /\ worker'.pc = "APPLY" /\ worker'.seenAt = now /\ worker'.since = worker.since
      /\ worker'.pending = worker.pending /\ worker'.target = Wanted
      /\ worker.pc = "ASLEEP" /\ UNCHANGED now
  BY DEF Look, Typed, WorkerType, Workers, time
<1>2. Looks
  BY <1>1 DEF Looks
<1>3. asked' = Wanted /\ (Wanted = asked => quiet' = quiet) /\ quiet' \in Nat
  BY <1>1, <1>2, ObserveType DEF Typed, HistoryType
<1>4. Age(worker.seenAt)' = 0
  BY <1>1, AgeTypes, NoAge DEF Age
<1>5. Counted(worker.seenAt)'
  BY <1>3, <1>4 DEF Counted
<1>6. ASSUME worker.pending = Wanted PROVE Counted(worker.since)'
  <2>1. worker.pending # 0
    BY <1>6, WantedType DEF Speeds
  <2>2. worker.pending = asked /\ Counted(worker.since)
    BY <1>1, <2>1 DEF Steady
  <2> QED
    BY <1>1, <1>3, <1>6, <2>2 DEF Counted, Age
<1> QED
  BY <1>1, <1>3, <1>5, <1>6 DEF Steady

LEMMA SteadyApply == ASSUME Typed, Steady, Apply, Observe PROVE Steady'
<1>1. /\ worker.pc = "APPLY" /\ worker'.pc = "WAIT" /\ UNCHANGED now
  BY ApplyIs
<1>2. ~Looks
  BY <1>1 DEF Looks
<1>3. UNCHANGED <<quiet, asked>>
  BY <1>1, <1>2, QuietKept
<1>4. CASE worker'.pending = 0
  BY <1>1, <1>4 DEF Steady
<1>5. CASE /\ worker'.pending = worker.target /\ worker'.since = PendingSince
           /\ ~AtOnce /\ worker.target < current
  <2>1. ~worker.manual
    BY <1>1, <1>5, SpeedsInt DEF AtOnce, Typed, WorkerType, ClockType, Speeds
  <2>2. worker.target = asked /\ Counted(PendingSince)
    BY <1>1, <2>1 DEF Steady, PendingSince
  <2> QED
    BY <1>1, <1>3, <1>5, <2>2 DEF Steady, Counted, Age
<1> QED
  BY <1>4, <1>5, ApplyIs

LEMMA SteadyNext == ASSUME Typed, Aged, Steady, Next PROVE Steady'
<1>0. Observe
  BY DEF Next
<1>1. CASE Look
  BY <1>0, <1>1, SteadyLook
<1>2. CASE Apply
  BY <1>0, <1>2, SteadyApply
<1>3. CASE Wait
  <2>1. /\ worker.pc = "WAIT" /\ worker'.pc = "ASLEEP" /\ UNCHANGED now
        /\ worker'.since = worker.since /\ worker'.pending = worker.pending
    BY <1>3, WaitIs
  <2>2. UNCHANGED <<quiet, asked>>
    BY <1>0, <2>1, QuietKept DEF Looks
  <2> QED
    BY <2>1, <2>2 DEF Steady, Counted, Age
<1>4. CASE Request
  <2>1. UNCHANGED <<now, worker>> /\ ~Looks
    BY <1>4, RequestKeeps DEF Looks
  <2>2. UNCHANGED <<quiet, asked>>
    BY <1>0, <2>1, QuietKept
  <2> QED
    BY <2>1, <2>2 DEF Steady, Counted, Age
<1>5. CASE Tick
  <2>1. UNCHANGED worker /\ now' # now /\ ~Looks
        /\ \A u \in Times : Since(now, u) <= ticks => Since(now', u) = Since(now, u) + 1
    BY <1>5, TickIs DEF Looks
  <2>2. asked' = asked /\ quiet' \in {quiet + 1, Delay} /\ quiet \in Nat
    BY <1>0, <2>1, QuietKept DEF Typed, HistoryType
  <2>3. ASSUME NEW u \in Times, Since(now, u) <= ticks, Counted(u)
        PROVE  quiet' >= Delay \/ quiet' >= Since(now', u)
    <3>1. Since(now', u) = Since(now, u) + 1 /\ Since(now, u) \in Nat
      BY <2>1, <2>3, AgeTypes, SinceIs
    <3>2. quiet >= Delay \/ quiet >= Since(now, u)
      BY <2>3 DEF Counted, Age
    <3> QED
      BY ONLY <2>2, <3>1, <3>2, ConstantsNat
  <2>4. worker.pc = "APPLY" => Since(now, worker.seenAt) <= ticks
    BY AgeTypes DEF Aged, Age
  <2>5. worker.pending # 0 => Since(now, worker.since) <= ticks
    BY AgeTypes DEF Aged, PendingAge, Age
  <2>6. worker.pc = "APPLY" => worker.target # 0
    BY DEF Typed, WorkerType, Speeds
  <2>7. worker.pc = "APPLY" => Counted(worker.seenAt)'
    BY <2>1, <2>3, <2>4, AgeTypes DEF Steady, Counted, Age
  <2>8. worker.pending # 0 /\ Counted(worker.since) => Counted(worker.since)'
    BY <2>1, <2>3, <2>5, AgeTypes DEF Counted, Age
  <2> QED
    BY <2>1, <2>2, <2>6, <2>7, <2>8 DEF Steady
<1> QED
  BY <1>1, <1>2, <1>3, <1>4, <1>5 DEF Next, WorkerStep

LEMMA DropIsCalm ==
  ASSUME Typed, Aged, Steady, Apply, ~worker.manual, current' < current, failure' = "NONE"
  PROVE  current' = asked /\ quiet >= Delay
<1>1. worker.pc = "APPLY" /\ worker.target \in Int /\ current \in Int /\ worker.target # 0
  BY ApplyIs, SpeedsInt DEF Typed, WorkerType, ClockType, Speeds
<1>2. Transition /\ (AtOnce \/ (worker.target < current /\ MayLower))
  <2>1. CASE UNCHANGED clock
    BY <1>1, <2>1 DEF clock
  <2> QED
    BY <2>1, ApplyIs
<1>3. current' = worker.target
  BY <1>2 DEF Transition, Change
<1>4. MayLower
  BY <1>1, <1>2, <1>3 DEF AtOnce
<1>5. Since(worker.seenAt, PendingSince) >= Delay
  BY <1>4 DEF MayLower
<1>6. worker.pending = worker.target /\ PendingSince = worker.since
  <2>1. PendingSince # worker.seenAt
    BY <1>5, AgeTypes, NoAge
  <2> QED
    BY <2>1 DEF PendingSince
<1>7. /\ Age(worker.seenAt) <= Age(worker.since) /\ Age(worker.since) <= ticks
  BY <1>1, <1>6, AgeTypes DEF Aged, PendingAge
<1>8. Since(worker.seenAt, worker.since) = Age(worker.since) - Age(worker.seenAt)
  BY <1>7, AgeTypes, AgesCompare, ConstantsNat DEF Age
<1>9. Age(worker.since) >= Delay
  BY <1>5, <1>6, <1>7, <1>8, AgeTypes
<1>10. worker.target = asked /\ Counted(worker.since)
  BY <1>1, <1>6 DEF Steady
<1>11. quiet \in Nat
  BY DEF Typed, HistoryType
<1> QED
  BY <1>3, <1>9, <1>10, <1>11, AgeTypes DEF Counted

LEMMA InitAged == Init => Aged /\ Steady
<1> SUFFICES ASSUME Init PROVE Aged /\ Steady
  OBVIOUS
<1>1. worker.pc = "ASLEEP" /\ worker.pending = 0 /\ worker.lastTransition = now /\ ticks = 0
  BY DEF Init
<1>2. now \in Times
  BY InitTyped DEF Typed, TimeType
<1> QED
  BY <1>1, <1>2, NoAge DEF Aged, Steady, Age

CalmInv == Typed /\ Recorded /\ Aged /\ Steady

LEMMA CalmInvStep == ASSUME CalmInv, [Next]_vars PROVE CalmInv'
<1>1. CASE Next
  BY <1>1, TypedNext, AgedNext, SteadyNext DEF CalmInv
<1>2. CASE UNCHANGED vars
  <2>1. Typed' /\ Recorded'
    BY <1>2, TypedStutter DEF CalmInv
  <2>2. UNCHANGED <<now, ticks, late, worker, sleep, notified, asked, quiet>>
    BY <1>2 DEF vars, time
  <2>3. Aged'
    BY <2>2 DEF CalmInv, Aged, PendingAge, Age, Due
  <2>4. Steady'
    BY <2>2 DEF CalmInv, Steady, Counted, Age
  <2> QED
    BY <2>1, <2>3, <2>4 DEF CalmInv
<1> QED
  BY <1>1, <1>2

(* The realtime governor lowers the clock only to a frequency that every   *)
(* look found asked for all the delay long, from an experimental frequency *)
(* too (m61_dvfs.c:325-344).                                               *)
THEOREM DvfsCalmBeforeDrop == Spec => CalmBeforeDrop
<1>1. Init => CalmInv
  BY InitTyped, InitAged DEF CalmInv
<1>2. CalmInv /\ [Next]_vars => CalmInv'
  BY CalmInvStep
<1>3. CalmInv /\ [Next]_vars
        => [Apply /\ ~worker.manual /\ current' < current /\ failure' = "NONE"
              => current' = asked /\ quiet >= Delay]_vars
  BY DropIsCalm DEF CalmInv
<1> QED
  BY <1>1, <1>2, <1>3, PTL DEF Spec, CalmBeforeDrop

-----------------------------------------------------------------------------
(* The ends the worker waits for                                           *)

LEMMA LongestIs ==
  /\ Max({Delay, MaxLag + 1}) \in Nat
  /\ Max({Delay, MaxLag + 1}) >= Delay /\ Max({Delay, MaxLag + 1}) >= MaxLag + 1
<1>1. Delay \in Int /\ MaxLag + 1 \in Int /\ Delay \in Nat /\ MaxLag \in Nat
  BY ConstantsNat
<1>2. Max({Delay, MaxLag + 1}) \in {Delay, MaxLag + 1}
      /\ Max({Delay, MaxLag + 1}) >= Delay /\ Max({Delay, MaxLag + 1}) >= MaxLag + 1
  BY <1>1, MinOfTwo
<1> QED
  BY <1>1, <1>2

LEMMA BeforeOrders ==
  ASSUME NEW t \in Times, NEW a \in Times, NEW b \in Times,
         Since(a, t) \in 1 .. H - 1, Since(b, t) \in 1 .. H - 1
  PROVE  Before(a, b) <=> Since(a, t) < Since(b, t)
<1>1. /\ Since(a, t) = IF t <= a THEN a - t ELSE a - t + Modulus
      /\ Since(b, t) = IF t <= b THEN b - t ELSE b - t + Modulus
      /\ Since(a, b) = IF b <= a THEN a - b ELSE a - b + Modulus
      /\ Before(a, b) <=> Since(a, b) >= H
  BY SinceIs
<1> QED
  BY ONLY <1>1, ConstantsNat, t \in Times, a \in Times, b \in Times,
          Since(a, t) \in 1 .. H - 1, Since(b, t) \in 1 .. H - 1 DEF Times

LEMMA EarlierLeads ==
  ASSUME NEW t \in Times, NEW a \in Times, NEW b \in Times,
         Since(a, t) \in 1 .. H - 1, Since(b, t) \in 1 .. H - 1, a # 0
  PROVE  Since(Earlier(a, b), t) <= Since(a, t) /\ Since(Earlier(a, b), t) <= Since(b, t)
<1>1. Before(b, a) <=> Since(b, t) < Since(a, t)
  BY BeforeOrders
<1>2. Since(a, t) \in Nat /\ Since(b, t) \in Nat
  BY ConstantsNat
<1>3. CASE Before(b, a)
  BY <1>1, <1>2, <1>3 DEF Earlier
<1>4. CASE ~Before(b, a)
  BY <1>1, <1>2, <1>4 DEF Earlier
<1> QED
  BY <1>3, <1>4

(* What is in force ends later, less than half a turn from now.            *)
LEMMA InForceIs ==
  ASSUME Typed, Leased, shell = Idle, NEW u, InForce(u)
  PROVE  /\ u \in Times /\ Lease(u, now, ticks) /\ Before(now, u)
         /\ Since(u, now) \in 1 .. H - 1
<1>1. Lease(u, now, ticks) /\ Before(now, u)
  <2>1. ASSUME NEW s \in Running(now), u = activeUntil[s]
        PROVE  Lease(u, now, ticks) /\ Before(now, u)
    BY <2>1 DEF Running, RunningOf, Leased
  <2>2. ASSUME Boosted(now), u = boostUntil
        PROVE  Lease(u, now, ticks) /\ Before(now, u)
    BY <2>2, OpsDiffer DEF Boosted, Leased
  <2> QED
    BY <2>1, <2>2 DEF InForce
<1>2. now \in Times /\ ticks \in 0 .. MaxTicks
  BY DEF Typed, TimeType
<1> QED
  BY <1>1, <1>2, LeaseIs DEF Lease

LEMMA AudioExpiryIs ==
  ASSUME Typed, Leased, shell = Idle, ~InForce(0)
  PROVE  /\ Running(now) # {} =>
              /\ AudioExpiry(now) # 0
              /\ \E s \in Running(now) : AudioExpiry(now) = activeUntil[s]
              /\ \A s \in Running(now) : Since(AudioExpiry(now), now) <= Since(activeUntil[s], now)
         /\ Running(now) = {} => AudioExpiry(now) = 0
<1> DEFINE sp == activeUntil["SPEAKER"]
           mic == activeUntil["MIC"]
<1>1. now \in Times /\ sp \in Times /\ mic \in Times
  BY DEF Typed, TimeType, RequestType, Streams
<1>2. \A s \in Running(now) :
        /\ InForce(activeUntil[s]) /\ activeUntil[s] # 0
        /\ Since(activeUntil[s], now) \in 1 .. H - 1
  BY InForceIs DEF InForce
<1>3. \A s \in Running(now) : s = "SPEAKER" \/ s = "MIC"
  BY DEF Running, RunningOf, Streams
<1>4. CASE "SPEAKER" \in Running(now) /\ "MIC" \in Running(now)
  <2>1. AudioExpiry(now) = Earlier(sp, mic)
    BY <1>4 DEF AudioExpiry
  <2>2. Since(sp, now) \in 1 .. H - 1 /\ Since(mic, now) \in 1 .. H - 1 /\ sp # 0 /\ mic # 0
    BY <1>2, <1>4
  <2>3. Earlier(sp, mic) \in {sp, mic} /\ Since(Earlier(sp, mic), now) <= Since(sp, now)
        /\ Since(Earlier(sp, mic), now) <= Since(mic, now)
    BY <1>1, <2>2, EarlierIs, EarlierLeads
  <2> QED
    BY <1>3, <1>4, <2>1, <2>2, <2>3
<1>5. CASE "SPEAKER" \in Running(now) /\ "MIC" \notin Running(now)
  <2>1. AudioExpiry(now) = sp
    BY <1>5 DEF AudioExpiry
  <2>2. Since(sp, now) \in Nat /\ sp # 0
    BY <1>2, <1>5, ConstantsNat
  <2> QED
    BY <1>3, <1>5, <2>1, <2>2
<1>6. CASE "SPEAKER" \notin Running(now) /\ "MIC" \in Running(now)
  <2>1. AudioExpiry(now) = mic
    BY <1>6 DEF AudioExpiry, Earlier
  <2>2. Since(mic, now) \in Nat /\ mic # 0
    BY <1>2, <1>6, ConstantsNat
  <2> QED
    BY <1>3, <1>6, <2>1, <2>2
<1>7. CASE "SPEAKER" \notin Running(now) /\ "MIC" \notin Running(now)
  BY <1>3, <1>7 DEF AudioExpiry
<1> QED
  BY <1>4, <1>5, <1>6, <1>7

(* Unless something ends at tick zero, the next end is the next end.       *)
LEMMA NextExpiryIs ==
  ASSUME Typed, Leased, shell = Idle, ~InForce(0)
  PROVE  /\ NextExpiry(now) # 0 => InForce(NextExpiry(now))
         /\ \A u : InForce(u) =>
              NextExpiry(now) # 0 /\ Since(NextExpiry(now), now) <= Since(u, now)
<1> DEFINE A == AudioExpiry(now)
           N == NextExpiry(now)
<1>1. now \in Times /\ A \in Times /\ boostUntil \in Times
  BY ExpiryType DEF Typed, TimeType, RequestType
<1>2. /\ Running(now) # {} =>
           /\ A # 0 /\ InForce(A)
           /\ \A s \in Running(now) : Since(A, now) <= Since(activeUntil[s], now)
      /\ Running(now) = {} => A = 0
  BY AudioExpiryIs DEF InForce
<1>3. Boosted(now) => InForce(boostUntil) /\ boostUntil # 0
  BY DEF InForce
<1>4. \A u : InForce(u) => Since(u, now) \in 1 .. H - 1 /\ Since(u, now) \in Nat
  BY InForceIs, ConstantsNat
<1>5. N = IF A # 0 THEN Earlier(IF Boosted(now) THEN boostUntil ELSE 0, A)
          ELSE IF Boosted(now) THEN boostUntil ELSE 0
  BY DEF NextExpiry
<1> HIDE DEF A, N
<1>6. CASE Running(now) = {} /\ ~Boosted(now)
  <2>1. N = 0
    BY <1>2, <1>5, <1>6
  <2>2. \A u : ~InForce(u)
    BY <1>6 DEF InForce
  <2> QED
    BY <2>1, <2>2 DEF N
<1>7. CASE Running(now) = {} /\ Boosted(now)
  <2>1. N = boostUntil
    BY <1>2, <1>5, <1>7
  <2>2. \A u : InForce(u) => u = boostUntil
    BY <1>7 DEF InForce
  <2> QED
    BY <1>3, <1>4, <1>7, <2>1, <2>2 DEF N
<1>8. CASE Running(now) # {} /\ ~Boosted(now)
  <2>1. N = A
    BY <1>2, <1>5, <1>8 DEF Earlier
  <2>2. \A u : InForce(u) => \E s \in Running(now) : u = activeUntil[s]
    BY <1>8 DEF InForce
  <2> QED
    BY <1>2, <1>8, <2>1, <2>2 DEF N
<1>9. CASE Running(now) # {} /\ Boosted(now)
  <2>1. N = Earlier(boostUntil, A)
    BY <1>2, <1>5, <1>9
  <2>2. Since(boostUntil, now) \in 1 .. H - 1 /\ Since(A, now) \in 1 .. H - 1
        /\ boostUntil # 0
    BY <1>2, <1>3, <1>4, <1>9
  <2>3. N \in {boostUntil, A} /\ Since(N, now) <= Since(boostUntil, now)
        /\ Since(N, now) <= Since(A, now)
    BY <1>1, <2>1, <2>2, EarlierIs, EarlierLeads
  <2>4. ASSUME NEW u, InForce(u) PROVE N # 0 /\ Since(N, now) <= Since(u, now)
    <3>1. CASE u = boostUntil
      BY <1>2, <1>3, <1>9, <2>3, <3>1
    <3>2. CASE \E s \in Running(now) : u = activeUntil[s]
      <4>1. PICK s \in Running(now) : u = activeUntil[s]
        BY <3>2
      <4>2. Since(A, now) <= Since(u, now) /\ Since(u, now) \in Nat
        BY <1>2, <1>4, <1>9, <2>4, <4>1
      <4>3. Since(N, now) \in Nat /\ Since(A, now) \in Nat
        BY <2>2, <2>3, ConstantsNat
      <4> QED
        BY <1>2, <1>3, <1>9, <2>3, <4>2, <4>3
    <3> QED
      BY <2>4, <3>1, <3>2 DEF InForce
  <2>5. N # 0 => InForce(N)
    BY <1>2, <1>3, <1>9, <2>3
  <2> QED
    BY <2>4, <2>5 DEF N
<1> QED
  BY <1>6, <1>7, <1>8, <1>9

(* A lease of a stream is never longer than the hold.                      *)
Short == \A s \in Running(now) : Since(activeUntil[s], now) <= AudioHold

(* The worker waits for the next end there is, and as long as none came,   *)
(* the clock it aims at is not above what is asked for.                    *)
Expects ==
    /\ worker.pc # "ASLEEP" =>
         /\ worker.expiry # 0 => Lease(worker.expiry, now, ticks)
         /\ \A u : InForce(u) =>
              worker.expiry # 0 /\ (Passed \/ Since(worker.expiry, now) <= Since(u, now))
    /\ worker.pc = "ASLEEP" /\ sleep # 0 /\ worker.pending = 0 =>
         \A u : InForce(u) => sleep # Forever /\ sleep <= Since(u, now)
NotAbove ==
    /\ worker.pc = "APPLY" => worker.target <= Wanted \/ Passed
    /\ worker.pc = "WAIT" /\ worker.pending = 0 => current <= Wanted \/ Passed
    /\ worker.pc = "ASLEEP" /\ sleep # 0 /\ worker.pending = 0 => current <= Wanted
Heard == shell = Idle /\ ~notified /\ governor # "MANUAL" /\ ~missed
Waiting == Short /\ (Heard => Expects /\ NotAbove)

LEMMA InitWaiting == Init => Waiting
<1> SUFFICES ASSUME Init PROVE Waiting
  OBVIOUS
<1>1. Running(now) = {} /\ worker.pc = "ASLEEP" /\ sleep = 0
  BY DEF Init, Running, RunningOf, Streams
<1> QED
  BY <1>1 DEF Waiting, Short, Expects, NotAbove

LEMMA ShortNext == ASSUME Typed, Leased, Short, Next PROVE Short'
<1>0. now \in Times
  BY DEF Typed, TimeType
<1>1. ASSUME UNCHANGED <<now, active, activeUntil>> PROVE Short'
  BY <1>1 DEF Short, Running, RunningOf
<1>2. CASE NoteEnd
  <2>1. codec \in Notes /\ now' = now
    BY <1>2, OpsDiffer DEF NoteEnd, time
  <2>2. Since(Plus(now, AudioHold), now) = AudioHold /\ AudioHold \in Nat
    BY <1>0, LeaseAhead, ConstantsNat DEF Holds
  <2>3. \A s \in Streams : activeUntil'[s] = IF s \in codec.work THEN Plus(now, AudioHold) ELSE activeUntil[s]
    BY <1>2 DEF NoteEnd
  <2>4. \A s \in Streams : active'[s] => active[s] \/ s \in codec.work
    BY <1>2 DEF NoteEnd
  <2>5. \A s \in Running(now)' : s \in Streams /\ active'[s] /\ Before(now, activeUntil'[s])
    BY <2>1 DEF Running, RunningOf
  <2>6. ASSUME NEW s \in Running(now)' PROVE Since(activeUntil'[s], now') <= AudioHold
    <3>1. CASE s \in codec.work
      BY <2>1, <2>2, <2>3, <2>5, <2>6, <3>1
    <3>2. CASE s \notin codec.work
      BY <2>1, <2>3, <2>4, <2>5, <2>6, <3>2 DEF Short, Running, RunningOf
    <3> QED
      BY <3>1, <3>2
  <2> QED
    BY <2>6 DEF Short
<1>3. ASSUME NEW on, SetAudioEnabled(on) PROVE Short'
  <2>1. now' = now /\ \A s \in Streams :
          active'[s] => active[s] /\ activeUntil'[s] = activeUntil[s]
    BY <1>3 DEF SetAudioEnabled, time
  <2> QED
    BY <2>1 DEF Short, Running, RunningOf
<1>4. CASE Tick
  <2>1. /\ ticks \in 0 .. MaxTicks - 1 /\ now' = Plus(now, 1)
        /\ UNCHANGED <<active, activeUntil>>
    BY <1>4, TickIs DEF requests, streamVars
  <2>2. ASSUME NEW s \in Running(now)'
        PROVE  s \in Running(now) /\ Since(activeUntil[s], now') = Since(activeUntil[s], now) - 1
    <3>1. s \in Streams /\ active[s] /\ Before(now', activeUntil[s])
      BY <2>1, <2>2 DEF Running, RunningOf
    <3>2. Lease(activeUntil[s], now, ticks)
      BY <3>1 DEF Leased
    <3>3. Before(now, activeUntil[s])
          /\ Since(activeUntil[s], now') = Since(activeUntil[s], now) - 1
      BY <1>0, <2>1, <3>1, <3>2, LeaseTick
    <3> QED
      BY <3>1, <3>3 DEF Running, RunningOf
  <2>3. \A s \in Running(now) : Since(activeUntil[s], now) \in Int
    BY <1>0, SinceIs DEF Typed, RequestType, Running, RunningOf
  <2> QED
    BY <2>1, <2>2, <2>3, ConstantsNat DEF Short
<1>5. CASE WorkerStep
  BY <1>1, <1>5 DEF WorkerStep, Look, Apply, Wait, time, requests, streamVars
<1>6. ASSUME NEW work, NoteBegin(work) PROVE Short'
  BY <1>1, <1>6 DEF NoteBegin, time, requests, streamVars
<1>7. ASSUME NEW mhz, NEW g, ApplyConfig(mhz, g) PROVE Short'
  BY <1>1, <1>7 DEF ApplyConfig, time, streamVars
<1>8. ASSUME NEW mhz, ShellManual(mhz) PROVE Short'
  BY <1>1, <1>8 DEF ShellManual, time, streamVars
<1>9. ASSUME NEW g, ShellGovernor(g) PROVE Short'
  BY <1>1, <1>9 DEF ShellGovernor, time, streamVars
<1>10. ASSUME NEW mhz, NEW hold, ShellBoost(mhz, hold) PROVE Short'
  BY <1>1, <1>10 DEF ShellBoost, time, streamVars
<1>11. CASE ShellBoostEnd \/ GetStatus
  BY <1>1, <1>11 DEF ShellBoostEnd, GetStatus, time, streamVars
<1> QED
  BY <1>2, <1>3, <1>4, <1>5, <1>6, <1>7, <1>8, <1>9, <1>10, <1>11 DEF Next, Request

LEMMA SameInForce ==
  ASSUME Same, UNCHANGED activeUntil PROVE \A u : InForce(u)' <=> InForce(u)
BY DEF Same, InForce

LEMMA WaitingLook ==
  ASSUME Demand, Look, Observe, Heard' PROVE Expects' /\ NotAbove'
<1>1. /\ worker'.pc = "APPLY" /\ worker.pc = "ASLEEP" /\ worker'.target = Wanted
      /\ worker'.expiry = IF governor = "MANUAL" THEN 0 ELSE NextExpiry(now)
      /\ UNCHANGED <<now, ticks, shell, governor, activeUntil>>
  BY DEF Look, Demand, Typed, WorkerType, Workers, time, manualVars, streamVars
<1>2. missed' = InForce(0)
  BY <1>1 DEF Observe, Looks
<1>3. shell = Idle /\ governor # "MANUAL" /\ ~InForce(0)
  BY <1>1, <1>2 DEF Heard
<1>4. /\ NextExpiry(now) # 0 => InForce(NextExpiry(now))
      /\ \A u : InForce(u) =>
           NextExpiry(now) # 0 /\ Since(NextExpiry(now), now) <= Since(u, now)
  BY <1>3, NextExpiryIs DEF Demand
<1>5. NextExpiry(now) # 0 => Lease(NextExpiry(now), now, ticks)
  BY <1>3, <1>4, InForceIs DEF Demand
<1>6. Same /\ Wanted' = Wanted /\ Wanted \in Int
  BY LookSame, SameWanted, WantedType, SpeedsInt DEF Demand
<1>7. \A u : InForce(u)' <=> InForce(u)
  BY <1>1, <1>6, SameInForce
<1>8. Expects'
  BY <1>1, <1>3, <1>4, <1>5, <1>7 DEF Expects
<1>9. NotAbove'
  BY <1>1, <1>6 DEF NotAbove
<1> QED
  BY <1>8, <1>9

LEMMA CurrentApply ==
  ASSUME Typed, Apply
  PROVE  current' = worker.target \/ current' = DefaultMhz \/ current' = current
<1>1. Transition => current' = worker.target \/ current' = DefaultMhz
  BY DEF Transition, Change
<1>2. UNCHANGED clock => current' = current
  BY DEF clock
<1>3. Transition \/ UNCHANGED clock
  BY ApplyIs
<1> QED
  BY <1>1, <1>2, <1>3

LEMMA WaitingApply ==
  ASSUME Demand, Waiting, Apply, Observe, Heard' PROVE Expects' /\ NotAbove'
<1>1. /\ worker.pc = "APPLY" /\ worker'.pc = "WAIT" /\ Same
      /\ UNCHANGED <<now, ticks, shell, notified, governor, activeUntil>>
      /\ worker'.expiry = worker.expiry
  BY ApplyIs DEF Demand, Same, requests, streamVars
<1>2. missed' = missed
  <2>1. missed' = IF Looks THEN InForce(0)
                  ELSE missed \/ (worker.pc = "WAIT" /\ worker'.pc = "ASLEEP" /\ Passed)
    BY DEF Observe
  <2> QED
    BY <1>1, <2>1 DEF Looks, Demand, Typed, HistoryType
<1>3. Heard /\ Expects /\ NotAbove
  BY <1>1, <1>2 DEF Heard, Waiting
<1>4. \A u : InForce(u)' <=> InForce(u)
  BY <1>1, SameInForce
<1>5. Passed' <=> Passed
  BY <1>1 DEF Passed
<1>6. Expects'
  BY <1>1, <1>3, <1>4, <1>5 DEF Expects
<1>7. Wanted' = Wanted /\ Wanted \in Int /\ Wanted >= DefaultMhz
  BY <1>1, SameWanted, WantedType, SpeedsInt DEF Demand
<1>8. worker.target \in Int /\ current \in Int
  BY <1>1, SpeedsInt DEF Demand, Typed, WorkerType, ClockType
<1>9. worker'.pending = 0 => current' <= worker.target \/ current' = DefaultMhz
  <2>1. CASE Transition
    <3>1. current' = worker.target \/ current' = DefaultMhz
      BY <2>1 DEF Transition, Change
    <3> QED
      BY <3>1, <1>8
  <2>2. CASE UNCHANGED clock /\ ~(worker.target < current)
    BY <2>2, <1>8 DEF clock
  <2>3. CASE worker'.pending = worker.target
    BY <1>1, <2>3 DEF Demand, Typed, WorkerType, Speeds
  <2> QED
    BY <2>1, <2>2, <2>3, ApplyIs DEF Demand
<1>10. worker'.pending = 0 => current' <= Wanted' \/ Passed'
  <2>1. worker.target <= Wanted \/ Passed
    BY <1>1, <1>3 DEF NotAbove
  <2>2. CASE Passed
    BY <2>2, <1>5
  <2>3. CASE worker.target <= Wanted
    <3>1. CASE current' = DefaultMhz
      BY <3>1, <1>7
    <3>2. CASE current' <= worker.target
      <4>1. current' \in Int
        BY <1>8, CurrentApply DEF Demand, DefaultMhz
      <4> QED
        BY <4>1, <3>2, <2>3, <1>7, <1>8
    <3> QED
      BY <3>1, <3>2, <1>9
  <2> QED
    BY <2>1, <2>2, <2>3
<1>11. NotAbove'
  BY <1>1, <1>10 DEF NotAbove
<1> QED
  BY <1>6, <1>11

LEMMA WaitingWait ==
  ASSUME Demand, Waiting, Wait, Observe, Heard' PROVE Expects' /\ NotAbove'
<1>1. /\ worker.pc = "WAIT" /\ worker'.pc = "ASLEEP" /\ worker'.pending = worker.pending
      /\ UNCHANGED <<now, ticks, shell, notified, governor, activeUntil, current>>
      /\ Same
  <2>1. Same
    BY RequestsSame DEF Wait, requests, manualVars, boostVars, streamVars
  <2> QED
    BY <2>1, WaitIs DEF Demand, Same, requests, streamVars
<1>2. missed' = (missed \/ Passed)
  <2>1. missed' = IF Looks THEN InForce(0)
                  ELSE missed \/ (worker.pc = "WAIT" /\ worker'.pc = "ASLEEP" /\ Passed)
    BY DEF Observe
  <2>2. ~Looks
    BY <1>1 DEF Looks
  <2> QED
    BY <1>1, <2>1, <2>2
<1>3. Heard /\ ~Passed /\ Expects /\ NotAbove
  BY <1>1, <1>2 DEF Heard, Waiting
<1>4. \A u : InForce(u)' <=> InForce(u)
  BY <1>1, SameInForce
<1>5. Wanted' = Wanted
  BY <1>1, SameWanted
<1>6. ASSUME worker.pending = 0, NEW u, InForce(u)
      PROVE  sleep' # Forever /\ sleep' <= Since(u, now)
  <2>1. worker.expiry # 0 /\ Since(worker.expiry, now) <= Since(u, now)
        /\ Before(now, worker.expiry)
    BY <1>1, <1>3, <1>6 DEF Expects, Passed
  <2>2. Waits = {Since(worker.expiry, now)}
    BY <1>6, <2>1 DEF Waits, PendingWait, ExpiryWait
  <2>3. Since(worker.expiry, now) \in 1 .. H
    BY <2>2, WaitsAre DEF Demand
  <2>4. Since(worker.expiry, now) \in Int /\ Since(worker.expiry, now) # Forever
    BY <2>3, ConstantsNat DEF Forever
  <2>5. Min(Waits) = Since(worker.expiry, now)
    BY <2>2, <2>4, MinOfOne
  <2>6. sleep' = Min(Waits)
    BY <2>2 DEF Wait
  <2> QED
    BY <2>1, <2>4, <2>5, <2>6
<1>7. Expects'
  BY <1>1, <1>4, <1>6 DEF Expects
<1>8. NotAbove'
  BY <1>1, <1>3, <1>5 DEF NotAbove
<1> QED
  BY <1>7, <1>8

(* A renewed lease ends no sooner than the one it renews.                  *)
LEMMA WaitingRequest ==
  ASSUME Demand, Waiting, Request, Observe, Heard' PROVE Expects' /\ NotAbove'
<1>1. /\ UNCHANGED <<now, ticks, worker, sleep, current>>
  BY RequestKeeps
<1>2. /\ Same /\ shell = Idle /\ ~notified
      /\ \A s \in Running(now) :
           activeUntil'[s] = activeUntil[s] \/ activeUntil'[s] = Plus(now, AudioHold)
  BY QuietRequest DEF Demand, Heard
<1>3. missed' = missed
  <2>1. missed' = IF Looks THEN InForce(0)
                  ELSE missed \/ (worker.pc = "WAIT" /\ worker'.pc = "ASLEEP" /\ Passed)
    BY DEF Observe
  <2>2. ~Looks /\ ~(worker.pc = "WAIT" /\ worker'.pc = "ASLEEP")
    BY <1>1 DEF Looks
  <2> QED
    BY <2>1, <2>2 DEF Demand, Typed, HistoryType
<1>4. Expects /\ NotAbove /\ Short
  BY <1>2, <1>3 DEF Heard, Waiting, Same
<1>5. Wanted' = Wanted /\ (Passed' <=> Passed)
  BY <1>1, <1>2, SameWanted DEF Passed
<1>6. ASSUME NEW u, InForce(u)'
      PROVE  \E v : InForce(v) /\ Since(v, now) <= Since(u, now)
  <2>1. CASE Boosted(now)' /\ u = boostUntil'
    <3>1. InForce(u) /\ u \in Times
      BY <1>2, <2>1 DEF InForce, Same, Demand, Typed, RequestType
    <3>2. Since(u, now) \in Int
      BY <3>1, SinceIs DEF Demand, Typed, TimeType
    <3> QED
      BY <3>1, <3>2
  <2>2. CASE \E s \in Running(now)' : u = activeUntil'[s]
    <3>1. PICK s \in Running(now) : u = activeUntil'[s]
      BY <1>2, <2>2 DEF Same
    <3>2. s \in Streams /\ InForce(activeUntil[s]) /\ Since(activeUntil[s], now) <= AudioHold
      BY <1>4 DEF InForce, Short, Running, RunningOf
    <3>3. Since(activeUntil[s], now) \in Int
      BY <3>2, SinceIs DEF Demand, Typed, TimeType, RequestType
    <3>4. Since(Plus(now, AudioHold), now) = AudioHold
      BY LeaseAhead, ConstantsNat DEF Holds, Demand, Typed, TimeType
    <3> QED
      BY <1>2, <3>1, <3>2, <3>3, <3>4
  <2> QED
    BY <1>6, <2>1, <2>2 DEF InForce
<1>7. \A u : InForce(u)' => Since(u, now) \in Int
  <2>1. Since(Plus(now, AudioHold), now) = AudioHold /\ AudioHold \in Int
    BY LeaseAhead, ConstantsNat DEF Holds, Demand, Typed, TimeType
  <2>2. \A u \in Times : Since(u, now) \in Int
    BY SinceIs DEF Demand, Typed, TimeType
  <2>3. boostUntil' \in Times /\ \A s \in Streams : activeUntil[s] \in Times
    BY <1>2 DEF Same, Demand, Typed, RequestType
  <2>4. Running(now)' = Running(now) /\ Running(now) \subseteq Streams
    BY <1>2 DEF Same, Running, RunningOf
  <2> QED
    BY <1>2, <2>1, <2>2, <2>3, <2>4 DEF InForce
<1>8. \A v : InForce(v) => Since(v, now) \in Int
  BY <1>2, InForceIs DEF Demand
<1>9. worker.pc # "ASLEEP" /\ worker.expiry # 0 => Since(worker.expiry, now) \in Int
  <2>1. worker.expiry \in Times /\ now \in Times
    BY DEF Demand, Typed, WorkerType, Workers, TimeType
  <2> QED
    BY <2>1, SinceIs
<1>10. sleep \in Int
  BY ConstantsNat DEF Demand, Typed, WorkerType, Forever
<1>11. ASSUME worker.pc # "ASLEEP", NEW u, InForce(u)'
       PROVE  worker.expiry # 0 /\ (Passed \/ Since(worker.expiry, now) <= Since(u, now))
  <2>1. PICK v : InForce(v) /\ Since(v, now) <= Since(u, now)
    BY <1>6, <1>11
  <2>2. worker.expiry # 0 /\ (Passed \/ Since(worker.expiry, now) <= Since(v, now))
    BY <1>4, <1>11, <2>1 DEF Expects
  <2>3. Since(u, now) \in Int /\ Since(v, now) \in Int /\ Since(worker.expiry, now) \in Int
    BY <1>7, <1>8, <1>9, <1>11, <2>1, <2>2
  <2> QED
    BY <2>1, <2>2, <2>3
<1>12. ASSUME worker.pc = "ASLEEP", sleep # 0, worker.pending = 0, NEW u, InForce(u)'
       PROVE  sleep # Forever /\ sleep <= Since(u, now)
  <2>1. PICK v : InForce(v) /\ Since(v, now) <= Since(u, now)
    BY <1>6, <1>12
  <2>2. sleep # Forever /\ sleep <= Since(v, now)
    BY <1>4, <1>12, <2>1 DEF Expects
  <2>3. Since(u, now) \in Int /\ Since(v, now) \in Int
    BY <1>7, <1>8, <1>12, <2>1
  <2> QED
    BY <1>10, <2>1, <2>2, <2>3
<1>13. Expects'
  BY <1>1, <1>4, <1>5, <1>11, <1>12 DEF Expects
<1>14. NotAbove'
  BY <1>1, <1>4, <1>5 DEF NotAbove
<1> QED
  BY <1>13, <1>14

(* What a tick ends was to end in a tick.                                  *)
LEMMA InForceTick ==
  ASSUME Demand, Tick, shell = Idle
  PROVE  /\ \A u : InForce(u)' => InForce(u) /\ Since(u, now') = Since(u, now) - 1
         /\ Wanted' # Wanted => \E u : InForce(u) /\ Since(u, now) = 1
<1>1. /\ ticks \in 0 .. MaxTicks - 1 /\ now' = Plus(now, 1) /\ now \in Times
      /\ UNCHANGED <<boost, boostUntil, active, activeUntil>>
  BY TickIs DEF Demand, Typed, TimeType, requests, boostVars, streamVars
<1>2. \A u : InForce(u) =>
        /\ Since(u, now') = Since(u, now) - 1
        /\ Since(u, now) > 1 => Before(now', u)
        /\ Since(u, now) \in 1 .. H - 1
  BY <1>1, InForceIs, LeaseTick DEF Demand
<1>3. /\ Running(now)' \subseteq Running(now) /\ (Boosted(now)' => Boosted(now))
      /\ (Running(now)' = Running(now) /\ Boosted(now)' = Boosted(now)) => Wanted' = Wanted
  BY TickFalls DEF Demand
<1>4. \A u : InForce(u)' => InForce(u)
  BY <1>1, <1>3 DEF InForce
<1>5. ASSUME \A u : InForce(u) => Since(u, now) # 1 PROVE Wanted' = Wanted
  <2>1. \A u : InForce(u) => Before(now', u)
    BY <1>2, <1>5, ConstantsNat
  <2>2. \A s \in Running(now) : s \in Running(now)'
    BY <1>1, <2>1 DEF InForce, Running, RunningOf
  <2>3. Boosted(now) => Boosted(now)'
    BY <1>1, <2>1 DEF InForce, Boosted
  <2>4. Boosted(now) \in BOOLEAN /\ Boosted(now)' \in BOOLEAN
    BY DEF Boosted
  <2> QED
    BY <1>3, <2>2, <2>3, <2>4
<1> QED
  BY <1>2, <1>4, <1>5

LEMMA WaitingTick ==
  ASSUME Demand, Waiting, Tick, Observe, Heard' PROVE Expects' /\ NotAbove'
<1>1. /\ ticks \in 0 .. MaxTicks - 1 /\ now' = Plus(now, 1) /\ ticks' = ticks + 1
      /\ UNCHANGED <<worker, shell, notified, current, governor>> /\ now \in Times
  BY TickIs DEF Demand, Typed, TimeType, requests, manualVars
<1>2. missed' = missed
  <2>1. missed' = IF Looks THEN InForce(0)
                  ELSE missed \/ (worker.pc = "WAIT" /\ worker'.pc = "ASLEEP" /\ Passed)
    BY DEF Observe
  <2>2. ~Looks /\ ~(worker.pc = "WAIT" /\ worker'.pc = "ASLEEP")
    BY <1>1 DEF Looks
  <2> QED
    BY <2>1, <2>2 DEF Demand, Typed, HistoryType
<1>3. Expects /\ NotAbove /\ shell = Idle /\ ~notified
  BY <1>1, <1>2 DEF Heard, Waiting
<1>4. /\ \A u : InForce(u)' => InForce(u) /\ Since(u, now') = Since(u, now) - 1
      /\ Wanted' # Wanted => \E u : InForce(u) /\ Since(u, now) = 1
  BY <1>3, InForceTick
<1>5. \A u : InForce(u) => Since(u, now) \in 1 .. H - 1
  BY <1>3, InForceIs DEF Demand
<1>6. ASSUME worker.pc # "ASLEEP" PROVE Expects' /\ NotAbove'
  <2> DEFINE e == worker.expiry
  <2>1. e # 0 =>
          /\ Lease(e, now', ticks')
          /\ Before(now', e) => Before(now, e)
          /\ Before(now, e) => Since(e, now') = Since(e, now) - 1
          /\ Before(now, e) => Since(e, now) \in 1 .. H - 1
          /\ Before(now', e) => Since(e, now') \in 1 .. H - 1
    <3>1. ASSUME e # 0, Lease(e, now, ticks)
          PROVE  /\ Lease(e, now', ticks')
                 /\ Before(now', e) => Before(now, e)
                 /\ Before(now, e) => Since(e, now') = Since(e, now) - 1
      BY <1>1, <3>1, LeaseTick
    <3>2. ASSUME e # 0, Lease(e, now, ticks)
          PROVE  Before(now, e) => Since(e, now) \in 1 .. H - 1
      <4>1. ticks \in 0 .. MaxTicks
        BY DEF Demand, Typed, TimeType
      <4> QED
        BY <1>1, <3>2, <4>1, LeaseIs
    <3>3. ASSUME e # 0, Lease(e, now', ticks')
          PROVE  Before(now', e) => Since(e, now') \in 1 .. H - 1
      <4>1. ticks' \in 0 .. MaxTicks /\ now' \in Times
        BY <1>1, PlusIs, ConstantsNat
      <4> QED
        BY <3>3, <4>1, LeaseIs
    <3> QED
      BY <1>3, <1>6, <3>1, <3>2, <3>3 DEF Expects
  <2>2. Passed => Passed'
    BY <1>1, <2>1 DEF Passed
  <2>3. ASSUME NEW u, InForce(u)'
        PROVE  e # 0 /\ (Passed' \/ Since(e, now') <= Since(u, now'))
    <3>1. e # 0 /\ (Passed \/ Since(e, now) <= Since(u, now))
      BY <1>3, <1>4, <1>6, <2>3 DEF Expects
    <3>2. CASE Passed
      BY <2>2, <3>1, <3>2
    <3>3. CASE ~Passed
      <4>1. Before(now, e) /\ Since(e, now) <= Since(u, now)
        BY <3>1, <3>3 DEF Passed
      <4>2. Since(e, now) \in Int /\ Since(u, now) \in Int
        BY <1>4, <1>5, <2>1, <2>3, <3>1, <4>1, ConstantsNat
      <4> QED
        BY <1>4, <2>1, <2>3, <3>1, <4>1, <4>2
    <3> QED
      BY <3>2, <3>3
  <2>4. Expects'
    BY <1>1, <1>6, <2>1, <2>3 DEF Expects
  <2>5. Wanted' = Wanted \/ Passed'
    <3>1. ASSUME NEW u, InForce(u), Since(u, now) = 1 PROVE Passed'
      <4>1. e # 0 /\ (Passed \/ Since(e, now) <= 1)
        BY <1>3, <1>6, <3>1 DEF Expects
      <4>2. CASE Passed
        BY <2>2, <4>2
      <4>3. CASE ~Passed
        <5>1. Before(now, e) /\ Since(e, now) <= 1
          BY <4>1, <4>3 DEF Passed
        <5>2. Since(e, now') = 0
          BY <2>1, <4>1, <5>1, ConstantsNat
        <5>3. ~Before(now', e)
          BY <2>1, <4>1, <5>2, ConstantsNat
        <5> QED
          BY <1>1, <4>1, <5>3 DEF Passed
      <4> QED
        BY <4>2, <4>3
    <3> QED
      BY <1>4, <3>1
  <2>6. NotAbove'
    BY <1>1, <1>3, <1>6, <2>2, <2>5 DEF NotAbove
  <2> QED
    BY <2>4, <2>6
<1>7. ASSUME worker.pc = "ASLEEP", Due PROVE Expects' /\ NotAbove'
  <2>1. sleep' = 0
    BY <1>3, <1>7, TickIs DEF Due, Resting, Demand
  <2> QED
    BY <1>1, <1>7, <2>1 DEF Expects, NotAbove
<1>8. ASSUME worker.pc = "ASLEEP", ~Due PROVE Expects' /\ NotAbove'
  <2>1. sleep' = (IF sleep = Forever THEN Forever ELSE sleep - 1) /\ sleep # 0
    BY <1>8, TickIs DEF Due, Resting, Demand
  <2>2. sleep = Forever \/ sleep \in Nat
    BY ConstantsNat DEF Demand, Typed, WorkerType
  <2>3. ASSUME worker.pending = 0, NEW u, InForce(u)'
        PROVE  sleep' # Forever /\ sleep' <= Since(u, now')
    <3>1. sleep # Forever /\ sleep <= Since(u, now)
      BY <1>3, <1>4, <1>8, <2>1, <2>3 DEF Expects
    <3>2. Since(u, now) \in Int
      BY <1>4, <1>5, <2>3, ConstantsNat
    <3> QED
      BY <1>4, <2>1, <2>2, <2>3, <3>1, <3>2 DEF Forever
  <2>4. ASSUME worker.pending = 0, sleep' # 0 PROVE Wanted' = Wanted
    <3>1. ASSUME NEW u, InForce(u), Since(u, now) = 1 PROVE FALSE
      <4>1. sleep # Forever /\ sleep <= 1
        BY <1>3, <1>8, <2>1, <2>4, <3>1 DEF Expects
      <4> QED
        BY <2>1, <2>2, <2>4, <4>1
    <3> QED
      BY <1>4, <3>1
  <2>5. Expects'
    BY <1>1, <1>8, <2>3 DEF Expects
  <2>6. NotAbove'
    BY <1>1, <1>3, <1>8, <2>1, <2>4 DEF NotAbove
  <2> QED
    BY <2>5, <2>6
<1> QED
  BY <1>6, <1>7, <1>8

LEMMA WaitingNext == ASSUME Demand, Waiting, Next PROVE Waiting'
<1>1. Short'
  BY ShortNext DEF Demand, Waiting
<1>2. Heard' => Expects' /\ NotAbove'
  BY WaitingLook, WaitingApply, WaitingWait, WaitingRequest, WaitingTick DEF Next, WorkerStep
<1> QED
  BY <1>1, <1>2 DEF Waiting

-----------------------------------------------------------------------------
(* The clock falls in time                                                 *)

(* How long the clock has been too fast: a delay for another frequency,    *)
(* or a delay for this one, with the worker held up at each of its turns.  *)
Longest == Max({Delay, MaxLag + 1})
Waited == worker.pending = Wanted /\ calm <= Longest + MaxLag + Age(worker.since)
Lowering ==
    /\ worker.pc = "APPLY" => calm <= Longest + late \/ Waited
    /\ worker.pc = "WAIT" => calm <= Age(worker.seenAt) \/ Waited
    /\ worker.pc = "ASLEEP" =>
         \/ Waited
         \/ Due /\ calm <= Longest + late
         \/ ~Due /\ worker.pending = 0 /\ calm <= MaxLag
         \/ ~Due /\ worker.pending # 0 /\ calm + sleep <= Longest
Prompt ==
    /\ worker.pc = "APPLY" => worker.target = Wanted \/ calm <= Age(worker.seenAt)
    /\ shell = Idle /\ current > Wanted => Lowering

LEMMA LongestNat == Longest \in Nat /\ Longest >= Delay /\ Longest >= MaxLag + 1
BY LongestIs DEF Longest

LEMMA InitPrompt == Init => Prompt
<1> SUFFICES ASSUME Init PROVE Prompt
  OBVIOUS
<1>1. worker.pc = "ASLEEP" /\ sleep = 0 /\ calm = 0 /\ late = 0
  BY DEF Init
<1> QED
  BY <1>1, LongestNat DEF Prompt, Lowering, Due

(* It is so when what is asked for has just changed.                       *)
LEMMA PromptAnew == ASSUME Typed', Aged', calm' = 0 PROVE Prompt'
<1>0. Delay \in Nat /\ MaxLag \in Nat
  BY ConstantsNat
<1>1. worker'.seenAt \in Times /\ now' \in Times /\ late' \in Nat
  BY <1>0 DEF Typed, WorkerType, Workers, TimeType
<1>2. Age(worker.seenAt)' \in Nat
  BY <1>1, SinceIs DEF Age
<1>3. worker'.pc \in {"ASLEEP", "APPLY", "WAIT"}
  BY DEF Typed, WorkerType, Workers
<1>4. ASSUME worker'.pc = "ASLEEP", ~Due', worker'.pending # 0
      PROVE  calm' + sleep' <= Longest
  <2>1. sleep' \in 1 .. Delay
    BY <1>4 DEF Aged, PendingAge
  <2>2. PICK n \in 1 .. Delay : sleep' = n
    BY <2>1
  <2> QED
    BY ONLY <2>2, LongestNat, <1>0, calm' = 0
<1>5. 0 <= Longest + late' /\ 0 <= MaxLag
  <2>1. PICK l \in Nat : late' = l
    BY <1>1
  <2> QED
    BY ONLY <1>0, <2>1, LongestNat
<1>6. Lowering'
  BY <1>2, <1>4, <1>5 DEF Lowering
<1> QED
  BY <1>2, <1>6 DEF Prompt

LEMMA CalmKept ==
  ASSUME Typed, Observe, calm' # 0
  PROVE  /\ Wanted' = Wanted /\ shell' = shell /\ ~Overslept
         /\ calm \in Nat /\ calm' \in Nat /\ Wanted \in Int /\ Wanted # 0 /\ current \in Int
         /\ now' = now => calm' <= calm
         /\ now' # now => calm' <= calm + 1
<1>1. HistoryType
  BY DEF Typed
<1>2. /\ HistoryType' /\ Wanted' = Wanted /\ shell' = shell /\ ~Overslept
      /\ calm' <= calm + (IF now' = now THEN 0 ELSE 1)
  BY <1>1, ObserveType
<1>3. calm \in Nat /\ calm' \in Nat
  BY <1>1, <1>2 DEF HistoryType
<1>4. Wanted \in Int /\ Wanted # 0 /\ current \in Int
  BY WantedType, SpeedsInt DEF Typed, ClockType, DefaultMhz, Speeds
<1> QED
  BY <1>2, <1>3, <1>4

LEMMA PromptLook ==
  ASSUME Typed, Prompt, Look, Observe, calm' # 0 PROVE Prompt'
<1>1. /\ worker'.pc = "APPLY" /\ worker.pc = "ASLEEP" /\ worker'.target = Wanted
      /\ worker'.since = worker.since /\ worker'.pending = worker.pending /\ Due
      /\ UNCHANGED <<now, late, shell, current>>
  BY DEF Look, Typed, WorkerType, Workers, time, clock
<1>2. Wanted' = Wanted /\ calm' <= calm /\ calm \in Nat /\ calm' \in Nat
  BY <1>1, CalmKept
<1>3. Age(worker.since)' = Age(worker.since)
  BY <1>1 DEF Age
<1>4. Waited => Waited'
  BY <1>1, <1>2, <1>3, AgeTypes, LongestNat DEF Waited
<1>5. ASSUME shell' = Idle, current' > Wanted' PROVE Lowering'
  <2>1. Lowering
    BY <1>1, <1>2, <1>5 DEF Prompt
  <2> QED
    BY <1>1, <1>2, <1>4, <2>1, AgeTypes, LongestNat DEF Lowering
<1> QED
  BY <1>1, <1>2, <1>5 DEF Prompt

LEMMA PromptApply ==
  ASSUME Typed, Prompt, Apply, Observe, calm' # 0 PROVE Prompt'
<1>1. /\ worker.pc = "APPLY" /\ worker'.pc = "WAIT" /\ UNCHANGED <<now, late, shell>>
      /\ worker'.seenAt = worker.seenAt
  BY ApplyIs
<1>2. /\ Wanted' = Wanted /\ calm' <= calm /\ calm \in Nat /\ calm' \in Nat /\ Wanted \in Int
      /\ Wanted # 0 /\ current \in Int /\ Wanted >= DefaultMhz
  BY <1>1, CalmKept, WantedType, SpeedsInt
<1>3. worker.target = Wanted \/ calm <= Age(worker.seenAt)
  BY <1>1 DEF Prompt
<1>4. worker.target \in Int
  BY <1>1, SpeedsInt DEF Typed, WorkerType
<1>5. Age(worker.seenAt)' = Age(worker.seenAt)
  BY <1>1 DEF Age
<1>6. ASSUME shell' = Idle, current' > Wanted'
      PROVE  calm' <= Age(worker.seenAt)' \/ Waited'
  <2>1. CASE calm <= Age(worker.seenAt)
    BY <1>2, <1>5, <2>1, AgeTypes
  <2>2. CASE worker.target = Wanted
    <3>1. current' = current /\ worker.target < current /\ worker'.pending = Wanted
          /\ worker'.since = PendingSince
      <4>1. ~Transition
        <5>1. Transition => current' = worker.target \/ current' = DefaultMhz
          BY DEF Transition, Change
        <5> QED
          BY <1>2, <1>6, <2>2, <5>1 DEF DefaultMhz
      <4>2. UNCHANGED clock
        BY <4>1, ApplyIs
      <4>3. current' = current
        BY <4>2 DEF clock
      <4>4. worker.target < current
        BY <1>2, <1>6, <2>2, <4>3
      <4> QED
        BY <2>2, <4>1, <4>3, <4>4 DEF Apply, Typed, WorkerType, Workers
    <3>2. Lowering
      BY <1>1, <1>2, <1>6, <3>1 DEF Prompt
    <3>3. calm <= Longest + late \/ Waited
      BY <1>1, <3>2 DEF Lowering
    <3>4. Age(worker.since)' = Age(PendingSince) /\ Age(PendingSince) \in Nat
      BY <1>1, <3>1, AgeTypes DEF Age, PendingSince
    <3>5. calm <= Longest + MaxLag + Age(PendingSince)
      <4>1. CASE calm <= Longest + late
        BY <1>2, <3>4, <4>1, AgeTypes, LongestNat
      <4>2. CASE Waited
        BY <2>2, <4>2 DEF Waited, PendingSince
      <4> QED
        BY <3>3, <4>1, <4>2
    <3>6. Waited'
      BY <1>2, <3>1, <3>4, <3>5, AgeTypes, LongestNat DEF Waited
    <3> QED
      BY <3>6
  <2> QED
    BY <1>3, <2>1, <2>2
<1> QED
  BY <1>1, <1>6 DEF Prompt, Lowering

LEMMA PromptWait ==
  ASSUME Typed, Aged, Prompt, Wait, Observe, calm' # 0 PROVE Prompt'
<1>1. /\ worker.pc = "WAIT" /\ worker'.pc = "ASLEEP" /\ late' = 0
      /\ UNCHANGED <<now, shell, current>>
      /\ worker'.since = worker.since /\ worker'.pending = worker.pending
  BY WaitIs
<1>2. Wanted' = Wanted /\ calm' <= calm /\ calm \in Nat /\ calm' \in Nat
  BY <1>1, CalmKept
<1>3. Age(worker.since)' = Age(worker.since)
  BY <1>1 DEF Age
<1>4. Waited => Waited'
  BY <1>1, <1>2, <1>3, AgeTypes, LongestNat DEF Waited
<1>5. Age(worker.seenAt) <= late
  BY <1>1 DEF Aged
<1>6. ASSUME worker.pending # 0, calm <= Age(worker.seenAt)
      PROVE  calm' + sleep' <= Longest
  <2>1. Age(worker.since) <= ticks /\ Age(worker.seenAt) <= Age(worker.since)
    BY <1>1, <1>6, AgeTypes DEF Aged, PendingAge
  <2>2. /\ sleep' \in 1 .. Delay
        /\ sleep' <= IF Age(worker.since) < Delay THEN Delay - Age(worker.since) ELSE 1
    BY <1>6, <2>1, WaitIs
  <2>3. /\ Age(worker.since) \in Nat /\ Age(worker.seenAt) \in Nat
        /\ late \in Nat /\ late <= MaxLag /\ MaxLag \in Nat /\ Delay \in Nat
    BY AgeTypes
  <2>4. calm' <= Age(worker.seenAt) /\ Age(worker.seenAt) <= Age(worker.since)
        /\ Age(worker.seenAt) <= MaxLag
    BY ONLY <1>2, <1>5, <1>6, <2>1, <2>3
  <2>5. PICK n \in 1 .. Delay : sleep' = n
    BY <2>2
  <2>6. PICK c \in Nat : calm' = c
    BY <1>2
  <2>7. CASE Age(worker.since) < Delay
    BY ONLY <2>2, <2>3, <2>4, <2>7, <2>5, <2>6, LongestNat
  <2>8. CASE ~(Age(worker.since) < Delay)
    BY ONLY <2>2, <2>3, <2>4, <2>8, <2>5, <2>6, LongestNat
  <2> QED
    BY <2>7, <2>8
<1>7. ASSUME shell' = Idle, current' > Wanted' PROVE Lowering'
  <2>1. Lowering
    BY <1>1, <1>2, <1>7 DEF Prompt
  <2>2. CASE Waited
    BY <1>1, <1>4, <2>2 DEF Lowering
  <2>3. CASE calm <= Age(worker.seenAt)
    <3>1. calm' <= MaxLag /\ calm' <= Longest + late'
      BY <1>1, <1>2, <1>5, <2>3, AgeTypes, LongestNat
    <3> QED
      BY <1>1, <1>6, <2>3, <3>1 DEF Lowering
  <2> QED
    BY <1>1, <2>1, <2>2, <2>3 DEF Lowering
<1> QED
  BY <1>1, <1>7 DEF Prompt

LEMMA PromptRequest ==
  ASSUME Typed, Aged, Prompt, Request, Observe, calm' # 0 PROVE Prompt'
<1>1. UNCHANGED <<now, late, worker, sleep, current>> /\ (notified => notified')
  BY RequestKeeps
<1>2. /\ Wanted' = Wanted /\ shell' = shell /\ calm' <= calm /\ calm \in Nat /\ calm' \in Nat
  BY <1>1, CalmKept
<1>3. Age(worker.since)' = Age(worker.since) /\ Age(worker.seenAt)' = Age(worker.seenAt)
  BY <1>1 DEF Age
<1>4. Waited => Waited'
  BY <1>1, <1>2, <1>3, AgeTypes, LongestNat DEF Waited
<1>5. Due => Due'
  BY <1>1 DEF Due
<1>6. ASSUME shell' = Idle, current' > Wanted' PROVE Lowering'
  <2>1. Lowering
    BY <1>1, <1>2, <1>6 DEF Prompt
  <2>2. CASE worker.pc # "ASLEEP"
    BY <1>1, <1>2, <1>3, <1>4, <2>1, <2>2, AgeTypes, LongestNat DEF Lowering
  <2>3. CASE worker.pc = "ASLEEP" /\ Waited
    BY <1>1, <1>4, <2>3 DEF Lowering
  <2>4. CASE worker.pc = "ASLEEP" /\ Due /\ calm <= Longest + late
    <3>1. calm' <= Longest + late'
      BY <1>1, <1>2, <2>4, AgeTypes, LongestNat
    <3> QED
      BY <1>1, <1>5, <2>4, <3>1 DEF Lowering
  <2>5. CASE worker.pc = "ASLEEP" /\ ~Due /\ worker.pending = 0 /\ calm <= MaxLag
    <3>1. calm' <= Longest + late' /\ calm' <= MaxLag
      BY <1>1, <1>2, <2>5, AgeTypes, LongestNat
    <3> QED
      BY <1>1, <2>5, <3>1 DEF Lowering
  <2>6. CASE worker.pc = "ASLEEP" /\ ~Due /\ worker.pending # 0 /\ calm + sleep <= Longest
    <3>1. sleep \in 1 .. Delay /\ Delay \in Nat /\ late \in Nat
      BY <2>6, AgeTypes DEF Aged, PendingAge
    <3>2. PICK c \in Nat : calm' = c
      BY <1>2
    <3>3. calm' + sleep' <= Longest
      BY ONLY <1>1, <1>2, <2>6, <3>1, <3>2, LongestNat
    <3>4. CASE Due'
      <4>1. calm' <= Longest + late'
        BY ONLY <1>1, <3>1, <3>2, <3>3, LongestNat
      <4> QED
        BY <1>1, <2>6, <3>4, <4>1 DEF Lowering
    <3> QED
      BY <1>1, <2>6, <3>3, <3>4 DEF Lowering
  <2> QED
    BY <2>1, <2>2, <2>3, <2>4, <2>5, <2>6 DEF Lowering, Typed, WorkerType, Workers
<1> QED
  BY <1>1, <1>2, <1>3, <1>6, AgeTypes DEF Prompt

LEMMA PromptTick ==
  ASSUME Demand, Aged, Waiting, Prompt, Tick, Observe, calm' # 0 PROVE Prompt'
<1>1. /\ UNCHANGED <<worker, shell, notified, current>> /\ now' # now
      /\ IF Resting
         THEN sleep' = (IF sleep = Forever THEN Forever ELSE sleep - 1) /\ late' = late
         ELSE late' = late + 1 /\ sleep' = sleep
      /\ \A u \in Times : Since(now, u) <= ticks => Since(now', u) = Since(now, u) + 1
  BY TickIs DEF Demand
<1>2. /\ Wanted' = Wanted /\ shell' = shell /\ calm' <= calm + 1 /\ ~Overslept
      /\ calm \in Nat /\ calm' \in Nat /\ Wanted \in Int /\ Wanted # 0 /\ current \in Int
  BY <1>1, CalmKept DEF Demand
<1>3. Typed
  BY DEF Demand
<1>4. worker.pc # "ASLEEP" => Age(worker.seenAt)' = Age(worker.seenAt) + 1
  <2>1. worker.pc # "ASLEEP" => Age(worker.seenAt) <= ticks
    BY <1>3, AgeTypes DEF Aged
  <2> QED
    BY <1>1, <1>3, <2>1, AgeTypes DEF Age
<1>5. Waited => Waited'
  <2>1. ASSUME Waited PROVE Age(worker.since)' = Age(worker.since) + 1
    <3>1. worker.pending # 0 /\ PendingAge
      BY <1>2, <2>1 DEF Waited, Aged
    <3>2. Age(worker.since) <= ticks
      BY <1>3, <3>1, AgeTypes DEF Aged, PendingAge
    <3> QED
      BY <1>1, <1>3, <3>2, AgeTypes DEF Age
  <2>2. ASSUME Waited PROVE calm' <= Longest + MaxLag + Age(worker.since)'
    <3>1. Age(worker.since) \in Nat /\ MaxLag \in Nat
      BY <1>3, AgeTypes
    <3>2. calm <= Longest + MaxLag + Age(worker.since)
      BY <2>2 DEF Waited
    <3> QED
      BY ONLY <1>2, <2>1, <2>2, <3>1, <3>2, LongestNat
  <2> QED
    BY <1>1, <1>2, <2>2 DEF Waited
<1>6. ASSUME shell' = Idle, current' > Wanted', Resting, worker.pending = 0 PROVE FALSE
  <2>1. shell = Idle /\ ~notified /\ worker.pc = "ASLEEP" /\ sleep # 0 /\ current > Wanted
    BY <1>1, <1>2, <1>6 DEF Resting, Due
  <2>2. CASE governor = "MANUAL"
    <3>1. CASE failure = "NONE"
      BY <1>2, <2>1, <2>2, <3>1 DEF Demand, Aimed, Enough, Wanted
    <3>2. CASE failure # "NONE"
      <4>1. current = DefaultMhz /\ Wanted >= DefaultMhz
        BY <1>3, <3>2, WantedType, SpeedsInt DEF Demand, Recorded
      <4> QED
        BY <1>2, <2>1, <4>1 DEF DefaultMhz
    <3> QED
      BY <3>1, <3>2
  <2>3. CASE governor # "MANUAL" /\ ~missed
    <3>1. NotAbove
      BY <2>1, <2>3 DEF Waiting, Heard
    <3>2. current <= Wanted
      BY <1>6, <2>1, <3>1 DEF NotAbove
    <3> QED
      BY <1>2, <2>1, <3>2
  <2>4. CASE missed
    BY <1>2, <1>6, <2>1, <2>4 DEF Overslept
  <2> QED
    BY <2>2, <2>3, <2>4
<1>7. ASSUME shell' = Idle, current' > Wanted' PROVE Lowering'
  <2>1. Lowering
    BY <1>1, <1>2, <1>7 DEF Prompt
  <2>2. late \in Nat /\ Delay \in Nat /\ MaxLag \in Nat /\ Age(worker.seenAt) \in Nat
    BY <1>3, AgeTypes
  <2>3. ASSUME ~Resting, calm <= Longest + late PROVE calm' <= Longest + late'
    BY ONLY <1>1, <1>2, <2>2, <2>3, LongestNat
  <2>4. CASE worker.pc = "ASLEEP" /\ Waited
    BY <1>1, <1>5, <2>4 DEF Lowering
  <2>5. CASE worker.pc = "APPLY"
    <3>1. ~Resting
      BY <2>5 DEF Resting
    <3>2. calm' <= Longest + late' \/ Waited'
      BY <1>5, <2>1, <2>3, <2>5, <3>1 DEF Lowering
    <3> QED
      BY <1>1, <2>5, <3>2 DEF Lowering
  <2>6. CASE worker.pc = "WAIT"
    <3>1. calm' <= Age(worker.seenAt)' \/ Waited'
      BY <1>2, <1>4, <1>5, <2>1, <2>2, <2>6 DEF Lowering
    <3> QED
      BY <1>1, <2>6, <3>1 DEF Lowering
  <2>7. CASE worker.pc = "ASLEEP" /\ Due /\ calm <= Longest + late
    <3>1. ~Resting /\ Due'
      BY <1>1, <2>7 DEF Resting, Due
    <3> QED
      BY <1>1, <2>3, <2>7, <3>1 DEF Lowering
  <2>8. CASE worker.pc = "ASLEEP" /\ ~Due /\ worker.pending # 0 /\ calm + sleep <= Longest
    <3>1. sleep \in 1 .. Delay /\ Resting
      BY <2>8 DEF Aged, PendingAge, Resting
    <3>2. sleep # Forever
      BY <2>2, <3>1 DEF Forever
    <3>3. sleep' = sleep - 1 /\ late' = late
      BY <1>1, <3>1, <3>2
    <3>4. PICK c \in Nat : calm' = c
      BY <1>2
    <3>5. calm' + sleep' <= Longest /\ calm' <= Longest + late'
      BY ONLY <1>2, <2>2, <2>8, <3>1, <3>3, <3>4, LongestNat
    <3> QED
      BY <1>1, <2>8, <3>5 DEF Lowering
  <2>9. CASE worker.pc = "ASLEEP" /\ ~Due /\ worker.pending = 0
    BY <1>6, <1>7, <2>9 DEF Resting
  <2> QED
    BY <1>3, <2>1, <2>4, <2>5, <2>6, <2>7, <2>8, <2>9 DEF Lowering, Typed, WorkerType, Workers
<1>8. worker'.pc = "APPLY" => worker'.target = Wanted' \/ calm' <= Age(worker.seenAt)'
  <2>1. Age(worker.seenAt) \in Nat
    BY <1>3, AgeTypes
  <2> QED
    BY <1>1, <1>2, <1>4, <2>1 DEF Prompt
<1> QED
  BY <1>7, <1>8 DEF Prompt

FallInv == Demand /\ Aged /\ Waiting /\ Prompt

LEMMA FallInvStep == ASSUME FallInv, [Next]_vars PROVE FallInv'
<1>1. CASE Next
  <2>1. Demand'
    BY DemandStep DEF FallInv
  <2>2. Typed /\ Typed'
    BY <2>1 DEF FallInv, Demand
  <2>3. Aged'
    BY <1>1, <2>2, AgedNext DEF FallInv
  <2>4. Waiting'
    BY <1>1, WaitingNext DEF FallInv
  <2>5. CASE calm' = 0
    BY <2>1, <2>2, <2>3, <2>4, <2>5, PromptAnew DEF FallInv
  <2>6. CASE calm' # 0
    <3>1. Prompt'
      BY <1>1, <2>2, <2>6, PromptLook, PromptApply, PromptWait, PromptRequest, PromptTick
      DEF FallInv, Next, WorkerStep
    <3> QED
      BY <2>1, <2>3, <2>4, <3>1 DEF FallInv
  <2> QED
    BY <2>5, <2>6
<1>2. CASE UNCHANGED vars
  <2>1. Demand'
    BY DemandStep DEF FallInv
  <2>2. UNCHANGED <<now, ticks, late, governor, manualMhz, boost, boostUntil, active,
                    activeUntil, worker, sleep, notified, shell, current, calm, missed>>
    BY <1>2 DEF vars, time, requests, manualVars, boostVars, streamVars, clock
  <2>3. Aged'
    BY <2>2 DEF FallInv, Aged, PendingAge, Age, Due
  <2>4. Same /\ Wanted' = Wanted
    BY <2>2, RequestsSame, SameWanted
  <2>5. \A u : InForce(u)' <=> InForce(u)
    BY <2>2, <2>4, SameInForce
  <2>6. (Passed' <=> Passed) /\ (Heard' <=> Heard)
    BY <2>2 DEF Passed, Heard
  <2>7. Short'
    BY <2>2 DEF FallInv, Waiting, Short, Running, RunningOf
  <2>8. Expects => Expects'
    BY <2>2, <2>5, <2>6 DEF Expects
  <2>9. NotAbove => NotAbove'
    BY <2>2, <2>4, <2>6 DEF NotAbove
  <2>10. Waiting'
    BY <2>6, <2>7, <2>8, <2>9 DEF FallInv, Waiting
  <2>11. Prompt'
    BY <2>2, <2>4 DEF FallInv, Prompt, Lowering, Waited, Due, Age
  <2> QED
    BY <2>1, <2>3, <2>10, <2>11 DEF FallInv
<1> QED
  BY <1>1, <1>2

LEMMA FallInvFalls == FallInv => FallsInTime
<1> SUFFICES ASSUME FallInv, calm > Patience, shell = Idle PROVE current <= Wanted
  BY DEF FallsInTime
<1>1. Typed /\ Aged /\ Prompt
  BY DEF FallInv, Demand
<1>2. /\ calm \in Nat /\ Wanted \in Int /\ Wanted # 0 /\ current \in Int
  BY <1>1, WantedType, SpeedsInt DEF Typed, HistoryType, ClockType, Speeds
<1>3. Patience = Longest + Delay + 3 * MaxLag
  BY DEF Patience, Longest
<1>4. /\ Age(worker.seenAt) \in Nat /\ Age(worker.since) \in Nat
      /\ late \in Nat /\ late <= MaxLag /\ MaxLag \in Nat /\ Delay \in Nat
  BY <1>1, AgeTypes
<1>5. ASSUME current > Wanted PROVE FALSE
  <2>1. Lowering
    BY <1>1, <1>5 DEF Prompt
  <2>2. ~(calm <= Longest + late)
    BY ONLY <1>2, <1>3, <1>4, calm > Patience, LongestNat
  <2>3. CASE Waited
    <3>1. worker.pending # 0 /\ PendingAge
      BY <1>1, <1>2, <2>3 DEF Waited, Aged
    <3>2. Age(worker.since) <= Delay + 2 * MaxLag
      <4>1. CASE worker.pc = "APPLY" \/ worker.pc = "WAIT"
        BY <1>4, <3>1, <4>1 DEF PendingAge
      <4>2. CASE worker.pc = "ASLEEP" /\ Due
        BY <1>4, <3>1, <4>2 DEF PendingAge
      <4>3. CASE worker.pc = "ASLEEP" /\ ~Due
        <5>1. sleep \in 1 .. Delay /\ Age(worker.since) + sleep <= Delay + MaxLag
          BY <3>1, <4>3 DEF PendingAge
        <5> QED
          BY <1>4, <5>1
      <4> QED
        BY <1>1, <4>1, <4>2, <4>3 DEF Typed, WorkerType, Workers
    <3>3. calm <= Longest + MaxLag + Age(worker.since)
      BY <2>3 DEF Waited
    <3> QED
      BY ONLY <1>2, <1>3, <1>4, <3>2, <3>3, calm > Patience, LongestNat
  <2>4. CASE worker.pc = "WAIT" /\ calm <= Age(worker.seenAt)
    <3>1. Age(worker.seenAt) <= late
      BY <1>1, <2>4 DEF Aged
    <3> QED
      BY ONLY <1>2, <1>4, <2>2, <2>4, <3>1, LongestNat
  <2>5. CASE worker.pc = "ASLEEP" /\ ~Due /\ worker.pending = 0 /\ calm <= MaxLag
    BY ONLY <1>2, <1>4, <2>2, <2>5, LongestNat
  <2>6. CASE worker.pc = "ASLEEP" /\ ~Due /\ worker.pending # 0 /\ calm + sleep <= Longest
    <3>1. sleep \in 1 .. Delay
      BY <1>1, <2>6 DEF Aged, PendingAge
    <3> QED
      BY ONLY <1>2, <1>4, <2>2, <2>6, <3>1, LongestNat
  <2> QED
    BY <1>1, <2>1, <2>2, <2>3, <2>4, <2>5, <2>6 DEF Lowering, Typed, WorkerType, Workers
<1> QED
  BY <1>2, <1>5

(* The clock is not kept faster than what is asked for longer than a       *)
(* delay, one that is under way for another frequency, and three turns of  *)
(* the worker (m61_dvfs.c:325-362, 410-520).                               *)
THEOREM DvfsFallsInTime == Spec => []FallsInTime
<1>1. Init => FallInv
  BY InitDemand, InitAged, InitWaiting, InitPrompt DEF FallInv
<1>2. FallInv /\ [Next]_vars => FallInv'
  BY FallInvStep
<1>3. FallInv => FallsInTime
  BY FallInvFalls
<1> QED
  BY <1>1, <1>2, <1>3, PTL DEF Spec

=============================================================================
