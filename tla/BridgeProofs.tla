---------------------------- MODULE BridgeProofs ----------------------------
(* Proofs about the bridge task for every depth of the queue, burst,       *)
(* number of link sessions and of audio generations.                       *)
EXTENDS Bridge, SequenceTheorems, WellFoundedInduction, TLAPS

USE TxQueueAssumption, BridgeAssumption DEF Boxes, TxClasses, Routes, Results, Setters, Places

-----------------------------------------------------------------------------
(* What is kept of a queue                                                 *)

(* A set of numbers has a least one.                                       *)
LEMMA LeastNat ==
  ASSUME NEW T, T \subseteq Nat, T # {}
  PROVE  \E x \in T : \A y \in T : x <= y
<1>1. PICK x \in T : \A y \in T : ~(<<y, x>> \in OpToRel(<, Nat))
  BY NatLessThanWellFounded, WFMin, Zenon
<1>2. \A y \in T : ~(y < x)
  BY <1>1 DEF OpToRel
<1> QED
  BY <1>2

(* One step of Kept: what is kept of the first i items.                    *)
KeepStep(f, expired, i) ==
    IF i = 0 THEN <<>>
    ELSE IF i \in expired THEN f[i - 1]
    ELSE Append(f[i - 1], queue[i])

(* The recursive function of Kept exists for every queue.                  *)
LEMMA KeepExists ==
  ASSUME NEW n \in Nat, NEW expired
  PROVE  \E f : f = [i \in 0 .. n |-> KeepStep(f, expired, i)]
<1> DEFINE Bad == {m \in Nat : ~\E f : f = [i \in 0 .. m |-> KeepStep(f, expired, i)]}
<1>1. SUFFICES ASSUME Bad # {} PROVE FALSE
  OBVIOUS
<1>2. PICK m \in Bad : \A k \in Bad : m <= k
  BY <1>1, LeastNat
<1>3. m \in Nat /\ ~\E f : f = [i \in 0 .. m |-> KeepStep(f, expired, i)]
  OBVIOUS
<1>4. CASE m = 0
  <2> DEFINE f == [i \in 0 .. 0 |-> <<>>]
  <2>1. f = [i \in 0 .. 0 |-> KeepStep(f, expired, i)]
    BY DEF KeepStep
  <2> QED
    BY <1>3, <1>4, <2>1
<1>5. CASE m # 0
  <2>1. m - 1 \in Nat /\ m - 1 \notin Bad
    BY <1>2, <1>3, <1>5
  <2>2. PICK g : g = [i \in 0 .. m - 1 |-> KeepStep(g, expired, i)]
    BY <2>1
  <2> DEFINE f == [i \in 0 .. m |-> KeepStep(g, expired, i)]
  <2>3. \A i \in 0 .. m - 1 : f[i] = g[i]
    BY <2>2, <1>3
  <2>4. \A i \in 0 .. m : KeepStep(g, expired, i) = KeepStep(f, expired, i)
    <3> TAKE i \in 0 .. m
    <3>1. CASE i = 0
      BY <3>1 DEF KeepStep
    <3>2. CASE i # 0
      <4>1. i - 1 \in 0 .. m - 1
        BY <3>2, <1>3
      <4>2. f[i - 1] = g[i - 1]
        BY <4>1, <2>3
      <4> QED
        BY <3>2, <4>2 DEF KeepStep
    <3> QED
      BY <3>1, <3>2
  <2>5. f = [i \in 0 .. m |-> KeepStep(f, expired, i)]
    BY <2>4
  <2> QED
    BY <1>3, <2>5
<1> QED
  BY <1>4, <1>5

(* What is kept of a queue of items of a set is such a queue, no longer    *)
(* than it was.                                                            *)
LEMMA KeptIsSeq ==
  ASSUME NEW S, queue \in Seq(S), NEW expired
  PROVE  Kept(expired) \in Seq(S) /\ Len(Kept(expired)) <= Len(queue)
<1> DEFINE N == Len(queue)
           keep == CHOOSE f : f = [i \in 0 .. N |-> KeepStep(f, expired, i)]
<1>1. N \in Nat
  BY LenProperties
<1>2. keep = [i \in 0 .. N |-> KeepStep(keep, expired, i)]
  BY SMTT(30), <1>1, KeepExists
<1>3. Kept(expired) = keep[N]
  BY DEF Kept, KeepStep
<1> HIDE DEF keep
<1> DEFINE Bad == {m \in 0 .. N : ~(keep[m] \in Seq(S) /\ Len(keep[m]) <= m)}
<1>4. Bad = {}
  <2>1. SUFFICES ASSUME Bad # {} PROVE FALSE
    OBVIOUS
  <2>2. PICK m \in Bad : \A k \in Bad : m <= k
    <3>1. Bad \subseteq Nat
      BY <1>1
    <3> QED
      BY <2>1, <3>1, LeastNat
  <2>3. m \in 0 .. N /\ ~(keep[m] \in Seq(S) /\ Len(keep[m]) <= m)
    OBVIOUS
  <2>4. keep[m] = KeepStep(keep, expired, m)
    BY <1>2, <2>3
  <2>5. CASE m = 0
    BY <2>3, <2>4, <2>5, EmptySeq DEF KeepStep
  <2>6. CASE m # 0
    <3>1. m - 1 \in 0 .. N /\ m - 1 \notin Bad /\ m \in 1 .. N
      BY <1>1, <2>2, <2>3, <2>6
    <3>2. keep[m - 1] \in Seq(S) /\ Len(keep[m - 1]) <= m - 1
      BY <3>1
    <3>3. Len(keep[m - 1]) \in Nat
      BY <3>2, LenProperties
    <3>4. CASE m \in expired
      BY <2>3, <2>4, <2>6, <3>1, <3>2, <3>3, <3>4 DEF KeepStep
    <3>5. CASE m \notin expired
      <4>1. keep[m] = Append(keep[m - 1], queue[m])
        BY <2>4, <2>6, <3>5 DEF KeepStep
      <4>2. queue[m] \in S
        BY <3>1, ElementOfSeq
      <4>3. keep[m] \in Seq(S) /\ Len(keep[m]) = Len(keep[m - 1]) + 1
        BY <3>2, <4>1, <4>2, AppendProperties
      <4> QED
        BY <2>3, <3>1, <3>2, <3>3, <4>3
    <3> QED
      BY <3>4, <3>5
  <2> QED
    BY <2>5, <2>6
<1>5. N \notin Bad /\ N \in 0 .. N
  BY <1>1, <1>4
<1> QED
  BY <1>3, <1>5

-----------------------------------------------------------------------------
(* The invariant in the form the proofs use: the pairs, reports and        *)
(* statuses that may wait in a state.                                      *)
GoodPairs == {p \in Pairs : PairFits(p) /\ OfThisLink(p)}
GoodReports == {r \in OutputReports : OfThisLink(r)}
GoodStatuses == {s \in Statuses : OfThisLink(s)}

FlagsOK ==
    /\ usbHead \in BOOLEAN /\ stereo \in BOOLEAN /\ btHead \in BOOLEAN
    /\ micOn \in BOOLEAN /\ hostReport \in BOOLEAN
    /\ linkUp \in BOOLEAN /\ told \in BOOLEAN
    /\ micKnown \in BOOLEAN /\ lastMic \in BOOLEAN
    /\ refreshDue \in BOOLEAN /\ outputDue \in BOOLEAN /\ schedLink \in BOOLEAN
    /\ bMic \in BOOLEAN /\ overtaken \in BOOLEAN
SettingOK ==
    /\ layouts \in SUBSET BOOLEAN
    /\ setting \in [Setters -> Places] /\ wanted \in [Setters -> BOOLEAN]
DataOK ==
    /\ audioGen \in Nat \ {0} /\ schedGen \in Nat \ {0}
    /\ route \in Routes /\ session \in Sessions
    /\ pc \in {"poll", "fill", "status", "host", "check", "send", "finish"}
    /\ result \in Results \cup {"NONE"}
ScalarsOK == FlagsOK /\ DataOK

(* The layout, in the form that every step keeps: whoever is about to      *)
(* store a layout and was not overtaken has read what is asked for now;    *)
(* without such a store ahead and without one that came late the layout    *)
(* is the one asked for; and one generation knows one layout, but while a  *)
(* task is about to start the next.                                        *)
LayoutKept ==
    /\ SettingOK
    /\ usbHead = btHead
    /\ \A t \in Setters : setting[t] = "store" => wanted[t] = WantsStereo(route, usbHead)
    /\ \/ overtaken
       \/ \E t \in Setters : setting[t] \in {"read", "store"}
       \/ stereo = WantsStereo(route, usbHead)
    /\ stereo \in layouts /\ (Resetting \/ layouts = {stereo})

Waiting ==
    /\ queue \in Seq(GoodPairs) /\ Len(queue) <= Depth
    /\ mail \in [Boxes -> OutputReports \cup Statuses \cup {Nothing}]
    /\ mail["STATE31"] \in GoodReports \cup {Nothing}
    /\ mail["STATE32"] \in GoodStatuses \cup {Nothing}
    /\ burst \in 0 .. BurstCap /\ turn \in Boxes
    /\ chosen.class \in TxClasses \cup {"NONE"}

LEMMA SoundParts == Sound <=> ScalarsOK /\ SettingOK /\ Waiting /\ ChosenStays /\ LayoutFollows
<1>1. ASSUME Sound PROVE ScalarsOK /\ SettingOK /\ Waiting /\ ChosenStays /\ LayoutFollows
  <2>1. ScalarsOK /\ SettingOK
    BY <1>1 DEF Sound, TypeOK, ScalarsOK, FlagsOK, DataOK, SettingOK
  <2>2. queue \in Seq(Pairs) /\ \A i \in 1 .. Len(queue) : PairFits(queue[i]) /\ OfThisLink(queue[i])
    BY <1>1 DEF Sound, TypeOK, PairsMatchLayout, WaitsForThisLink
  <2>3. queue \in [1 .. Len(queue) -> Pairs] /\ Len(queue) \in Nat
    BY <2>2, LenProperties
  <2>4. queue \in [1 .. Len(queue) -> GoodPairs]
    BY <2>2, <2>3 DEF GoodPairs
  <2>5. queue \in Seq(GoodPairs)
    BY <2>3, <2>4, SeqDef
  <2>6. Waiting
    BY <1>1, <2>5 DEF Sound, TypeOK, WaitsForThisLink, Waiting, GoodReports, GoodStatuses
  <2> QED
    BY <1>1, <2>1, <2>6 DEF Sound
<1>2. ASSUME ScalarsOK, SettingOK, Waiting, ChosenStays, LayoutFollows PROVE Sound
  <2>1. queue \in Seq(GoodPairs) /\ GoodPairs \subseteq Pairs
    BY <1>2 DEF Waiting, GoodPairs
  <2>2. queue \in Seq(Pairs)
    BY <2>1, SeqMonotonic
  <2>3. \A i \in 1 .. Len(queue) : queue[i] \in GoodPairs
    BY <2>1, ElementOfSeq
  <2>4. PairsMatchLayout
    BY <2>3 DEF PairsMatchLayout, GoodPairs
  <2>5. WaitsForThisLink
    BY <1>2, <2>3 DEF Waiting, WaitsForThisLink, GoodPairs, GoodReports, GoodStatuses
  <2>6. TypeOK
    BY <1>2, <2>2 DEF TypeOK, ScalarsOK, FlagsOK, DataOK, SettingOK, Waiting, GoodReports, GoodStatuses
  <2> QED
    BY <1>2, <2>4, <2>5, <2>6 DEF Sound
<1> QED
  BY <1>1, <1>2

(* What waits stays good when the link session is the same and the layout  *)
(* is the same, of a new generation, or of one that ends at once.          *)
LEMMA WaitingKept ==
  ASSUME ScalarsOK, Waiting, UNCHANGED queueVars, Now' = Now,
         audioGen' \in Nat,
         \/ audioGen' = audioGen /\ stereo' = stereo /\ (Resetting => Resetting')
         \/ audioGen' = audioGen /\ Resetting'
         \/ audioGen' > audioGen
  PROVE  Waiting'
<1>1. GoodPairs \subseteq GoodPairs' /\ GoodReports = GoodReports' /\ GoodStatuses = GoodStatuses'
  <2>1. GoodReports = GoodReports' /\ GoodStatuses = GoodStatuses'
    BY DEF GoodReports, GoodStatuses, OfThisLink
  <2>2. ASSUME NEW p \in GoodPairs PROVE p \in GoodPairs'
    <3>1. p \in Pairs /\ p.gen \in Nat /\ OfThisLink(p)' /\ PairFits(p) /\ audioGen \in Nat
      BY <2>2 DEF GoodPairs, Pairs, OfThisLink, ScalarsOK, DataOK
    <3>2. PairFits(p)'
      BY <3>1 DEF PairFits
    <3> QED
      BY <3>1, <3>2 DEF GoodPairs
  <2> QED
    BY <2>1, <2>2
<1>2. queue \in Seq(GoodPairs')
  BY <1>1, SeqMonotonic DEF Waiting
<1> QED
  BY <1>1, <1>2 DEF Waiting, queueVars

(* A reset empties what waits.                                             *)
LEMMA EmptyWaiting ==
  ASSUME Empty, chosen'.class \in TxClasses \cup {"NONE"}
  PROVE  Waiting'
<1>1. queue' = <<>> /\ Len(queue') = 0 /\ queue' \in Seq(GoodPairs')
  BY EmptySeq DEF Empty
<1> QED
  BY <1>1 DEF Empty, Waiting

LEMMA SameGood ==
  ASSUME UNCHANGED <<audioGen, stereo, setting, session, schedLink>>
  PROVE  GoodPairs' = GoodPairs /\ GoodReports' = GoodReports /\ GoodStatuses' = GoodStatuses
BY DEF GoodPairs, GoodReports, GoodStatuses, PairFits, Resetting, OfThisLink, Now

LEMMA NowIsSession == ScalarsOK => Now \in Sessions
BY DEF ScalarsOK, DataOK, Now, Sessions

(* The operations of the scheduler keep what waits good.                   *)
LEMMA EnqueueWaiting ==
  ASSUME Waiting, NEW p \in GoodPairs, Enqueue(p),
         UNCHANGED <<audioGen, stereo, setting, session, schedLink>>
  PROVE  Waiting'
<1>1. queue' \in Seq(GoodPairs) /\ Len(queue') = Len(queue) + 1
  BY AppendProperties DEF Enqueue, Waiting
<1>2. Len(queue') <= Depth
  <2>1. Len(queue) \in Nat
    BY LenProperties DEF Waiting
  <2> QED
    BY <1>1, <2>1 DEF Enqueue
<1> QED
  BY <1>1, <1>2, SameGood DEF Enqueue, Waiting

LEMMA PostWaiting ==
  ASSUME Waiting, NEW c \in Boxes, NEW x, Post(c, x),
         c = "STATE31" => x \in GoodReports, c = "STATE32" => x \in GoodStatuses,
         UNCHANGED <<audioGen, stereo, setting, session, schedLink>>
  PROVE  Waiting'
BY SameGood DEF Post, Waiting, GoodReports, GoodStatuses

LEMMA ChooseWaiting ==
  ASSUME Waiting, NEW eligible, NEW expired, ChooseNext(eligible, expired),
         UNCHANGED <<audioGen, stereo, setting, session, schedLink>>
  PROVE  /\ Waiting'
         /\ chosen' # NoChoice => ChosenIsThere' /\ (chosen'.class \in Boxes => chosen'.item # Nothing)
<1> DEFINE live == Kept(expired)
<1>1. live \in Seq(GoodPairs) /\ Len(live) <= Len(queue)
  BY KeptIsSeq DEF Waiting
<1>2. Len(live) <= Depth
  <2>1. Len(queue) \in Nat /\ Len(live) \in Nat
    BY <1>1, LenProperties DEF Waiting
  <2> QED
    BY <1>1, <2>1 DEF Waiting
<1>3. queue' = live /\ chosen' = Choice(eligible, live) /\ UNCHANGED <<mail, burst, turn>>
  BY DEF ChooseNext
<1> HIDE DEF live
<1>4. CASE RealtimeGoes(eligible, live)
  <2>1. chosen' = [class |-> "REALTIME", item |-> Head(live)] /\ live # <<>>
    BY <1>3, <1>4 DEF Choice, RealtimeGoes
  <2> QED
    BY <1>1, <1>2, <1>3, <2>1, SameGood DEF Waiting, ChosenIsThere
<1>5. CASE ~RealtimeGoes(eligible, live) /\ WaitingBoxes(eligible) # {}
  <2> DEFINE c == IF turn \in WaitingBoxes(eligible) THEN turn ELSE OtherBox(turn)
  <2>1. chosen' = [class |-> c, item |-> mail[c]]
    BY <1>3, <1>5 DEF Choice
  <2>2. c \in WaitingBoxes(eligible)
    BY <1>5 DEF Waiting, WaitingBoxes, OtherBox
  <2>3. c \in Boxes /\ mail[c] # Nothing
    BY <2>2 DEF WaitingBoxes
  <2> QED
    BY <1>1, <1>2, <1>3, <2>1, <2>3, SameGood DEF Waiting, ChosenIsThere
<1>6. CASE ~RealtimeGoes(eligible, live) /\ WaitingBoxes(eligible) = {}
  <2>1. chosen' = NoChoice
    BY <1>3, <1>6 DEF Choice
  <2> QED
    BY <1>1, <1>2, <1>3, <2>1, SameGood DEF Waiting, NoChoice
<1> QED
  BY <1>4, <1>5, <1>6

LEMMA SettleWaiting ==
  ASSUME Waiting, NEW taken \in BOOLEAN, NEW sent \in BOOLEAN, Settle(taken, sent),
         UNCHANGED <<audioGen, stereo, setting, session, schedLink>>
  PROVE  Waiting'
<1>1. chosen'.class \in TxClasses \cup {"NONE"}
  BY DEF Settle, Waiting, NoChoice
<1>2. CASE UNCHANGED <<queue, mail, burst, turn>>
  BY <1>1, <1>2, SameGood DEF Waiting
<1>3. CASE ChosenIsThere /\ Take(sent)
  <2>1. CASE chosen.class = "REALTIME"
    <3>1. queue # <<>> /\ queue' = Tail(queue) /\ UNCHANGED <<mail, turn>>
      BY <1>3, <2>1 DEF ChosenIsThere, Take
    <3>2. burst' \in 0 .. BurstCap
      BY <1>3, <2>1 DEF Take, Waiting
    <3>3. queue' \in Seq(GoodPairs) /\ Len(queue') = Len(queue) - 1
      BY <3>1, HeadTailProperties DEF Waiting
    <3>4. Len(queue') <= Depth
      <4>1. Len(queue) \in Nat
        BY LenProperties DEF Waiting
      <4> QED
        BY <3>3, <4>1 DEF Waiting
    <3> QED
      BY <1>1, <3>1, <3>2, <3>3, <3>4, SameGood DEF Waiting
  <2>2. CASE chosen.class # "REALTIME"
    <3>1. chosen.class \in Boxes
      BY <1>3, <2>2 DEF ChosenIsThere
    <3>2. mail' = [mail EXCEPT ![chosen.class] = Nothing] /\ queue' = queue
      BY <1>3, <2>2 DEF Take
    <3>3. burst' \in 0 .. BurstCap /\ turn' \in Boxes
      BY <1>3, <2>2 DEF Take, Waiting, OtherBox
    <3> QED
      BY <1>1, <3>1, <3>2, <3>3, SameGood DEF Waiting
  <2> QED
    BY <2>1, <2>2
<1> QED
  BY <1>2, <1>3 DEF Settle

-----------------------------------------------------------------------------
(* The steps                                                               *)

Parts == ScalarsOK /\ Waiting /\ ChosenStays /\ LayoutKept

LEMMA PartsSound == Parts => Sound
<1>1. LayoutKept => SettingOK /\ LayoutFollows
  BY DEF LayoutKept, LayoutFollows, Storing
<1> QED
  BY <1>1, SoundParts DEF Parts

LEMMA InitParts == Init => Parts
<1> SUFFICES ASSUME Init PROVE Parts
  OBVIOUS
<1>1. queue \in Seq(GoodPairs) /\ Len(queue) = 0
  BY EmptySeq DEF Init, QueueInit
<1>2. Waiting
  BY <1>1 DEF Init, QueueInit, Waiting, NoChoice
<1>3. FlagsOK
  BY Zenon DEF Init, FlagsOK
<1>4. DataOK
  BY DEF Init, DataOK, Sessions
<1>5. LayoutKept
  BY DEF Init, LayoutKept, SettingOK, WantsStereo
<1> QED
  BY <1>2, <1>3, <1>4, <1>5 DEF Init, Parts, ScalarsOK, ChosenStays

(* What asks for a layout, and so LayoutKept, is untouched.                *)
LEMMA LayoutUntouched ==
  ASSUME LayoutKept, UNCHANGED <<routeVars, layoutVars, btHead>>
  PROVE  LayoutKept' /\ Resetting' = Resetting
BY DEF LayoutKept, SettingOK, Resetting, WantsStereo, routeVars, layoutVars

(* The headphones change in one step: whoever was about to store is late.  *)
LEMMA HeadphonesKept ==
  ASSUME ScalarsOK, LayoutKept, NEW h \in BOOLEAN, SetHeadphones(h), btHead' = h
  PROVE  /\ LayoutKept' /\ (Resetting => Resetting')
         /\ audioGen' \in Nat \ {0} /\ stereo' \in BOOLEAN /\ usbHead' \in BOOLEAN
         /\ overtaken' \in BOOLEAN /\ route' = route
         /\ \/ audioGen' = audioGen /\ stereo' = stereo
            \/ audioGen' > audioGen
<1>1. CASE h = usbHead
  BY <1>1 DEF SetHeadphones, LayoutKept, SettingOK, Resetting, WantsStereo, ScalarsOK, FlagsOK, DataOK
<1>2. CASE h # usbHead
  <2>1. /\ setting' = Overtake(setting) /\ overtaken' = FALSE /\ usbHead' = h
        /\ stereo' = WantsStereo(route, h) /\ UNCHANGED <<route, wanted>>
        /\ layouts' = IF stereo' # stereo THEN {stereo'} ELSE layouts
        /\ audioGen' = IF stereo' # stereo THEN audioGen + 1 ELSE audioGen
    BY <1>2 DEF SetHeadphones
  <2>2. stereo' \in BOOLEAN /\ audioGen \in Nat \ {0} /\ stereo \in BOOLEAN
    BY <2>1 DEF WantsStereo, ScalarsOK, FlagsOK, DataOK
  <2>3. /\ setting' \in [Setters -> Places]
        /\ \A t \in Setters : setting'[t] # "store" /\ (setting[t] = "reset" => setting'[t] = "reset")
    BY <2>1 DEF Overtake, LayoutKept, SettingOK
  <2>4. Resetting => Resetting'
    BY <2>3 DEF Resetting
  <2>5. stereo' \in layouts' /\ (Resetting' \/ layouts' = {stereo'}) /\ layouts' \in SUBSET BOOLEAN
    BY <2>1, <2>2, <2>4 DEF LayoutKept, SettingOK
  <2>6. stereo' = WantsStereo(route', usbHead')
    BY <2>1 DEF WantsStereo
  <2>7. SettingOK'
    BY <2>1, <2>3, <2>5 DEF LayoutKept, SettingOK
  <2>8. LayoutKept'
    BY <2>1, <2>3, <2>5, <2>6, <2>7 DEF LayoutKept
  <2>9. CASE stereo' # stereo
    <3>1. audioGen' = audioGen + 1
      BY <2>1, <2>9
    <3>2. audioGen' \in Nat \ {0} /\ audioGen' > audioGen
      BY <2>2, <3>1
    <3> QED
      BY <2>1, <2>2, <2>4, <2>8, <3>2
  <2>10. CASE stereo' = stereo
    <3>1. audioGen' = audioGen
      BY <2>1, <2>10
    <3> QED
      BY <2>1, <2>2, <2>4, <2>8, <2>10, <3>1
  <2> QED
    BY <2>9, <2>10
<1> QED
  BY <1>1, <1>2

(* A new generation for the layout requested now.                          *)
LEMMA GenerationKept ==
  ASSUME ScalarsOK, LayoutKept, StartGeneration, UNCHANGED <<routeVars, btHead>>
  PROVE  LayoutKept' /\ audioGen' \in Nat \ {0} /\ audioGen' > audioGen
BY DEF StartGeneration, LayoutKept, SettingOK, Resetting, WantsStereo, ScalarsOK, FlagsOK, DataOK, routeVars

(* The Bluetooth task, the USB callbacks and the clock leave the scheduler *)
(* and the bridge's place alone.                                           *)
LEMMA EnvironmentStep ==
  ASSUME Parts, BluetoothTask \/ Usb \/ Clock
  PROVE  Parts'
<1>1. UNCHANGED <<schedVars, pc>>
  BY DEF BluetoothTask, Usb, Clock, Headphones, LinkDown, LinkUp, ResetLinkState, SwitchMic,
         NewGeneration, HostSends, RefreshComesDue, OutputComesDue
<1>2. ChosenStays'
  BY <1>1 DEF Parts, ChosenStays, ChosenIsThere, schedVars, queueVars
<1> DEFINE Fresh == \/ audioGen' = audioGen /\ stereo' = stereo /\ (Resetting => Resetting')
                    \/ audioGen' > audioGen
<1>3. ScalarsOK' /\ LayoutKept' /\ Fresh /\ (session' = session \/ ~schedLink)
  <2>1. CASE \E h \in HeadphoneStates : Headphones(h)
    <3>1. PICK h \in BOOLEAN : Headphones(h)
      BY <2>1
    <3> USE <3>1 DEF Headphones, usbVars, micVars, dueVars, schedVars, locals, Parts
    <3>2. SetHeadphones(h) /\ btHead' = h
      OBVIOUS
    <3>3. /\ LayoutKept' /\ Fresh /\ audioGen' \in Nat \ {0} /\ stereo' \in BOOLEAN
          /\ usbHead' \in BOOLEAN /\ overtaken' \in BOOLEAN /\ route' = route
      BY <3>2, HeadphonesKept
    <3>4. FlagsOK'
      <4>1. UNCHANGED <<micOn, hostReport, linkUp, told, micKnown, lastMic, refreshDue, outputDue, schedLink, bMic>>
        OBVIOUS
      <4> QED
        BY <3>2, <3>3, <4>1, Zenon DEF ScalarsOK, FlagsOK
    <3>5. DataOK' /\ session' = session
      BY <3>3 DEF ScalarsOK, DataOK
    <3> QED
      BY <3>3, <3>4, <3>5 DEF ScalarsOK
  <2>2. CASE LinkDown
    <3> USE <2>2 DEF LinkDown, usbVars, schedVars, locals, Parts
    <3>1. FlagsOK'
      BY ZenonT(30) DEF ScalarsOK, FlagsOK, audioVars, layoutVars
    <3>2. DataOK' /\ LayoutKept' /\ Fresh /\ session' = session
      BY LayoutUntouched DEF ScalarsOK, DataOK, audioVars, layoutVars, routeVars
    <3> QED
      BY <3>1, <3>2 DEF ScalarsOK
  <2>3. CASE LinkUp
    <3> USE <2>3 DEF LinkUp, usbVars, micVars, dueVars, schedVars, locals, Parts
    <3>1. FlagsOK'
      BY ZenonT(30) DEF ScalarsOK, FlagsOK, audioVars, layoutVars
    <3>2. DataOK' /\ LayoutKept' /\ Fresh /\ ~schedLink
      BY LayoutUntouched DEF ScalarsOK, DataOK, Sessions, audioVars, layoutVars, routeVars
    <3> QED
      BY <3>1, <3>2 DEF ScalarsOK
  <2>4. CASE ResetLinkState
    <3> USE <2>4 DEF ResetLinkState, usbVars, schedVars, locals, Parts
    <3>1. /\ LayoutKept' /\ Fresh /\ audioGen' \in Nat \ {0} /\ stereo' \in BOOLEAN
          /\ usbHead' \in BOOLEAN /\ overtaken' \in BOOLEAN /\ route' = route
      BY HeadphonesKept
    <3>2. FlagsOK'
      BY <3>1, Zenon DEF ScalarsOK, FlagsOK
    <3>3. DataOK' /\ session' = session
      BY <3>1 DEF ScalarsOK, DataOK
    <3> QED
      BY <3>1, <3>2, <3>3 DEF ScalarsOK
  <2>5. CASE SwitchMic \/ HostSends
    <3> USE <2>5 DEF SwitchMic, HostSends, usbVars, linkVars, micVars, dueVars, schedVars, locals, Parts
    <3>1. FlagsOK'
      <4>1. /\ UNCHANGED <<usbHead, stereo, overtaken, btHead, linkUp, told, micKnown, lastMic>>
            /\ UNCHANGED <<refreshDue, outputDue, schedLink, bMic>>
            /\ micOn' \in BOOLEAN /\ hostReport' \in BOOLEAN
        BY DEF ScalarsOK, FlagsOK, audioVars, layoutVars
      <4> QED
        BY SMTT(30), <4>1, Zenon DEF Parts, ScalarsOK, FlagsOK
    <3>2. DataOK' /\ LayoutKept' /\ Fresh /\ session' = session
      BY LayoutUntouched DEF ScalarsOK, DataOK, audioVars, layoutVars, routeVars
    <3> QED
      BY <3>1, <3>2 DEF ScalarsOK
  <2>6. CASE NewGeneration
    <3> USE <2>6 DEF NewGeneration, usbVars, linkVars, micVars, dueVars, schedVars, locals, Parts
    <3>1. LayoutKept' /\ audioGen' \in Nat \ {0} /\ audioGen' > audioGen
      BY GenerationKept
    <3>2. FlagsOK'
      <4>1. /\ UNCHANGED <<usbHead, stereo, overtaken, btHead, micOn, hostReport, linkUp, told>>
            /\ UNCHANGED <<micKnown, lastMic, refreshDue, outputDue, schedLink, bMic>>
        BY DEF StartGeneration
      <4> QED
        BY SMTT(30), <4>1, Zenon DEF Parts, ScalarsOK, FlagsOK
    <3>3. DataOK' /\ session' = session
      BY <3>1 DEF ScalarsOK, DataOK, routeVars
    <3> QED
      BY <3>1, <3>2, <3>3 DEF ScalarsOK
  <2>7. CASE Clock
    <3> USE <2>7 DEF Clock, RefreshComesDue, OutputComesDue, usbVars, linkVars, micVars,
                     schedVars, locals, Parts
    <3>1. FlagsOK'
      <4>1. /\ UNCHANGED <<usbHead, stereo, overtaken, btHead, micOn, hostReport, linkUp, told>>
            /\ UNCHANGED <<micKnown, lastMic, schedLink, bMic>>
            /\ refreshDue' \in BOOLEAN /\ outputDue' \in BOOLEAN
        BY DEF ScalarsOK, FlagsOK, audioVars, layoutVars
      <4> QED
        BY SMTT(30), <4>1, Zenon DEF Parts, ScalarsOK, FlagsOK
    <3>2. DataOK' /\ LayoutKept' /\ Fresh /\ session' = session
      BY LayoutUntouched DEF ScalarsOK, DataOK, audioVars, layoutVars, routeVars
    <3> QED
      BY <3>1, <3>2 DEF ScalarsOK
  <2> QED
    BY <2>1, <2>2, <2>3, <2>4, <2>5, <2>6, <2>7 DEF BluetoothTask, Usb
<1>4. Now' = Now
  BY <1>1, <1>3 DEF Now, schedVars
<1>5. audioGen' \in Nat
  BY <1>3 DEF ScalarsOK, FlagsOK, DataOK
<1>6. Waiting'
  BY <1>1, <1>3, <1>4, <1>5, WaitingKept DEF Parts, schedVars
<1> QED
  BY <1>2, <1>3, <1>6 DEF Parts

(* A new audio generation, or a link that is gone, empties the scheduler   *)
(* before anything is taken in the new one.                                *)
LEMMA PollStep ==
  ASSUME Parts, Poll
  PROVE  Parts'
<1> USE DEF audioVars, routeVars, layoutVars
<1>1. ScalarsOK' /\ LayoutKept' /\ ChosenStays' /\ Resetting' = Resetting
  <2>1. LayoutKept' /\ Resetting' = Resetting
    BY LayoutUntouched DEF Parts, Poll, linkVars
  <2>2. ScalarsOK' /\ ChosenStays'
    BY DEF Parts, Poll, At, ScalarsOK, FlagsOK, DataOK, ChosenStays, usbVars, linkVars, dueVars
  <2> QED
    BY <2>1, <2>2
<1>2. Waiting'
  <2>1. CASE MustClear
    BY <2>1, EmptyWaiting DEF Parts, Poll, Clear, Waiting
  <2>2. CASE ~MustClear
    <3>1. UNCHANGED queueVars /\ audioGen' = audioGen /\ stereo' = stereo /\ audioGen' \in Nat
      BY <2>2 DEF Parts, Poll, ScalarsOK, FlagsOK, DataOK
    <3>2. CASE schedLink' = schedLink
      <4>1. Now' = Now
        BY <3>2 DEF Poll, Now, linkVars
      <4> QED
        BY <1>1, <3>1, <4>1, WaitingKept DEF Parts
    <3>3. CASE schedLink' # schedLink
      <4>1. Now = 0
        BY <2>2, <3>3 DEF Parts, Poll, MustClear, Now, ScalarsOK, FlagsOK, DataOK
      <4>2. /\ GoodPairs \subseteq GoodPairs'
            /\ GoodReports \subseteq GoodReports' /\ GoodStatuses \subseteq GoodStatuses'
        BY <1>1, <3>1, <4>1 DEF GoodPairs, GoodReports, GoodStatuses, PairFits, OfThisLink
      <4>3. queue \in Seq(GoodPairs')
        BY <4>2, SeqMonotonic DEF Parts, Waiting
      <4> QED
        BY <3>1, <4>2, <4>3 DEF Parts, Waiting, queueVars
    <3> QED
      BY <3>2, <3>3
  <2> QED
    BY <2>1, <2>2
<1> QED
  BY <1>1, <1>2 DEF Parts

(* The bridge takes pairs, statuses and output reports in the session it   *)
(* knows of.                                                               *)
LEMMA TakingStep ==
  ASSUME Parts, Fill \/ PublishStatus \/ TakeOutput
  PROVE  Parts'
<1> USE DEF audioVars, routeVars, layoutVars, usbVars, linkVars, micVars, dueVars, locals
<1>1. ScalarsOK' /\ LayoutKept' /\ ChosenStays' /\ Resetting' = Resetting
  <2>1. /\ UNCHANGED <<usbHead, stereo, overtaken, btHead, micOn, linkUp, told, micKnown, lastMic>>
        /\ UNCHANGED <<refreshDue, outputDue, schedLink, bMic>> /\ hostReport' \in BOOLEAN
    BY DEF Fill, PublishStatus, TakeOutput, Parts, ScalarsOK, FlagsOK
  <2>2. FlagsOK'
    BY SMTT(30), <2>1, Zenon DEF Parts, ScalarsOK, FlagsOK
  <2>3. DataOK' /\ ChosenStays'
    BY DEF Parts, Fill, PublishStatus, TakeOutput, At, ScalarsOK, DataOK, ChosenStays
  <2>4. LayoutKept' /\ Resetting' = Resetting
    BY LayoutUntouched DEF Parts, Fill, PublishStatus, TakeOutput
  <2> QED
    BY <2>2, <2>3, <2>4 DEF ScalarsOK
<1>2. UNCHANGED <<audioGen, stereo, setting, session, schedLink>> /\ audioGen' \in Nat /\ Now' = Now
  BY DEF Parts, Fill, PublishStatus, TakeOutput, ScalarsOK, FlagsOK, DataOK, Now
<1>3. CASE UNCHANGED queueVars
  BY <1>1, <1>2, <1>3, WaitingKept DEF Parts
<1>4. CASE Fill /\ \E layout \in layouts : Enqueue(Pair(layout))
  <2>1. PICK layout \in layouts : Enqueue(Pair(layout))
    BY <1>4
  <2>2. layout \in BOOLEAN /\ (layout = stereo \/ Resetting)
    BY DEF Parts, LayoutKept, SettingOK
  <2>3. Pair(layout) \in GoodPairs
    BY <2>2, NowIsSession DEF Parts, Pair, GoodPairs, Pairs, PairFits, OfThisLink, ScalarsOK, DataOK
  <2> QED
    BY <1>1, <1>2, <2>1, <2>3, EnqueueWaiting DEF Parts
<1>5. CASE PublishStatus /\ Post("STATE32", Status)
  <2>1. Status \in GoodStatuses
    BY NowIsSession DEF Parts, Status, GoodStatuses, Statuses, OfThisLink, ScalarsOK, FlagsOK, DataOK
  <2> QED
    BY <1>1, <1>2, <1>5, <2>1, PostWaiting DEF Parts
<1>6. CASE TakeOutput /\ Post("STATE31", [session |-> Now])
  <2>1. [session |-> Now] \in GoodReports
    BY NowIsSession DEF Parts, GoodReports, OutputReports, OfThisLink
  <2> QED
    BY <1>1, <1>2, <1>6, <2>1, PostWaiting DEF Parts
<1> QED
  BY <1>1, <1>3, <1>4, <1>5, <1>6 DEF Parts, Fill, PublishStatus, TakeOutput

(* Setting the route leaves everything but the audio alone.                *)
LEMMA OnlyAudio ==
  ASSUME Parts, NoChangeButAudio, audioGen' \in Nat \ {0}, stereo' \in BOOLEAN,
         overtaken' \in BOOLEAN, usbHead' = usbHead, route' \in Routes
  PROVE  ScalarsOK' /\ ChosenStays' /\ UNCHANGED queueVars /\ Now' = Now /\ btHead' = btHead
<1> USE DEF NoChangeButAudio, usbVars, linkVars, micVars, dueVars, schedVars, locals
<1>1. FlagsOK'
  <2>1. /\ UNCHANGED <<usbHead, btHead, micOn, hostReport, linkUp, told, micKnown, lastMic>>
        /\ UNCHANGED <<refreshDue, outputDue, schedLink, bMic>>
    OBVIOUS
  <2> QED
    BY <2>1, ZenonT(30) DEF Parts, ScalarsOK, FlagsOK
<1>2. DataOK'
  BY DEF Parts, ScalarsOK, DataOK
<1>3. ChosenStays'
  BY DEF Parts, ChosenStays, ChosenIsThere, queueVars
<1> QED
  BY <1>1, <1>2, <1>3 DEF ScalarsOK, Now

(* The route is stored; who has read the one before is late.               *)
LEMMA StoreRouteStep ==
  ASSUME Parts, NEW t \in Setters, NEW r \in Routes, StoreRoute(t, r)
  PROVE  Parts'
<1>1. /\ setting' = [Overtake(setting) EXCEPT ![t] = "read"] /\ route' = r /\ wanted' = wanted
      /\ UNCHANGED <<audioGen, usbHead, stereo, layouts, overtaken>> /\ NoChangeButAudio
      /\ setting[t] = "idle"
  BY DEF StoreRoute, layoutVars
<1>2. ScalarsOK' /\ ChosenStays' /\ UNCHANGED queueVars /\ Now' = Now /\ btHead' = btHead
  BY <1>1, OnlyAudio DEF Parts, ScalarsOK, FlagsOK, DataOK
<1>3. /\ setting' \in [Setters -> Places] /\ setting'[t] = "read"
      /\ \A u \in Setters : setting'[u] # "store" /\ (setting[u] = "reset" => setting'[u] = "reset")
  BY <1>1 DEF Overtake, Parts, LayoutKept, SettingOK
<1>4. Resetting => Resetting'
  BY <1>3 DEF Resetting
<1>5. LayoutKept'
  BY <1>1, <1>2, <1>3, <1>4 DEF Parts, LayoutKept, SettingOK
<1>6. Waiting'
  BY <1>1, <1>2, <1>4, WaitingKept DEF Parts, ScalarsOK, DataOK
<1> QED
  BY <1>2, <1>5, <1>6 DEF Parts

(* What is wanted is what the route and the headphones ask for now.        *)
LEMMA ReadRouteStep ==
  ASSUME Parts, NEW t \in Setters, ReadRoute(t)
  PROVE  Parts'
<1>1. /\ setting' = [setting EXCEPT ![t] = "store"] /\ setting[t] = "read"
      /\ wanted' = [wanted EXCEPT ![t] = WantsStereo(route, usbHead)]
      /\ UNCHANGED <<route, audioGen, usbHead, stereo, layouts, overtaken>> /\ NoChangeButAudio
  BY DEF ReadRoute, Goes, layoutVars
<1>2. ScalarsOK' /\ ChosenStays' /\ UNCHANGED queueVars /\ Now' = Now /\ btHead' = btHead
  BY <1>1, OnlyAudio DEF Parts, ScalarsOK, FlagsOK, DataOK
<1>3. SettingOK'
  BY <1>1 DEF Parts, LayoutKept, SettingOK, WantsStereo, ScalarsOK, FlagsOK
<1>4. Resetting' = Resetting
  BY <1>1 DEF Resetting, Parts, LayoutKept, SettingOK
<1>5. setting'[t] = "store" /\ WantsStereo(route', usbHead') = WantsStereo(route, usbHead)
  BY <1>1 DEF Parts, LayoutKept, SettingOK, WantsStereo
<1>6. \A u \in Setters : setting'[u] = "store" => wanted'[u] = WantsStereo(route', usbHead')
  BY <1>1, <1>5 DEF Parts, LayoutKept, SettingOK
<1>7. LayoutKept'
  BY <1>1, <1>2, <1>3, <1>4, <1>5, <1>6 DEF Parts, LayoutKept
<1>8. Waiting'
  BY <1>1, <1>2, <1>4, WaitingKept DEF Parts, ScalarsOK, DataOK
<1> QED
  BY <1>2, <1>7, <1>8 DEF Parts

(* A layout that was not read too early is the one asked for; its          *)
(* generation is still to be started.                                      *)
LEMMA StoreLayoutStep ==
  ASSUME Parts, NEW t \in Setters, StoreLayout(t)
  PROVE  Parts'
<1>1. /\ setting[t] \in {"store", "late"} /\ NoChangeButAudio
      /\ UNCHANGED <<route, audioGen, usbHead>> /\ wanted' = [wanted EXCEPT ![t] = FALSE]
  BY DEF StoreLayout
<1>2. wanted[t] \in BOOLEAN /\ stereo \in BOOLEAN /\ overtaken \in BOOLEAN
  BY DEF Parts, LayoutKept, SettingOK, ScalarsOK, FlagsOK
<1>3. /\ stereo' \in BOOLEAN /\ overtaken' \in BOOLEAN
  BY <1>1, <1>2 DEF StoreLayout
<1>4. ScalarsOK' /\ ChosenStays' /\ UNCHANGED queueVars /\ Now' = Now /\ btHead' = btHead
  BY <1>1, <1>3, OnlyAudio DEF Parts, ScalarsOK, FlagsOK, DataOK
<1>5. WantsStereo(route', usbHead') = WantsStereo(route, usbHead)
  BY <1>1 DEF WantsStereo
<1>6. stereo' = wanted[t]
  BY <1>2 DEF StoreLayout
<1>7. setting[t] = "store" => stereo' = WantsStereo(route', usbHead')
  BY <1>5, <1>6 DEF Parts, LayoutKept
<1>8. CASE wanted[t] # stereo
  <2>1. /\ setting' = [setting EXCEPT ![t] = "reset"] /\ layouts' = layouts \cup {wanted[t]}
        /\ overtaken' = (setting[t] = "late")
    BY <1>8 DEF StoreLayout
  <2>2. SettingOK' /\ Resetting' /\ stereo' \in layouts'
    BY <1>1, <1>2, <1>6, <2>1 DEF Parts, LayoutKept, SettingOK, Resetting
  <2>3. \A u \in Setters : setting'[u] = "store" => wanted'[u] = WantsStereo(route', usbHead')
    BY <1>1, <1>5, <2>1 DEF Parts, LayoutKept, SettingOK
  <2>4. overtaken' \/ stereo' = WantsStereo(route', usbHead')
    BY <1>1, <1>7, <2>1
  <2>5. LayoutKept'
    BY <1>1, <1>4, <2>2, <2>3, <2>4 DEF Parts, LayoutKept
  <2>6. Waiting'
    BY <1>1, <1>4, <2>2, WaitingKept DEF Parts, ScalarsOK, DataOK
  <2> QED
    BY <1>4, <2>5, <2>6 DEF Parts
<1>9. CASE wanted[t] = stereo
  <2>1. /\ setting' = [setting EXCEPT ![t] = "idle"] /\ UNCHANGED <<stereo, layouts>>
        /\ overtaken' = (overtaken /\ setting[t] = "late")
    BY <1>9 DEF StoreLayout
  <2>2. SettingOK' /\ Resetting' = Resetting
    BY <1>1, <1>2, <2>1 DEF Parts, LayoutKept, SettingOK, Resetting
  <2>3. \A u \in Setters : setting'[u] = "store" => wanted'[u] = WantsStereo(route', usbHead')
    BY <1>1, <1>5, <2>1 DEF Parts, LayoutKept, SettingOK
  <2>4. \/ overtaken'
        \/ \E u \in Setters : setting'[u] \in {"read", "store"}
        \/ stereo' = WantsStereo(route', usbHead')
    <3>1. CASE setting[t] = "store"
      BY <1>7, <3>1
    <3>2. CASE setting[t] = "late"
      <4>1. overtaken => overtaken'
        BY <2>1, <3>2
      <4>2. \A u \in Setters : setting[u] \in {"read", "store"} => setting'[u] \in {"read", "store"}
        BY <2>1, <3>2 DEF Parts, LayoutKept, SettingOK
      <4> QED
        BY <1>5, <2>1, <4>1, <4>2 DEF Parts, LayoutKept
    <3> QED
      BY <1>1, <3>1, <3>2
  <2>5. LayoutKept'
    BY <1>1, <1>4, <2>1, <2>2, <2>3, <2>4 DEF Parts, LayoutKept
  <2>6. Waiting'
    BY <1>1, <1>4, <2>1, <2>2, WaitingKept DEF Parts, ScalarsOK, DataOK
  <2> QED
    BY <1>4, <2>5, <2>6 DEF Parts
<1> QED
  BY <1>8, <1>9

(* The new generation is that of the layout requested now.                 *)
LEMMA ResetPipelineStep ==
  ASSUME Parts, NEW t \in Setters, ResetPipeline(t)
  PROVE  Parts'
<1>1. /\ setting' = [setting EXCEPT ![t] = "idle"] /\ setting[t] = "reset"
      /\ audioGen' = audioGen + 1 /\ layouts' = {stereo}
      /\ UNCHANGED <<route, wanted, usbHead, stereo, overtaken>> /\ NoChangeButAudio
  BY DEF ResetPipeline, Goes, StartGeneration
<1>2. audioGen \in Nat \ {0} /\ audioGen' \in Nat \ {0} /\ audioGen' > audioGen
  BY <1>1 DEF Parts, ScalarsOK, DataOK
<1>3. ScalarsOK' /\ ChosenStays' /\ UNCHANGED queueVars /\ Now' = Now /\ btHead' = btHead
  BY <1>1, <1>2, OnlyAudio DEF Parts, ScalarsOK, FlagsOK, DataOK
<1>4. WantsStereo(route', usbHead') = WantsStereo(route, usbHead)
  BY <1>1 DEF WantsStereo
<1>5. SettingOK'
  BY <1>1 DEF Parts, LayoutKept, SettingOK, ScalarsOK, FlagsOK
<1>6. \A u \in Setters : (setting'[u] = "store" <=> setting[u] = "store")
                         /\ (setting'[u] = "read" <=> setting[u] = "read")
  BY <1>1 DEF Parts, LayoutKept, SettingOK
<1>7. LayoutKept'
  BY <1>1, <1>3, <1>4, <1>5, <1>6 DEF Parts, LayoutKept
<1>8. Waiting'
  BY <1>2, <1>3, WaitingKept DEF Parts
<1> QED
  BY <1>3, <1>7, <1>8 DEF Parts

LEMMA SetRouteStep ==
  ASSUME Parts, SetRoute \/ RouteStep("bridge")
  PROVE  Parts'
<1>1. CASE \E t \in Setters, r \in Choices : StoreRoute(t, r)
  BY <1>1, StoreRouteStep
<1>2. ASSUME NEW t \in Setters, RouteStep(t) PROVE Parts'
  BY <1>2, ReadRouteStep, StoreLayoutStep, ResetPipelineStep DEF RouteStep
<1> QED
  BY <1>1, <1>2 DEF SetRoute

(* What is chosen still waits; a reset before sending gives it up.         *)
LEMMA ChoosingStep ==
  ASSUME Parts, Select \/ Check
  PROVE  Parts'
<1> USE DEF audioVars, routeVars, layoutVars, usbVars, linkVars, micVars, dueVars, locals
<1>1. ScalarsOK' /\ LayoutKept' /\ Resetting' = Resetting
  <2>1. LayoutKept' /\ Resetting' = Resetting
    BY LayoutUntouched DEF Parts, Select, Check
  <2>2. ScalarsOK'
    BY DEF Parts, Select, Check, ScalarsOK, FlagsOK, DataOK
  <2> QED
    BY <2>1, <2>2
<1>2. UNCHANGED <<audioGen, stereo, setting, session, schedLink>> /\ audioGen' \in Nat /\ Now' = Now
  BY DEF Parts, Select, Check, ScalarsOK, FlagsOK, DataOK, Now
<1>3. CASE Select
  <2>1. PICK n \in 0 .. Len(queue) : ChooseNext(Eligible, 1 .. n)
    BY <1>3 DEF Select
  <2>2. Waiting' /\ (chosen' # NoChoice =>
            ChosenIsThere' /\ (chosen'.class \in Boxes => chosen'.item # Nothing))
    BY <1>2, <2>1, ChooseWaiting DEF Parts
  <2>3. ChosenStays'
    BY <1>3, <2>2 DEF Select, ChosenStays
  <2> QED
    BY <1>1, <2>2, <2>3 DEF Parts
<1>4. CASE Check /\ schedGen # audioGen
  <2>1. Empty /\ chosen'.class = "NONE" /\ pc' = "poll"
    BY <1>4 DEF Check, NoChoice
  <2> QED
    BY <1>1, <2>1, EmptyWaiting DEF Parts, ChosenStays
<1>5. CASE Check /\ schedGen = audioGen
  <2>1. UNCHANGED queueVars /\ pc = "check"
    BY <1>5 DEF Check
  <2>2. ChosenStays'
    BY <2>1 DEF Parts, ChosenStays, ChosenIsThere, queueVars
  <2> QED
    BY <1>1, <1>2, <2>1, <2>2, WaitingKept DEF Parts
<1> QED
  BY <1>3, <1>4, <1>5

(* A chosen status says whether the microphone is on.                      *)
LEMMA ChosenStatus ==
  ASSUME Waiting, ChosenStays, pc \in {"check", "send", "finish"}, chosen.class = "STATE32"
  PROVE  chosen.item.mic \in BOOLEAN
BY DEF Waiting, ChosenStays, ChosenIsThere, GoodStatuses, Statuses

LEMMA SendingStep ==
  ASSUME Parts, (\E r \in Results : Send(r)) \/ Finish
  PROVE  Parts'
<1> USE DEF audioVars, routeVars, layoutVars, usbVars, linkVars, micVars, dueVars, locals
<1>0. LayoutKept' /\ Resetting' = Resetting
  BY LayoutUntouched DEF Parts, Send, Finish
<1>1. UNCHANGED <<audioGen, stereo, setting, session, schedLink>> /\ audioGen' \in Nat /\ Now' = Now
  BY DEF Parts, Send, Finish, ScalarsOK, FlagsOK, DataOK, Now, schedVars
<1>2. CASE \E r \in Results : Send(r)
  <2>1. UNCHANGED queueVars /\ pc = "send"
    BY <1>2 DEF Send, At, schedVars
  <2>2. Waiting'
    BY <1>0, <1>1, <2>1, WaitingKept DEF Parts
  <2>3. ChosenStays'
    BY <2>1 DEF Parts, ChosenStays, ChosenIsThere, queueVars
  <2>4. told' \in BOOLEAN
    <3>1. chosen.class \in TxClasses
      BY <2>1 DEF Parts, ChosenStays, ChosenIsThere
    <3>2. chosen.class = "STATE32" => chosen.item.mic \in BOOLEAN
      BY <2>1, ChosenStatus DEF Parts
    <3> QED
      BY <1>2, <3>1, <3>2 DEF Send, SaysMicOn, Parts, ScalarsOK, FlagsOK, DataOK
  <2>5. ScalarsOK'
    BY <1>2, <2>4 DEF Parts, ScalarsOK, FlagsOK, DataOK, Send, At, schedVars
  <2> QED
    BY <1>0, <2>2, <2>3, <2>5 DEF Parts
<1>3. CASE Finish
  <2>1. Waiting'
    BY <1>1, <1>3, SettleWaiting DEF Parts, Finish
  <2>2. ChosenStays'
    BY <1>3 DEF Finish, At, ChosenStays
  <2>3. lastMic' \in BOOLEAN
    BY <1>3, ChosenStatus DEF Finish, At, Parts, ScalarsOK, FlagsOK, DataOK
  <2>4. ScalarsOK'
    BY <1>3, <2>3 DEF Parts, ScalarsOK, FlagsOK, DataOK, Finish, At
  <2> QED
    BY <1>0, <2>1, <2>2, <2>4 DEF Parts
<1> QED
  BY <1>2, <1>3

LEMMA NextParts ==
  ASSUME Parts, [Next]_vars
  PROVE  Parts'
<1>1. CASE Next
  BY <1>1, EnvironmentStep, PollStep, TakingStep, SetRouteStep, ChoosingStep, SendingStep
  DEF Next, Step
<1>2. CASE UNCHANGED vars
  <2>1. UNCHANGED <<schedVars, audioVars, usbVars, linkVars, micVars, dueVars, pc, locals>>
    BY <1>2 DEF vars
  <2>2. LayoutKept' /\ Resetting' = Resetting
    BY <2>1, LayoutUntouched DEF Parts, audioVars, linkVars
  <2>5. ScalarsOK' /\ ChosenStays'
    BY <2>1 DEF Parts, ScalarsOK, FlagsOK, DataOK, ChosenStays, ChosenIsThere, schedVars, queueVars,
                audioVars, routeVars, layoutVars, usbVars, linkVars, micVars, dueVars, locals
  <2>3. UNCHANGED queueVars /\ Now' = Now /\ audioGen' \in Nat /\ audioGen' = audioGen /\ stereo' = stereo
    BY <2>1 DEF Parts, ScalarsOK, FlagsOK, DataOK, Now, schedVars, audioVars, layoutVars, linkVars
  <2>4. Waiting'
    BY <2>2, <2>3, WaitingKept DEF Parts
  <2> QED
    BY <2>2, <2>4, <2>5 DEF Parts
<1> QED
  BY <1>1, <1>2

-----------------------------------------------------------------------------
(* The theorems                                                            *)

(* What waits in the scheduler and what the bridge holds of it agree with  *)
(* each other, with the link session and with the layout, whatever the     *)
(* Bluetooth task, the shell and the USB callbacks do between two steps of *)
(* the bridge (main.c:2611-2681); and the layout is the one asked for, but *)
(* for a change of route under way or one that another change overtook     *)
(* (m61_usb_gamepad.c:721-735).                                            *)
THEOREM BridgeSound == Spec => []Sound
<1>1. Init => Parts
  BY InitParts
<1>2. Parts /\ [Next]_vars => Parts'
  BY NextParts
<1>3. Parts => Sound
  BY PartsSound
<1> QED
  BY <1>1, <1>2, <1>3, PTL DEF Spec

(* Nothing taken from the host or the epochs in one link session is sent   *)
(* in a later one (main.c:2611-2640).                                      *)
THEOREM BridgeNoReplay == Spec => NoReplayAcrossLink
<1>1. Sound /\ [Next]_vars =>
        [(\E c \in TxClasses : Sends(c)) => chosen.item.session \in {0, session}]_vars
  <2> SUFFICES ASSUME Sound, NEW c \in TxClasses, Sends(c)
               PROVE  chosen.item.session \in {0, session}
    OBVIOUS
  <2>1. Waiting /\ ChosenStays
    BY SoundParts
  <2>2. ChosenIsThere /\ (chosen.class \in Boxes => chosen.item # Nothing) /\ chosen.class = c
    BY <2>1 DEF Sends, ChosenStays
  <2>3. CASE c = "REALTIME"
    <3>1. queue # <<>> /\ chosen.item = Head(queue)
      BY <2>2, <2>3 DEF ChosenIsThere
    <3>2. chosen.item \in GoodPairs
      BY <2>1, <3>1, HeadTailProperties DEF Waiting
    <3> QED
      BY <3>2 DEF GoodPairs, OfThisLink, Now
  <2>4. CASE c \in Boxes
    <3>1. chosen.item = mail[c] /\ chosen.item # Nothing
      BY <2>2, <2>4 DEF ChosenIsThere
    <3> QED
      BY <2>1, <2>4, <3>1 DEF Waiting, GoodReports, GoodStatuses, OfThisLink, Now
  <2> QED
    BY <2>3, <2>4
<1> QED
  BY <1>1, BridgeSound, PTL DEF Spec, NoReplayAcrossLink

(* A pair is labelled for the layout it was encoded for, unless the layout *)
(* changed after the check before sending (the pair is of an older         *)
(* generation then), the shell is changing the route, or a change of route *)
(* was overtaken (m61_usb_gamepad.c:723-731, main.c:2628).                 *)
THEOREM BridgeLabels == Spec => RelabelledAfterCheck
<1>1. Sound /\ [Next]_vars =>
        [Sends("REALTIME") /\ route = "AUTO" /\ btHead # chosen.item.stereo
            => audioGen # chosen.item.gen \/ Storing \/ Resetting \/ overtaken]_vars
  <2> SUFFICES ASSUME Sound, Sends("REALTIME"), route = "AUTO", btHead # chosen.item.stereo,
                      audioGen = chosen.item.gen, ~Storing, ~Resetting, ~overtaken
               PROVE  FALSE
    OBVIOUS
  <2>1. Waiting /\ ChosenStays /\ LayoutFollows /\ ScalarsOK
    BY SoundParts
  <2>2. queue # <<>> /\ chosen.item = Head(queue)
    BY <2>1 DEF Sends, ChosenStays, ChosenIsThere
  <2>3. chosen.item \in GoodPairs
    BY <2>1, <2>2, HeadTailProperties DEF Waiting
  <2>4. chosen.item.stereo = stereo
    BY <2>3 DEF GoodPairs, PairFits
  <2>5. stereo = btHead
    BY <2>1 DEF LayoutFollows, WantsStereo, ScalarsOK, FlagsOK, DataOK
  <2> QED
    BY <2>4, <2>5
<1> QED
  BY <1>1, BridgeSound, PTL DEF Spec, RelabelledAfterCheck
=============================================================================
