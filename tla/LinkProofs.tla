----------------------------- MODULE LinkProofs -----------------------------
(* Proofs about the Bluetooth link for every number of attempts and every  *)
(* set of tasks, which interrupt each other at every step.                 *)
EXTENDS Link, TLAPS

USE LinkAssumption
    DEF radioVars, autoVars, pairVars, taskVars, hidpVars, vars, Channels

(* What NoWipe says of a step.                                             *)
Spared ==
    \A c \in Channels : chan[c] # "idle" /\ chan'[c] = "idle"
        => ChannelDown(c) \/ Disconnected \/ c \in raced

(* The two kinds of variables of TypeOK; those of the channels.            *)
FlagsOK ==
    /\ ready \in BOOLEAN /\ pending \in BOOLEAN /\ discovery \in BOOLEAN
    /\ connectable \in BOOLEAN /\ saved \in BOOLEAN
    /\ enabled \in BOOLEAN /\ sequence \in BOOLEAN /\ connectAfter \in BOOLEAN
    /\ pairing \in BOOLEAN /\ pairingAfter \in BOOLEAN /\ asking \in BOOLEAN
    /\ hidpRequested \in BOOLEAN
ChannelsOK ==
    /\ chan \in [Channels -> {"idle", "opening", "up"}] /\ cleanup \subseteq Channels
    /\ sweep \in [Tasks -> {None} \cup Channels] /\ open \in [Tasks -> Opens]
    /\ raced \subseteq Channels
CountsOK == link \in {"none", "out", "in"} /\ attempts \in 0 .. MaxAttempts

(* The part of the invariant that is about channels and tasks.             *)
Orderly == OpenOnLink /\ CleanupOfIdle /\ ActsOnIdle /\ OpensClean

LEMMA Parts == IInv <=> FlagsOK /\ CountsOK /\ ChannelsOK /\ Connectable /\ Orderly
BY DEF IInv, TypeOK, FlagsOK, CountsOK, ChannelsOK, Orderly

LEMMA InitIInv == Init => IInv
<1> SUFFICES ASSUME Init PROVE IInv
  OBVIOUS
<1>1. FlagsOK
  BY Zenon DEF Init, FlagsOK
<1>2. CountsOK /\ ChannelsOK /\ Connectable
  BY DEF Init, CountsOK, ChannelsOK, Connectable, Idle, Opens, NoOpen, OpenAt
<1>3. Orderly
  BY DEF Init, Orderly, OpenOnLink, CleanupOfIdle, ActsOnIdle, OpensClean, AboutTo, Idle,
      None, NoOpen, OpenAt
<1> QED
  BY <1>1, <1>2, <1>3, Zenon
      DEF IInv, TypeOK, FlagsOK, CountsOK, ChannelsOK, Orderly

(* What a step keeps that touches only the channels and the tasks.         *)
LEMMA ScalarsKept ==
  ASSUME IInv, UNCHANGED <<radioVars, saved, autoVars, pairVars>>, hidpRequested' \in BOOLEAN
  PROVE  FlagsOK' /\ CountsOK' /\ Connectable'
<1>1. FlagsOK'
  BY Parts, Zenon DEF FlagsOK
<1>2. CountsOK'
  BY Parts, Zenon DEF CountsOK
<1>3. Connectable'
  BY Parts, Zenon DEF Connectable
<1> QED
  BY <1>1, <1>2, <1>3

-----------------------------------------------------------------------------
(* Steps that do not touch the channels *)

(* What a step that leaves the channels and the link alone keeps.          *)
LEMMA ChannelsKept ==
  ASSUME IInv, UNCHANGED <<hidpVars, link>>
  PROVE  ChannelsOK' /\ Orderly' /\ Spared
<1>1. ChannelsOK'
  BY Parts DEF ChannelsOK
<1>2. Orderly'
  BY Parts DEF Orderly, OpenOnLink, CleanupOfIdle, ActsOnIdle, OpensClean, AboutTo
<1> QED
  BY <1>1, <1>2 DEF Spared

(* Pages and searches of the auto task, commands, a request for pairing.    *)
LEMMA QuietStep ==
  ASSUME IInv, AutoPage \/ AutoSearch \/ Command \/ PairingSearch \/ BluetoothReady \/ PageFails
  PROVE  IInv' /\ Spared
<1>1. CASE AutoPage
  <2> USE <1>1 DEF AutoPage, MayStart, PageSaved, PageStarts, PageRefused
  <2>1. UNCHANGED <<hidpVars, link>>
    OBVIOUS
  <2>2. FlagsOK'
    BY Parts, ZenonT(30) DEF FlagsOK
  <2>3. CountsOK'
    BY Parts DEF CountsOK
  <2>4. Connectable'
    BY Parts, Zenon DEF Connectable
  <2> QED
    BY <2>1, <2>2, <2>3, <2>4, ChannelsKept, Zenon
        DEF IInv, TypeOK, FlagsOK, CountsOK, ChannelsOK, Orderly
<1>2. CASE AutoSearch
  <2> USE <1>2 DEF AutoSearch, MayStart, PageSaved, SearchStarts, SearchRefused
  <2>1. UNCHANGED <<hidpVars, link>>
    OBVIOUS
  <2>2. FlagsOK'
    BY Parts, ZenonT(30) DEF FlagsOK
  <2>3. CountsOK'
    BY Parts DEF CountsOK
  <2>4. Connectable'
    BY Parts, Zenon DEF Connectable
  <2> QED
    BY <2>1, <2>2, <2>3, <2>4, ChannelsKept, Zenon
        DEF IInv, TypeOK, FlagsOK, CountsOK, ChannelsOK, Orderly
<1>3. CASE RequestPairing
  <2> USE <1>3 DEF RequestPairing
  <2>1. UNCHANGED <<hidpVars, link>>
    OBVIOUS
  <2>2. FlagsOK'
    BY Parts, ZenonT(30) DEF FlagsOK
  <2>3. CountsOK'
    BY Parts DEF CountsOK
  <2>4. Connectable'
    BY Parts, Zenon DEF Connectable
  <2> QED
    BY <2>1, <2>2, <2>3, <2>4, ChannelsKept, Zenon
        DEF IInv, TypeOK, FlagsOK, CountsOK, ChannelsOK, Orderly
<1>4. ASSUME NEW now \in BOOLEAN, AutoOn(now) PROVE IInv' /\ Spared
  <2> USE <1>4 DEF AutoOn
  <2>1. UNCHANGED <<hidpVars, link>>
    OBVIOUS
  <2>2. FlagsOK'
    BY Parts, ZenonT(30) DEF FlagsOK
  <2>3. CountsOK'
    BY Parts DEF CountsOK
  <2>4. Connectable'
    BY Parts, Zenon DEF Connectable
  <2> QED
    BY <2>1, <2>2, <2>3, <2>4, ChannelsKept, Zenon
        DEF IInv, TypeOK, FlagsOK, CountsOK, ChannelsOK, Orderly
<1>5. CASE AutoOff
  <2> USE <1>5 DEF AutoOff
  <2>1. UNCHANGED <<hidpVars, link>>
    OBVIOUS
  <2>2. FlagsOK'
    BY Parts, ZenonT(30) DEF FlagsOK
  <2>3. CountsOK'
    BY Parts DEF CountsOK
  <2>4. Connectable'
    BY Parts, Zenon DEF Connectable
  <2> QED
    BY <2>1, <2>2, <2>3, <2>4, ChannelsKept, Zenon
        DEF IInv, TypeOK, FlagsOK, CountsOK, ChannelsOK, Orderly
<1>6. CASE ConfigureAuto
  <2> USE <1>6 DEF ConfigureAuto
  <2>1. UNCHANGED <<hidpVars, link>>
    OBVIOUS
  <2>2. FlagsOK'
    BY Parts, ZenonT(30) DEF FlagsOK
  <2>3. CountsOK'
    BY Parts DEF CountsOK
  <2>4. Connectable'
    BY Parts, Zenon DEF Connectable
  <2> QED
    BY <2>1, <2>2, <2>3, <2>4, ChannelsKept, Zenon
        DEF IInv, TypeOK, FlagsOK, CountsOK, ChannelsOK, Orderly
<1>7. ASSUME NEW web \in BOOLEAN, Forget(web) PROVE IInv' /\ Spared
  <2> USE <1>7 DEF Forget
  <2>1. UNCHANGED <<hidpVars, link>>
    OBVIOUS
  <2>2. FlagsOK'
    BY Parts, ZenonT(30) DEF FlagsOK
  <2>3. CountsOK'
    BY Parts DEF CountsOK
  <2>4. Connectable'
    BY Parts, Zenon DEF Connectable
  <2> QED
    BY <2>1, <2>2, <2>3, <2>4, ChannelsKept, Zenon
        DEF IInv, TypeOK, FlagsOK, CountsOK, ChannelsOK, Orderly
<1>8. CASE Connect
  <2> USE <1>8 DEF Connect, PageStarts, PageRefused
  <2>1. UNCHANGED <<hidpVars, link>>
    OBVIOUS
  <2>2. FlagsOK'
    BY Parts, ZenonT(30) DEF FlagsOK
  <2>3. CountsOK'
    BY Parts DEF CountsOK
  <2>4. Connectable'
    BY Parts, Zenon DEF Connectable
  <2> QED
    BY <2>1, <2>2, <2>3, <2>4, ChannelsKept, Zenon
        DEF IInv, TypeOK, FlagsOK, CountsOK, ChannelsOK, Orderly
<1>9. CASE SearchAndConnect
  <2> USE <1>9 DEF SearchAndConnect, SearchStarts, SearchRefused
  <2>1. UNCHANGED <<hidpVars, link>>
    OBVIOUS
  <2>2. FlagsOK'
    BY Parts, ZenonT(30) DEF FlagsOK
  <2>3. CountsOK'
    BY Parts DEF CountsOK
  <2>4. Connectable'
    BY Parts, Zenon DEF Connectable
  <2> QED
    BY <2>1, <2>2, <2>3, <2>4, ChannelsKept, Zenon
        DEF IInv, TypeOK, FlagsOK, CountsOK, ChannelsOK, Orderly
<1>10. CASE PairingSearch
  <2> USE <1>10 DEF PairingSearch, SearchStarts, SearchRefused
  <2>1. UNCHANGED <<hidpVars, link>>
    OBVIOUS
  <2>2. FlagsOK'
    BY Parts, ZenonT(30) DEF FlagsOK
  <2>3. CountsOK'
    BY Parts DEF CountsOK
  <2>4. Connectable'
    BY Parts, Zenon DEF Connectable
  <2> QED
    BY <2>1, <2>2, <2>3, <2>4, ChannelsKept, Zenon
        DEF IInv, TypeOK, FlagsOK, CountsOK, ChannelsOK, Orderly
<1>11. CASE BluetoothReady
  <2> USE <1>11 DEF BluetoothReady
  <2>1. UNCHANGED <<hidpVars, link>>
    OBVIOUS
  <2>2. FlagsOK'
    BY Parts, ZenonT(30) DEF FlagsOK
  <2>3. CountsOK'
    BY Parts DEF CountsOK
  <2>4. Connectable'
    BY Parts, Zenon DEF Connectable
  <2> QED
    BY <2>1, <2>2, <2>3, <2>4, ChannelsKept, Zenon
        DEF IInv, TypeOK, FlagsOK, CountsOK, ChannelsOK, Orderly
<1>12. CASE PageFails
  <2> USE <1>12 DEF PageFails, RetryIfEnabled
  <2>1. UNCHANGED <<hidpVars, link>>
    OBVIOUS
  <2>2. FlagsOK'
    BY Parts, ZenonT(30) DEF FlagsOK
  <2>3. CountsOK'
    BY Parts DEF CountsOK
  <2>4. Connectable'
    BY Parts, Zenon DEF Connectable
  <2> QED
    BY <2>1, <2>2, <2>3, <2>4, ChannelsKept, Zenon
        DEF IInv, TypeOK, FlagsOK, CountsOK, ChannelsOK, Orderly
<1> QED
  BY <1>1, <1>2, <1>3, <1>4, <1>5, <1>6, <1>7, <1>8, <1>9, <1>10, <1>11, <1>12 DEF Command

-----------------------------------------------------------------------------
(* Cleanup and opening *)

(* One more step of a task's cleanup.                                      *)
LEMMA SweepStep ==
  ASSUME IInv, NEW t \in Tasks, NEW c \in Channels, SweepTest(t, c) \/ SweepWipe(t, c)
  PROVE  IInv' /\ Spared
<1>1. CASE SweepTest(t, c)
  <2> USE <1>1 DEF SweepTest
  <2>1. FlagsOK' /\ CountsOK' /\ Connectable'
    <3>1. UNCHANGED <<radioVars, saved, autoVars, pairVars>>
      OBVIOUS
    <3>2. hidpRequested' \in BOOLEAN
      BY Parts, Zenon DEF FlagsOK
    <3> QED
      BY <3>1, <3>2, ScalarsKept
  <2>2. ChannelsOK'
    BY Parts DEF ChannelsOK
  <2>3. UNCHANGED <<chan, open, raced, link>> /\ cleanup' \subseteq cleanup
    OBVIOUS
  <2>4. OpenOnLink' /\ CleanupOfIdle' /\ OpensClean' /\ Spared
    BY ONLY <2>3, Parts, IInv DEF Orderly, OpenOnLink, CleanupOfIdle, OpensClean, Spared
  <2>5. ActsOnIdle'
    BY Parts DEF Orderly, ChannelsOK, CleanupOfIdle, ActsOnIdle, AboutTo, None
  <2> QED
    BY <2>1, <2>2, <2>4, <2>5, Zenon
        DEF IInv, TypeOK, FlagsOK, CountsOK, ChannelsOK, Orderly
<1>2. CASE SweepWipe(t, c)
  <2> USE <1>2 DEF SweepWipe
  <2>1. FlagsOK' /\ CountsOK' /\ Connectable'
    <3>1. UNCHANGED <<radioVars, saved, autoVars, pairVars>>
      OBVIOUS
    <3>2. hidpRequested' \in BOOLEAN
      BY Parts, Zenon DEF FlagsOK
    <3> QED
      BY <3>1, <3>2, ScalarsKept
  <2>2. ChannelsOK'
    BY Parts DEF ChannelsOK, Wiped
  <2>4. OpenOnLink' /\ CleanupOfIdle' /\ OpensClean'
    BY Parts DEF Orderly, ChannelsOK, OpenOnLink, CleanupOfIdle, OpensClean, Wiped, Idle
  <2>5. ActsOnIdle' /\ Spared
    BY Parts DEF Orderly, ChannelsOK, ActsOnIdle, AboutTo, None, Wiped, Spared
  <2> QED
    BY <2>1, <2>2, <2>4, <2>5, Zenon
        DEF IInv, TypeOK, FlagsOK, CountsOK, ChannelsOK, Orderly
<1> QED
  BY <1>1, <1>2

(* One more step of a task that opens the channels.                        *)
LEMMA OpenStepKeeps ==
  ASSUME IInv, NEW t \in Tasks, NEW c \in Channels, OpenLook(t, c) \/ OpenCall(t, c)
  PROVE  IInv' /\ Spared
<1>0. ASSUME NEW d \in Channels, NEW a \in BOOLEAN
      PROVE  OpenAt("call", d, a) \in Opens /\ AfterOpen(t, d, a) \in Opens
             /\ AfterOpen(t, d, a).next # "call"
  BY <1>0 DEF AfterOpen, Opens, OpenAt, NoOpen
<1>00. open[t].asked \in BOOLEAN
  BY Parts, Zenon DEF ChannelsOK, Opens, OpenAt, NoOpen
<1>1. CASE OpenLook(t, c)
  <2> USE <1>1 DEF OpenLook
  <2>0. PICK o \in Opens :
           /\ open' = [open EXCEPT ![t] = o]
           /\ \/ o.next # "call" /\ raced' = raced
              \/ o.of = c /\ cleanup = {} /\ chan[c] = "idle" /\ raced \ {c} \subseteq raced'
    <3>1. CASE cleanup = {} /\ link # "none" /\ chan[c] = "idle"
      <4>1. OpenAt("call", c, open[t].asked) \in Opens
        BY <1>0, <1>00
      <4>2. OpenAt("call", c, open[t].asked).of = c
        BY DEF OpenAt
      <4>3. raced \ {c} \subseteq raced'
        BY <3>1
      <4> QED
        BY <3>1, <4>1, <4>2, <4>3, Zenon
    <3>2. CASE ~(cleanup = {} /\ link # "none" /\ chan[c] = "idle")
      <4> DEFINE a == open[t].asked /\ cleanup = {} /\ link # "none"
      <4>1. a \in BOOLEAN
        BY Zenon
      <4>2. open' = [open EXCEPT ![t] = AfterOpen(t, c, a)] /\ raced' = raced
        BY <3>2, Zenon
      <4> HIDE DEF a
      <4> QED
        BY <4>1, <4>2, <1>0, Zenon
    <3> QED
      BY <3>1, <3>2
  <2>00. UNCHANGED <<chan, cleanup, link, sweep>> /\ raced' \subseteq raced
    BY DEF ChannelsOK
  <2>1. FlagsOK' /\ CountsOK' /\ Connectable'
    <3>1. UNCHANGED <<radioVars, saved, autoVars, pairVars>>
      OBVIOUS
    <3>2. hidpRequested' \in BOOLEAN
      BY Parts, Zenon DEF FlagsOK
    <3> QED
      BY <3>1, <3>2, ScalarsKept
  <2>2. ChannelsOK'
    BY ONLY Parts, IInv, <2>0, <2>00 DEF ChannelsOK
  <2>4. OpenOnLink' /\ CleanupOfIdle' /\ Spared
    BY Parts DEF Orderly, ChannelsOK, OpenOnLink, CleanupOfIdle, Spared
  <2>5. OpensClean'
    BY ONLY Parts, IInv, <2>0, <2>00 DEF Orderly, ChannelsOK, OpensClean
  <2>6. ActsOnIdle'
    BY ONLY Parts, IInv, <2>0, <2>00 DEF Orderly, ChannelsOK, ActsOnIdle, AboutTo
  <2> QED
    BY <2>1, <2>2, <2>4, <2>5, <2>6, Zenon
        DEF IInv, TypeOK, FlagsOK, CountsOK, ChannelsOK, Orderly
<1>2. CASE OpenCall(t, c)
  <2> USE <1>2 DEF OpenCall
  <2>0. PICK o \in Opens : open' = [open EXCEPT ![t] = o] /\ o.next # "call"
    BY <1>0, <1>00, Zenon
  <2>00. /\ open[t].next = "call" /\ open[t].of = c /\ sweep[t] = None
         /\ UNCHANGED <<cleanup, link, sweep>> /\ raced \subseteq raced'
    OBVIOUS
  <2>01. PICK x \in {"idle", "opening", "up"} : chan' = [chan EXCEPT ![c] = x]
    BY Parts DEF ChannelsOK, Wiped
  <2>02. /\ \A d \in Channels \ {c} : chan'[d] = chan[d]
         /\ chan' \in [Channels -> {"idle", "opening", "up"}]
    BY ONLY <2>01, Parts, IInv, c \in Channels DEF ChannelsOK
  <2>000. raced' \subseteq raced \cup {c}
    OBVIOUS
  <2>0000. \/ chan'[c] = chan[c] \/ chan'[c] = "idle"
           \/ link # "none" /\ \A u \in Tasks \ {t} : Holds(u, c) => c \in raced'
    BY Parts DEF ChannelsOK, Wiped
  <2>1. FlagsOK' /\ CountsOK' /\ Connectable'
    <3>1. UNCHANGED <<radioVars, saved, autoVars, pairVars>>
      OBVIOUS
    <3>2. hidpRequested' \in BOOLEAN
      BY Parts, Zenon DEF FlagsOK
    <3> QED
      BY <3>1, <3>2, ScalarsKept
  <2>2. ChannelsOK'
    BY ONLY Parts, IInv, c \in Channels, <2>0, <2>00, <2>02, <2>000 DEF ChannelsOK
  <2>4. OpenOnLink'
    BY ONLY Parts, IInv, c \in Channels, <2>00, <2>02, <2>0000 DEF Orderly, OpenOnLink, Idle, Channels
  <2>5. CleanupOfIdle'
    BY ONLY Parts, IInv, t \in Tasks, c \in Channels, <2>00, <2>02
       DEF Orderly, ChannelsOK, CleanupOfIdle, OpensClean
  <2>6. OpensClean'
    BY ONLY Parts, IInv, t \in Tasks, <2>0, <2>00 DEF Orderly, ChannelsOK, OpensClean
  <2>7. ActsOnIdle'
    BY ONLY Parts, IInv, t \in Tasks, c \in Channels, <2>0, <2>00, <2>02, <2>0000
       DEF Orderly, ChannelsOK, ActsOnIdle, AboutTo, Holds, None, Channels
  <2>8. Spared
    BY ONLY Parts, IInv, t \in Tasks, c \in Channels, <2>00, <2>02
       DEF Orderly, ActsOnIdle, AboutTo, Spared
  <2> QED
    BY <2>1, <2>2, <2>4, <2>5, <2>6, <2>7, <2>8, Zenon
        DEF IInv, TypeOK, FlagsOK, CountsOK, ChannelsOK, Orderly
<1> QED
  BY <1>1, <1>2

(* The auto task notes what became of the channels, or leaves them to the  *)
(* controller.                                                             *)
LEMMA NoteStep ==
  ASSUME IInv, OpenNote \/ AwaitChannels
  PROVE  IInv' /\ Spared
<1> USE DEF OpenNote, AwaitChannels
<1>1. UNCHANGED <<radioVars, saved, autoVars, pairVars>>
  OBVIOUS
<1>2. open["auto"].asked \in BOOLEAN
  BY Parts, Zenon DEF ChannelsOK, Opens
<1>3. hidpRequested' \in BOOLEAN
  BY <1>2, Zenon
<1>5. FlagsOK' /\ CountsOK' /\ Connectable'
  BY <1>1, <1>3, ScalarsKept
<1>4. ChannelsOK'
  <2>1. NoOpen \in Opens
    BY DEF Opens, NoOpen, OpenAt
  <2>2. open' = open \/ open' = [open EXCEPT !["auto"] = NoOpen]
    OBVIOUS
  <2>3. UNCHANGED <<chan, cleanup, sweep, raced>>
    OBVIOUS
  <2> QED
    BY ONLY <2>1, <2>2, <2>3, Parts, IInv DEF ChannelsOK
<1>6. Orderly' /\ Spared
  BY Parts DEF Orderly, ChannelsOK, OpenOnLink, CleanupOfIdle, OpensClean, ActsOnIdle, AboutTo,
      Spared, NoOpen, OpenAt
<1> QED
  BY <1>4, <1>5, <1>6, Zenon
      DEF IInv, TypeOK, FlagsOK, CountsOK, ChannelsOK, Orderly

-----------------------------------------------------------------------------
(* Callbacks *)

(* What Race keeps and what it marks.                                      *)
LEMMA RaceMarks ==
  ASSUME raced \subseteq Channels, NEW cs \in SUBSET Channels, Race(cs)
  PROVE  /\ raced' \subseteq Channels
         /\ \A d \in Channels \ cs : d \in raced <=> d \in raced'
         /\ \A d \in cs, t \in Tasks : AboutTo(t, d) => d \in raced'
BY DEF Race, AboutTo, Holds

(* A search ends; a link begins.                                           *)
LEMMA RadioStep ==
  ASSUME IInv, PageAnswered \/ Incoming \/ SearchOver
  PROVE  IInv' /\ Spared
<1>1. CASE PageAnswered \/ Incoming
  <2> USE <1>1 DEF PageAnswered, Incoming, LinkUp
  <2>1. FlagsOK'
    BY Parts, ZenonT(30) DEF FlagsOK
  <2>2. CountsOK'
    BY Parts DEF CountsOK
  <2>3. ChannelsOK'
    BY Parts DEF ChannelsOK, Idle
  <2>4. Connectable'
    BY Parts DEF Connectable
  <2>5. Orderly' /\ Spared
    BY Parts DEF Orderly, OpenOnLink, CleanupOfIdle, OpensClean, ActsOnIdle, AboutTo, Idle, Spared
  <2> QED
    BY <2>1, <2>2, <2>3, <2>4, <2>5, Zenon
        DEF IInv, TypeOK, FlagsOK, CountsOK, ChannelsOK, Orderly
<1>2. ASSUME NEW found \in BOOLEAN, SearchEnds(found) PROVE IInv' /\ Spared
  <2> USE <1>2 DEF SearchEnds, PageRefused, CleanupDone, CleanupAhead, RetryIfEnabled
  <2>1. FlagsOK'
    BY Parts, ZenonT(30) DEF FlagsOK
  <2>2. CountsOK'
    BY Parts DEF CountsOK
  <2>3. (chan' = chan \/ chan' = Prepared) /\ cleanup' \in {{}, cleanup}
        /\ UNCHANGED <<link, taskVars>>
    OBVIOUS
  <2>4. ChannelsOK'
    BY ONLY <2>3, Parts, IInv DEF ChannelsOK, Prepared, Wiped, Channels, taskVars
  <2>5. Connectable'
    BY Parts, Zenon DEF Connectable
  <2>6. Orderly' /\ Spared
    BY ONLY <2>3, Parts, IInv DEF Orderly, OpenOnLink, CleanupOfIdle, OpensClean, ActsOnIdle,
        AboutTo, Idle, Spared, ChannelsOK, Prepared, Wiped, Channels, taskVars
  <2> QED
    BY <2>1, <2>2, <2>4, <2>5, <2>6, Zenon
        DEF IInv, TypeOK, FlagsOK, CountsOK, ChannelsOK, Orderly
<1> QED
  BY <1>1, <1>2 DEF SearchOver

(* A link ends.                                                            *)
LEMMA EndStep ==
  ASSUME IInv, Disconnected
  PROVE  IInv' /\ Spared
<1> USE DEF Disconnected
<1>1. FlagsOK'
  BY Parts, ZenonT(30) DEF FlagsOK, PairingGoesOn, SearchStarts, SearchRefused
<1>2. CountsOK'
  BY Parts DEF CountsOK
<1>3. ChannelsOK'
  BY Parts, RaceMarks DEF ChannelsOK, Idle
<1>4. Connectable'
  BY Parts DEF Connectable
<1>5. OpenOnLink' /\ CleanupOfIdle' /\ ActsOnIdle'
  BY Parts DEF OpenOnLink, CleanupOfIdle, ActsOnIdle, Idle
<1>6. OpensClean'
  BY Parts, RaceMarks DEF ChannelsOK, OpensClean, AboutTo
<1>7. Spared
  BY DEF Spared
<1> QED
  BY <1>1, <1>2, <1>3, <1>4, <1>5, <1>6, <1>7, Zenon
      DEF IInv, TypeOK, FlagsOK, CountsOK, ChannelsOK, Orderly

(* Channels open, come up and go down.                                     *)
LEMMA ChannelStep ==
  ASSUME IInv, NEW c \in Channels, Accept(c) \/ ChannelUp(c) \/ ChannelDown(c)
  PROVE  IInv' /\ Spared
<1>1. CASE Accept(c)
  <2> USE <1>1 DEF Accept, CleanupDone
  <2>1. FlagsOK' /\ CountsOK' /\ Connectable'
    <3>1. UNCHANGED <<radioVars, saved, autoVars, pairVars>>
      OBVIOUS
    <3>2. hidpRequested' \in BOOLEAN
      BY Parts, Zenon DEF FlagsOK
    <3> QED
      BY <3>1, <3>2, ScalarsKept
  <2>2. ChannelsOK'
    BY Parts, RaceMarks DEF ChannelsOK, Prepared, Wiped
  <2>4. OpenOnLink' /\ CleanupOfIdle' /\ OpensClean'
    BY Parts DEF Orderly, OpenOnLink, CleanupOfIdle, OpensClean
  <2>5. ActsOnIdle' /\ Spared
    BY Parts, RaceMarks DEF Orderly, ChannelsOK, CleanupOfIdle, ActsOnIdle, AboutTo, Prepared,
        Wiped, Spared
  <2> QED
    BY <2>1, <2>2, <2>4, <2>5, Zenon
        DEF IInv, TypeOK, FlagsOK, CountsOK, ChannelsOK, Orderly
<1>2. CASE ChannelUp(c)
  <2> USE <1>2 DEF ChannelUp
  <2>1. FlagsOK'
    BY Parts, ZenonT(30) DEF FlagsOK
  <2>2. CountsOK' /\ ChannelsOK'
    BY Parts DEF CountsOK, ChannelsOK
  <2>3. link # "none"
    BY Parts DEF Orderly, OpenOnLink, Idle
  <2>4. Connectable'
    BY <2>3, Parts DEF Connectable
  <2>5. Orderly' /\ Spared
    BY <2>3, Parts DEF Orderly, ChannelsOK, OpenOnLink, CleanupOfIdle, ActsOnIdle, AboutTo,
        OpensClean, Spared
  <2> QED
    BY <2>1, <2>2, <2>4, <2>5, Zenon
        DEF IInv, TypeOK, FlagsOK, CountsOK, ChannelsOK, Orderly
<1>3. CASE ChannelDown(c)
  <2> USE <1>3 DEF ChannelDown
  <2>1. FlagsOK' /\ CountsOK' /\ Connectable'
    <3>1. UNCHANGED <<radioVars, saved, autoVars, pairVars>>
      OBVIOUS
    <3>2. hidpRequested' \in BOOLEAN
      BY Parts, Zenon DEF FlagsOK
    <3> QED
      BY <3>1, <3>2, ScalarsKept
  <2>2. ChannelsOK'
    BY Parts, RaceMarks DEF ChannelsOK
  <2>4. OpenOnLink' /\ Spared
    BY Parts DEF Orderly, ChannelsOK, OpenOnLink, Idle, Spared
  <2>6. CleanupOfIdle'
    BY Parts, RaceMarks DEF Orderly, ChannelsOK, CleanupOfIdle
  <2>5. ActsOnIdle' /\ OpensClean'
    BY Parts, RaceMarks DEF Orderly, ChannelsOK, ActsOnIdle, OpensClean, AboutTo
  <2> QED
    BY <2>1, <2>2, <2>4, <2>5, <2>6, Zenon
        DEF IInv, TypeOK, FlagsOK, CountsOK, ChannelsOK, Orderly
<1> QED
  BY <1>1, <1>2, <1>3

LEMMA NextIInv ==
  ASSUME IInv, [Next]_vars
  PROVE  IInv' /\ [Spared]_vars
<1>1. CASE Next
  <2>1. CASE \E t \in Tasks : Sweep(t) \/ OpenStep(t)
    BY <2>1, SweepStep, OpenStepKeeps DEF Sweep, OpenStep
  <2>2. CASE AutoTask \/ PairingSearch \/ Command
    BY <2>2, QuietStep, NoteStep DEF AutoTask
  <2>3. CASE Stack
    BY <2>3, QuietStep, RadioStep, EndStep, ChannelStep DEF Stack, PageEnds
  <2> QED
    BY <1>1, <2>1, <2>2, <2>3 DEF Next
<1>2. CASE UNCHANGED vars
  <2>1. UNCHANGED <<hidpVars, link>>
    BY <1>2
  <2>2. FlagsOK' /\ CountsOK' /\ Connectable'
    <3>1. UNCHANGED <<radioVars, saved, autoVars, pairVars>> /\ hidpRequested' = hidpRequested
      BY <1>2
    <3>2. hidpRequested' \in BOOLEAN
      BY <3>1, Parts, Zenon DEF FlagsOK
    <3> QED
      BY <3>1, <3>2, ScalarsKept
  <2> QED
    BY <2>1, <2>2, ChannelsKept, Zenon
        DEF IInv, TypeOK, FlagsOK, CountsOK, ChannelsOK, Orderly
<1> QED
  BY <1>1, <1>2

-----------------------------------------------------------------------------
(* The inductive invariant holds, whatever the number of attempts and the  *)
(* order of the tasks' steps.                                              *)
THEOREM LinkInvariant == Spec => []IInv
<1>1. IInv /\ [Next]_vars => IInv'
  BY NextIInv
<1> QED
  BY InitIInv, <1>1, PTL DEF Spec

(* The variables keep their types.                                         *)
THEOREM LinkTypes == Spec => []TypeOK
<1>1. IInv => TypeOK
  BY DEF IInv
<1> QED
  BY <1>1, LinkInvariant, PTL

(* Without a link, pages are answered.                                     *)
THEOREM AlwaysConnectable == Spec => []Connectable
<1>1. IInv => Connectable
  BY DEF IInv
<1> QED
  BY <1>1, LinkInvariant, PTL

(* A channel is closed by the stack, or by a task that looked at it before *)
(* its present use began or its cleanup came due, and by nothing else.     *)
THEOREM ChannelsSpared == Spec => NoWipe
<1>1. IInv /\ [Next]_vars => [Spared]_vars
  BY NextIInv
<1>2. Spared <=> \A c \in Channels : chan[c] # "idle" /\ chan'[c] = "idle"
                    => ChannelDown(c) \/ Disconnected \/ c \in raced
  BY DEF Spared
<1> QED
  BY <1>1, <1>2, LinkInvariant, PTL DEF Spec, NoWipe
=============================================================================
