---------------------------- MODULE BtTxScheduler ----------------------------
(***************************************************************************)
(* The transmit scheduler of                                               *)
(* src/m61/dualsense_hidp_probe/m61_bt_tx_scheduler.c.                     *)
(*                                                                         *)
(* It holds up to RtDepth realtime audio pairs and two one-place mailboxes,*)
(* report 0x31 (host output) and report 0x32 (microphone status).  Select  *)
(* names the publication to send next, and Finish settles it; a caller may *)
(* hold a selection while publications, resets and time go by, and then    *)
(* Finish must refuse it if it no longer names the same publication.       *)
(*                                                                         *)
(* The payload of a publication is abstracted to its number.  The counters *)
(* of how a publication settled (transmitted, replaced, stale, dropped) are*)
(* summed into one; retried and rejected are left out.  Nothing reads them *)
(* but the shell.                                                          *)
(***************************************************************************)
EXTENDS Integers, FiniteSets, Sequences

CONSTANTS
    RtDepth,           \* M61_BT_TX_RT_DEPTH
    MaxRtBurst,        \* M61_BT_TX_MAX_RT_BURST
    BurstCap,          \* UINT8_MAX, where rt_burst stops
    MaxAge,            \* M61_BT_TX_RT_MAX_AGE_US, in ticks
    VersionModulus,    \* 2^32 in the code
    MaxHeld,           \* publications that may follow a publication before a
                       \* selection of it is settled
    MaxTime,           \* bound: the clock stops here
    MaxGeneration,     \* bound: the last generation
    MaxPublications    \* bound: publications of all classes

ASSUME DepthAssumption ==
    /\ RtDepth \in Nat \ {0}
    /\ MaxRtBurst \in Nat \ {0} /\ BurstCap \in Nat /\ MaxRtBurst <= BurstCap
ASSUME VersionAssumption ==
    /\ VersionModulus \in Nat /\ MaxHeld \in Nat
    /\ MaxHeld < VersionModulus - 1
ASSUME LimitAssumption ==
    /\ MaxAge \in Nat /\ MaxTime \in Nat /\ MaxGeneration \in Nat
    /\ MaxPublications \in Nat

VARIABLES
    generation,   \* generation
    version,      \* next_version: the version handed out last
    rtBurst,      \* rt_burst
    nextState,    \* next_state_class
    rtPending,    \* realtime slot -> pending
    rtVersion,    \* realtime slot -> version
    rtSeq,        \* realtime slot -> sequence
    rtGen,        \* realtime slot -> payload.generation
    rtCreated,    \* realtime slot -> created_us
    rtPub,        \* realtime slot -> number of its publication (history)
    stPending,    \* mailbox -> pending
    stVersion,    \* mailbox -> version
    stGen,        \* mailbox -> generation
    stPub,        \* mailbox -> number of its publication (history)
    accepted,     \* class -> metrics accepted
    settled,      \* class -> metrics transmitted + replaced + stale + dropped
    pending,      \* class -> metrics pending
    selClass, selSlot, selGen, selVersion,  \* the selection a caller holds
    selPub,       \* number of the selected publication (history)
    selWaiting,   \* mailboxes that could have been selected with it (history)
    now,          \* the clock
    lastRt,       \* sequence of the last pair finished (history)
    rtWaited,     \* pairs finished while a selectable report waited (history)
    overtaken     \* mailbox -> reports of the other one transmitted while this
                  \* one was selectable (history)

rtVars == <<rtPending, rtVersion, rtSeq, rtGen, rtCreated, rtPub>>
stVars == <<stPending, stVersion, stGen, stPub>>
metrics == <<accepted, settled, pending>>
sel == <<selClass, selSlot, selGen, selVersion, selPub, selWaiting>>
history == <<lastRt, rtWaited, overtaken>>
schedVars == <<generation, version, rtBurst, nextState, rtVars, stVars, metrics,
               sel, now, history>>

RtSlots == 0 .. RtDepth - 1
Mailboxes == {"STATE31", "STATE32"}
Classes == {"REALTIME"} \cup Mailboxes
Results == {"SUCCESS", "RETRY", "DROP"}
Other(c) == IF c = "STATE31" THEN "STATE32" ELSE "STATE31"

Zero == [c \in Classes |-> 0]

Init ==
    /\ generation = 1 /\ version = 0 /\ rtBurst = 0 /\ nextState = "STATE31"
    /\ rtPending = [s \in RtSlots |-> FALSE]
    /\ rtVersion = [s \in RtSlots |-> 0]
    /\ rtSeq = [s \in RtSlots |-> 0]
    /\ rtGen = [s \in RtSlots |-> 0]
    /\ rtCreated = [s \in RtSlots |-> 0]
    /\ rtPub = [s \in RtSlots |-> 0]
    /\ stPending = [c \in Mailboxes |-> FALSE]
    /\ stVersion = [c \in Mailboxes |-> 0]
    /\ stGen = [c \in Mailboxes |-> 0]
    /\ stPub = [c \in Mailboxes |-> 0]
    /\ accepted = Zero /\ settled = Zero /\ pending = Zero
    /\ selClass = "NONE" /\ selSlot = 0 /\ selGen = 0 /\ selVersion = 0
    /\ selPub = 0 /\ selWaiting = {}
    /\ now = 0
    /\ lastRt = -1 /\ rtWaited = 0 /\ overtaken = [c \in Mailboxes |-> 0]

-----------------------------------------------------------------------------
(* Zero is not a version.                                                  *)
NextVersion == IF version = VersionModulus - 1 THEN 1 ELSE version + 1

Bump(counter, c) == [counter EXCEPT ![c] = @ + 1]

(* retire_metric never takes pending below zero.                           *)
Less(n, k) == IF n > k THEN n - k ELSE 0

RtPendingSlots == {s \in RtSlots : rtPending[s]}

(* s holds the pair of S that was published first.                         *)
FaultFirstSlot(s, S) == s \in S /\ \A t \in S : s <= t
Oldest(s, S) == s \in S /\ \A t \in S : rtSeq[s] <= rtSeq[t]

(* Publications so far.                                                    *)
Published == accepted["REALTIME"] + accepted["STATE31"] + accepted["STATE32"]

(* The caller settles a selection before the versions come round.          *)
MayPublish ==
    /\ Published < MaxPublications
    /\ selClass = "NONE" \/ Published - selPub < MaxHeld

-----------------------------------------------------------------------------
(* m61_bt_tx_scheduler_reset_generation.  The bridge also calls it with    *)
(* the generation unchanged, when the link is lost.                        *)
FaultRetiredOnce(c) ==
    IF c = "REALTIME" THEN IF RtPendingSlots = {} THEN 0 ELSE 1
    ELSE IF stPending[c] THEN 1 ELSE 0
RetiredByReset(c) ==
    IF c = "REALTIME" THEN Cardinality(RtPendingSlots)
    ELSE IF stPending[c] THEN 1 ELSE 0

Reset(g) ==
    /\ generation' = g
    /\ rtPending' = [s \in RtSlots |-> FALSE]
    /\ stPending' = [c \in Mailboxes |-> FALSE]
    /\ settled' = [c \in Classes |-> settled[c] + RetiredByReset(c)]
    /\ pending' = [c \in Classes |-> Less(pending[c], RetiredByReset(c))]
    /\ rtBurst' = 0 /\ nextState' = "STATE31"
    /\ rtWaited' = 0 /\ overtaken' = [c \in Mailboxes |-> 0]
    /\ UNCHANGED <<version, rtVersion, rtSeq, rtGen, rtCreated, rtPub, stVersion, stGen,
                   stPub, accepted, sel, now, lastRt>>

(* Slot s takes a pair captured at t.  next_sequence counts the accepted   *)
(* pairs, so its value is accepted["REALTIME"].                            *)
FillSlot(s, t) ==
    /\ rtPending' = [rtPending EXCEPT ![s] = TRUE]
    /\ rtVersion' = [rtVersion EXCEPT ![s] = NextVersion]
    /\ rtSeq' = [rtSeq EXCEPT ![s] = accepted["REALTIME"]]
    /\ rtGen' = [rtGen EXCEPT ![s] = generation]
    /\ rtCreated' = [rtCreated EXCEPT ![s] = t]
    /\ rtPub' = [rtPub EXCEPT ![s] = Published + 1]
    /\ version' = NextVersion
    /\ accepted' = Bump(accepted, "REALTIME")
    /\ UNCHANGED <<generation, rtBurst, nextState, stVars, sel, now,
                   history>>

(* m61_bt_tx_scheduler_ingest_epoch_pair with a pair of the current        *)
(* generation: only into a free slot, the first one.                       *)
IngestPair(s, t) ==
    /\ ~rtPending[s] /\ \A u \in 0 .. s - 1 : rtPending[u]
    /\ FillSlot(s, t)
    /\ pending' = Bump(pending, "REALTIME")
    /\ UNCHANGED settled

(* m61_bt_tx_scheduler_publish_realtime: the oldest pair gives way when    *)
(* every slot is taken.                                                    *)
PublishRealtime(s, t) ==
    IF RtPendingSlots = RtSlots
    THEN /\ Oldest(s, RtSlots)
         /\ FillSlot(s, t)
         /\ settled' = Bump(settled, "REALTIME")
         /\ UNCHANGED pending
    ELSE IngestPair(s, t)

(* m61_bt_tx_scheduler_publish_state31 and _state32 in the current         *)
(* generation: a report that waits is replaced.                            *)
PublishState(c) ==
    /\ stPending' = [stPending EXCEPT ![c] = TRUE]
    /\ stVersion' = [stVersion EXCEPT ![c] = NextVersion]
    /\ stGen' = [stGen EXCEPT ![c] = generation]
    /\ stPub' = [stPub EXCEPT ![c] = Published + 1]
    /\ version' = NextVersion
    /\ accepted' = Bump(accepted, c)
    /\ IF stPending[c]
       THEN settled' = Bump(settled, c) /\ UNCHANGED pending
       ELSE pending' = Bump(pending, c) /\ UNCHANGED settled
    /\ UNCHANGED <<generation, rtBurst, nextState, rtVars, sel, now,
                   history>>

-----------------------------------------------------------------------------
(* m61_bt_tx_scheduler_select                                              *)

Age(s) == IF now >= rtCreated[s] THEN now - rtCreated[s] ELSE 0

(* drop_stale_realtime and drop_wrong_generation_state                     *)
StaleRt == {s \in RtPendingSlots : rtGen[s] # generation \/ Age(s) > MaxAge}
StaleSt == {c \in Mailboxes : stPending[c] /\ stGen[c] # generation}

Waiting(eligible) ==
    {c \in Mailboxes \cap eligible : stPending[c] /\ c \notin StaleSt}

(* Realtime goes first until it used up its burst and a report waits.      *)
FaultOneMoreBurst(waiting) == rtBurst <= MaxRtBurst \/ waiting = {}
RealtimeFirst(waiting) == rtBurst < MaxRtBurst \/ waiting = {}

(* select_state_class: the mailbox whose turn it is, or the other one.     *)
Turn(waiting) == IF nextState \in waiting THEN nextState ELSE Other(nextState)

ClearSelection ==
    /\ selClass' = "NONE" /\ selSlot' = 0 /\ selGen' = 0 /\ selVersion' = 0
    /\ selPub' = 0 /\ selWaiting' = {}

Choose(live, waiting, eligible) ==
    IF "REALTIME" \in eligible /\ live # {} /\ RealtimeFirst(waiting)
    THEN \E s \in live :
            /\ Oldest(s, live)
            /\ selClass' = "REALTIME" /\ selSlot' = s
            /\ selGen' = rtGen[s] /\ selVersion' = rtVersion[s] /\ selPub' = rtPub[s]
            /\ selWaiting' = waiting
    ELSE IF waiting # {}
    THEN LET c == Turn(waiting) IN
            /\ selClass' = c /\ selSlot' = 0
            /\ selGen' = stGen[c] /\ selVersion' = stVersion[c] /\ selPub' = stPub[c]
            /\ selWaiting' = waiting
    ELSE ClearSelection

Select(eligible) ==
    /\ Choose(RtPendingSlots \ StaleRt, Waiting(eligible), eligible)
    /\ rtPending' = [s \in RtSlots |-> rtPending[s] /\ s \notin StaleRt]
    /\ stPending' = [c \in Mailboxes |-> stPending[c] /\ c \notin StaleSt]
    /\ LET retired(c) == IF c = "REALTIME" THEN Cardinality(StaleRt)
                         ELSE IF c \in StaleSt THEN 1 ELSE 0
       IN  /\ settled' = [c \in Classes |-> settled[c] + retired(c)]
           /\ pending' = [c \in Classes |-> Less(pending[c], retired(c))]
    /\ UNCHANGED <<generation, version, rtBurst, nextState, rtVersion, rtSeq, rtGen,
                   rtCreated, rtPub, stVersion, stGen, stPub, accepted,
                   now, history>>

-----------------------------------------------------------------------------
(* m61_bt_tx_scheduler_finish                                              *)

(* m61_bt_tx_scheduler_selection_is_current                                *)
FaultCurrentIfPending ==
    /\ selGen = generation
    /\ IF selClass = "REALTIME" THEN rtPending[selSlot]
       ELSE selClass \in Mailboxes /\ stPending[selClass]
SelectionIsCurrent ==
    /\ selGen = generation
    /\ IF selClass = "REALTIME"
       THEN rtPending[selSlot] /\ rtVersion[selSlot] = selVersion
       ELSE /\ selClass \in Mailboxes
            /\ stPending[selClass] /\ stVersion[selClass] = selVersion

FinishRealtime ==
    /\ selClass = "REALTIME"
    /\ rtPending' = [rtPending EXCEPT ![selSlot] = FALSE]
    /\ rtBurst' = IF rtBurst < BurstCap THEN rtBurst + 1 ELSE rtBurst
    /\ rtWaited' = IF selWaiting = {} THEN 0 ELSE rtWaited + 1
    /\ lastRt' = rtSeq[selSlot]
    /\ UNCHANGED <<nextState, stPending, overtaken>>

(* Only a report that was sent passes the turn on and renews the burst.    *)
FaultKeepTurn ==
    /\ selClass \in Mailboxes
    /\ stPending' = [stPending EXCEPT ![selClass] = FALSE]
    /\ rtBurst' = 0 /\ rtWaited' = 0
    /\ overtaken' = [c \in Mailboxes |->
            IF c = selClass THEN 0
            ELSE IF c \in selWaiting /\ stPending[c] THEN overtaken[c] + 1
            ELSE overtaken[c]]
    /\ UNCHANGED <<nextState, rtPending, lastRt>>
SendState ==
    /\ selClass \in Mailboxes
    /\ stPending' = [stPending EXCEPT ![selClass] = FALSE]
    /\ rtBurst' = 0 /\ rtWaited' = 0
    /\ nextState' = Other(selClass)
    /\ overtaken' = [c \in Mailboxes |->
            IF c = selClass THEN 0
            ELSE IF c \in selWaiting /\ stPending[c] THEN overtaken[c] + 1
            ELSE overtaken[c]]
    /\ UNCHANGED <<rtPending, lastRt>>

DropState ==
    /\ selClass \in Mailboxes
    /\ stPending' = [stPending EXCEPT ![selClass] = FALSE]
    /\ overtaken' = [overtaken EXCEPT ![selClass] = 0]
    /\ UNCHANGED <<rtBurst, nextState, rtPending, lastRt, rtWaited>>

(* A retry leaves the publication where it is; a selection that is not     *)
(* current settles nothing.                                                *)
FinishOnly(result) ==
    IF SelectionIsCurrent /\ result # "RETRY"
    THEN /\ settled' = Bump(settled, selClass)
         /\ pending' = [pending EXCEPT ![selClass] = Less(@, 1)]
         /\ \/ FinishRealtime
            \/ result = "SUCCESS" /\ SendState
            \/ result = "DROP" /\ DropState
         /\ UNCHANGED <<generation, version, rtVersion, rtSeq, rtGen, rtCreated, rtPub,
                        stVersion, stGen, stPub, accepted, now>>
    ELSE UNCHANGED <<generation, version, rtBurst, nextState, rtVars, stVars,
                     metrics, now, history>>

(* The caller may keep the selection and finish it once more.              *)
Finish(result, keep) ==
    /\ selClass # "NONE"
    /\ FinishOnly(result)
    /\ IF keep THEN UNCHANGED sel ELSE ClearSelection

Tick ==
    /\ now' = now + 1
    /\ UNCHANGED <<generation, version, rtBurst, nextState, rtVars, stVars, metrics,
                   sel, history>>

-----------------------------------------------------------------------------
Next ==
    \/ \E g \in generation .. MaxGeneration : Reset(g)
    \/ MayPublish /\ \E s \in RtSlots, t \in 0 .. now :
                        IngestPair(s, t) \/ PublishRealtime(s, t)
    \/ MayPublish /\ \E c \in Mailboxes : PublishState(c)
    \/ \E eligible \in SUBSET Classes : Select(eligible)
    \/ \E result \in Results, keep \in BOOLEAN : Finish(result, keep)
    \/ now < MaxTime /\ Tick

Spec == Init /\ [][Next]_schedVars

-----------------------------------------------------------------------------
(* Correctness                                                             *)

Counters == [Classes -> Nat]

TypeOK ==
    /\ generation \in Nat /\ version \in 0 .. VersionModulus - 1
    /\ rtBurst \in 0 .. BurstCap /\ nextState \in Mailboxes
    /\ rtPending \in [RtSlots -> BOOLEAN] /\ stPending \in [Mailboxes -> BOOLEAN]
    /\ rtVersion \in [RtSlots -> 0 .. VersionModulus - 1]
    /\ stVersion \in [Mailboxes -> 0 .. VersionModulus - 1]
    /\ rtSeq \in [RtSlots -> Nat] /\ rtPub \in [RtSlots -> Nat] /\ stPub \in [Mailboxes -> Nat]
    /\ rtGen \in [RtSlots -> Nat] /\ stGen \in [Mailboxes -> Nat]
    /\ rtCreated \in [RtSlots -> Nat] /\ now \in Nat
    /\ accepted \in Counters /\ settled \in Counters /\ pending \in Counters
    /\ selClass \in Classes \cup {"NONE"} /\ selSlot \in RtSlots /\ selGen \in Nat
    /\ selVersion \in 0 .. VersionModulus - 1 /\ selPub \in Nat
    /\ selWaiting \subseteq Mailboxes
    /\ lastRt \in Nat \cup {-1} /\ rtWaited \in Nat
    /\ overtaken \in [Mailboxes -> Nat]

(* Every publication is transmitted, dropped, replaced, gone stale or      *)
(* still pending, exactly one of these, and the pending count of a class   *)
(* is the number of places it occupies (assert_class_conserved in          *)
(* tools/test_m61_bt_tx_scheduler.c states the sum for a few sequences).   *)
Conserved ==
    /\ \A c \in Classes : accepted[c] = settled[c] + pending[c]
    /\ pending["REALTIME"] = Cardinality(RtPendingSlots)
    /\ \A c \in Mailboxes : pending[c] = IF stPending[c] THEN 1 ELSE 0

(* A selection that passes for current still names the publication that    *)
(* was selected: nobody is told that a newer report was sent when an older *)
(* one was, although versions wrap.                                        *)
SelectionNames ==
    SelectionIsCurrent =>
        selPub = IF selClass = "REALTIME" THEN rtPub[selSlot] ELSE stPub[selClass]

(* Realtime cannot hold up the reports: at most MaxRtBurst pairs in a row  *)
(* are finished while a report could have been selected.                   *)
BurstBound == rtWaited <= MaxRtBurst

(* Nor can one mailbox hold up the other: a report that could be selected  *)
(* is overtaken at most once by reports of the other mailbox.              *)
Alternates == \A c \in Mailboxes : overtaken[c] <= 1

(* A waiting report is bounded on both sides: by the bursts of realtime    *)
(* pairs and by the turns of the mailboxes (m61_bt_tx_scheduler.c:326, 440)*)
FairTurns == BurstBound /\ Alternates

(* Pairs are finished in the order they were published, retries, stale     *)
(* pairs and replaced ones in between.                                     *)
RealtimeInOrder == [][lastRt' # lastRt => lastRt' > lastRt]_schedVars
-----------------------------------------------------------------------------
(* Why it is correct: the inductive invariant                              *)

(* Publication pub carries ver: as long as fewer publications than there   *)
(* are versions followed it, the distances of both agree, once round or    *)
(* not.                                                                    *)
Carries(pub, ver) ==
    /\ pub \in 1 .. Published /\ ver \in 1 .. VersionModulus - 1
    /\ Published - pub < VersionModulus - 1 =>
          \/ version - ver = Published - pub
          \/ version - ver + VersionModulus - 1 = Published - pub

VersionInv ==
    /\ Published > 0 => version > 0
    /\ \A s \in RtSlots : rtPending[s] => Carries(rtPub[s], rtVersion[s])
    /\ \A c \in Mailboxes : stPending[c] => Carries(stPub[c], stVersion[c])
    /\ selClass # "NONE" => Carries(selPub, selVersion)

(* What waits where the selection was made is the same publication or a    *)
(* later one, and then no more than MaxHeld have followed.                 *)
Follows(pub) == pub = selPub \/ (pub > selPub /\ Published - selPub <= MaxHeld)
SelectionInv ==
    /\ selClass = "REALTIME" /\ rtPending[selSlot] => Follows(rtPub[selSlot])
    /\ \A c \in Mailboxes : selClass = c /\ stPending[c] => Follows(stPub[c])

PairSelected == selClass = "REALTIME" /\ rtPending[selSlot] /\ rtPub[selSlot] = selPub
ReportSelected(c) == selClass = c /\ stPending[c] /\ stPub[c] = selPub

(* Pairs that wait are later than the last one finished, and none of them  *)
(* is older than the one selected.                                         *)
OrderInv ==
    /\ lastRt < accepted["REALTIME"]
    /\ \A s \in RtSlots : rtPending[s] =>
          lastRt < rtSeq[s] /\ rtSeq[s] < accepted["REALTIME"]
    /\ \A s, t \in RtSlots : rtPending[s] /\ rtPending[t] /\ rtSeq[s] = rtSeq[t] => s = t
    /\ PairSelected => \A t \in RtSlots : rtPending[t] => rtSeq[selSlot] <= rtSeq[t]

BurstInv ==
    /\ rtWaited <= rtBurst /\ rtWaited <= MaxRtBurst
    /\ PairSelected /\ selWaiting # {} => rtBurst < MaxRtBurst

(* A report that was overtaken has the turn.                               *)
TurnInv ==
    /\ \A c \in Mailboxes : overtaken[c] <= 1 /\ (overtaken[c] = 1 => nextState = c)
    /\ \A c \in Mailboxes :
          ReportSelected(c) /\ Other(c) \in selWaiting => nextState = c

(* The inductive invariant: versions tell publications apart for as long   *)
(* as a selection may be held, so what it was chosen for still holds when  *)
(* it is settled.                                                          *)
IInv ==
    /\ TypeOK /\ Conserved
    /\ VersionInv /\ SelectionInv /\ OrderInv /\ BurstInv /\ TurnInv

-----------------------------------------------------------------------------
(* What it implements: TxQueue, where an item is the number of its         *)
(* publication.                                                            *)

(* o lists S by growing num.                                               *)
Lists(o, S, num) ==
    /\ o \in Seq(S)
    /\ \A s \in S : \E i \in 1 .. Len(o) : o[i] = s
    /\ \A i, j \in 1 .. Len(o) : i < j => num[o[i]] < num[o[j]]

ListOf(S, num) == CHOOSE o \in [1 .. Cardinality(S) -> S] : Lists(o, S, num)

(* The slots in the order their pairs were published.                      *)
PendingInOrder == ListOf(RtPendingSlots, rtSeq)

Named(o, pub) == [i \in 1 .. Len(o) |-> pub[o[i]]]

Queue == INSTANCE TxQueue WITH
    Depth <- RtDepth,
    Burst <- MaxRtBurst,
    Nothing <- 0,
    queue <- Named(PendingInOrder, rtPub),
    mail <- [c \in Mailboxes |-> IF stPending[c] THEN stPub[c] ELSE 0],
    burst <- rtBurst,
    turn <- nextState,
    chosen <- [class |-> selClass, item |-> selPub]

(* Slots, versions, sequence numbers and generations do nothing a queue    *)
(* and two mailboxes would not do: every step of the scheduler is one of   *)
(* theirs.                                                                 *)
ImplementsTxQueue ==
    Queue!QueueInit /\ [][Queue!QueueNext(1 .. MaxPublications)]_(Queue!queueVars)

(* The sequence numbers of the slots in use put them in one order, and a   *)
(* report of another generation never waits: Reset cleared it, so          *)
(* drop_wrong_generation_state finds nothing to drop.                      *)
RefinementInv ==
    /\ Lists(PendingInOrder, RtPendingSlots, rtSeq)
    /\ \A c \in Mailboxes : stPending[c] => stGen[c] = generation
=============================================================================
