----------------------------- MODULE AudioEpoch -----------------------------
(***************************************************************************)
(* The epoch store of src/m61/dualsense_hidp_probe/m61_audio_epoch.c.      *)
(*                                                                         *)
(* USB speaker packets are cut into epochs of EpochFrames frames.  An      *)
(* epoch lives in one slot, is Opus-encoded when the speaker is enabled,   *)
(* and leaves the store together with its successor as a pair.  Three      *)
(* tasks work on the slots: audio_ingress_task fills them,                 *)
(* audio_codec_task encodes them, and the Bluetooth bridge task takes      *)
(* pairs.  The store is locked (interrupts off) only around the changes of *)
(* slot state; the PCM, Opus and haptics copies run outside the lock.      *)
(* Resets come from USB callbacks and from other tasks and strike between  *)
(* any two steps.  An action below is one locked section or one copy.      *)
(*                                                                         *)
(* Operators named Fault... are wrong variants of the definition after     *)
(* them; no specification uses one, they show what a property rules out.   *)
(***************************************************************************)
EXTENDS Integers, FiniteSets, Sequences

CONSTANTS
    SlotCount,      \* M61_AUDIO_EPOCH_SLOT_COUNT
    EpochFrames,    \* M61_AUDIO_EPOCH_USB_FRAMES
    PacketSizes,    \* frames of a USB packet
    MaxGeneration,  \* bound: the last generation a reset may open
    MaxEpochs       \* bound: no packet is taken after this many epochs or drops

ASSUME SlotCountAssumption == SlotCount \in Nat \ {0}
ASSUME EpochFramesAssumption == EpochFrames \in Nat \ {0}
ASSUME PacketSizesAssumption == PacketSizes \subseteq 1 .. EpochFrames
ASSUME BoundsAssumption == MaxGeneration \in Nat /\ MaxEpochs \in Nat

VARIABLES
    state,        \* slot -> m61_audio_epoch_state_t
    slotGen,      \* slot -> generation
    slotEpoch,    \* slot -> epoch
    slotSpeaker,  \* slot -> speaker_enabled
    pcm,          \* slot -> the first pcm_frames frames (speaker and haptics)
    opus,         \* slot -> the frames speaker_opus was encoded from
    generation,   \* stats.generation, equal to audio_generation of the gadget
    nextEpoch,    \* next_epoch
    fillingSlot,  \* filling_slot
    started,      \* stats.epochs_started
    emitted,      \* stats.epochs_emitted
    dropped,      \* stats.epochs_dropped
    stale,        \* stats.epochs_stale
    armed,        \* the packet the USB DMA is receiving, tagged when armed
    enabled,      \* audio_speaker_runtime_enabled
    muted,        \* audio_speaker_mute
    \* audio_ingress_task inside m61_audio_epoch_ingest_usb: where it is, the
    \* packet's generation and flag, the number of its next frame, the frames
    \* left, the slot being filled and the frames already in it
    ingPc, ingGen, ingSpeaker, ingNext, ingLeft, ingSlot, ingAt,
    \* audio_codec_task from its job to its completion: where it is, the job's
    \* generation, epoch and slot, whether opus_encode succeeded, and what it
    \* encoded
    encPc, encGen, encEpoch, encSlot, encOk, encData,
    \* bridge task inside m61_audio_epoch_take_adjacent_pair, or inside
    \* m61_usb_gamepad_set_audio_speaker_enabled ("apply"): where it is, the
    \* two slots, and the pair being built
    rdPc, rdFirst, rdSecond, rdGen, rdEpoch, rdSpeaker, rdHaptics, rdOpus,
    out           \* the last pair returned (history)

slotVars == <<state, slotGen, slotEpoch, slotSpeaker>>
dataVars == <<pcm, opus>>
storeVars == <<generation, nextEpoch, fillingSlot>>
stats == <<started, emitted, dropped, stale>>
usbVars == <<armed, enabled, muted>>
ing == <<ingPc, ingGen, ingSpeaker, ingNext, ingLeft, ingSlot, ingAt>>
enc == <<encPc, encGen, encEpoch, encSlot, encOk, encData>>
rd == <<rdPc, rdFirst, rdSecond, rdGen, rdEpoch, rdSpeaker, rdHaptics, rdOpus>>
vars == <<slotVars, dataVars, storeVars, stats, usbVars, ing, enc, rd, out>>

-----------------------------------------------------------------------------
Slots == 0 .. SlotCount - 1
NoSlot == -1

SlotStates == {"FREE", "FILLING", "READY_ENCODE", "ENCODING", "COMPLETE",
               "READING", "CANCELLED_ENCODING", "CANCELLED_READING"}

(* A frame is identified by the generation it was captured under and its   *)
(* number in that generation's stream.                                     *)
Frames == Nat \X Nat

NoPacket == [gen |-> 0, speaker |-> FALSE]
Packets == [gen : Nat, speaker : BOOLEAN]

PairData == Seq(Frames) \X Seq(Frames)
Pairs == [gen : Nat, epoch : Nat, speaker : BOOLEAN, haptics : PairData,
          opus : PairData]

NoData == << <<>>, <<>> >>
NoPair == [gen |-> 0, epoch |-> 0, speaker |-> FALSE, haptics |-> NoData,
           opus |-> NoData]

FaultEvictsReading(s) == state[s] \in {"READY_ENCODE", "COMPLETE", "READING"}
Evictable(s) == state[s] \in {"READY_ENCODE", "COMPLETE"}

(* The slot allocate_slot_locked picks: the first free one, else the       *)
(* oldest epoch nobody works on.                                           *)
Allocatable(s) ==
    IF \E t \in Slots : state[t] = "FREE"
    THEN state[s] = "FREE" /\ \A t \in 0 .. s - 1 : state[t] # "FREE"
    ELSE Evictable(s) /\ \A t \in Slots :
            Evictable(t) => slotEpoch[s] < slotEpoch[t] \/
                            (slotEpoch[s] = slotEpoch[t] /\ s <= t)

(* s is the oldest slot of the current generation in state st.             *)
FaultOldestFromZero(s, st) ==
    state[s] = st /\ slotGen[s] = generation /\ slotEpoch[s] < 0
OldestIn(s, st) ==
    LET mine(t) == state[t] = st /\ slotGen[t] = generation
    IN  mine(s) /\ \A t \in Slots : mine(t) => slotEpoch[s] <= slotEpoch[t]

Matches(s, g, e) == state[s] # "FREE" /\ slotGen[s] = g /\ slotEpoch[s] = e

(* find_slot_locked                                                        *)
FaultFindsCurrentOnly(g, e) ==
    IF g = generation /\ \E s \in Slots : Matches(s, g, e)
    THEN CHOOSE s \in Slots : Matches(s, g, e)
    ELSE NoSlot

FindSlot(g, e) ==
    IF \E s \in Slots : Matches(s, g, e)
    THEN CHOOSE s \in Slots :
            Matches(s, g, e) /\ \A t \in 0 .. s - 1 : ~Matches(t, g, e)
    ELSE NoSlot

CountDropped == dropped' = dropped + 1 /\ UNCHANGED <<started, emitted, stale>>
CountStale(n) == stale' = stale + n /\ UNCHANGED <<started, emitted, dropped>>
CountEmitted == emitted' = emitted + 2 /\ UNCHANGED <<started, dropped, stale>>

Init ==
    /\ state = [s \in Slots |-> "FREE"]
    /\ slotGen = [s \in Slots |-> 0]
    /\ slotEpoch = [s \in Slots |-> 0]
    /\ slotSpeaker = [s \in Slots |-> FALSE]
    /\ pcm = [s \in Slots |-> <<>>]
    /\ opus = [s \in Slots |-> <<>>]
    /\ generation = 1
    /\ nextEpoch = 0
    /\ fillingSlot = NoSlot
    /\ started = 0 /\ emitted = 0 /\ dropped = 0 /\ stale = 0
    /\ armed = NoPacket
    /\ enabled = TRUE /\ muted = FALSE
    /\ ingPc = "idle" /\ ingGen = 0 /\ ingSpeaker = FALSE /\ ingNext = 0
    /\ ingLeft = 0 /\ ingSlot = NoSlot /\ ingAt = 0
    /\ encPc = "idle" /\ encGen = 0 /\ encEpoch = 0 /\ encSlot = NoSlot
    /\ encOk = FALSE /\ encData = <<>>
    /\ rdPc = "idle" /\ rdFirst = NoSlot /\ rdSecond = NoSlot /\ rdGen = 0
    /\ rdEpoch = 0 /\ rdSpeaker = FALSE /\ rdHaptics = NoData /\ rdOpus = NoData
    /\ out = NoPair

-----------------------------------------------------------------------------
(* m61_audio_epoch_ingest_usb, called by audio_ingress_task                *)

(* Leaving the packet: the frames not copied are lost.                     *)
LeavePacket ==
    /\ ingPc' = "idle"
    /\ ingNext' = ingNext + ingLeft
    /\ ingLeft' = 0
    /\ UNCHANGED <<ingGen, ingSpeaker, ingSlot, ingAt>>

(* What arm_audio_out writes on the packet it hands to the DMA.            *)
NextPacket == [gen |-> generation, speaker |-> enabled /\ ~muted]

(* A packet completes, the DMA is armed again with what the flags say now, *)
(* and the ingress task enters the store with the finished packet.         *)
IngestBegin(len) ==
    /\ ingPc = "idle"
    /\ armed # NoPacket
    /\ started < MaxEpochs /\ dropped < MaxEpochs
    /\ ingPc' = "claim"
    /\ ingGen' = armed.gen
    /\ ingSpeaker' = armed.speaker
    /\ ingNext' = IF armed.gen = ingGen THEN ingNext ELSE 0
    /\ ingLeft' = len
    /\ armed' = NextPacket
    /\ UNCHANGED <<slotVars, dataVars, storeVars, stats, enabled, muted, ingSlot,
                   ingAt, enc, rd, out>>

(* The packet was captured before a reset: ignored.                        *)
IngestStale ==
    /\ ingPc = "claim"
    /\ ingGen # generation
    /\ LeavePacket
    /\ UNCHANGED <<slotVars, dataVars, storeVars, stats, usbVars, enc, rd, out>>

(* allocate_slot_locked finds a slot; an epoch that is overwritten counts  *)
(* as dropped.                                                             *)
IngestAllocate(s) ==
    /\ ingPc = "claim"
    /\ ingGen = generation
    /\ fillingSlot = NoSlot
    /\ Allocatable(s)
    /\ state' = [state EXCEPT ![s] = "FILLING"]
    /\ slotGen' = [slotGen EXCEPT ![s] = generation]
    /\ slotEpoch' = [slotEpoch EXCEPT ![s] = nextEpoch]
    /\ slotSpeaker' = [slotSpeaker EXCEPT ![s] = ingSpeaker]
    /\ pcm' = [pcm EXCEPT ![s] = <<>>]
    /\ nextEpoch' = nextEpoch + 1
    /\ fillingSlot' = s
    /\ started' = started + 1
    /\ dropped' = dropped + (IF Evictable(s) THEN 1 ELSE 0)
    /\ ingPc' = "copy" /\ ingSlot' = s /\ ingAt' = 0
    /\ UNCHANGED <<opus, generation, emitted, stale, usbVars, ingGen, ingSpeaker,
                   ingNext, ingLeft, enc, rd, out>>

(* allocate_slot_locked finds none: the rest of the packet is lost.        *)
IngestRefused ==
    /\ ingPc = "claim"
    /\ ingGen = generation
    /\ fillingSlot = NoSlot
    /\ \A s \in Slots : ~Allocatable(s)
    /\ CountDropped
    /\ LeavePacket
    /\ UNCHANGED <<slotVars, dataVars, storeVars, usbVars, enc, rd, out>>

(* The epoch being filled goes on; a filling slot in another state is let  *)
(* go of and the claim is tried again.                                     *)
IngestContinue ==
    /\ ingPc = "claim"
    /\ ingGen = generation
    /\ fillingSlot # NoSlot
    /\ IF state[fillingSlot] = "FILLING"
       THEN /\ ingPc' = "copy"
            /\ ingSlot' = fillingSlot
            /\ ingAt' = Len(pcm[fillingSlot])
            /\ UNCHANGED fillingSlot
       ELSE /\ fillingSlot' = NoSlot
            /\ UNCHANGED <<ingPc, ingSlot, ingAt>>
    /\ UNCHANGED <<slotVars, dataVars, generation, nextEpoch, stats, usbVars,
                   ingGen, ingSpeaker, ingNext, ingLeft, enc, rd, out>>

FaultChunkUnclamped == ingLeft
Chunk == IF ingLeft > EpochFrames - ingAt THEN EpochFrames - ingAt ELSE ingLeft

FaultNewFramesFromTail ==
    [i \in 1 .. Chunk |-> <<ingGen, ingNext + ingLeft - Chunk + i - 1>>]
NewFrames == [i \in 1 .. Chunk |-> <<ingGen, ingNext + i - 1>>]

(* The unlocked copy of one chunk and of the frame count.                  *)
IngestCopy ==
    /\ ingPc = "copy"
    /\ pcm' = [pcm EXCEPT ![ingSlot] = SubSeq(@, 1, ingAt) \o NewFrames]
    /\ ingPc' = "commit"
    /\ ingNext' = ingNext + Chunk
    /\ ingLeft' = ingLeft - Chunk
    /\ ingAt' = ingAt + Chunk
    /\ UNCHANGED <<slotVars, opus, storeVars, stats, usbVars, ingGen, ingSpeaker,
                   ingSlot, enc, rd, out>>

StillFilling ==
    /\ ingGen = generation
    /\ fillingSlot = ingSlot
    /\ slotGen[ingSlot] = ingGen
    /\ state[ingSlot] = "FILLING"

(* The lock is taken again after the copy and a reset came in between.     *)
IngestAbandon ==
    /\ ingPc = "commit"
    /\ ~StillFilling
    /\ LeavePacket
    /\ UNCHANGED <<slotVars, dataVars, storeVars, stats, usbVars, enc, rd, out>>

(* No reset in between: a full epoch is handed to the encoder, or straight *)
(* to the reader when its speaker is off.                                  *)
IngestCommit ==
    /\ ingPc = "commit"
    /\ StillFilling
    /\ IF ingAt = EpochFrames
       THEN /\ state' = [state EXCEPT ![ingSlot] =
                   IF slotSpeaker[ingSlot] THEN "READY_ENCODE" ELSE "COMPLETE"]
            /\ fillingSlot' = NoSlot
       ELSE UNCHANGED <<state, fillingSlot>>
    /\ ingPc' = IF ingLeft = 0 THEN "idle" ELSE "claim"
    /\ UNCHANGED <<slotGen, slotEpoch, slotSpeaker, dataVars, generation,
                   nextEpoch, stats, usbVars, ingGen, ingSpeaker, ingNext,
                   ingLeft, ingSlot, ingAt, enc, rd, out>>

Ingest ==
    \/ IngestStale \/ IngestRefused \/ IngestContinue
    \/ IngestCopy \/ IngestAbandon \/ IngestCommit
    \/ \E s \in Slots : IngestAllocate(s)

-----------------------------------------------------------------------------
(* audio_codec_task                                                        *)

FreeSlot(s) == state' = [state EXCEPT ![s] = "FREE"]

(* m61_audio_epoch_take_encode_job                                         *)
EncodeTake(s) ==
    /\ encPc = "idle"
    /\ OldestIn(s, "READY_ENCODE")
    /\ state' = [state EXCEPT ![s] = "ENCODING"]
    /\ encPc' = "encode"
    /\ encGen' = slotGen[s]
    /\ encEpoch' = slotEpoch[s]
    /\ encSlot' = s
    /\ UNCHANGED <<slotGen, slotEpoch, slotSpeaker, dataVars, storeVars, stats,
                   usbVars, ing, encOk, encData, rd, out>>

(* Resampling reads the slot through the job's pointer; the encoder may    *)
(* fail.                                                                   *)
EncodeRun ==
    /\ encPc = "encode"
    /\ encPc' = "submit"
    /\ encOk' \in BOOLEAN
    /\ encData' = pcm[encSlot]
    /\ UNCHANGED <<slotVars, dataVars, storeVars, stats, usbVars, ing, encGen,
                   encEpoch, encSlot, rd, out>>

(* First locked section of m61_audio_epoch_complete_encode: the slot of the*)
(* job is freed when a reset cancelled it or the encoder failed.           *)
EncodeSubmit ==
    /\ encPc = "submit"
    /\ LET s == FindSlot(encGen, encEpoch)
           cancelled == state[s] = "CANCELLED_ENCODING" \/ encGen # generation
       IN  IF s = NoSlot
           THEN encPc' = "idle" /\ UNCHANGED <<state, stats, encSlot>>
           ELSE IF cancelled
           THEN FreeSlot(s) /\ CountStale(1) /\ encPc' = "idle" /\ UNCHANGED encSlot
           ELSE IF state[s] # "ENCODING"
           THEN encPc' = "idle" /\ UNCHANGED <<state, stats, encSlot>>
           ELSE IF ~encOk
           THEN FreeSlot(s) /\ CountDropped /\ encPc' = "idle" /\ UNCHANGED encSlot
           ELSE encPc' = "copy" /\ encSlot' = s /\ UNCHANGED <<state, stats>>
    /\ UNCHANGED <<slotGen, slotEpoch, slotSpeaker, dataVars, storeVars,
                   usbVars, ing, encGen, encEpoch, encOk, encData, rd, out>>

(* The unlocked memcpy of the packet into the slot.                        *)
EncodeCopy ==
    /\ encPc = "copy"
    /\ opus' = [opus EXCEPT ![encSlot] = encData]
    /\ encPc' = "finish"
    /\ UNCHANGED <<slotVars, pcm, storeVars, stats, usbVars, ing, encGen,
                   encEpoch, encSlot, encOk, encData, rd, out>>

(* Second locked section: completed, or freed when a reset came in between *)
EncodeFinish ==
    /\ encPc = "finish"
    /\ LET s == encSlot IN
       IF state[s] = "CANCELLED_ENCODING" \/ encGen # generation
       THEN FreeSlot(s) /\ CountStale(1)
       ELSE IF state[s] # "ENCODING" \/ ~Matches(s, encGen, encEpoch)
       THEN UNCHANGED <<state, stats>>
       ELSE state' = [state EXCEPT ![s] = "COMPLETE"] /\ UNCHANGED stats
    /\ encPc' = "idle"
    /\ UNCHANGED <<slotGen, slotEpoch, slotSpeaker, dataVars, storeVars,
                   usbVars, ing, encGen, encEpoch, encSlot, encOk, encData,
                   rd, out>>

Codec ==
    \/ EncodeRun \/ EncodeSubmit \/ EncodeCopy \/ EncodeFinish
    \/ \E s \in Slots : EncodeTake(s)

-----------------------------------------------------------------------------
(* m61_audio_epoch_take_adjacent_pair, called by the bridge task           *)

FaultPartnerAnyNewer(f, s) ==
    state[s] = "COMPLETE" /\ slotGen[s] = generation /\ slotEpoch[s] > slotEpoch[f]
Partner(f, s) ==
    /\ state[s] = "COMPLETE"
    /\ slotGen[s] = generation
    /\ slotEpoch[s] = slotEpoch[f] + 1

FaultDropUncounted(f) ==
    /\ FreeSlot(f)
    /\ UNCHANGED <<slotGen, slotEpoch, slotSpeaker, dataVars, storeVars, stats,
                   usbVars, ing, enc, rd, out>>
DropFirst(f) ==
    /\ FreeSlot(f)
    /\ CountDropped
    /\ UNCHANGED <<slotGen, slotEpoch, slotSpeaker, dataVars, storeVars,
                   usbVars, ing, enc, rd, out>>

(* The oldest epoch waits for a successor that will not come: something    *)
(* newer is complete already.                                              *)
FaultGapLooksBackwards(f) ==
    /\ rdPc = "idle"
    /\ OldestIn(f, "COMPLETE")
    /\ \A s \in Slots : ~Partner(f, s)
    /\ \E s \in Slots : state[s] = "COMPLETE" /\ slotEpoch[s] < slotEpoch[f]
    /\ DropFirst(f)

PairGap(f) ==
    /\ rdPc = "idle"
    /\ OldestIn(f, "COMPLETE")
    /\ \A s \in Slots : ~Partner(f, s)
    /\ \E s \in Slots : state[s] = "COMPLETE" /\ slotEpoch[s] > slotEpoch[f]
    /\ DropFirst(f)

(* Only one of the two carries speaker audio.                              *)
PairMismatch(f, s) ==
    /\ rdPc = "idle"
    /\ OldestIn(f, "COMPLETE")
    /\ Partner(f, s)
    /\ slotSpeaker[f] # slotSpeaker[s]
    /\ DropFirst(f)

PairClaim(f, s) ==
    /\ rdPc = "idle"
    /\ OldestIn(f, "COMPLETE")
    /\ Partner(f, s)
    /\ slotSpeaker[f] = slotSpeaker[s]
    /\ state' = [state EXCEPT ![f] = "READING", ![s] = "READING"]
    /\ rdPc' = "copy" /\ rdFirst' = f /\ rdSecond' = s
    /\ rdGen' = slotGen[f]
    /\ rdEpoch' = slotEpoch[f]
    /\ rdSpeaker' = slotSpeaker[f]
    /\ UNCHANGED <<slotGen, slotEpoch, slotSpeaker, dataVars, storeVars, stats,
                   usbVars, ing, enc, rdHaptics, rdOpus, out>>

(* The unlocked copies; Opus is zeroed when the speaker is off.            *)
PairCopy ==
    /\ rdPc = "copy"
    /\ rdPc' = "finish"
    /\ rdHaptics' = <<pcm[rdFirst], pcm[rdSecond]>>
    /\ rdOpus' = IF rdSpeaker THEN <<opus[rdFirst], opus[rdSecond]>> ELSE NoData
    /\ UNCHANGED <<slotVars, dataVars, storeVars, stats, usbVars, ing, enc,
                   rdFirst, rdSecond, rdGen, rdEpoch, rdSpeaker, out>>

(* The lock is taken again: the pair is returned unless a reset cancelled  *)
(* it, and both slots become free.                                         *)
PairBuilt == [gen |-> rdGen, epoch |-> rdEpoch, speaker |-> rdSpeaker,
              haptics |-> rdHaptics, opus |-> rdOpus]

PairFinish ==
    /\ rdPc = "finish"
    /\ LET both == [state EXCEPT ![rdFirst] = "FREE", ![rdSecond] = "FREE"]
           cancelled == \/ "CANCELLED_READING" \in {state[rdFirst], state[rdSecond]}
                        \/ rdGen # generation
           kept == /\ state[rdFirst] = "READING" /\ Matches(rdFirst, rdGen, rdEpoch)
                   /\ state[rdSecond] = "READING"
                   /\ Matches(rdSecond, rdGen, rdEpoch + 1)
       IN  IF cancelled
           THEN state' = both /\ CountStale(2) /\ UNCHANGED out
           ELSE IF ~kept
           THEN UNCHANGED <<state, stats, out>>
           ELSE state' = both /\ CountEmitted /\ out' = PairBuilt
    /\ rdPc' = "idle"
    /\ UNCHANGED <<slotGen, slotEpoch, slotSpeaker, dataVars, storeVars,
                   usbVars, ing, enc, rdFirst, rdSecond, rdGen, rdEpoch,
                   rdSpeaker, rdHaptics, rdOpus>>

Reader ==
    \/ PairCopy \/ PairFinish
    \/ \E f \in Slots : PairGap(f)
    \/ \E f, s \in Slots : PairMismatch(f, s) \/ PairClaim(f, s)

-----------------------------------------------------------------------------
(* reset_audio_pipeline and its callers                                    *)

(* A reset the bridge task still owes keeps its place below the bound.     *)
MayReset == generation + (IF rdPc = "apply" THEN 1 ELSE 0) < MaxGeneration

(* m61_audio_epoch_reset under the gadget's lock, with the next generation *)
ResetStore ==
    /\ generation' = generation + 1
    /\ nextEpoch' = 0
    /\ fillingSlot' = NoSlot
    /\ state' = [s \in Slots |->
            CASE state[s] \in {"ENCODING", "CANCELLED_ENCODING"} -> "CANCELLED_ENCODING"
              [] state[s] \in {"READING", "CANCELLED_READING"} -> "CANCELLED_READING"
              [] OTHER -> "FREE"]
    /\ CountStale(Cardinality({s \in Slots :
                state[s] \in {"FILLING", "READY_ENCODE", "COMPLETE"}}))
    /\ UNCHANGED <<slotGen, slotEpoch, slotSpeaker, dataVars, ing, enc, out>>

(* Route, microphone mode or a sequence gap: the armed transfer goes on.   *)
ResetKeepDma == MayReset /\ ResetStore /\ UNCHANGED <<usbVars, rd>>

(* Interface opened or closed, suspend, bus reset, detach: the armed       *)
(* transfer is forgotten.                                                  *)
ResetCancelDma ==
    /\ MayReset
    /\ ResetStore
    /\ armed' = NoPacket
    /\ UNCHANGED <<enabled, muted, rd>>

(* usbd_audio_set_mute: muting resets, unmuting only changes the flag.     *)
FaultMuteWithoutReset ==
    /\ ~muted /\ MayReset
    /\ muted' = TRUE
    /\ UNCHANGED <<slotVars, dataVars, storeVars, stats, armed, enabled, ing, enc,
                   rd, out>>

MuteSpeaker ==
    /\ MayReset
    /\ muted' = TRUE
    /\ ResetStore
    /\ UNCHANGED <<armed, enabled, rd>>

UnmuteSpeaker ==
    /\ muted
    /\ muted' = FALSE
    /\ UNCHANGED <<slotVars, dataVars, storeVars, stats, armed, enabled, ing, enc,
                   rd, out>>

(* m61_usb_gamepad_set_audio_speaker_enabled, called by the bridge task    *)
(* for a web command: the flag first, outside the lock, then the reset.    *)
ApplyFlag ==
    /\ rdPc = "idle" /\ MayReset
    /\ enabled' = ~enabled
    /\ rdPc' = "apply"
    /\ UNCHANGED <<slotVars, dataVars, storeVars, stats, armed, muted, ing, enc,
                   rdFirst, rdSecond, rdGen, rdEpoch, rdSpeaker, rdHaptics,
                   rdOpus, out>>

ApplyReset ==
    /\ rdPc = "apply"
    /\ ResetStore
    /\ rdPc' = "idle"
    /\ UNCHANGED <<usbVars, rdFirst, rdSecond, rdGen, rdEpoch, rdSpeaker,
                   rdHaptics, rdOpus>>

(* arm_audio_out with no transfer under way                                *)
Arm ==
    /\ armed = NoPacket
    /\ armed' = NextPacket
    /\ UNCHANGED <<slotVars, dataVars, storeVars, stats, enabled, muted, ing, enc,
                   rd, out>>

Usb ==
    \/ Arm \/ ResetKeepDma \/ ResetCancelDma \/ MuteSpeaker \/ UnmuteSpeaker
    \/ ApplyFlag
    \/ \E len \in PacketSizes : IngestBegin(len)

Next == Ingest \/ Codec \/ Reader \/ ApplyReset \/ Usb

Spec == Init /\ [][Next]_vars

(* The three tasks are scheduled forever; nothing obliges the host to send *)
(* audio or anybody to reset.                                              *)
Fairness == WF_vars(Ingest) /\ WF_vars(Codec) /\ WF_vars(Reader \/ ApplyReset)

FairSpec == Spec /\ Fairness

-----------------------------------------------------------------------------
(* Correctness                                                             *)

SlotsTypeOK ==
    /\ state \in [Slots -> SlotStates]
    /\ slotGen \in [Slots -> Nat]
    /\ slotEpoch \in [Slots -> Nat]
    /\ slotSpeaker \in [Slots -> BOOLEAN]

DataTypeOK ==
    /\ pcm \in [Slots -> Seq(Frames)]
    /\ opus \in [Slots -> Seq(Frames)]
    /\ encData \in Seq(Frames)
    /\ rdHaptics \in PairData
    /\ rdOpus \in PairData
    /\ out \in Pairs

StoreTypeOK ==
    /\ generation \in Nat
    /\ nextEpoch \in Nat
    /\ fillingSlot \in Slots \cup {NoSlot}
    /\ started \in Nat /\ emitted \in Nat /\ dropped \in Nat /\ stale \in Nat
    /\ armed \in Packets
    /\ enabled \in BOOLEAN /\ muted \in BOOLEAN

IngestTypeOK ==
    /\ ingPc \in {"idle", "claim", "copy", "commit"}
    /\ ingGen \in Nat /\ ingSpeaker \in BOOLEAN /\ ingNext \in Nat /\ ingLeft \in Nat
    /\ ingSlot \in Slots \cup {NoSlot} /\ ingAt \in 0 .. EpochFrames

CodecTypeOK ==
    /\ encPc \in {"idle", "encode", "submit", "copy", "finish"}
    /\ encGen \in Nat /\ encEpoch \in Nat /\ encSlot \in Slots \cup {NoSlot}
    /\ encOk \in BOOLEAN

ReaderTypeOK ==
    /\ rdPc \in {"idle", "copy", "finish", "apply"}
    /\ rdFirst \in Slots \cup {NoSlot} /\ rdSecond \in Slots \cup {NoSlot}
    /\ rdGen \in Nat /\ rdEpoch \in Nat /\ rdSpeaker \in BOOLEAN

TypeOK ==
    /\ SlotsTypeOK /\ DataTypeOK /\ StoreTypeOK
    /\ IngestTypeOK /\ CodecTypeOK /\ ReaderTypeOK

-----------------------------------------------------------------------------
(* The inductive invariant: who owns which slot.                           *)

Live == {"FILLING", "READY_ENCODE", "ENCODING", "COMPLETE", "READING"}
Cancelled == {"CANCELLED_ENCODING", "CANCELLED_READING"}

(* A live slot belongs to the current generation, a cancelled one to an    *)
(* earlier one.                                                            *)
GenerationInv ==
    /\ armed.gen <= generation
    /\ ingGen <= generation
    /\ \A s \in Slots :
          /\ state[s] \in Live => slotGen[s] = generation /\ slotEpoch[s] < nextEpoch
          /\ state[s] \in Cancelled => slotGen[s] < generation

(* Generation and epoch name one slot.                                     *)
UniqueInv ==
    \A s, t \in Slots :
        state[s] # "FREE" /\ state[t] # "FREE" /\ slotGen[s] = slotGen[t]
            /\ slotEpoch[s] = slotEpoch[t] => s = t

(* The slot being filled is the one filling_slot names; a writer overtaken *)
(* by a reset writes into a slot nobody else can claim.                    *)
FillingInv ==
    /\ \A s \in Slots : state[s] = "FILLING" <=> fillingSlot = s
    /\ \A s \in Slots : Len(pcm[s]) <= EpochFrames
    /\ ingPc \in {"copy", "commit"} =>
          /\ ingSlot \in Slots
          /\ ingAt = Len(pcm[ingSlot])
          /\ IF ingGen = generation
             THEN fillingSlot = ingSlot
             ELSE fillingSlot = NoSlot /\ state[ingSlot] = "FREE"

(* The codec's job pins its slot from the claim to the completion.         *)
EncodingInv ==
    /\ encPc # "idle" =>
          /\ encSlot \in Slots
          /\ slotGen[encSlot] = encGen /\ slotEpoch[encSlot] = encEpoch
          /\ state[encSlot] = IF encGen = generation
                               THEN "ENCODING" ELSE "CANCELLED_ENCODING"
    /\ \A s \in Slots : state[s] \in {"ENCODING", "CANCELLED_ENCODING"} =>
          encPc # "idle" /\ encSlot = s

(* The reader's pair pins two slots.                                       *)
ReadingInv ==
    /\ rdPc \in {"copy", "finish"} =>
          /\ rdFirst \in Slots /\ rdSecond \in Slots /\ rdFirst # rdSecond
          /\ slotGen[rdFirst] = rdGen /\ slotEpoch[rdFirst] = rdEpoch
          /\ slotGen[rdSecond] = rdGen
          /\ slotEpoch[rdSecond] = rdEpoch + 1
          /\ \A s \in {rdFirst, rdSecond} :
                state[s] = IF rdGen = generation
                           THEN "READING" ELSE "CANCELLED_READING"
    /\ \A s \in Slots : state[s] \in {"READING", "CANCELLED_READING"} =>
          rdPc \in {"copy", "finish"} /\ s \in {rdFirst, rdSecond}

IInv == TypeOK /\ GenerationInv /\ UniqueInv /\ FillingInv /\ EncodingInv /\ ReadingInv

-----------------------------------------------------------------------------
(* What each task touches outside the lock.                                *)
PcmWritten == IF ingPc \in {"copy", "commit"} THEN {ingSlot} ELSE {}
PcmRead == (IF encPc = "encode" THEN {encSlot} ELSE {}) \cup
           (IF rdPc = "copy" THEN {rdFirst, rdSecond} ELSE {})
OpusWritten == IF encPc = "copy" THEN {encSlot} ELSE {}
OpusRead == IF rdPc = "copy" THEN {rdFirst, rdSecond} ELSE {}

(* While one task copies into a slot outside the lock no other task reads  *)
(* the same buffer, however the resets fall.                               *)
NoDataRace ==
    /\ PcmWritten \cap PcmRead = {}
    /\ OpusWritten \cap OpusRead = {}
    /\ PcmWritten \cap OpusWritten = {}

(* The firmware's slots suffice: one encode job and one pair can pin three *)
(* slots, cancelled or not, so with a fourth the ingress task always finds *)
(* a slot to fill or an epoch to overwrite and never loses a packet here.  *)
AlwaysRoom ==
    SlotCount >= 4 /\ fillingSlot = NoSlot => \E s \in Slots : Allocatable(s)

EpochData(g, e) == [i \in 1 .. EpochFrames |-> <<g, e * EpochFrames + i - 1>>]

(* A pair handed to Bluetooth holds exactly the 2 * EpochFrames consecutive*)
(* frames its generation and epoch numbers stand for, and its Opus packets *)
(* were encoded from those same frames.                                    *)
PairCoherent ==
    SlotCount >= 4 /\ out # NoPair =>
        LET data == <<EpochData(out.gen, out.epoch), EpochData(out.gen, out.epoch + 1)>>
        IN  out.haptics = data /\ (out.speaker => out.opus = data)

Busy == {s \in Slots : state[s] # "FREE"}

(* Every epoch that was started is in a slot or counted exactly once as    *)
(* emitted, dropped or stale: no epoch leaks and none is counted twice.    *)
Accounting ==
    SlotCount >= 4 =>
        started = emitted + dropped + stale + Cardinality(Busy)

(* Pairs leave in stream order: never a pair of an earlier generation, and *)
(* within a generation never one that overlaps or precedes the last.       *)
EmissionOrder ==
    [][out' # out => \/ out'.gen > out.gen
                     \/ out'.gen = out.gen /\ out'.epoch >= out.epoch + 2]_vars

(* A slot cancelled under a task that was working on it is freed again.    *)
CancelledFreed ==
    \A s \in Slots :
        state[s] \in {"CANCELLED_ENCODING", "CANCELLED_READING"} ~> state[s] = "FREE"

(* An epoch waiting for the encoder does not wait forever.                 *)
ReadyServed ==
    \A s \in Slots : state[s] = "READY_ENCODE" ~> state[s] # "READY_ENCODE"

(* Neither do two complete epochs next to each other, nor one whose        *)
(* successor is already missing.                                           *)
PairServed ==
    \A f, s \in Slots :
        (state[f] = "COMPLETE" /\ state[s] = "COMPLETE" /\ f < s)
            ~> (state[f] # "COMPLETE" \/ state[s] # "COMPLETE")

(* What three tasks share with a bounded store gets through it: whatever a *)
(* reset cancelled comes back, and neither an epoch nor a pair is passed   *)
(* over for ever (m61_audio_epoch.c:352, 441).                             *)
NothingWaits == CancelledFreed /\ ReadyServed /\ PairServed
=============================================================================
