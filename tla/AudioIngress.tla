---------------------------- MODULE AudioIngress ----------------------------
(***************************************************************************)
(* The ring of buffers between the audio OUT endpoint and the epoch store. *)
(* One slot at a time belongs to the hardware (active); the callback marks *)
(* it READY and arms the next free one; the ingress task takes the next    *)
(* ready slot, hands it to the epoch store, frees it and arms the endpoint *)
(* if the callback could not.  A gap in the packet numbers makes the task  *)
(* reset the pipeline.  Resets of the pipeline come from everywhere.       *)
(*                                                                         *)
(* The task's look at the session flags, its choice of a slot and its call *)
(* of the stack are separate steps (m61_usb_gamepad.c:1996).               *)
(***************************************************************************)
EXTENDS UsbSession, FiniteSets

CONSTANTS
    IngressDepth,   \* AUDIO_INGRESS_DEPTH
    MaxPackets,     \* bound: packets of a behaviour
    MaxGeneration   \* bound: no event or setting resets the pipeline beyond

ASSUME IngressAssumption == IngressDepth \in Nat \ {0}

Slots == 0 .. IngressDepth - 1
NoSlot == IngressDepth

VARIABLES
    ring,        \* audio_ingress: state, generation and number of each slot
    producer,    \* audio_ingress_producer_cursor
    consumer,    \* audio_ingress_consumer_cursor
    active,      \* audio_ingress_active_slot
    armed,       \* audio_out_armed
    count,       \* audio_ingress_count
    generation,  \* audio_generation
    sequence,    \* audio_ingress_sequence
    reader,      \* the ingress task: place, slot in hand, packet expected
    hardware,    \* slot whose buffer the endpoint fills (NoSlot: none)
    accepted,    \* last packet the epoch store took (history)
    deaf,        \* a reset freed every slot and nothing was armed (history)
    overtaken    \* a packet of this generation came ready before an older one (history)

ringVars == <<ring, producer, consumer, active, armed, count, generation,
              sequence, reader, hardware, accepted, deaf, overtaken>>

After(s) == (s + 1) % IngressDepth
From(cursor, n) == (cursor + n) % IngressDepth
Ahead(cursor, s) == (s + IngressDepth - cursor) % IngressDepth
InState(st) == {s \in Slots : ring[s].state \in st}

IngressInit ==
    /\ ring = [s \in Slots |-> [state |-> "FREE", gen |-> 0, seq |-> 0]]
    /\ producer = 0 /\ consumer = 0 /\ active = NoSlot /\ armed = FALSE
    /\ count = 0 /\ generation = 0 /\ sequence = 1
    /\ reader = [pc |-> "IDLE", slot |-> NoSlot, known |-> FALSE,
                 gen |-> 0, expected |-> 0]
    /\ hardware = NoSlot /\ accepted = [gen |-> 0, seq |-> 0]
    /\ deaf = FALSE /\ overtaken = FALSE

-----------------------------------------------------------------------------
(* reset_audio_pipeline                                                    *)

FaultFreed(cancel) == {"READY", "READING"} \cup (IF cancel THEN {"DMA_ACTIVE"} ELSE {})
Freed(cancel) == {"READY"} \cup (IF cancel THEN {"DMA_ACTIVE"} ELSE {})
FaultNewGeneration == generation
NewGeneration == generation + 1
RingReset(cancel) ==
    /\ generation' = NewGeneration
    /\ ring' = [s \in Slots |-> IF ring[s].state \in Freed(cancel)
                                THEN [ring[s] EXCEPT !.state = "FREE"] ELSE ring[s]]
    /\ count' = Cardinality(InState({"READING"}))
    /\ IF cancel THEN active' = NoSlot /\ armed' = FALSE
       ELSE UNCHANGED <<active, armed>>
    /\ deaf' = (~cancel /\ ~armed /\ reader.pc \in {"IDLE", "GAP"})
    /\ overtaken' = FALSE
    /\ UNCHANGED <<producer, consumer, sequence, accepted>>

MayReset == generation < MaxGeneration

(* A session event or a closed stream takes the endpoint from the hardware;*)
(* a suspended bus leaves it there.  Generations are not counted where the *)
(* ring is not used.                                                       *)
Cancelled(left) ==
    IF "OUT" \notin used THEN UNCHANGED ringVars
    ELSE MayReset /\ RingReset(TRUE) /\ hardware' = left /\ UNCHANGED reader
IngressCancelled == Cancelled(NoSlot)
IngressSuspended == Cancelled(hardware)
IngressRestart ==
    IF bus = "OFF" THEN UNCHANGED ringVars ELSE IngressCancelled

(* The host mutes, the headphones change, a setting is applied.            *)
SettingResets ==
    /\ "OUT" \in used /\ MayReset
    /\ RingReset(FALSE) /\ UNCHANGED <<hardware, reader>>

(* m61_usb_gamepad_init zeroes the ring under the task.                    *)
IngressInitAgain ==
    /\ ring' = [s \in Slots |-> [state |-> "FREE", gen |-> 0, seq |-> 0]]
    /\ producer' = 0 /\ consumer' = 0 /\ active' = NoSlot /\ armed' = FALSE
    /\ count' = 0 /\ hardware' = NoSlot /\ deaf' = FALSE
    /\ UNCHANGED <<generation, sequence, reader, accepted, overtaken>>

-----------------------------------------------------------------------------
(* arm_audio_out                                                           *)

(* find_free_audio_ingress_slot_locked, for the ring r and the cursor c.   *)
FreeSlots(r) == {s \in Slots : r[s].state = "FREE"}
NextFree(r, c) ==
    From(c, CHOOSE n \in Slots : /\ From(c, n) \in FreeSlots(r)
                                 /\ \A m \in 0 .. n - 1 : From(c, m) \notin FreeSlots(r))
Armable(r, a) == a = NoSlot /\ FreeSlots(r) # {}
Activated(r, s) == [r EXCEPT ![s].state = "DMA_ACTIVE", ![s].gen = generation']

(* The callback or an event arms: ring r, cursor c, at once.               *)
ArmFrom(r, c) ==
    IF FreeSlots(r) # {}
    THEN LET s == NextFree(r, c) IN
         /\ ring' = Activated(r, s) /\ active' = s /\ armed' = TRUE
         /\ hardware' = s /\ deaf' = FALSE
    ELSE /\ ring' = r /\ active' = NoSlot /\ armed' = FALSE /\ hardware' = NoSlot
         /\ UNCHANGED deaf

(* usbd_audio_open: the generation is new and every DMA slot is free.      *)
IngressOpened ==
    /\ MayReset /\ generation' = generation + 1
    /\ count' = Cardinality(InState({"READING"}))
    /\ ArmFrom([s \in Slots |-> IF ring[s].state \in Freed(TRUE)
                                THEN [ring[s] EXCEPT !.state = "FREE"] ELSE ring[s]],
               producer)
    /\ overtaken' = FALSE
    /\ UNCHANGED <<producer, consumer, sequence, reader, accepted>>

(* The bus is configured or resumed.  Where the stack refuses, because the *)
(* device was started again and has no session, the slot is given back.    *)
IngressArms ==
    IF "OUT" \in open' /\ ready' /\ ~armed /\ active = NoSlot /\ Configured'
    THEN /\ UNCHANGED <<producer, consumer, count, generation, sequence, reader, accepted, overtaken>>
         /\ ArmFrom(ring, producer)
    ELSE UNCHANGED ringVars

(* usbd_audio_out_ep_callback.                                             *)
Received(s, empty) ==
    IF empty THEN [ring EXCEPT ![s].state = "FREE"]
    ELSE [ring EXCEPT ![s] = [@ EXCEPT !.state = "READY", !.seq = sequence]]
Cursor == IF InState({"READING"}) = {} THEN consumer ELSE After(reader.slot)
Overtakes(s) == \E t \in InState({"READY"}) : Ahead(Cursor, s) < Ahead(Cursor, t)
PacketDone(empty) ==
    /\ Streaming("OUT") /\ hardware # NoSlot
    /\ sequence <= MaxPackets
    /\ UNCHANGED generation
    /\ IF active # NoSlot /\ ring[active].state = "DMA_ACTIVE"
       THEN /\ ArmFrom(Received(active, empty),
                       IF empty THEN producer ELSE After(active))
            /\ producer' = IF empty THEN producer ELSE After(active)
            /\ count' = IF empty THEN count ELSE count + 1
            /\ sequence' = IF empty THEN sequence ELSE sequence + 1
            /\ overtaken' = (overtaken \/ (~empty /\ Overtakes(active)))
       ELSE /\ ArmFrom(ring, producer)
            /\ UNCHANGED <<producer, count, sequence, overtaken>>
    /\ UNCHANGED <<consumer, reader, accepted>>

-----------------------------------------------------------------------------
(* audio_ingress_task                                                      *)

At(pc) == reader.pc = pc
Goto(pc) == reader' = [reader EXCEPT !.pc = pc]
Begins(s) == ~reader.known \/ ring[s].gen # reader.gen
Gap(s) == ~Begins(s) /\ ring[s].seq # reader.expected

(* take_audio_ingress, and the comparison with the packet expected.        *)
NextReady ==
    From(consumer, CHOOSE n \in Slots :
        /\ From(consumer, n) \in InState({"READY"})
        /\ \A m \in 0 .. n - 1 : From(consumer, m) \notin InState({"READY"}))
TakePacket ==
    /\ At("IDLE") /\ InState({"READY"}) # {}
    /\ LET s == NextReady IN
       /\ ring' = [ring EXCEPT ![s].state = "READING"]
       /\ reader' = [pc |-> IF Gap(s) THEN "DROP" ELSE "HAVE", slot |-> s,
                     known |-> ~Gap(s), gen |-> ring[s].gen,
                     expected |-> ring[s].seq + 1]
    /\ UNCHANGED <<producer, consumer, active, armed, count, generation,
                   sequence, hardware, accepted, deaf, overtaken>>

(* m61_audio_epoch_ingest_usb refuses an earlier generation.               *)
IngestPacket ==
    /\ At("HAVE") /\ Goto("RELEASE")
    /\ accepted' = IF ring[reader.slot].gen = generation
                   THEN [gen |-> generation, seq |-> ring[reader.slot].seq] ELSE accepted
    /\ UNCHANGED <<ring, producer, consumer, active, armed, count, generation,
                   sequence, hardware, deaf, overtaken>>

(* release_audio_ingress: the slot, then arm_audio_out.  At a gap the task *)
(* resets the pipeline when that is done.                                  *)
Release ==
    /\ At("RELEASE") \/ At("DROP")
    /\ reader' = [reader EXCEPT !.pc = IF At("DROP") THEN "ARM_GAP" ELSE "ARM",
                                !.slot = NoSlot]
    /\ IF ring[reader.slot].state = "READING"
       THEN /\ ring' = [ring EXCEPT ![reader.slot].state = "FREE"]
            /\ consumer' = After(reader.slot)
            /\ count' = IF count > 0 THEN count - 1 ELSE count
       ELSE UNCHANGED <<ring, consumer, count>>
    /\ UNCHANGED <<producer, active, armed, generation, sequence, hardware,
                   accepted, deaf, overtaken>>

Done == IF reader.known THEN "IDLE" ELSE "GAP"
FaultWants == FALSE
Wants == ready /\ "OUT" \in open /\ ~suspended /\ ~armed
LookBeforeArming ==
    /\ At("ARM") \/ At("ARM_GAP")
    /\ Goto(IF Wants THEN "CHOOSE" ELSE Done)
    /\ UNCHANGED <<ring, producer, consumer, active, armed, count, generation,
                   sequence, hardware, accepted, deaf, overtaken>>

ChooseSlot ==
    /\ At("CHOOSE")
    /\ IF ~armed /\ Armable(ring, active)
       THEN LET s == NextFree(ring, producer) IN
            /\ UNCHANGED generation
            /\ ring' = Activated(ring, s) /\ active' = s /\ armed' = TRUE
            /\ reader' = [reader EXCEPT !.pc = "START", !.slot = s]
            /\ deaf' = FALSE
       ELSE Goto(Done) /\ UNCHANGED <<ring, active, armed, generation, deaf>>
    /\ UNCHANGED <<producer, consumer, count, sequence, hardware, accepted, overtaken>>

(* usbd_ep_start_read: the stack refuses once the stream is closed.        *)
StartRead ==
    /\ At("START")
    /\ reader' = [reader EXCEPT !.pc = Done, !.slot = NoSlot]
    /\ IF Configured /\ "OUT" \in open
       THEN hardware' = reader.slot /\ UNCHANGED <<ring, active, armed>>
       ELSE /\ armed' = FALSE
            /\ IF active = reader.slot
               THEN active' = NoSlot /\ ring' = [ring EXCEPT ![reader.slot].state = "FREE"]
               ELSE UNCHANGED <<ring, active>>
            /\ UNCHANGED hardware
    /\ UNCHANGED <<producer, consumer, count, generation, sequence, accepted, deaf, overtaken>>

GapReset ==
    /\ At("GAP") /\ Goto("IDLE")
    /\ RingReset(FALSE) /\ UNCHANGED hardware

IngressTask ==
    \/ TakePacket \/ IngestPacket \/ Release \/ LookBeforeArming
    \/ ChooseSlot \/ StartRead \/ GapReset

TaskPlaces == {"IDLE", "HAVE", "DROP", "RELEASE", "ARM", "ARM_GAP", "CHOOSE", "START", "GAP"}
IngressOK ==
    /\ ring \in [Slots -> [state : {"FREE", "DMA_ACTIVE", "READY", "READING"},
                           gen : Nat, seq : Nat]]
    /\ {producer, consumer} \subseteq Slots
    /\ {active, hardware} \subseteq Slots \cup {NoSlot}
    /\ reader \in [pc : TaskPlaces, slot : Slots \cup {NoSlot}, known : BOOLEAN,
                   gen : Nat, expected : Nat]
    /\ accepted \in [gen : Nat, seq : Nat] /\ {generation, sequence} \subseteq Nat
    /\ {armed, deaf, overtaken} \subseteq BOOLEAN
    /\ count \in 0 .. IngressDepth

-----------------------------------------------------------------------------
(* Properties                                                              *)

(* The count of packets in hand is right after every mixture of packets,   *)
(* resets and releases (m61_usb_gamepad.c:684).                            *)
CountExact == count = Cardinality(InState({"READY", "READING"}))

(* The hardware never has the buffer of a packet that is ready or that the *)
(* ingress task is reading, whatever resets the ring under it              *)
(* (m61_usb_gamepad.c:696).                                                *)
NoOverwrite ==
    hardware # NoSlot =>
        /\ ring[hardware].state \notin {"READY", "READING"}
        /\ ~(reader.pc = "HAVE" /\ reader.slot = hardware)

(* Of one generation the epoch store takes consecutive packets: a packet   *)
(* that a reset dropped never leaves a hole (m61_usb_gamepad.c:1406).  The *)
(* code does not promise it where a newer packet comes before an older one *)
(* in the order of the ring: the cursor of the task stays behind when a    *)
(* reset drops packets, and the slot the hardware has is not the next.     *)
NoHole ==
    accepted'.gen = accepted.gen /\ accepted' # accepted /\ ~overtaken
        => accepted'.seq = accepted.seq + 1

(* While the host streams, the endpoint is armed or the task is about to   *)
(* arm it (m61_usb_gamepad.c:2013).  The code has one hole: a reset that   *)
(* keeps the hardware's slot when it has none, because all are ready, frees*)
(* them all, and no release follows that would arm.                        *)
WillArm ==
    \/ armed
    \/ InState({"READY", "READING"}) # {}
    \/ reader.pc \notin {"IDLE", "GAP", "START"}
KeepsListening == Streaming("OUT") => WillArm \/ deaf

(* What the firmware notes of the endpoint is what the hardware does: one  *)
(* slot is marked active exactly while the endpoint is marked armed, and   *)
(* the hardware has that slot or none.  It has another only while the bus  *)
(* is suspended, and the call of the stack after the task's choice finds   *)
(* the slot as it chose it, or given up with the session.                  *)
EndpointFollows ==
    /\ armed <=> active # NoSlot
    /\ InState({"DMA_ACTIVE"}) = {active} \ {NoSlot}
    /\ hardware # NoSlot => Configured /\ "OUT" \in open
    /\ hardware # NoSlot /\ ~suspended => armed /\ ~At("START")
    /\ hardware # NoSlot /\ armed => hardware = active \/ At("START")
    /\ At("START") => /\ active \in {reader.slot, NoSlot}
                      /\ active = NoSlot => ~Streaming("OUT")

(* The task has a slot in hand, and while the hardware has one nothing     *)
(* takes the buffer that the epoch store is about to copy from it.         *)
InHand ==
    /\ reader.pc \in {"HAVE", "DROP", "RELEASE", "START"} => reader.slot # NoSlot
    /\ At("START") => ring[reader.slot].state \in {"FREE", "DMA_ACTIVE"}
    /\ At("HAVE") /\ hardware # NoSlot => ring[reader.slot].state = "READING"

(* The numbers of the packets that wait go up to the last one received, and*)
(* the ring hands them out in that order unless one overtook another; the  *)
(* generations go up with the numbers.                                     *)
Waiting == InState({"READY"})
Taken == InState({"READING"})
Numbers == {ring[s].seq : s \in Waiting}
Unmuddled == ~overtaken =>
    /\ \A s, t \in Waiting :
          Ahead(Cursor, s) < Ahead(Cursor, t) => ring[s].seq < ring[t].seq
    /\ \E low \in 0 .. sequence : Numbers = low .. sequence - 1
    /\ At("HAVE") /\ reader.slot \in Taken /\ ring[reader.slot].gen = generation
          => Numbers = ring[reader.slot].seq + 1 .. sequence - 1
GenerationsRise ==
    /\ accepted.gen <= generation /\ accepted.seq < sequence
    /\ \A s \in Slots : ring[s].gen <= generation
    /\ \A s \in Waiting \cup Taken :
          /\ ring[s].seq < sequence
          /\ accepted.seq < ring[s].seq => accepted.gen <= ring[s].gen
          /\ \A t \in Waiting \cup Taken : ring[s].seq < ring[t].seq => ring[s].gen <= ring[t].gen
    /\ \A d \in InState({"DMA_ACTIVE"}) :
          /\ accepted.gen <= ring[d].gen
          /\ \A s \in Waiting \cup Taken : ring[s].gen <= ring[d].gen
    /\ generation = 0 => Waiting = {} /\ "OUT" \notin open /\ At("IDLE")
    /\ "OUT" \notin used => generation = 0

(* What waits, or is in hand, continues what the epoch store has, unless   *)
(* the device was started again and the ring is empty.                     *)
RingEmptied == Waiting = {} /\ bus \in {"OFF", "ATTACHED"} /\ "OUT" \in used
Continues ==
    /\ \A s \in Taken : reader.pc \in {"HAVE", "DROP", "RELEASE"} /\ reader.slot = s
    /\ At("HAVE") => /\ reader.known
                     /\ reader.slot \in Taken \/ ring[reader.slot].gen < generation
    /\ accepted.gen = generation /\ ~overtaken /\ (reader.known \/ At("IDLE"))
          => IF At("HAVE") /\ reader.slot \in Taken
             THEN ring[reader.slot].seq = accepted.seq + 1
             ELSE RingEmptied \/ (~At("HAVE") /\ Numbers = accepted.seq + 1 .. sequence - 1)
InSequence == Unmuddled /\ GenerationsRise /\ Continues
=============================================================================
