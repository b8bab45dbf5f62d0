---------------------------- MODULE MicPipeline -----------------------------
(***************************************************************************)
(* The microphone: Opus frames of the controller go into a short queue,    *)
(* the codec task decodes the oldest and writes its PCM, one packet after  *)
(* the other, into a ring, and the audio IN endpoint sends the packets or, *)
(* when none is ready, silence.  USB callbacks flush both queues while the *)
(* Bluetooth task and the codec task are in the middle of their work.      *)
(* A packet is the frame it belongs to and its place in the frame.         *)
(***************************************************************************)
EXTENDS UsbSession, FiniteSets, Sequences

CONSTANTS
    OpusDepth,    \* AUDIO_MIC_OPUS_QUEUE_DEPTH
    MicDepth,     \* AUDIO_MIC_PACKET_DEPTH
    Chunks,       \* packets of a frame (10)
    MaxFrames     \* bound: frames of a behaviour

ASSUME MicAssumption == {OpusDepth, MicDepth, Chunks} \subseteq Nat \ {0}

Places == 0 .. MicDepth - 1
NoPlace == MicDepth
OnSilence == MicDepth + 1   \* of the wire
OnNothing == MicDepth + 2
Packets == [frame : Nat, chunk : Nat]
Silence == [frame |-> 0, chunk |-> 0]

VARIABLES
    enabled,    \* audio_mic_runtime_enabled
    muted,      \* audio_mic_mute
    opus,       \* mic_opus_queue
    received,   \* frames the Bluetooth task has brought
    offered,    \* a frame that the Bluetooth task is about to store, or 0
    codec,      \* codec task: place in its code, frame, chunk and PCM place
    pcm,        \* audio_mic_packet_ring and ..._state
    fill,       \* audio_mic_packet_producer_cursor
    next,       \* audio_mic_packet_consumer_cursor
    sending,    \* audio_mic_packet_active_slot
    micCount,   \* audio_mic_packet_count
    inBusy,     \* audio_in_busy
    micWire,       \* what the hardware has: a place, silence or nothing
    heard,      \* last packet the host has received that was not silence
    flushedAt,  \* frames received when the queues were last flushed (history)
    inHand,     \* frames a task had in hand then (history)
    fresh,      \* no flush or suspension since the transfer began (history)
    cutShort    \* a suspension has ended a transfer since the flush (history)

history == <<flushedAt, inHand, fresh, cutShort>>
micVars == <<enabled, muted, opus, received, offered, codec, pcm, fill, next,
             sending, micCount, inBusy, micWire, heard, history>>

MicAfter(p) == (p + 1) % MicDepth
CodecIdle == [pc |-> "IDLE", frame |-> 0, chunk |-> 0, place |-> NoPlace]
Held(st) == {p \in Places : pcm[p].state \in st}

MicInit ==
    /\ enabled \in IF "MIC" \in used THEN BOOLEAN ELSE {FALSE}
    /\ muted = FALSE
    /\ opus = <<>> /\ received = 0 /\ offered = 0 /\ codec = CodecIdle
    /\ pcm = [p \in Places |-> [state |-> "FREE", data |-> Silence]]
    /\ fill = 0 /\ next = 0 /\ sending = NoPlace /\ micCount = 0
    /\ inBusy = FALSE /\ micWire = OnNothing /\ heard = Silence
    /\ flushedAt = 0 /\ inHand = {} /\ fresh = FALSE /\ cutShort = FALSE

-----------------------------------------------------------------------------
(* flush_mic_queues                                                        *)

FaultEmptied == [p \in Places |-> IF pcm[p].state = "FILLING" THEN pcm[p]
                                  ELSE [pcm[p] EXCEPT !.state = "FREE"]]
Emptied == [p \in Places |-> [pcm[p] EXCEPT !.state = "FREE"]]
NowFlushed ==
    /\ flushedAt' = received /\ cutShort' = FALSE
    /\ inHand' = {offered, IF codec.pc = "DECODE" THEN codec.frame ELSE 0} \ {0}
Flush ==
    /\ opus' = <<>> /\ pcm' = Emptied
    /\ fill' = 0 /\ next' = 0 /\ sending' = NoPlace /\ micCount' = 0
    /\ NowFlushed /\ fresh' = FALSE

-----------------------------------------------------------------------------
(* m61_usb_gamepad_submit_mic_opus: a look at the settings, then the store *)
(* under the lock.                                                         *)

FrameArrives ==
    /\ "MIC" \in used /\ offered = 0 /\ received < MaxFrames
    /\ enabled /\ "MIC" \in open /\ ~muted
    /\ received' = received + 1 /\ offered' = received + 1
    /\ UNCHANGED <<enabled, muted, opus, codec, pcm, fill, next, sending,
                   micCount, inBusy, micWire, heard, history>>
FaultKept(q) == q
Kept(q) == IF Len(q) >= OpusDepth THEN Tail(q) ELSE q
StoreFrame ==
    /\ offered # 0
    /\ opus' = Append(Kept(opus), offered) /\ offered' = 0
    /\ UNCHANGED <<enabled, muted, received, codec, pcm, fill, next, sending,
                   micCount, inBusy, micWire, heard, history>>

-----------------------------------------------------------------------------
(* audio_codec_task: take_mic_opus, then push_mic_pcm_stereo after the     *)
(* decoder.  A frame that cannot be decoded is not pushed.                 *)

TakeFrame ==
    /\ codec.pc = "IDLE" /\ enabled /\ opus # <<>>
    /\ codec' = [CodecIdle EXCEPT !.pc = "DECODE", !.frame = Head(opus)]
    /\ opus' = Tail(opus)
    /\ UNCHANGED <<enabled, muted, received, offered, pcm, fill, next, sending,
                   micCount, inBusy, micWire, heard, history>>

Reserve(p) ==
    IF pcm[p].state = "FREE"
    THEN /\ pcm' = [pcm EXCEPT ![p].state = "FILLING"]
         /\ codec' = [codec EXCEPT !.pc = "FILL", !.chunk = 1, !.place = p]
    ELSE codec' = CodecIdle /\ UNCHANGED pcm
Decoded ==
    /\ codec.pc = "DECODE"
    /\ Reserve(fill) \/ (codec' = CodecIdle /\ UNCHANGED pcm)
    /\ UNCHANGED <<enabled, muted, opus, received, offered, fill, next, sending,
                   micCount, inBusy, micWire, heard, history>>

(* The samples go into the buffer first, whatever happened to the place.   *)
WriteSamples ==
    /\ codec.pc = "FILL"
    /\ pcm' = [pcm EXCEPT ![codec.place].data =
                 [frame |-> codec.frame, chunk |-> codec.chunk]]
    /\ codec' = [codec EXCEPT !.pc = "COMMIT"]
    /\ UNCHANGED <<enabled, muted, opus, received, offered, fill, next, sending,
                   micCount, inBusy, micWire, heard, history>>

FaultMayCommit == TRUE
MayCommit == pcm[codec.place].state = "FILLING"
CommitPacket ==
    /\ codec.pc = "COMMIT"
    /\ IF ~MayCommit
       THEN codec' = CodecIdle /\ UNCHANGED <<pcm, fill, micCount>>
       ELSE LET following == MicAfter(codec.place)
                more == codec.chunk < Chunks /\ pcm[following].state = "FREE"
            IN /\ pcm' = [p \in Places |->
                    IF p = codec.place THEN [pcm[p] EXCEPT !.state = "READY"]
                    ELSE IF more /\ p = following
                         THEN [pcm[p] EXCEPT !.state = "FILLING"] ELSE pcm[p]]
               /\ fill' = following /\ micCount' = micCount + 1
               /\ codec' = IF more
                    THEN [codec EXCEPT !.pc = "FILL", !.chunk = codec.chunk + 1,
                                       !.place = following]
                    ELSE CodecIdle
    /\ UNCHANGED <<enabled, muted, opus, received, offered, next, sending,
                   inBusy, micWire, heard, history>>

-----------------------------------------------------------------------------
(* The endpoint: prepare_audio_in_locked and start_audio_in_prepared, for  *)
(* the ring r, the place n and the busy mark b.                            *)

ArmIn(r, n, b) ==
    IF ~ready' \/ "MIC" \notin open' \/ b
    THEN pcm' = r /\ inBusy' = b /\ UNCHANGED <<sending, micWire, fresh>>
    ELSE IF ~Configured'   \* the stack refuses: the place is given back
    THEN pcm' = r /\ inBusy' = b /\ sending' = NoPlace /\ UNCHANGED <<micWire, fresh>>
    ELSE /\ inBusy' = TRUE /\ fresh' = TRUE
         /\ IF r[n].state = "READY"
            THEN /\ pcm' = [r EXCEPT ![n].state = "DMA_ACTIVE"]
                 /\ sending' = n /\ micWire' = n
            ELSE pcm' = r /\ sending' = NoPlace /\ micWire' = OnSilence

(* usbd_audio_in_ep_callback.                                              *)
FaultFreedBy(p) == [pcm EXCEPT ![p].state = "READY"]
FreedBy(p) == [pcm EXCEPT ![p].state = "FREE"]
FaultFinished == {micWire} \cap Places
Finished == {sending} \cap Held({"DMA_ACTIVE"})
PacketSent ==
    /\ Streaming("MIC") /\ micWire # OnNothing
    /\ heard' = IF micWire = OnSilence \/ ~fresh THEN heard ELSE pcm[micWire].data
    /\ \/ \E p \in Finished :
            /\ next' = MicAfter(p)
            /\ micCount' = IF micCount > 0 THEN micCount - 1 ELSE micCount
            /\ ArmIn(FreedBy(p), MicAfter(p), FALSE)
       \/ /\ Finished = {} /\ ArmIn(pcm, next, FALSE)
          /\ UNCHANGED <<next, micCount>>
    /\ UNCHANGED <<enabled, muted, opus, received, offered, codec, fill, flushedAt, inHand, cutShort>>

-----------------------------------------------------------------------------
(* Session events, streams and settings                                    *)

MicReset ==
    /\ Flush /\ inBusy' = FALSE /\ micWire' = OnNothing
    /\ UNCHANGED <<enabled, muted, received, offered, codec, heard>>
MicArms ==
    /\ ArmIn(pcm, next, inBusy)
    /\ UNCHANGED <<enabled, muted, opus, received, offered, codec, fill, next,
                   micCount, heard, flushedAt, inHand, cutShort>>
MicSuspended ==
    /\ inBusy' = FALSE /\ fresh' = FALSE
    /\ cutShort' = (cutShort \/ sending # NoPlace)
    /\ UNCHANGED <<enabled, muted, opus, received, offered, codec, pcm, fill,
                   next, sending, micCount, micWire, heard, flushedAt, inHand>>
MicOpened ==
    /\ opus' = <<>> /\ fill' = 0 /\ next' = 0 /\ micCount' = 0
    /\ pcm' = Emptied /\ sending' = NoPlace
    /\ inBusy' = TRUE /\ micWire' = OnSilence /\ fresh' = TRUE
    /\ NowFlushed
    /\ UNCHANGED <<enabled, muted, received, offered, codec, heard>>

(* The session ends without an event of the bus: only the hardware lets go.*)
MicRestart == micWire' = OnNothing /\ UNCHANGED <<enabled, muted, opus, received,
    offered, codec, pcm, fill, next, sending, micCount, inBusy, heard, history>>
MicInitAgain == 
    /\ Flush /\ micWire' = OnNothing
    /\ UNCHANGED <<enabled, muted, received, offered, codec, inBusy, heard>>

SetMute ==
    /\ Live /\ "MIC" \in used
    /\ muted' = ~muted
    /\ IF muted' THEN Flush
       ELSE UNCHANGED <<opus, pcm, fill, next, sending, micCount, history>>
    /\ UNCHANGED <<enabled, received, offered, codec, inBusy, micWire, heard>>

(* m61_usb_gamepad_set_audio_mic_enabled by the bridge or the shell.       *)
EnableMic ==
    /\ "MIC" \in used
    /\ enabled' = ~enabled
    /\ Flush
    /\ UNCHANGED <<muted, received, offered, codec, inBusy, micWire, heard>>

CodecStep == TakeFrame \/ Decoded \/ WriteSamples \/ CommitPacket
MicTask == FrameArrives \/ StoreFrame \/ CodecStep

MicOK ==
    /\ pcm \in [Places -> [state : {"FREE", "FILLING", "READY", "DMA_ACTIVE"},
                           data : Packets]]
    /\ codec \in [pc : {"IDLE", "DECODE", "FILL", "COMMIT"}, frame : Nat, chunk : Nat,
                  place : Places \cup {NoPlace}]
    /\ {fill, next} \subseteq Places /\ sending \in Places \cup {NoPlace}
    /\ opus \in Seq(Nat) /\ Len(opus) <= OpusDepth
    /\ {received, offered, flushedAt, micCount} \cup inHand \subseteq Nat
    /\ {enabled, muted, inBusy, fresh, cutShort} \subseteq BOOLEAN
    /\ heard \in Packets /\ micWire \in Places \cup {OnSilence, OnNothing}

-----------------------------------------------------------------------------
(* Properties                                                              *)

(* The number of packets in the ring is right after any order of flushes,  *)
(* commits and transfers, so it can neither underflow nor grow.            *)
MicCountExact == micCount = Cardinality(Held({"READY", "DMA_ACTIVE"}))

(* The host hears every packet at most once and in the order it was said:  *)
(* frames in order, packets of a frame in order (m61_usb_gamepad.c:2284).  *)
Later(a, b) == a.frame > b.frame \/ (a.frame = b.frame /\ a.chunk > b.chunk)
HeardInOrder == heard' # heard => Later(heard', heard)

(* After a flush only a frame that a task had in hand at that moment, not  *)
(* yet stored or just taken to be decoded, can still come: of all else     *)
(* that was said before nothing is queued (m61_usb_gamepad.c:1066).        *)
Queued == {opus[i] : i \in DOMAIN opus}
          \cup {pcm[p].data.frame : p \in Held({"READY", "DMA_ACTIVE"})}
FlushForgets == Queued \cap 1 .. flushedAt \subseteq inHand

(* The cursor of the endpoint stays with the oldest packet: packets that   *)
(* wait are sent while the host listens, instead of silence.  The code has *)
(* one hole: the place whose transfer a suspension of the bus cut short is *)
(* never given back, and the cursor rests on it until the queues are       *)
(* flushed.                                                                *)
Stuck == pcm[next].state = "DMA_ACTIVE" /\ sending # next
Waits == Held({"READY"}) # {} => pcm[next].state \in {"READY", "DMA_ACTIVE"}
MicFlows == Waits /\ (Stuck => cutShort)

(* The packets in hand are those from the cursor of the endpoint to the    *)
(* cursor of the codec task; the endpoint sends the first of them.         *)
OnItsPlace(i) == (next + i) % MicDepth
WindowHolds ==
    /\ micCount <= MicDepth /\ fill = OnItsPlace(micCount)
    /\ Held({"READY", "DMA_ACTIVE"}) = {OnItsPlace(i) : i \in 0 .. micCount - 1}
    /\ Held({"DMA_ACTIVE"}) \subseteq {next}
    /\ sending # NoPlace => sending = next /\ next \in Held({"DMA_ACTIVE"})
                            /\ (inBusy \/ cutShort)
    /\ micWire # OnNothing => Configured

(* The codec task fills one place, the one at its cursor, until a flush    *)
(* takes it away; then it never puts it back (m61_usb_gamepad.c:1090).     *)
Filling == codec.pc \in {"FILL", "COMMIT"}
OfNow(frame) == frame > flushedAt \/ frame \in inHand
CodecHolds ==
    /\ Held({"FILLING"}) \subseteq {fill} \cap {codec.place}
    /\ Held({"FILLING"}) # {} => Filling /\ OfNow(codec.frame)
    /\ Filling => codec.place # NoPlace /\ pcm[codec.place].state \in {"FREE", "FILLING"}
    /\ codec.pc = "DECODE" => OfNow(codec.frame)
    /\ codec.pc = "COMMIT" => pcm[codec.place].data =
                                 [frame |-> codec.frame, chunk |-> codec.chunk]
    /\ offered # 0 => OfNow(offered)
    /\ flushedAt <= received /\ offered <= received

(* Frames and packets stay in the order in which the Bluetooth task brought*)
(* them, from one task to the next, whatever is flushed on the way.        *)
Sent == {heard} \cup {pcm[p].data : p \in Held({"READY", "DMA_ACTIVE"})}
Newer(frame) ==
    /\ \A d \in Sent : d.frame < frame
    /\ codec.pc # "IDLE" => codec.frame < frame
InOrder ==
    /\ \A i, j \in 0 .. micCount - 1 :
          i < j => Later(pcm[OnItsPlace(j)].data, pcm[OnItsPlace(i)].data)
    /\ \A p \in Held({"READY", "DMA_ACTIVE"}) : Later(pcm[p].data, heard)
    /\ \A p \in Held({"FILLING"}), d \in Sent :
          Later([frame |-> codec.frame, chunk |-> codec.chunk], d)
    /\ codec.pc = "DECODE" => \A d \in Sent : d.frame < codec.frame
    /\ \A i \in DOMAIN opus : Newer(opus[i]) /\ opus[i] <= received
    /\ \A i, j \in DOMAIN opus : i < j => opus[i] < opus[j]
    /\ offered # 0 => Newer(offered) /\ \A i \in DOMAIN opus : opus[i] < offered
    /\ Newer(received + 1)
    /\ fresh /\ micWire \in Places => micWire = next /\ sending = next
=============================================================================
