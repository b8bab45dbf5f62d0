-------------------------- MODULE AudioEpochProofs --------------------------
(* Proofs about the epoch store for every number of slots and every bound: *)
(* who owns which slot, then what the pairs hold and how they are ordered. *)
EXTENDS AudioEpoch, FiniteSetTheorems, SequenceTheorems, WellFoundedInduction,
        TLAPS

USE SlotCountAssumption, EpochFramesAssumption, PacketSizesAssumption
    DEF slotVars, dataVars, storeVars, stats, usbVars, ing, enc, rd

LEMMA InitIInv == Init => IInv
<1> SUFFICES ASSUME Init PROVE IInv
  OBVIOUS
<1> USE DEF Init
<1>1. SlotsTypeOK
  BY DEF SlotsTypeOK, SlotStates
<1>1b. IngestTypeOK
  <2>1. 0 \in 0 .. EpochFrames
    OBVIOUS
  <2> QED
    BY <2>1 DEF IngestTypeOK
<1>1a. CodecTypeOK /\ ReaderTypeOK
  BY DEF CodecTypeOK, ReaderTypeOK
<1>2. StoreTypeOK
  BY DEF StoreTypeOK, NoPacket, Packets
<1>3. DataTypeOK
  <2>1. <<>> \in Seq(Frames)
    OBVIOUS
  <2>2. NoData \in PairData
    BY <2>1 DEF NoData, PairData
  <2>3. NoPair \in Pairs
    BY <2>2 DEF NoPair, Pairs
  <2> QED
    BY <2>1, <2>2, <2>3 DEF DataTypeOK
<1>4. GenerationInv
  BY DEF GenerationInv, Live, Cancelled, NoPacket
<1>5. UniqueInv /\ EncodingInv /\ ReadingInv
  BY DEF UniqueInv, EncodingInv, ReadingInv
<1>6. FillingInv
  BY DEF FillingInv, Slots, NoSlot
<1> QED
  BY <1>1, <1>1a, <1>1b, <1>2, <1>3, <1>4, <1>5, <1>6 DEF IInv, TypeOK

LEMMA IngestAllocateStep ==
  ASSUME IInv, NEW s \in Slots, IngestAllocate(s) PROVE IInv'
<1> USE DEF IngestAllocate, IInv, TypeOK
<1>0. state[s] \in {"FREE", "READY_ENCODE", "COMPLETE"}
  BY DEF Allocatable, Evictable
<1>1. SlotsTypeOK' /\ IngestTypeOK' /\ CodecTypeOK' /\ ReaderTypeOK'
  BY SMTT(30) DEF SlotsTypeOK, StoreTypeOK, IngestTypeOK, CodecTypeOK, ReaderTypeOK, SlotStates
<1>2. StoreTypeOK'
  BY DEF StoreTypeOK
<1>3. DataTypeOK'
  BY DEF DataTypeOK
<1>4. GenerationInv'
  BY <1>0 DEF GenerationInv, SlotsTypeOK, StoreTypeOK, Live, Cancelled
<1>5. UniqueInv'
  <2>1. \A t \in Slots : state[t] # "FREE" /\ slotGen[t] = generation =>
            slotEpoch[t] < nextEpoch
    <3>1. SlotsTypeOK /\ GenerationInv /\ generation \in Nat
      BY DEF StoreTypeOK
    <3> QED
      BY ONLY <3>1 DEF GenerationInv, SlotsTypeOK, SlotStates, Live, Cancelled
  <2> SUFFICES ASSUME NEW t \in Slots, NEW u \in Slots, t # u,
                      state'[t] # "FREE", state'[u] # "FREE", slotGen'[t] = slotGen'[u],
                      slotEpoch'[t] = slotEpoch'[u]
               PROVE FALSE
    BY DEF UniqueInv
  <2>2. CASE t = s
    BY <2>1, <2>2 DEF SlotsTypeOK, StoreTypeOK
  <2>3. CASE u = s
    BY <2>1, <2>3 DEF SlotsTypeOK, StoreTypeOK
  <2> QED
    BY <2>2, <2>3 DEF UniqueInv, SlotsTypeOK
<1>6. FillingInv'
  <2>1. \A t \in Slots : state'[t] = "FILLING" <=> fillingSlot' = t
    BY <1>0 DEF FillingInv, SlotsTypeOK, NoSlot, Slots
  <2>2. \A t \in Slots : Len(pcm'[t]) <= EpochFrames
    BY DEF FillingInv, DataTypeOK
  <2>3. ingSlot' = s /\ ingAt' = 0 /\ pcm'[s] = <<>>
    BY DEF DataTypeOK
  <2>4. ingAt' = Len(pcm'[ingSlot'])
    BY <2>3
  <2> QED
    BY <2>1, <2>2, <2>4 DEF FillingInv
<1>7. EncodingInv'
  BY <1>0 DEF EncodingInv, SlotsTypeOK
<1>8. ReadingInv'
  BY <1>0 DEF ReadingInv, SlotsTypeOK
<1> QED
  BY <1>1, <1>2, <1>3, <1>4, <1>5, <1>6, <1>7, <1>8

LEMMA IngestBeginStep ==
  ASSUME IInv, NEW len \in PacketSizes, IngestBegin(len) PROVE IInv'
<1> USE DEF IngestBegin, IInv, TypeOK
<1>1. SlotsTypeOK'
  BY DEF SlotsTypeOK, SlotStates
<1>2. StoreTypeOK'
  <2>1. NextPacket \in Packets
    BY DEF NextPacket, StoreTypeOK, Packets
  <2> QED
    BY <2>1 DEF StoreTypeOK
<1>3. DataTypeOK'
  BY DEF DataTypeOK
<1>4. IngestTypeOK' /\ CodecTypeOK' /\ ReaderTypeOK'
  BY DEF IngestTypeOK, CodecTypeOK, ReaderTypeOK, StoreTypeOK, Packets
<1>5. GenerationInv'
  BY DEF GenerationInv, NextPacket, SlotsTypeOK, StoreTypeOK, Live, Cancelled
<1>6. UniqueInv'
  BY DEF UniqueInv, SlotsTypeOK
<1>7. FillingInv'
  BY DEF FillingInv, SlotsTypeOK
<1>8. EncodingInv'
  BY DEF EncodingInv, SlotsTypeOK
<1>9. ReadingInv'
  BY DEF ReadingInv, SlotsTypeOK
<1> QED
  BY <1>1, <1>2, <1>3, <1>4, <1>5, <1>6, <1>7, <1>8, <1>9

LEMMA IngestLeaveStep ==
  ASSUME IInv, IngestStale \/ IngestAbandon \/ IngestRefused PROVE IInv'
<1> USE DEF IngestStale, IngestAbandon, IngestRefused, LeavePacket, CountDropped, IInv, TypeOK
<1>1. SlotsTypeOK'
  BY DEF SlotsTypeOK, SlotStates
<1>2. StoreTypeOK'
  BY DEF StoreTypeOK
<1>3. DataTypeOK'
  BY DEF DataTypeOK
<1>4. IngestTypeOK' /\ CodecTypeOK' /\ ReaderTypeOK'
  BY DEF IngestTypeOK, CodecTypeOK, ReaderTypeOK, StoreTypeOK
<1>5. GenerationInv'
  BY DEF GenerationInv, SlotsTypeOK, StoreTypeOK, Live, Cancelled
<1>6. UniqueInv'
  BY DEF UniqueInv, SlotsTypeOK
<1>7. FillingInv'
  BY DEF FillingInv, SlotsTypeOK
<1>8. EncodingInv'
  BY DEF EncodingInv, SlotsTypeOK
<1>9. ReadingInv'
  BY DEF ReadingInv, SlotsTypeOK
<1> QED
  BY <1>1, <1>2, <1>3, <1>4, <1>5, <1>6, <1>7, <1>8, <1>9

LEMMA IngestContinueStep ==
  ASSUME IInv, IngestContinue PROVE IInv'
<1> USE DEF IngestContinue, IInv, TypeOK
<1>0. fillingSlot \in Slots /\ state[fillingSlot] = "FILLING"
  BY DEF StoreTypeOK, FillingInv
<1>1. SlotsTypeOK'
  BY <1>0 DEF SlotsTypeOK, SlotStates
<1>2. StoreTypeOK'
  BY <1>0 DEF StoreTypeOK
<1>3. DataTypeOK'
  BY <1>0 DEF DataTypeOK
<1>4. IngestTypeOK' /\ CodecTypeOK' /\ ReaderTypeOK'
  BY DEF IngestTypeOK, CodecTypeOK, ReaderTypeOK, StoreTypeOK, DataTypeOK, FillingInv
<1>5. GenerationInv'
  BY <1>0 DEF GenerationInv, SlotsTypeOK, StoreTypeOK, Live, Cancelled
<1>6. UniqueInv'
  BY <1>0 DEF UniqueInv, SlotsTypeOK
<1>7. FillingInv'
  BY <1>0 DEF FillingInv, SlotsTypeOK
<1>8. EncodingInv'
  BY <1>0 DEF EncodingInv, SlotsTypeOK
<1>9. ReadingInv'
  BY <1>0 DEF ReadingInv, SlotsTypeOK
<1> QED
  BY <1>1, <1>2, <1>3, <1>4, <1>5, <1>6, <1>7, <1>8, <1>9

LEMMA NewFramesType ==
  ASSUME IngestTypeOK, Chunk \in Nat
  PROVE  NewFrames \in Seq(Frames) /\ Len(NewFrames) = Chunk
<1>1. \A i \in 1 .. Chunk : <<ingGen, ingNext + i - 1>> \in Frames
  BY DEF IngestTypeOK, Frames
<1>2. NewFrames \in [1 .. Chunk -> Frames]
  BY <1>1 DEF NewFrames
<1>3. NewFrames \in Seq(Frames)
  BY <1>2, SeqDef
<1> QED
  BY <1>2, <1>3, LenProperties

LEMMA IngestCopyStep ==
  ASSUME IInv, IngestCopy PROVE IInv'
<1> USE DEF IngestCopy, IInv, TypeOK
<1>0. ingSlot \in Slots /\ ingAt = Len(pcm[ingSlot]) /\ pcm[ingSlot] \in Seq(Frames)
  BY DEF FillingInv, DataTypeOK
<1>a. Chunk \in Nat /\ Chunk <= ingLeft /\ ingAt + Chunk <= EpochFrames
  BY DEF Chunk, IngestTypeOK
<1>b. NewFrames \in Seq(Frames) /\ Len(NewFrames) = Chunk
  BY <1>a, NewFramesType
<1>c. SubSeq(pcm[ingSlot], 1, ingAt) = pcm[ingSlot]
  BY <1>0, SubSeqFull
<1>d. /\ pcm[ingSlot] \o NewFrames \in Seq(Frames)
      /\ Len(pcm[ingSlot] \o NewFrames) = ingAt + Chunk
  BY <1>0, <1>b, ConcatProperties
<1>e. pcm' = [pcm EXCEPT ![ingSlot] = pcm[ingSlot] \o NewFrames]
  BY <1>c
<1>1. SlotsTypeOK'
  BY DEF SlotsTypeOK, SlotStates
<1>2. StoreTypeOK'
  BY DEF StoreTypeOK
<1>3. DataTypeOK'
  BY <1>d, <1>e DEF DataTypeOK
<1>4. IngestTypeOK' /\ CodecTypeOK' /\ ReaderTypeOK'
  BY <1>a DEF IngestTypeOK, CodecTypeOK, ReaderTypeOK
<1>5. GenerationInv'
  BY DEF GenerationInv, SlotsTypeOK, StoreTypeOK, Live, Cancelled
<1>6. UniqueInv'
  BY DEF UniqueInv, SlotsTypeOK
<1>7. FillingInv'
  <2>1. \A t \in Slots : Len(pcm'[t]) <= EpochFrames
    BY <1>0, <1>a, <1>d, <1>e DEF FillingInv, DataTypeOK
  <2>2. ingAt' = Len(pcm'[ingSlot'])
    BY <1>0, <1>a, <1>d, <1>e DEF FillingInv, DataTypeOK, IngestTypeOK
  <2> QED
    BY <1>0, <2>1, <2>2 DEF FillingInv
<1>8. EncodingInv'
  BY DEF EncodingInv, SlotsTypeOK
<1>9. ReadingInv'
  BY DEF ReadingInv, SlotsTypeOK
<1> QED
  BY <1>1, <1>2, <1>3, <1>4, <1>5, <1>6, <1>7, <1>8, <1>9

LEMMA IngestCommitStep ==
  ASSUME IInv, IngestCommit PROVE IInv'
<1> USE DEF IngestCommit, StillFilling, IInv, TypeOK
<1>0. ingSlot \in Slots /\ state[ingSlot] = "FILLING"
  BY DEF FillingInv
<1>a. ingGen = generation /\ fillingSlot = ingSlot /\ ingAt = Len(pcm[ingSlot])
  BY DEF FillingInv
<1>1. SlotsTypeOK'
  BY <1>0 DEF SlotsTypeOK, SlotStates
<1>2. StoreTypeOK'
  BY <1>0 DEF StoreTypeOK
<1>3. DataTypeOK'
  BY <1>0 DEF DataTypeOK
<1>4. IngestTypeOK' /\ CodecTypeOK' /\ ReaderTypeOK'
  BY <1>0 DEF IngestTypeOK, CodecTypeOK, ReaderTypeOK, SlotsTypeOK
<1>5. GenerationInv'
  BY <1>0 DEF GenerationInv, SlotsTypeOK, StoreTypeOK, Live, Cancelled
<1>6. UniqueInv'
  BY <1>0 DEF UniqueInv, SlotsTypeOK
<1>7. FillingInv'
  <2>1. CASE ingAt = EpochFrames
    <3>1. \A t \in Slots : state'[t] = "FILLING" <=> fillingSlot' = t
      <4>1. /\ state'[ingSlot] # "FILLING" /\ fillingSlot' = NoSlot
            /\ \A t \in Slots : t # ingSlot => state'[t] = state[t]
        BY <1>0, <2>1 DEF SlotsTypeOK
      <4>2. \A t \in Slots : t # ingSlot => state[t] # "FILLING"
        BY <1>a DEF FillingInv
      <4> QED
        BY <4>1, <4>2 DEF Slots, NoSlot
    <3> QED
      BY <3>1 DEF FillingInv
  <2>2. CASE ingAt # EpochFrames
    BY <1>a, <2>2 DEF FillingInv
  <2> QED
    BY <2>1, <2>2
<1>8. EncodingInv'
  BY <1>0 DEF EncodingInv, SlotsTypeOK
<1>9. ReadingInv'
  BY <1>0 DEF ReadingInv, SlotsTypeOK
<1> QED
  BY <1>1, <1>2, <1>3, <1>4, <1>5, <1>6, <1>7, <1>8, <1>9

LEMMA EncodeTakeStep ==
  ASSUME IInv, NEW s \in Slots, EncodeTake(s) PROVE IInv'
<1> USE DEF EncodeTake, OldestIn, IInv, TypeOK
<1>1. SlotsTypeOK'
  BY DEF SlotsTypeOK, SlotStates
<1>2. StoreTypeOK'
  BY DEF StoreTypeOK
<1>3. DataTypeOK'
  BY DEF DataTypeOK
<1>4. IngestTypeOK' /\ CodecTypeOK' /\ ReaderTypeOK'
  BY DEF IngestTypeOK, CodecTypeOK, ReaderTypeOK, SlotsTypeOK
<1>5. GenerationInv'
  BY DEF GenerationInv, SlotsTypeOK, StoreTypeOK, Live, Cancelled
<1>6. UniqueInv'
  BY DEF UniqueInv, SlotsTypeOK
<1>7. FillingInv'
  BY DEF FillingInv, SlotsTypeOK
<1>8. EncodingInv'
  BY DEF EncodingInv, SlotsTypeOK
<1>9. ReadingInv'
  BY DEF ReadingInv, SlotsTypeOK
<1> QED
  BY <1>1, <1>2, <1>3, <1>4, <1>5, <1>6, <1>7, <1>8, <1>9

LEMMA EncodeRunStep ==
  ASSUME IInv, EncodeRun PROVE IInv'
<1> USE DEF EncodeRun, IInv, TypeOK
<1>1. SlotsTypeOK'
  BY DEF SlotsTypeOK, SlotStates
<1>2. StoreTypeOK'
  BY DEF StoreTypeOK
<1>3. DataTypeOK'
  BY DEF DataTypeOK, EncodingInv
<1>4. IngestTypeOK' /\ CodecTypeOK' /\ ReaderTypeOK'
  BY DEF IngestTypeOK, CodecTypeOK, ReaderTypeOK, SlotsTypeOK
<1>5. GenerationInv'
  BY DEF GenerationInv, SlotsTypeOK, StoreTypeOK, Live, Cancelled
<1>6. UniqueInv'
  BY DEF UniqueInv, SlotsTypeOK
<1>7. FillingInv'
  BY DEF FillingInv, SlotsTypeOK
<1>8. EncodingInv'
  BY DEF EncodingInv, SlotsTypeOK
<1>9. ReadingInv'
  BY DEF ReadingInv, SlotsTypeOK
<1> QED
  BY <1>1, <1>2, <1>3, <1>4, <1>5, <1>6, <1>7, <1>8, <1>9

LEMMA EncodeCopyStep ==
  ASSUME IInv, EncodeCopy PROVE IInv'
<1> USE DEF EncodeCopy, IInv, TypeOK
<1>1. SlotsTypeOK'
  BY DEF SlotsTypeOK, SlotStates
<1>2. StoreTypeOK'
  BY DEF StoreTypeOK
<1>3. DataTypeOK'
  BY DEF DataTypeOK
<1>4. IngestTypeOK' /\ CodecTypeOK' /\ ReaderTypeOK'
  BY DEF IngestTypeOK, CodecTypeOK, ReaderTypeOK, SlotsTypeOK
<1>5. GenerationInv'
  BY DEF GenerationInv, SlotsTypeOK, StoreTypeOK, Live, Cancelled
<1>6. UniqueInv'
  BY DEF UniqueInv, SlotsTypeOK
<1>7. FillingInv'
  BY DEF FillingInv, SlotsTypeOK
<1>8. EncodingInv'
  BY DEF EncodingInv, SlotsTypeOK
<1>9. ReadingInv'
  BY DEF ReadingInv, SlotsTypeOK
<1> QED
  BY <1>1, <1>2, <1>3, <1>4, <1>5, <1>6, <1>7, <1>8, <1>9

LEMMA EncodeSubmitStep ==
  ASSUME IInv, EncodeSubmit PROVE IInv'
<1> USE DEF EncodeSubmit, FreeSlot, CountStale, CountDropped, IInv, TypeOK
<1>a. /\ encSlot \in Slots /\ encSlot # NoSlot
      /\ state[encSlot] = IF encGen = generation THEN "ENCODING" ELSE "CANCELLED_ENCODING"
  BY DEF EncodingInv, Slots, NoSlot
<1>0. encSlot \in Slots /\ FindSlot(encGen, encEpoch) = encSlot
  BY DEF FindSlot, Matches, EncodingInv, UniqueInv, Slots
<1>b. encPc' \in {"idle", "copy"} /\ (encPc' = "idle" => state' = [state EXCEPT ![encSlot] = "FREE"])
                               /\ (encPc' = "copy" => state' = state)
      /\ encSlot' = encSlot
  BY <1>0, <1>a
<1>1. SlotsTypeOK'
  BY <1>0 DEF SlotsTypeOK, SlotStates
<1>2. StoreTypeOK'
  BY <1>0 DEF StoreTypeOK
<1>3. DataTypeOK'
  BY <1>0 DEF DataTypeOK
<1>4. IngestTypeOK' /\ CodecTypeOK' /\ ReaderTypeOK'
  BY <1>0 DEF IngestTypeOK, CodecTypeOK, ReaderTypeOK, SlotsTypeOK
<1>5. GenerationInv'
  BY <1>0 DEF GenerationInv, SlotsTypeOK, StoreTypeOK, Live, Cancelled
<1>6. UniqueInv'
  BY <1>0 DEF UniqueInv, SlotsTypeOK
<1>7. FillingInv'
  BY <1>a, <1>b DEF FillingInv, SlotsTypeOK
<1>8. EncodingInv'
  BY <1>a, <1>b DEF EncodingInv, SlotsTypeOK
<1>9. ReadingInv'
  BY <1>a, <1>b DEF ReadingInv, SlotsTypeOK
<1> QED
  BY <1>1, <1>2, <1>3, <1>4, <1>5, <1>6, <1>7, <1>8, <1>9

LEMMA EncodeFinishStep ==
  ASSUME IInv, EncodeFinish PROVE IInv'
<1> USE DEF EncodeFinish, FreeSlot, CountStale, Matches, IInv, TypeOK
<1>0. encSlot \in Slots
  BY DEF EncodingInv
<1>a. state[encSlot] = IF encGen = generation THEN "ENCODING" ELSE "CANCELLED_ENCODING"
  BY DEF EncodingInv
<1>b. state' \in {[state EXCEPT ![encSlot] = "FREE"], [state EXCEPT ![encSlot] = "COMPLETE"]}
  BY <1>0, <1>a DEF EncodingInv
<1>1. SlotsTypeOK'
  BY <1>0 DEF SlotsTypeOK, SlotStates
<1>2. StoreTypeOK'
  BY <1>0 DEF StoreTypeOK
<1>3. DataTypeOK'
  BY <1>0 DEF DataTypeOK
<1>4. IngestTypeOK' /\ CodecTypeOK' /\ ReaderTypeOK'
  BY <1>0 DEF IngestTypeOK, CodecTypeOK, ReaderTypeOK, SlotsTypeOK
<1>5. GenerationInv'
  BY <1>0 DEF GenerationInv, SlotsTypeOK, StoreTypeOK, Live, Cancelled
<1>6. UniqueInv'
  BY <1>0 DEF UniqueInv, SlotsTypeOK
<1>7. FillingInv'
  BY <1>0, <1>a, <1>b DEF FillingInv, SlotsTypeOK
<1>8. EncodingInv'
  BY <1>0, <1>a, <1>b DEF EncodingInv, SlotsTypeOK
<1>9. ReadingInv'
  BY <1>0, <1>a, <1>b DEF ReadingInv, SlotsTypeOK
<1> QED
  BY <1>1, <1>2, <1>3, <1>4, <1>5, <1>6, <1>7, <1>8, <1>9

LEMMA PairDropStep ==
  ASSUME IInv, NEW f \in Slots, state[f] = "COMPLETE", DropFirst(f) PROVE IInv'
<1> USE DEF DropFirst, FreeSlot, CountDropped, IInv, TypeOK
<1>1. SlotsTypeOK'
  BY DEF SlotsTypeOK, SlotStates
<1>2. StoreTypeOK'
  BY DEF StoreTypeOK
<1>3. DataTypeOK'
  BY DEF DataTypeOK
<1>4. IngestTypeOK' /\ CodecTypeOK' /\ ReaderTypeOK'
  BY DEF IngestTypeOK, CodecTypeOK, ReaderTypeOK, SlotsTypeOK
<1>5. GenerationInv'
  BY DEF GenerationInv, SlotsTypeOK, StoreTypeOK, Live, Cancelled
<1>6. UniqueInv'
  BY DEF UniqueInv, SlotsTypeOK
<1>7. FillingInv'
  BY DEF FillingInv, SlotsTypeOK
<1>8. EncodingInv'
  BY DEF EncodingInv, SlotsTypeOK
<1>9. ReadingInv'
  BY DEF ReadingInv, SlotsTypeOK
<1> QED
  BY <1>1, <1>2, <1>3, <1>4, <1>5, <1>6, <1>7, <1>8, <1>9

LEMMA PairClaimStep ==
  ASSUME IInv, NEW f \in Slots, NEW s \in Slots, PairClaim(f, s) PROVE IInv'
<1> USE DEF PairClaim, OldestIn, Partner, IInv, TypeOK
<1>1. SlotsTypeOK'
  BY DEF SlotsTypeOK, SlotStates
<1>2. StoreTypeOK'
  BY DEF StoreTypeOK
<1>3. DataTypeOK'
  BY DEF DataTypeOK
<1>4. IngestTypeOK' /\ CodecTypeOK' /\ ReaderTypeOK'
  BY DEF IngestTypeOK, CodecTypeOK, ReaderTypeOK, SlotsTypeOK
<1>5. GenerationInv'
  BY DEF GenerationInv, SlotsTypeOK, StoreTypeOK, Live, Cancelled
<1>6. UniqueInv'
  BY DEF UniqueInv, SlotsTypeOK
<1>7. FillingInv'
  BY DEF FillingInv, SlotsTypeOK
<1>8. EncodingInv'
  BY DEF EncodingInv, SlotsTypeOK
<1>9. ReadingInv'
  BY DEF ReadingInv, SlotsTypeOK
<1> QED
  BY <1>1, <1>2, <1>3, <1>4, <1>5, <1>6, <1>7, <1>8, <1>9

LEMMA PairCopyStep ==
  ASSUME IInv, PairCopy PROVE IInv'
<1> USE DEF PairCopy, IInv, TypeOK
<1>1. SlotsTypeOK'
  BY DEF SlotsTypeOK, SlotStates
<1>2. StoreTypeOK'
  BY DEF StoreTypeOK
<1>3. DataTypeOK'
  <2>1. rdFirst \in Slots /\ rdSecond \in Slots
    BY DEF ReadingInv
  <2>2. rdHaptics' \in PairData /\ rdOpus' \in PairData
    <3>1. NoData \in PairData
      BY EmptySeq DEF NoData, PairData
    <3>2. /\ <<pcm[rdFirst], pcm[rdSecond]>> \in PairData
          /\ <<opus[rdFirst], opus[rdSecond]>> \in PairData
      BY <2>1 DEF DataTypeOK, PairData
    <3> QED
      BY <3>1, <3>2
  <2> QED
    BY <2>2 DEF DataTypeOK
<1>4. IngestTypeOK' /\ CodecTypeOK' /\ ReaderTypeOK'
  BY DEF IngestTypeOK, CodecTypeOK, ReaderTypeOK, SlotsTypeOK
<1>5. GenerationInv'
  BY DEF GenerationInv, SlotsTypeOK, StoreTypeOK, Live, Cancelled
<1>6. UniqueInv'
  BY DEF UniqueInv, SlotsTypeOK
<1>7. FillingInv'
  BY DEF FillingInv, SlotsTypeOK
<1>8. EncodingInv'
  BY DEF EncodingInv, SlotsTypeOK
<1>9. ReadingInv'
  BY DEF ReadingInv, SlotsTypeOK
<1> QED
  BY <1>1, <1>2, <1>3, <1>4, <1>5, <1>6, <1>7, <1>8, <1>9

LEMMA PairFinishStep ==
  ASSUME IInv, PairFinish PROVE IInv'
<1> USE DEF PairFinish, CountStale, CountEmitted, Matches, IInv, TypeOK
<1>0. rdFirst \in Slots /\ rdSecond \in Slots
  BY DEF ReadingInv
<1>a. /\ rdFirst # rdSecond /\ rdGen = slotGen[rdFirst]
      /\ \A s \in {rdFirst, rdSecond} :
            state[s] = IF rdGen = generation THEN "READING" ELSE "CANCELLED_READING"
  BY DEF ReadingInv
<1>b. state' = [state EXCEPT ![rdFirst] = "FREE", ![rdSecond] = "FREE"]
  BY <1>a DEF ReadingInv
<1>1. SlotsTypeOK'
  BY <1>0 DEF SlotsTypeOK, SlotStates
<1>2. StoreTypeOK'
  BY <1>0 DEF StoreTypeOK
<1>3. DataTypeOK'
  <2>1. PairBuilt \in Pairs
    BY DEF PairBuilt, Pairs, DataTypeOK, ReaderTypeOK
  <2>2. out' \in {out, PairBuilt}
    OBVIOUS
  <2> QED
    BY <2>1, <2>2 DEF DataTypeOK
<1>4. IngestTypeOK' /\ CodecTypeOK' /\ ReaderTypeOK'
  BY <1>0 DEF IngestTypeOK, CodecTypeOK, ReaderTypeOK, SlotsTypeOK
<1>5. GenerationInv'
  BY <1>0 DEF GenerationInv, SlotsTypeOK, StoreTypeOK, Live, Cancelled
<1>6. UniqueInv'
  BY <1>0 DEF UniqueInv, SlotsTypeOK
<1>7. FillingInv'
  BY <1>0, <1>a, <1>b DEF FillingInv, SlotsTypeOK
<1>8. EncodingInv'
  BY <1>0, <1>a, <1>b DEF EncodingInv, SlotsTypeOK
<1>9. ReadingInv'
  BY <1>0, <1>a, <1>b DEF ReadingInv, SlotsTypeOK
<1> QED
  BY <1>1, <1>2, <1>3, <1>4, <1>5, <1>6, <1>7, <1>8, <1>9

LEMMA FlagStep ==
  ASSUME IInv, UnmuteSpeaker \/ ApplyFlag \/ Arm PROVE IInv'
<1> USE DEF UnmuteSpeaker, ApplyFlag, Arm, NextPacket, IInv, TypeOK
<1>1. SlotsTypeOK'
  BY DEF SlotsTypeOK, SlotStates
<1>2. StoreTypeOK'
  <2>1. NextPacket \in Packets
    BY DEF NextPacket, StoreTypeOK, Packets
  <2>2. armed' \in Packets /\ enabled' \in BOOLEAN /\ muted' \in BOOLEAN
    BY <2>1 DEF StoreTypeOK
  <2> QED
    BY <2>2 DEF StoreTypeOK
<1>3. DataTypeOK'
  BY DEF DataTypeOK
<1>4. IngestTypeOK' /\ CodecTypeOK' /\ ReaderTypeOK'
  BY DEF IngestTypeOK, CodecTypeOK, ReaderTypeOK, SlotsTypeOK
<1>5. GenerationInv'
  BY DEF GenerationInv, SlotsTypeOK, StoreTypeOK, Live, Cancelled
<1>6. UniqueInv'
  BY DEF UniqueInv, SlotsTypeOK
<1>7. FillingInv'
  BY DEF FillingInv, SlotsTypeOK
<1>8. EncodingInv'
  BY DEF EncodingInv, SlotsTypeOK
<1>9. ReadingInv'
  BY DEF ReadingInv, SlotsTypeOK
<1> QED
  BY <1>1, <1>2, <1>3, <1>4, <1>5, <1>6, <1>7, <1>8, <1>9

LEMMA ResetStep ==
  ASSUME IInv, ResetStore, armed' \in {armed, NoPacket}, enabled' \in BOOLEAN,
         muted' \in BOOLEAN, rdPc' = rdPc \/ (rdPc = "apply" /\ rdPc' = "idle"),
         UNCHANGED <<rdFirst, rdSecond, rdGen, rdEpoch, rdSpeaker, rdHaptics, rdOpus>>
  PROVE  IInv'
<1> USE DEF ResetStore, CountStale, IInv, TypeOK
<1>a. \A s \in Slots :
         /\ state[s] \in {"ENCODING", "CANCELLED_ENCODING"} => state'[s] = "CANCELLED_ENCODING"
         /\ state[s] \in {"READING", "CANCELLED_READING"} => state'[s] = "CANCELLED_READING"
         /\ state[s] \in {"FREE", "FILLING", "READY_ENCODE", "COMPLETE"} => state'[s] = "FREE"
  OBVIOUS
<1>b. \A s \in Slots :
         /\ state'[s] \in {"FREE", "CANCELLED_ENCODING", "CANCELLED_READING"}
         /\ state'[s] = "CANCELLED_ENCODING" => state[s] \in {"ENCODING", "CANCELLED_ENCODING"}
         /\ state'[s] = "CANCELLED_READING" => state[s] \in {"READING", "CANCELLED_READING"}
         /\ state'[s] # "FREE" => state[s] # "FREE" /\ slotGen[s] <= generation
  BY <1>a DEF SlotsTypeOK, SlotStates, GenerationInv, Live, Cancelled, StoreTypeOK
<1>c. generation \in Nat /\ generation' = generation + 1
  BY DEF StoreTypeOK
<1>1. SlotsTypeOK'
  BY DEF SlotsTypeOK, SlotStates
<1>2. StoreTypeOK'
  <2> DEFINE retired == {s \in Slots : state[s] \in {"FILLING", "READY_ENCODE", "COMPLETE"}}
  <2>1. IsFiniteSet(Slots)
    BY 0 \in Int, SlotCount - 1 \in Int, FS_Interval DEF Slots
  <2>2. IsFiniteSet(retired)
    BY <2>1, FS_Subset
  <2>3. Cardinality(retired) \in Nat
    BY <2>2, FS_CardinalityType
  <2> HIDE DEF retired
  <2>4. stale' \in Nat
    BY <2>3 DEF StoreTypeOK, retired
  <2> QED
    <3>1. NoPacket \in Packets
      BY DEF NoPacket, Packets
    <3>2. armed' \in Packets
      BY <3>1 DEF StoreTypeOK
    <3> QED
      BY <2>4, <3>2 DEF StoreTypeOK, NoSlot
<1>3. DataTypeOK'
  BY DEF DataTypeOK
<1>4. IngestTypeOK' /\ CodecTypeOK' /\ ReaderTypeOK'
  BY DEF IngestTypeOK, CodecTypeOK, ReaderTypeOK, SlotsTypeOK
<1>5. GenerationInv'
  BY <1>b, <1>c DEF GenerationInv, NoPacket, IngestTypeOK, Packets, SlotsTypeOK, StoreTypeOK, Live, Cancelled
<1>6. UniqueInv'
  BY <1>b DEF UniqueInv, SlotsTypeOK
<1>7. FillingInv'
  <2>1. \A s \in Slots : state'[s] = "FILLING" <=> fillingSlot' = s
    BY <1>b DEF Slots, NoSlot
  <2>2. ingPc \in {"copy", "commit"} =>
          ingSlot \in Slots /\ state[ingSlot] \in {"FREE", "FILLING"}
    BY DEF FillingInv
  <2>3. ingGen # generation'
    BY <1>c DEF GenerationInv, IngestTypeOK
  <2> QED
    BY <1>a, <2>1, <2>2, <2>3 DEF FillingInv, SlotsTypeOK
<1>8. EncodingInv'
  <2>1. encPc # "idle" => encSlot \in Slots /\ state'[encSlot] = "CANCELLED_ENCODING"
    BY <1>a DEF EncodingInv
  <2>2. encPc # "idle" => encGen # generation'
    BY <1>c DEF EncodingInv, GenerationInv, Live, Cancelled, SlotsTypeOK, CodecTypeOK
  <2> QED
    BY <1>b, <2>1, <2>2 DEF EncodingInv, SlotsTypeOK
<1>9. ReadingInv'
  <2>1. rdPc \in {"copy", "finish"} =>
          \A s \in {rdFirst, rdSecond} : s \in Slots /\ state'[s] = "CANCELLED_READING"
    BY <1>a DEF ReadingInv
  <2>2. rdPc \in {"copy", "finish"} => rdGen # generation'
    BY <1>c DEF ReadingInv, GenerationInv, Live, Cancelled, SlotsTypeOK, ReaderTypeOK
  <2> QED
    BY <1>b, <2>1, <2>2 DEF ReadingInv, SlotsTypeOK
<1> QED
  BY <1>1, <1>2, <1>3, <1>4, <1>5, <1>6, <1>7, <1>8, <1>9

LEMMA NextStep == ASSUME IInv, Next PROVE IInv'
<1>1. CASE Ingest
  <2>1. CASE IngestStale \/ IngestRefused \/ IngestAbandon
    BY <2>1, IngestLeaveStep
  <2>2. CASE IngestContinue
    BY <2>2, IngestContinueStep
  <2>3. CASE IngestCopy
    BY <2>3, IngestCopyStep
  <2>4. CASE IngestCommit
    BY <2>4, IngestCommitStep
  <2>5. CASE \E s \in Slots : IngestAllocate(s)
    BY <2>5, IngestAllocateStep
  <2> QED
    BY <1>1, <2>1, <2>2, <2>3, <2>4, <2>5 DEF Ingest
<1>2. CASE Codec
  BY <1>2, EncodeRunStep, EncodeSubmitStep, EncodeCopyStep, EncodeFinishStep,
     EncodeTakeStep DEF Codec
<1>3. CASE Reader
  <2>1. CASE PairCopy
    BY <2>1, PairCopyStep
  <2>2. CASE PairFinish
    BY <2>2, PairFinishStep
  <2>3. CASE \E f \in Slots : PairGap(f)
    BY <2>3, PairDropStep DEF PairGap, OldestIn
  <2>4. CASE \E f, s \in Slots : PairMismatch(f, s)
    BY <2>4, PairDropStep DEF PairMismatch, OldestIn
  <2>5. CASE \E f, s \in Slots : PairClaim(f, s)
    BY <2>5, PairClaimStep
  <2> QED
    BY <1>3, <2>1, <2>2, <2>3, <2>4, <2>5 DEF Reader
<1>4. CASE Usb \/ ApplyReset
  <2>1. CASE Arm \/ UnmuteSpeaker \/ ApplyFlag
    BY <2>1, FlagStep
  <2>2. CASE ResetKeepDma \/ ResetCancelDma \/ MuteSpeaker \/ ApplyReset
    <3>1. /\ ResetStore /\ armed' \in {armed, NoPacket}
          /\ enabled' \in BOOLEAN /\ muted' \in BOOLEAN
          /\ rdPc' = rdPc \/ (rdPc = "apply" /\ rdPc' = "idle")
          /\ UNCHANGED <<rdFirst, rdSecond, rdGen, rdEpoch, rdSpeaker, rdHaptics, rdOpus>>
      BY <2>2 DEF ResetKeepDma, ResetCancelDma, MuteSpeaker, ApplyReset, IInv, TypeOK,
                  StoreTypeOK
    <3> QED
      BY <3>1, ResetStep
  <2>3. CASE \E len \in PacketSizes : IngestBegin(len)
    BY <2>3, IngestBeginStep
  <2> QED
    BY <1>4, <2>1, <2>2, <2>3 DEF Usb
<1> QED
  BY <1>1, <1>2, <1>3, <1>4 DEF Next

LEMMA StutterStep == ASSUME IInv, UNCHANGED vars PROVE IInv'
<1> USE DEF vars, IInv, TypeOK
<1>1. (SlotsTypeOK /\ DataTypeOK /\ StoreTypeOK)'
  BY DEF SlotsTypeOK, DataTypeOK, StoreTypeOK
<1>2. (IngestTypeOK /\ CodecTypeOK /\ ReaderTypeOK)'
  BY DEF IngestTypeOK, CodecTypeOK, ReaderTypeOK
<1>3. (GenerationInv /\ UniqueInv /\ FillingInv)'
  BY DEF GenerationInv, UniqueInv, FillingInv
<1>4. (EncodingInv /\ ReadingInv)'
  BY DEF EncodingInv, ReadingInv
<1> QED
  BY <1>1, <1>2, <1>3, <1>4

(* Whatever the interleaving of the three tasks and of the resets, every   *)
(* slot has the owner its state says: the invariant is inductive.          *)
THEOREM OwnershipInvariant == Spec => []IInv
<1>1. Init => IInv
  BY InitIInv
<1>2. IInv /\ [Next]_vars => IInv'
  BY NextStep, StutterStep
<1> QED
  BY <1>1, <1>2, PTL DEF Spec

(* Every variable keeps its type, for any number of slots and frames.      *)
THEOREM TypeCorrect == Spec => []TypeOK
<1>1. IInv => TypeOK
  BY DEF IInv
<1> QED
  BY <1>1, OwnershipInvariant, PTL

LEMMA NoDataRaceHolds == IInv => NoDataRace
<1> SUFFICES ASSUME IInv PROVE NoDataRace
  OBVIOUS
<1> USE DEF IInv
<1>1. ingPc \in {"copy", "commit"} =>
          ingSlot \in Slots /\ state[ingSlot] \in {"FILLING", "FREE"}
  BY DEF FillingInv
<1>2. encPc # "idle" =>
          encSlot \in Slots /\ state[encSlot] \in {"ENCODING", "CANCELLED_ENCODING"}
  BY DEF EncodingInv
<1>3. rdPc \in {"copy", "finish"} =>
          \A s \in {rdFirst, rdSecond} : state[s] \in {"READING", "CANCELLED_READING"}
  BY DEF ReadingInv
<1> QED
  BY <1>1, <1>2, <1>3 DEF NoDataRace, PcmWritten, PcmRead, OpusWritten, OpusRead

(* No task ever writes a buffer another task is reading outside the lock.  *)
THEOREM RaceFree == Spec => []NoDataRace
<1> QED
  BY NoDataRaceHolds, OwnershipInvariant, PTL

LEMMA LeastNat ==
  ASSUME NEW T, T \subseteq Nat, T # {}
  PROVE  \E x \in T : \A y \in T : x <= y
<1>1. PICK x \in T : \A y \in T : ~(<<y, x>> \in OpToRel(<, Nat))
  BY NatLessThanWellFounded, WFMin, Zenon
<1>2. \A y \in T : ~(y < x)
  BY <1>1 DEF OpToRel
<1> QED
  BY <1>2

(* A free slot or one that may be overwritten is enough for an allocation. *)
LEMMA AllocatableExists ==
  ASSUME SlotsTypeOK, NEW u \in Slots, state[u] \in {"FREE", "READY_ENCODE", "COMPLETE"}
  PROVE  \E s \in Slots : Allocatable(s)
<1>1. CASE \E t \in Slots : state[t] = "FREE"
  <2> DEFINE T == {t \in Slots : state[t] = "FREE"}
  <2>1. T \subseteq Nat /\ T # {}
    BY <1>1 DEF Slots
  <2>2. PICK s \in T : \A t \in T : s <= t
    BY <2>1, LeastNat
  <2>3. \A t \in 0 .. s - 1 : t \in Slots /\ ~(s <= t)
    BY DEF Slots
  <2>4. Allocatable(s)
    BY <1>1, <2>2, <2>3 DEF Allocatable
  <2> QED
    BY <2>4
<1>2. CASE ~\E t \in Slots : state[t] = "FREE"
  <2> DEFINE E == {slotEpoch[t] : t \in {t \in Slots : Evictable(t)}}
  <2>1. Evictable(u)
    BY <1>2 DEF Evictable
  <2>2. E \subseteq Nat /\ E # {}
    BY <2>1 DEF SlotsTypeOK
  <2>3. PICK e \in E : \A f \in E : e <= f
    BY <2>2, LeastNat
  <2> DEFINE T == {t \in Slots : Evictable(t) /\ slotEpoch[t] = e}
  <2>4. T \subseteq Nat /\ T # {}
    BY DEF Slots
  <2>5. PICK s \in T : \A t \in T : s <= t
    BY <2>4, LeastNat
  <2>6. \A t \in Slots : Evictable(t) =>
            slotEpoch[s] < slotEpoch[t] \/ (slotEpoch[s] = slotEpoch[t] /\ s <= t)
    BY <2>3, <2>5 DEF SlotsTypeOK
  <2>7. Allocatable(s)
    BY <1>2, <2>5, <2>6 DEF Allocatable
  <2> QED
    BY <2>7
<1> QED
  BY <1>1, <1>2

LEMMA AlwaysRoomHolds == IInv => AlwaysRoom
<1> SUFFICES ASSUME IInv, SlotCount >= 4, fillingSlot = NoSlot
             PROVE  \E s \in Slots : Allocatable(s)
  BY DEF AlwaysRoom
<1> USE DEF IInv, TypeOK
<1>1. PICK u \in {0, 1, 2, 3} : u \notin {encSlot, rdFirst, rdSecond}
  <2>1. \E u \in {0, 1, 2, 3} : u # encSlot /\ u # rdFirst /\ u # rdSecond
    OBVIOUS
  <2> QED
    BY <2>1
<1>2. u \in Slots
  BY DEF Slots
<1>3. state[u] \notin {"ENCODING", "CANCELLED_ENCODING", "READING", "CANCELLED_READING"}
  BY <1>1, <1>2 DEF EncodingInv, ReadingInv
<1>4. state[u] # "FILLING"
  BY <1>2 DEF FillingInv, NoSlot, Slots
<1>5. state[u] \in {"FREE", "READY_ENCODE", "COMPLETE"}
  BY <1>2, <1>3, <1>4 DEF SlotsTypeOK, SlotStates
<1> QED
  BY <1>2, <1>5, AllocatableExists

(* With the encode job and the pair pinning at most three slots, a store   *)
(* of four or more always has a slot for the next epoch.                   *)
THEOREM RoomForIngest == Spec => []AlwaysRoom
<1> QED
  BY AlwaysRoomHolds, OwnershipInvariant, PTL

LEMMA BusyFinite == IsFiniteSet(Busy) /\ Cardinality(Busy) \in Nat
<1>1. IsFiniteSet(Slots)
  BY 0 \in Int, SlotCount - 1 \in Int, FS_Interval DEF Slots
<1>2. Busy \subseteq Slots
  BY DEF Busy
<1> QED
  BY <1>1, <1>2, FS_Subset, FS_CardinalityType

LEMMA BusyFreed ==
  ASSUME NEW s \in Slots, SlotsTypeOK, state[s] # "FREE", state' = [state EXCEPT ![s] = "FREE"]
  PROVE  Cardinality(Busy') = Cardinality(Busy) - 1
<1>1. Busy' = Busy \ {s} /\ s \in Busy
  BY DEF Busy, SlotsTypeOK
<1> QED
  BY <1>1, BusyFinite, FS_RemoveElement

LEMMA BusyFreedBoth ==
  ASSUME NEW s \in Slots, NEW t \in Slots, s # t, SlotsTypeOK,
         state[s] # "FREE", state[t] # "FREE",
         state' = [state EXCEPT ![s] = "FREE", ![t] = "FREE"]
  PROVE  Cardinality(Busy') = Cardinality(Busy) - 2
<1>1. Busy' = (Busy \ {s}) \ {t} /\ s \in Busy /\ t \in Busy \ {s}
  BY DEF Busy, SlotsTypeOK
<1>2. IsFiniteSet(Busy \ {s}) /\ Cardinality(Busy \ {s}) = Cardinality(Busy) - 1
  BY <1>1, BusyFinite, FS_RemoveElement
<1>3. Cardinality((Busy \ {s}) \ {t}) = Cardinality(Busy \ {s}) - 1
  BY <1>1, <1>2, FS_RemoveElement
<1> QED
  BY <1>1, <1>2, <1>3, BusyFinite

LEMMA BusyKept ==
  ASSUME NEW s \in Slots, NEW st, SlotsTypeOK, state[s] # "FREE", st # "FREE",
         state' = [state EXCEPT ![s] = st]
  PROVE  Busy' = Busy
BY DEF Busy, SlotsTypeOK

LEMMA BusyReset ==
  ASSUME IInv, ResetStore
  PROVE  /\ Cardinality(Busy') \in Nat /\ stale' \in Nat
         /\ Cardinality(Busy') + stale' = Cardinality(Busy) + stale
<1> DEFINE retired == {s \in Slots : state[s] \in {"FILLING", "READY_ENCODE", "COMPLETE"}}
<1>1. Busy' = Busy \ retired /\ retired \subseteq Busy
  BY DEF Busy, ResetStore, IInv, TypeOK, SlotsTypeOK, SlotStates
<1>2. stale \in Nat /\ stale' = stale + Cardinality(retired)
  BY DEF ResetStore, CountStale, IInv, TypeOK, StoreTypeOK
<1> HIDE DEF retired
<1>3. Busy \cap retired = retired
  BY <1>1
<1>4. Cardinality(Busy \ retired) = Cardinality(Busy) - Cardinality(retired)
  BY <1>3, BusyFinite, FS_Difference
<1>5. IsFiniteSet(retired) /\ Cardinality(retired) \in Nat
  BY <1>1, BusyFinite, FS_Subset, FS_CardinalityType
<1>6. Cardinality(Busy \ retired) \in Nat
  BY <1>1, BusyFinite, FS_Difference, FS_CardinalityType
<1> QED
  BY <1>1, <1>2, <1>4, <1>5, <1>6, BusyFinite

Counted == started = emitted + dropped + stale + Cardinality(Busy)

LEMMA CountedIngest ==
  ASSUME IInv, SlotCount >= 4, Counted, Ingest PROVE Counted'
<1> USE DEF IInv, TypeOK
<1>a. /\ started \in Nat /\ emitted \in Nat /\ dropped \in Nat /\ stale \in Nat
      /\ Cardinality(Busy) \in Nat
  BY BusyFinite DEF StoreTypeOK
<1>1. CASE IngestStale \/ IngestContinue \/ IngestCopy \/ IngestAbandon
  BY <1>1 DEF Counted, Busy, IngestStale, IngestContinue, IngestCopy, IngestAbandon
<1>2. CASE IngestRefused
  BY <1>2, AlwaysRoomHolds DEF IngestRefused, AlwaysRoom
<1>3. CASE IngestCommit
  <2>1. ingSlot \in Slots /\ state[ingSlot] = "FILLING"
    BY <1>3 DEF IngestCommit, StillFilling, FillingInv
  <2>2. Busy' = Busy
    BY <1>3, <2>1 DEF IngestCommit, Busy, SlotsTypeOK
  <2> QED
    BY <1>3, <2>2 DEF IngestCommit, Counted
<1>4. ASSUME NEW s \in Slots, IngestAllocate(s) PROVE Counted'
  <2>1. CASE state[s] = "FREE"
    <3>1. Busy' = Busy \cup {s} /\ s \notin Busy
      BY <1>4, <2>1 DEF IngestAllocate, Busy, SlotsTypeOK
    <3>2. Cardinality(Busy') = Cardinality(Busy) + 1
      BY <3>1, BusyFinite, FS_AddElement
    <3>3. ~Evictable(s)
      BY <2>1 DEF Evictable
    <3> QED
      BY <1>a, <1>4, <3>2, <3>3 DEF IngestAllocate, Counted
  <2>2. CASE state[s] # "FREE"
    <3>1. Evictable(s)
      BY <1>4, <2>2 DEF IngestAllocate, Allocatable
    <3>2. Busy' = Busy
      BY <1>4, <2>2, BusyKept DEF IngestAllocate
    <3> QED
      BY <1>a, <1>4, <3>1, <3>2 DEF IngestAllocate, Counted
  <2> QED
    BY <2>1, <2>2
<1> QED
  BY <1>1, <1>2, <1>3, <1>4 DEF Ingest

LEMMA CountedCodec ==
  ASSUME IInv, Counted, Codec PROVE Counted'
<1> USE DEF IInv, TypeOK
<1>a. /\ started \in Nat /\ emitted \in Nat /\ dropped \in Nat /\ stale \in Nat
      /\ Cardinality(Busy) \in Nat
  BY BusyFinite DEF StoreTypeOK
<1>b. encPc # "idle" =>
         /\ encSlot \in Slots /\ encSlot # NoSlot
         /\ state[encSlot] = IF encGen = generation THEN "ENCODING" ELSE "CANCELLED_ENCODING"
  BY DEF EncodingInv, Slots, NoSlot
<1>c. ASSUME encPc # "idle", FreeSlot(encSlot), CountStale(1) \/ CountDropped PROVE Counted'
  <2>1. Cardinality(Busy') = Cardinality(Busy) - 1
    BY <1>b, <1>c, BusyFreed DEF FreeSlot
  <2> QED
    BY <1>a, <1>c, <2>1 DEF Counted, CountStale, CountDropped
<1>1. CASE EncodeRun \/ EncodeCopy
  BY <1>1 DEF EncodeRun, EncodeCopy, Counted, Busy
<1>2. CASE EncodeSubmit
  <2>1. FindSlot(encGen, encEpoch) = encSlot
    BY <1>2 DEF EncodeSubmit, FindSlot, Matches, EncodingInv, UniqueInv, Slots
  <2>2. \/ FreeSlot(encSlot) /\ (CountStale(1) \/ CountDropped)
        \/ UNCHANGED <<state, stats>>
    BY <1>2, <2>1, <1>b DEF EncodeSubmit
  <2> QED
    BY <1>2, <1>c, <2>2 DEF EncodeSubmit, Counted, Busy
<1>3. CASE EncodeFinish
  <2>1. encPc = "finish"
    BY <1>3 DEF EncodeFinish
  <2>2. CASE FreeSlot(encSlot) /\ CountStale(1)
    BY <1>c, <2>1, <2>2
  <2>3. CASE UNCHANGED <<state, stats>>
    BY <2>3 DEF Counted, Busy
  <2>4. CASE state' = [state EXCEPT ![encSlot] = "COMPLETE"] /\ UNCHANGED stats
    <3>1. Busy' = Busy
      BY <1>b, <2>1, <2>4, BusyKept
    <3> QED
      BY <2>4, <3>1 DEF Counted
  <2> QED
    BY <1>3, <2>2, <2>3, <2>4 DEF EncodeFinish
<1>4. ASSUME NEW s \in Slots, EncodeTake(s) PROVE Counted'
  <2>1. Busy' = Busy
    BY <1>4, BusyKept DEF EncodeTake, OldestIn
  <2> QED
    BY <1>4, <2>1 DEF EncodeTake, Counted
<1> QED
  BY <1>1, <1>2, <1>3, <1>4 DEF Codec

LEMMA CountedReader ==
  ASSUME IInv, Counted, Reader PROVE Counted'
<1> USE DEF IInv, TypeOK
<1>a. /\ started \in Nat /\ emitted \in Nat /\ dropped \in Nat /\ stale \in Nat
      /\ Cardinality(Busy) \in Nat
  BY BusyFinite DEF StoreTypeOK
<1>b. ASSUME NEW f \in Slots, state[f] = "COMPLETE", DropFirst(f) PROVE Counted'
  <2>1. Cardinality(Busy') = Cardinality(Busy) - 1
    BY <1>b, BusyFreed DEF DropFirst, FreeSlot
  <2> QED
    BY <1>a, <1>b, <2>1 DEF DropFirst, CountDropped, Counted
<1>1. CASE PairCopy
  BY <1>1 DEF PairCopy, Counted, Busy
<1>2. CASE PairFinish
  <2>1. /\ rdFirst \in Slots /\ rdSecond \in Slots /\ rdFirst # rdSecond
        /\ state[rdFirst] # "FREE" /\ state[rdSecond] # "FREE"
    BY <1>2 DEF PairFinish, ReadingInv
  <2>2. CASE UNCHANGED <<state, stats>>
    BY <2>2 DEF Counted, Busy
  <2>3. CASE /\ state' = [state EXCEPT ![rdFirst] = "FREE", ![rdSecond] = "FREE"]
             /\ CountStale(2) \/ CountEmitted
    <3>1. Cardinality(Busy') = Cardinality(Busy) - 2
      BY <2>1, <2>3, BusyFreedBoth
    <3> QED
      BY <1>a, <2>3, <3>1 DEF CountStale, CountEmitted, Counted
  <2> QED
    BY <1>2, <2>2, <2>3 DEF PairFinish
<1>3. ASSUME NEW f \in Slots, NEW s \in Slots, PairClaim(f, s) PROVE Counted'
  <2>1. Busy' = Busy
    BY <1>3 DEF PairClaim, OldestIn, Partner, Busy, SlotsTypeOK
  <2> QED
    BY <1>3, <2>1 DEF PairClaim, Counted
<1>4. ASSUME NEW f \in Slots, NEW s \in Slots, PairGap(f) \/ PairMismatch(f, s) PROVE Counted'
  BY <1>b, <1>4 DEF PairGap, PairMismatch, OldestIn
<1> QED
  BY <1>1, <1>2, <1>3, <1>4 DEF Reader

LEMMA CountedUsb ==
  ASSUME IInv, Counted, Usb \/ ApplyReset PROVE Counted'
<1>a. /\ started \in Nat /\ emitted \in Nat /\ dropped \in Nat /\ stale \in Nat
      /\ Cardinality(Busy) \in Nat
  BY BusyFinite DEF IInv, TypeOK, StoreTypeOK
<1>1. CASE ResetStore
  <2>1. /\ Cardinality(Busy') \in Nat /\ stale' \in Nat
        /\ Cardinality(Busy') + stale' = Cardinality(Busy) + stale
    BY <1>1, BusyReset
  <2> QED
    BY <1>a, <1>1, <2>1 DEF ResetStore, CountStale, Counted
<1>2. CASE UNCHANGED <<state, stats>>
  BY <1>2 DEF Counted, Busy
<1> QED
  BY <1>1, <1>2 DEF Usb, ApplyReset, Arm, ResetKeepDma, ResetCancelDma, MuteSpeaker,
     UnmuteSpeaker, ApplyFlag, IngestBegin

(* No epoch leaks and none is counted twice, for four slots or more: each  *)
(* one that was started is emitted, dropped, stale, or still in a slot.    *)
THEOREM EpochsAccounted == Spec => []Accounting
<1>1. Init => Counted
  <2>1. ASSUME Init PROVE Counted
    <3>1. Busy = {}
      BY <2>1 DEF Init, Busy
    <3>2. Cardinality(Busy) = 0
      BY <3>1, FS_EmptySet
    <3> QED
      BY <2>1, <3>2 DEF Init, Counted
  <2> QED
    BY <2>1
<1>2. IInv /\ (SlotCount >= 4 => Counted) /\ [Next]_vars => (SlotCount >= 4 => Counted')
  <2> SUFFICES ASSUME IInv, Counted, SlotCount >= 4, [Next]_vars PROVE Counted'
    OBVIOUS
  <2>1. CASE Next
    BY <2>1, CountedIngest, CountedCodec, CountedReader, CountedUsb DEF Next
  <2>2. CASE UNCHANGED vars
    BY <2>2 DEF vars, Counted, Busy
  <2> QED
    BY <2>1, <2>2
<1>3. Accounting <=> (SlotCount >= 4 => Counted)
  BY DEF Accounting, Counted
<1>4. Init => Accounting
  BY <1>1, <1>3
<1>5. IInv /\ Accounting /\ [Next]_vars => Accounting'
  BY <1>2 DEF Accounting, Counted
<1> QED
  BY <1>4, <1>5, OwnershipInvariant, PTL DEF Spec
-----------------------------------------------------------------------------
(* The pairs that leave the store: what they hold, for any number of slots *)
(* from four on, any length of an epoch and any sizes of packets, and in   *)
(* which order they leave, for any number of slots.                        *)

(* The number of the first frame of an epoch, kept folded: the provers need*)
(* no more of it than what First0 and FirstNext say.                       *)
First(e) == e * EpochFrames

LEMMA First0 == First(0) = 0
BY EpochFramesAssumption DEF First

LEMMA FirstNext ==
  ASSUME NEW e \in Nat
  PROVE  First(e) \in Nat /\ First(e + 1) = First(e) + EpochFrames
BY EpochFramesAssumption DEF First

LEMMA EpochDataIs ==
  ASSUME NEW g, NEW e
  PROVE  EpochData(g, e) = [i \in 1 .. EpochFrames |-> <<g, First(e) + i - 1>>]
BY DEF EpochData, First

-----------------------------------------------------------------------------
(* Why pairs are coherent                                                  *)

Full == {"READY_ENCODE", "ENCODING", "COMPLETE", "READING"}

(* No frame of the present generation is lost or taken twice: the packet   *)
(* in hand goes on where the epoch being filled, or the last one, ends.    *)
StreamInv ==
    /\ generation >= 1
    /\ armed = NoPacket \/ (armed.gen <= generation /\ ingGen <= armed.gen)
    /\ ingGen # generation => nextEpoch = 0 /\ fillingSlot = NoSlot
    /\ ingGen = generation =>
          IF fillingSlot = NoSlot
          THEN ingNext = First(nextEpoch)
          ELSE /\ nextEpoch = slotEpoch[fillingSlot] + 1
               /\ ingNext = First(slotEpoch[fillingSlot]) + Len(pcm[fillingSlot])

(* A slot holds its frames and, once encoded, their packet.                *)
SlotDataInv ==
    \A s \in Slots :
        /\ state[s] = "FILLING" =>
              \A i \in 1 .. Len(pcm[s]) : pcm[s][i] = <<slotGen[s], First(slotEpoch[s]) + i - 1>>
        /\ state[s] \in Full => pcm[s] = EpochData(slotGen[s], slotEpoch[s])
        /\ state[s] \in {"COMPLETE", "READING"} /\ slotSpeaker[s]
              => opus[s] = EpochData(slotGen[s], slotEpoch[s])

(* So do the encoder's job and the pair being built, unless a reset        *)
(* cancelled them.                                                         *)
JobInv ==
    encGen = generation =>
        /\ encPc \in {"submit", "copy"} => encData = EpochData(encGen, encEpoch)
        /\ encPc = "finish" => opus[encSlot] = EpochData(encGen, encEpoch)

PairInv ==
    rdGen = generation =>
        /\ rdPc \in {"copy", "finish"} =>
              slotSpeaker[rdFirst] = rdSpeaker /\ slotSpeaker[rdSecond] = rdSpeaker
        /\ rdPc = "finish" =>
              LET data == <<EpochData(rdGen, rdEpoch), EpochData(rdGen, rdEpoch + 1)>>
              IN  rdHaptics = data /\ (rdSpeaker => rdOpus = data)

OutInv ==
    out # NoPair =>
        LET data == <<EpochData(out.gen, out.epoch), EpochData(out.gen, out.epoch + 1)>>
        IN  out.haptics = data /\ (out.speaker => out.opus = data)

DInv == StreamInv /\ SlotDataInv /\ JobInv /\ PairInv /\ OutInv

USE DEF Full

(* The types these proofs need.                                            *)
LEMMA DataTypes ==
  ASSUME IInv
  PROVE  /\ state \in [Slots -> SlotStates] /\ slotGen \in [Slots -> Nat]
         /\ slotEpoch \in [Slots -> Nat] /\ slotSpeaker \in [Slots -> BOOLEAN]
         /\ pcm \in [Slots -> Seq(Frames)] /\ opus \in [Slots -> Seq(Frames)]
         /\ generation \in Nat /\ nextEpoch \in Nat /\ fillingSlot \in Slots \cup {NoSlot}
         /\ ingGen \in Nat /\ ingNext \in Nat /\ ingLeft \in Nat /\ ingAt \in 0 .. EpochFrames
         /\ armed.gen \in Nat /\ encGen \in Nat /\ encEpoch \in Nat
         /\ rdGen \in Nat /\ rdEpoch \in Nat
BY DEF IInv, TypeOK, SlotsTypeOK, DataTypeOK, StoreTypeOK, IngestTypeOK, CodecTypeOK,
   ReaderTypeOK, Packets

(* Jobs and pairs are of the present generation or an earlier one.         *)
LEMMA NotAhead ==
  ASSUME IInv
  PROVE  /\ encPc # "idle" => encGen <= generation
         /\ rdPc \in {"copy", "finish"} => rdGen <= generation
         /\ ingGen <= generation /\ armed.gen <= generation
<1>0. \A s \in Slots : state[s] \in {"ENCODING", "CANCELLED_ENCODING", "READING",
                                    "CANCELLED_READING"} => slotGen[s] <= generation
  <2>1. GenerationInv /\ slotGen \in [Slots -> Nat] /\ generation \in Nat
    BY DataTypes DEF IInv
  <2> QED
    BY ONLY <2>1 DEF GenerationInv, Live, Cancelled
<1>1. encPc # "idle" =>
        /\ encSlot \in Slots /\ slotGen[encSlot] = encGen
        /\ state[encSlot] \in {"ENCODING", "CANCELLED_ENCODING"}
  BY DEF IInv, EncodingInv
<1>2. rdPc \in {"copy", "finish"} =>
        /\ rdFirst \in Slots /\ slotGen[rdFirst] = rdGen
        /\ state[rdFirst] \in {"READING", "CANCELLED_READING"}
  BY DEF IInv, ReadingInv
<1> QED
  BY <1>0, <1>1, <1>2 DEF IInv, GenerationInv

LEMMA InitDInv == Init => DInv
BY First0 DEF Init, DInv, StreamInv, SlotDataInv, JobInv, PairInv, OutInv

(* Slots may go back or stay; the data, and the packet in hand, stay.      *)
LEMMA SlotDataKept ==
  ASSUME SlotDataInv, UNCHANGED <<slotGen, slotEpoch, slotSpeaker, pcm, opus>>,
         \A s \in Slots :
            /\ state'[s] = "FILLING" => state[s] = "FILLING"
            /\ state'[s] \in Full => state[s] \in Full
            /\ state'[s] \in {"COMPLETE", "READING"} => state[s] \in {"COMPLETE", "READING"}
  PROVE  SlotDataInv'
BY DEF SlotDataInv

LEMMA StreamKept ==
  ASSUME StreamInv, UNCHANGED <<generation, armed, nextEpoch, fillingSlot, slotEpoch, pcm,
                                ingGen, ingNext>>
  PROVE  StreamInv'
BY DEF StreamInv

LEMMA JobKept ==
  ASSUME JobInv, UNCHANGED <<generation, opus, encGen, encEpoch, encSlot, encData>>,
         encPc' = encPc \/ encPc' = "idle" \/ (encPc = "submit" /\ encPc' = "copy")
  PROVE  JobInv'
BY DEF JobInv

LEMMA PairKept ==
  ASSUME PairInv, UNCHANGED <<generation, slotSpeaker, rdFirst, rdSecond, rdGen, rdEpoch,
                              rdSpeaker, rdHaptics, rdOpus>>,
         rdPc' = rdPc \/ rdPc' \in {"idle", "apply"}
  PROVE  PairInv'
BY DEF PairInv

LEMMA OutKept == ASSUME OutInv, UNCHANGED out PROVE OutInv'
BY DEF OutInv

-----------------------------------------------------------------------------
LEMMA DataBegin ==
  ASSUME IInv, DInv, NEW len \in PacketSizes, IngestBegin(len) PROVE DInv'
<1> USE DataTypes DEF IngestBegin, DInv
<1>1. armed'.gen = generation /\ ingGen' = armed.gen /\ armed.gen <= generation
  BY NotAhead DEF NextPacket
<1>2. StreamInv'
  <2>1. ingGen' # generation => nextEpoch = 0 /\ fillingSlot = NoSlot
    BY <1>1, NotAhead DEF StreamInv
  <2>2. ingGen' = generation /\ ingGen = generation => ingNext' = ingNext
    BY <1>1
  <2>3. ingGen' = generation /\ ingGen # generation =>
          ingNext' = First(nextEpoch) /\ fillingSlot = NoSlot
    BY <1>1, First0 DEF StreamInv
  <2> QED
    BY <1>1, <2>1, <2>2, <2>3 DEF StreamInv
<1>3. SlotDataInv'
  BY SlotDataKept
<1> QED
  BY <1>2, <1>3, JobKept, PairKept, OutKept

LEMMA DataAllocate ==
  ASSUME IInv, DInv, NEW s \in Slots, IngestAllocate(s) PROVE DInv'
<1> USE DataTypes DEF IngestAllocate, DInv
<1>1. /\ state[s] \in {"FREE", "READY_ENCODE", "COMPLETE"} /\ fillingSlot = NoSlot
      /\ ingGen = generation
  BY DEF Allocatable, Evictable
<1>2. /\ state'[s] = "FILLING" /\ slotEpoch'[s] = nextEpoch /\ pcm'[s] = <<>>
      /\ \A t \in Slots : t # s => /\ state'[t] = state[t] /\ slotGen'[t] = slotGen[t]
                                   /\ slotEpoch'[t] = slotEpoch[t] /\ pcm'[t] = pcm[t]
                                   /\ slotSpeaker'[t] = slotSpeaker[t]
  OBVIOUS
<1>3. StreamInv'
  <2>1. ingNext' = First(slotEpoch'[s]) + Len(pcm'[s]) /\ nextEpoch' = slotEpoch'[s] + 1
    BY <1>1, <1>2, FirstNext DEF StreamInv
  <2>2. fillingSlot' = s /\ s # NoSlot
    BY DEF Slots, NoSlot
  <2> QED
    BY <1>1, <2>1, <2>2 DEF StreamInv
<1>4. SlotDataInv'
  <2> SUFFICES ASSUME NEW t \in Slots
               PROVE  /\ state'[t] = "FILLING" =>
                           \A i \in 1 .. Len(pcm'[t]) :
                              pcm'[t][i] = <<slotGen'[t], First(slotEpoch'[t]) + i - 1>>
                      /\ state'[t] \in Full => pcm'[t] = EpochData(slotGen'[t], slotEpoch'[t])
                      /\ state'[t] \in {"COMPLETE", "READING"} /\ slotSpeaker'[t]
                           => opus'[t] = EpochData(slotGen'[t], slotEpoch'[t])
    BY DEF SlotDataInv
  <2>1. CASE t = s
    <3>1. \A i \in 1 .. Len(pcm'[t]) : FALSE
      BY ONLY <1>2, <2>1
    <3> QED
      BY <1>2, <2>1, <3>1
  <2>2. CASE t # s
    BY ZenonT(30), <1>2, <2>2 DEF SlotDataInv
  <2> QED
    BY <2>1, <2>2
<1>5. PairInv'
  <2>1. rdPc \in {"copy", "finish"} => rdFirst # s /\ rdSecond # s
                                      /\ rdFirst \in Slots /\ rdSecond \in Slots
    BY <1>1 DEF IInv, ReadingInv
  <2> QED
    BY <1>2, <2>1 DEF PairInv
<1> QED
  BY <1>3, <1>4, <1>5, JobKept, OutKept

(* A packet is only left behind when a reset made it stale.                *)
LEMMA DataLeave ==
  ASSUME SlotCount >= 4, IInv, DInv, IngestStale \/ IngestAbandon \/ IngestRefused
  PROVE  DInv'
<1> USE DEF IngestStale, IngestAbandon, IngestRefused, LeavePacket, DInv, CountDropped
<1>1. ingGen # generation
  <2>1. CASE IngestStale
    BY <2>1
  <2>2. CASE IngestAbandon
    BY <2>2 DEF StillFilling, IInv, FillingInv, GenerationInv, Live
  <2>3. ~IngestRefused
    BY AlwaysRoomHolds DEF AlwaysRoom
  <2> QED
    BY <2>1, <2>2, <2>3
<1>2. StreamInv'
  BY <1>1 DEF StreamInv
<1>3. SlotDataInv'
  BY SlotDataKept
<1> QED
  BY <1>2, <1>3, JobKept, PairKept, OutKept

LEMMA DataContinue ==
  ASSUME IInv, DInv, IngestContinue PROVE DInv'
<1> USE DEF IngestContinue, DInv
<1>1. UNCHANGED fillingSlot
  BY DataTypes DEF IInv, FillingInv
<1>2. SlotDataInv'
  BY SlotDataKept
<1> QED
  BY <1>1, <1>2, StreamKept, JobKept, PairKept, OutKept

(* The frames copied go on where those of the slot end.                    *)
LEMMA DataCopy ==
  ASSUME IInv, DInv, IngestCopy PROVE DInv'
<1> USE DataTypes DEF IngestCopy
<1>1. ingSlot \in Slots /\ ingAt = Len(pcm[ingSlot]) /\ pcm[ingSlot] \in Seq(Frames)
  BY DEF IInv, FillingInv
<1>2. Chunk \in Nat
  <2>1. ingLeft \in Nat /\ ingAt \in 0 .. EpochFrames
    OBVIOUS
  <2> QED
    BY ONLY <2>1, EpochFramesAssumption DEF Chunk
<1>3. NewFrames \in Seq(Frames) /\ Len(NewFrames) = Chunk
  BY <1>2, NewFramesType DEF IInv, TypeOK
<1>4. /\ pcm'[ingSlot] = pcm[ingSlot] \o NewFrames
      /\ \A t \in Slots : t # ingSlot => pcm'[t] = pcm[t]
  <2>1. SubSeq(pcm[ingSlot], 1, ingAt) = pcm[ingSlot]
    BY <1>1, SubSeqFull
  <2> QED
    BY <1>1, <2>1
<1>5. /\ Len(pcm'[ingSlot]) = Len(pcm[ingSlot]) + Chunk
      /\ \A i \in 1 .. Len(pcm[ingSlot]) + Chunk :
            pcm'[ingSlot][i] = IF i <= Len(pcm[ingSlot]) THEN pcm[ingSlot][i]
                               ELSE NewFrames[i - Len(pcm[ingSlot])]
  <2> DEFINE d == pcm[ingSlot]
  <2>1. /\ Len(d \o NewFrames) = Len(d) + Len(NewFrames)
        /\ \A i \in 1 .. Len(d) + Len(NewFrames) :
              (d \o NewFrames)[i] = IF i <= Len(d) THEN d[i] ELSE NewFrames[i - Len(d)]
    BY ONLY <1>1, <1>3, ConcatProperties
  <2> QED
    BY ONLY <1>3, <1>4, <2>1
<1>6. StreamInv' /\ SlotDataInv'
  <2>1. CASE ingGen # generation
    <3>1. state[ingSlot] = "FREE" /\ fillingSlot = NoSlot
      BY <2>1 DEF IInv, FillingInv
    <3>2. SlotDataInv'
      BY <1>4, <3>1 DEF DInv, SlotDataInv
    <3>3. StreamInv'
      BY <2>1 DEF DInv, StreamInv
    <3> QED
      BY <3>2, <3>3
  <2>2. CASE ingGen = generation
    <3>1. fillingSlot = ingSlot /\ ingSlot # NoSlot
      BY <1>1, <2>2 DEF IInv, FillingInv, NoSlot, Slots
    <3>2. state[ingSlot] = "FILLING" /\ slotGen[ingSlot] = generation
      BY <1>1, <3>1 DEF IInv, FillingInv, GenerationInv, Live
    <3> DEFINE len == Len(pcm[ingSlot])
    <3>3. ingNext = First(slotEpoch[ingSlot]) + len /\ nextEpoch = slotEpoch[ingSlot] + 1
      BY <2>2, <3>1 DEF DInv, StreamInv
    <3>4. len \in Nat /\ First(slotEpoch[ingSlot]) \in Nat
      BY <1>1, FirstNext, LenProperties
    <3>5. ingNext' = First(slotEpoch[ingSlot]) + Len(pcm'[ingSlot])
      <4>1. ingNext' = ingNext + Chunk
        OBVIOUS
      <4> QED
        BY ONLY <1>2, <1>5, <3>3, <3>4, <4>1
    <3>6. StreamInv'
      BY <2>2, <3>1, <3>3, <3>5 DEF DInv, StreamInv
    <3>7. \A i \in 1 .. Len(pcm'[ingSlot]) :
            pcm'[ingSlot][i] = <<slotGen[ingSlot], First(slotEpoch[ingSlot]) + i - 1>>
      <4> SUFFICES ASSUME NEW i \in 1 .. len + Chunk
                   PROVE pcm'[ingSlot][i] = <<slotGen[ingSlot], First(slotEpoch[ingSlot]) + i - 1>>
        BY <1>5
      <4>1. CASE i <= len
        <5>1. i \in 1 .. len
          BY ONLY <1>2, <3>4, <4>1
        <5>2. pcm[ingSlot][i] = <<slotGen[ingSlot], First(slotEpoch[ingSlot]) + i - 1>>
          BY <1>1, <3>2, <5>1 DEF DInv, SlotDataInv
        <5> QED
          BY ONLY <1>5, <4>1, <5>2
      <4>2. CASE i > len
        <5>1. i - len \in 1 .. Chunk
          BY SMTT(30), <1>2, <3>4, <4>2
        <5>2. NewFrames[i - len] = <<ingGen, ingNext + (i - len) - 1>>
          BY <5>1 DEF NewFrames
        <5>3. ingNext + (i - len) - 1 = First(slotEpoch[ingSlot]) + i - 1
          BY ONLY <1>2, <3>3, <3>4
        <5>4. pcm'[ingSlot][i] = NewFrames[i - len]
          BY ONLY <1>2, <1>5, <3>4, <4>2
        <5> QED
          BY <2>2, <3>2, <5>2, <5>3, <5>4
      <4> QED
        BY ONLY <1>2, <3>4, <4>1, <4>2
    <3>8. SlotDataInv'
      BY <1>4, <3>2, <3>7 DEF DInv, SlotDataInv
    <3> QED
      BY <3>6, <3>8
  <2> QED
    BY <2>1, <2>2
<1> QED
  BY <1>6, JobKept, PairKept, OutKept DEF DInv

(* A slot with all its frames holds the data of its epoch.                 *)
LEMMA FullIsEpochData ==
  ASSUME NEW g, NEW e, NEW d \in Seq(Frames), Len(d) = EpochFrames,
         \A i \in 1 .. Len(d) : d[i] = <<g, First(e) + i - 1>>
  PROVE  d = EpochData(g, e)
<1>1. d = [i \in 1 .. EpochFrames |-> d[i]]
  BY LenProperties
<1> QED
  BY <1>1, EpochDataIs

LEMMA DataCommit ==
  ASSUME IInv, DInv, IngestCommit PROVE DInv'
<1> USE DataTypes DEF IngestCommit, StillFilling, DInv
<1>1. /\ ingSlot \in Slots /\ state[ingSlot] = "FILLING" /\ ingSlot # NoSlot
      /\ ingAt = Len(pcm[ingSlot]) /\ ingGen = generation /\ fillingSlot = ingSlot
  BY DEF IInv, FillingInv, Slots, NoSlot
<1>2. CASE ingAt # EpochFrames
  <2>1. SlotDataInv'
    BY <1>2, SlotDataKept
  <2> QED
    BY <1>2, <2>1, StreamKept, JobKept, PairKept, OutKept
<1>3. CASE ingAt = EpochFrames
  <2>1. pcm[ingSlot] = EpochData(slotGen[ingSlot], slotEpoch[ingSlot])
    <3>1. /\ pcm[ingSlot] \in Seq(Frames) /\ Len(pcm[ingSlot]) = EpochFrames
          /\ \A i \in 1 .. Len(pcm[ingSlot]) :
                pcm[ingSlot][i] = <<slotGen[ingSlot], First(slotEpoch[ingSlot]) + i - 1>>
      BY <1>1, <1>3 DEF SlotDataInv
    <3> QED
      BY ONLY <3>1, FullIsEpochData
  <2>2. \/ state'[ingSlot] = "READY_ENCODE"
        \/ state'[ingSlot] = "COMPLETE" /\ ~slotSpeaker[ingSlot]
    BY <1>1, <1>3
  <2>3. \A t \in Slots : t # ingSlot => state'[t] = state[t]
    BY <1>3
  <2>4. SlotDataInv'
    BY <2>1, <2>2, <2>3 DEF SlotDataInv
  <2>5. ingNext = First(nextEpoch) /\ fillingSlot' = NoSlot
    <3>1. /\ nextEpoch = slotEpoch[ingSlot] + 1
          /\ ingNext = First(slotEpoch[ingSlot]) + EpochFrames
      BY <1>1, <1>3 DEF StreamInv
    <3> QED
      BY <1>1, <1>3, <3>1, FirstNext
  <2>6. StreamInv'
    BY <1>1, <2>5 DEF StreamInv
  <2> QED
    BY <2>4, <2>6, JobKept, PairKept, OutKept
<1> QED
  BY <1>2, <1>3

-----------------------------------------------------------------------------
LEMMA DataEncodeTake ==
  ASSUME IInv, DInv, NEW s \in Slots, EncodeTake(s) PROVE DInv'
<1> USE DataTypes DEF EncodeTake, OldestIn, DInv
<1>1. SlotDataInv'
  BY SlotDataKept
<1>2. JobInv'
  BY DEF JobInv
<1> QED
  BY <1>1, <1>2, StreamKept, PairKept, OutKept

(* The job's slot still holds its epoch when the encoder reads it.         *)
LEMMA DataEncodeRun ==
  ASSUME IInv, DInv, EncodeRun PROVE DInv'
<1> USE DEF EncodeRun, DInv
<1>1. SlotDataInv'
  BY SlotDataKept
<1>2. JobInv'
  BY DEF JobInv, SlotDataInv, IInv, EncodingInv
<1> QED
  BY <1>1, <1>2, StreamKept, PairKept, OutKept

LEMMA DataEncodeSubmit ==
  ASSUME IInv, DInv, EncodeSubmit PROVE DInv'
<1> USE DataTypes DEF EncodeSubmit, FreeSlot, DInv
<1>1. /\ encSlot \in Slots /\ encSlot # NoSlot
      /\ state[encSlot] \in {"ENCODING", "CANCELLED_ENCODING"}
  <2>1. encSlot \in Slots /\ state[encSlot] \in {"ENCODING", "CANCELLED_ENCODING"}
    BY DEF IInv, EncodingInv
  <2>2. \A s \in Slots : s # NoSlot
    BY ONLY SlotCountAssumption DEF Slots, NoSlot
  <2> QED
    BY <2>1, <2>2
<1>2. FindSlot(encGen, encEpoch) = encSlot
  <2>1. Matches(encSlot, encGen, encEpoch)
    BY <1>1 DEF Matches, IInv, EncodingInv
  <2>2. \A s \in Slots : Matches(s, encGen, encEpoch) => s = encSlot
    BY <1>1, <2>1 DEF Matches, IInv, UniqueInv
  <2>3. \A t \in 0 .. encSlot - 1 : t \in Slots /\ t # encSlot
    BY ONLY <1>1, SlotCountAssumption DEF Slots
  <2> QED
    BY ONLY <1>1, <2>1, <2>2, <2>3 DEF FindSlot
<1>3. /\ state' = state \/ state' = [state EXCEPT ![encSlot] = "FREE"]
      /\ encPc' \in {"idle", "copy"} /\ UNCHANGED encSlot
  BY <1>1, <1>2
<1>4. SlotDataInv'
  BY <1>1, <1>3, SlotDataKept
<1> QED
  BY <1>3, <1>4, StreamKept, JobKept, PairKept, OutKept

LEMMA DataEncodeCopy ==
  ASSUME IInv, DInv, EncodeCopy PROVE DInv'
<1> USE DataTypes DEF EncodeCopy, DInv
<1>1. /\ encSlot \in Slots /\ state[encSlot] \in {"ENCODING", "CANCELLED_ENCODING"}
  BY DEF IInv, EncodingInv
<1>2. opus'[encSlot] = encData /\ \A t \in Slots : t # encSlot => opus'[t] = opus[t]
  BY <1>1
<1>3. SlotDataInv'
  BY <1>1, <1>2 DEF SlotDataInv
<1>4. JobInv'
  BY <1>2 DEF JobInv
<1> QED
  BY <1>3, <1>4, StreamKept, PairKept, OutKept

LEMMA DataEncodeFinish ==
  ASSUME IInv, DInv, EncodeFinish PROVE DInv'
<1> USE DataTypes DEF EncodeFinish, FreeSlot, DInv
<1>1. /\ encSlot \in Slots
      /\ slotGen[encSlot] = encGen /\ slotEpoch[encSlot] = encEpoch
      /\ state[encSlot] = IF encGen = generation THEN "ENCODING" ELSE "CANCELLED_ENCODING"
  BY DEF IInv, EncodingInv
<1>2. \/ state' = state \/ state' = [state EXCEPT ![encSlot] = "FREE"]
      \/ encGen = generation /\ state' = [state EXCEPT ![encSlot] = "COMPLETE"]
  BY <1>1
<1>3. encGen = generation =>
         opus[encSlot] = EpochData(slotGen[encSlot], slotEpoch[encSlot])
  BY <1>1 DEF JobInv
<1>4. SlotDataInv'
  <2>1. CASE state' = state \/ state' = [state EXCEPT ![encSlot] = "FREE"]
    BY <1>1, <2>1, SlotDataKept
  <2>2. CASE encGen = generation /\ state' = [state EXCEPT ![encSlot] = "COMPLETE"]
    <3>1. state[encSlot] = "ENCODING" /\ state'[encSlot] = "COMPLETE"
          /\ \A t \in Slots : t # encSlot => state'[t] = state[t]
      BY <1>1, <2>2
    <3> QED
      BY <1>1, <1>3, <2>2, <3>1 DEF SlotDataInv
  <2> QED
    BY <1>2, <2>1, <2>2
<1> QED
  BY <1>4, StreamKept, JobKept, PairKept, OutKept

-----------------------------------------------------------------------------
LEMMA DataDrop ==
  ASSUME IInv, DInv, NEW f \in Slots, DropFirst(f) PROVE DInv'
<1> USE DataTypes DEF DropFirst, FreeSlot, CountDropped, DInv
<1>1. SlotDataInv'
  BY SlotDataKept
<1> QED
  BY <1>1, StreamKept, JobKept, PairKept, OutKept

LEMMA DataClaim ==
  ASSUME IInv, DInv, NEW f \in Slots, NEW s \in Slots, PairClaim(f, s) PROVE DInv'
<1> USE DataTypes DEF PairClaim, OldestIn, Partner, DInv
<1>1. SlotDataInv'
  BY SlotDataKept
<1>2. PairInv'
  BY DEF PairInv
<1> QED
  BY <1>1, <1>2, StreamKept, JobKept, OutKept

(* The pair's slots still hold their epochs when they are copied.          *)
LEMMA DataPairCopy ==
  ASSUME IInv, DInv, PairCopy PROVE DInv'
<1> USE DataTypes DEF PairCopy, DInv
<1>1. SlotDataInv'
  BY SlotDataKept
<1>2. PairInv'
  <2> SUFFICES ASSUME rdGen = generation
               PROVE  /\ slotSpeaker[rdFirst] = rdSpeaker /\ slotSpeaker[rdSecond] = rdSpeaker
                      /\ rdHaptics' = <<EpochData(rdGen, rdEpoch), EpochData(rdGen, rdEpoch + 1)>>
                      /\ rdSpeaker =>
                           rdOpus' = <<EpochData(rdGen, rdEpoch), EpochData(rdGen, rdEpoch + 1)>>
    BY DEF PairInv
  <2>1. /\ rdFirst \in Slots /\ rdSecond \in Slots
        /\ slotGen[rdFirst] = rdGen /\ slotEpoch[rdFirst] = rdEpoch
        /\ slotGen[rdSecond] = rdGen /\ slotEpoch[rdSecond] = rdEpoch + 1
        /\ state[rdFirst] = "READING" /\ state[rdSecond] = "READING"
    BY DEF IInv, ReadingInv
  <2>2. slotSpeaker[rdFirst] = rdSpeaker /\ slotSpeaker[rdSecond] = rdSpeaker
    BY DEF PairInv
  <2>3. /\ pcm[rdFirst] = EpochData(rdGen, rdEpoch)
        /\ pcm[rdSecond] = EpochData(rdGen, rdEpoch + 1)
    BY <2>1 DEF SlotDataInv
  <2>4. rdSpeaker => /\ opus[rdFirst] = EpochData(rdGen, rdEpoch)
                     /\ opus[rdSecond] = EpochData(rdGen, rdEpoch + 1)
    BY <2>1, <2>2 DEF SlotDataInv
  <2> QED
    BY <2>2, <2>3, <2>4
<1> QED
  BY <1>1, <1>2, StreamKept, JobKept, OutKept

LEMMA DataPairFinish ==
  ASSUME IInv, DInv, PairFinish PROVE DInv'
<1> USE DataTypes DEF PairFinish, DInv
<1>1. rdFirst \in Slots /\ rdSecond \in Slots
  BY DEF IInv, ReadingInv
<1>2. \/ state' = state
      \/ state' = [state EXCEPT ![rdFirst] = "FREE", ![rdSecond] = "FREE"]
  OBVIOUS
<1>3. SlotDataInv'
  BY <1>1, <1>2, SlotDataKept
<1>4. OutInv'
  <2>1. CASE UNCHANGED out
    BY <2>1, OutKept
  <2>2. CASE out' = PairBuilt /\ rdGen = generation
    BY <2>2 DEF PairInv, OutInv, PairBuilt
  <2> QED
    BY <2>1, <2>2
<1> QED
  BY <1>3, <1>4, StreamKept, JobKept, PairKept

-----------------------------------------------------------------------------
(* A reset leaves no live slot, and makes every packet, job and pair stale.*)
LEMMA DataReset ==
  ASSUME IInv, DInv, ResetStore, armed' \in {armed, NoPacket},
         rdPc' = rdPc \/ (rdPc = "apply" /\ rdPc' = "idle"),
         UNCHANGED <<rdFirst, rdSecond, rdGen, rdEpoch, rdSpeaker, rdHaptics, rdOpus>>
  PROVE  DInv'
<1> USE DataTypes DEF ResetStore, DInv
<1>1. \A s \in Slots : state'[s] \in {"FREE", "CANCELLED_ENCODING", "CANCELLED_READING"}
  OBVIOUS
<1>2. SlotDataInv'
  BY <1>1 DEF SlotDataInv
<1>3. StreamInv'
  <2>1. /\ ingGen \in Nat /\ generation \in Nat /\ armed.gen \in Nat
        /\ ingGen <= generation /\ armed.gen <= generation
    BY NotAhead
  <2>2. /\ generation' = generation + 1 /\ nextEpoch' = 0 /\ fillingSlot' = NoSlot
        /\ ingGen' = ingGen
    OBVIOUS
  <2>3. armed' = NoPacket \/ (armed'.gen <= generation' /\ ingGen' <= armed'.gen)
    BY <2>1, <2>2 DEF StreamInv
  <2>4. generation >= 1
    BY DEF StreamInv
  <2> QED
    BY ONLY <2>1, <2>2, <2>3, <2>4 DEF StreamInv
<1>4. /\ encPc \in {"submit", "copy", "finish"} => encGen' # generation'
      /\ rdPc \in {"copy", "finish"} => rdGen' # generation'
  <2>1. /\ encPc # "idle" => encGen <= generation
        /\ rdPc \in {"copy", "finish"} => rdGen <= generation
    BY NotAhead
  <2>2. generation \in Nat /\ encGen \in Nat /\ rdGen \in Nat
    OBVIOUS
  <2>3. generation' = generation + 1 /\ encGen' = encGen /\ rdGen' = rdGen
    OBVIOUS
  <2> QED
    BY ONLY <2>1, <2>2, <2>3
<1>5. JobInv'
  BY <1>4 DEF JobInv
<1>6. PairInv'
  BY <1>4 DEF PairInv
<1> QED
  BY <1>2, <1>3, <1>5, <1>6, OutKept

LEMMA DataFlags ==
  ASSUME IInv, DInv, Arm \/ UnmuteSpeaker \/ ApplyFlag PROVE DInv'
<1> USE DataTypes DEF Arm, UnmuteSpeaker, ApplyFlag, DInv
<1>1. SlotDataInv'
  BY SlotDataKept
<1>2. StreamInv'
  <2>1. CASE Arm
    BY <2>1, NotAhead DEF StreamInv, NextPacket
  <2>2. CASE ~Arm
    BY <2>2, StreamKept
  <2> QED
    BY <2>1, <2>2
<1> QED
  BY <1>1, <1>2, JobKept, PairKept, OutKept

LEMMA DataStutter == ASSUME DInv, UNCHANGED vars PROVE DInv'
<1> USE DEF vars, DInv
<1>1. SlotDataInv'
  BY SlotDataKept
<1> QED
  BY <1>1, StreamKept, JobKept, PairKept, OutKept

LEMMA DataNext == ASSUME SlotCount >= 4, IInv, DInv, [Next]_vars PROVE DInv'
<1>1. CASE Ingest
  BY <1>1, DataLeave, DataContinue, DataCopy, DataCommit, DataAllocate DEF Ingest
<1>2. CASE Codec
  BY <1>2, DataEncodeRun, DataEncodeSubmit, DataEncodeCopy, DataEncodeFinish,
     DataEncodeTake DEF Codec
<1>3. CASE Reader
  <2>1. ASSUME NEW f \in Slots, NEW s \in Slots, PairMismatch(f, s) \/ PairGap(f) PROVE DInv'
    BY <2>1, DataDrop DEF PairMismatch, PairGap
  <2> QED
    BY <1>3, <2>1, DataPairCopy, DataPairFinish, DataClaim DEF Reader
<1>4. CASE ResetKeepDma \/ ResetCancelDma \/ MuteSpeaker \/ ApplyReset
  <2>1. /\ ResetStore /\ armed' \in {armed, NoPacket}
        /\ rdPc' = rdPc \/ (rdPc = "apply" /\ rdPc' = "idle")
        /\ UNCHANGED <<rdFirst, rdSecond, rdGen, rdEpoch, rdSpeaker, rdHaptics, rdOpus>>
    BY <1>4 DEF ResetKeepDma, ResetCancelDma, MuteSpeaker, ApplyReset
  <2> QED
    BY <2>1, DataReset
<1>5. CASE \E len \in PacketSizes : IngestBegin(len)
  BY <1>5, DataBegin
<1>6. CASE Arm \/ UnmuteSpeaker \/ ApplyFlag
  BY <1>6, DataFlags
<1>7. CASE UNCHANGED vars
  BY <1>7, DataStutter
<1> QED
  BY <1>1, <1>2, <1>3, <1>4, <1>5, <1>6, <1>7 DEF Next, Usb

(* Whatever is evicted, fails or is reset between the steps of the three   *)
(* tasks, a pair handed to Bluetooth holds the consecutive frames its      *)
(* generation and epoch stand for and the Opus packets of those frames.    *)
THEOREM PairsCoherent == Spec => []PairCoherent
<1>1. Init => (SlotCount >= 4 => DInv)
  BY InitDInv
<1>2. IInv /\ (SlotCount >= 4 => DInv) /\ [Next]_vars => (SlotCount >= 4 => DInv)'
  BY DataNext
<1>3. (SlotCount >= 4 => DInv) => PairCoherent
  BY DEF DInv, OutInv, PairCoherent
<1> QED
  BY <1>1, <1>2, <1>3, OwnershipInvariant, PTL DEF Spec

-----------------------------------------------------------------------------
(* Why pairs leave in order                                                *)

Audible == enabled /\ ~muted
Waiting == {"READY_ENCODE", "ENCODING"}
Encoded == {"COMPLETE", "READING"}

(* Within a generation the speaker is only ever turned on, from the flags  *)
(* over the armed packet and the packet in hand to the slots, oldest last. *)
(* While set_audio_speaker_enabled owes its reset this does not hold, but  *)
(* then the task that takes pairs is busy there.                           *)
SpeakerInv ==
    rdPc # "apply" =>
      /\ armed.gen = generation /\ armed.speaker => Audible
      /\ ingGen = generation /\ ingSpeaker =>
            /\ Audible
            /\ armed.gen = generation => armed.speaker
      /\ \A s \in Slots : state[s] \in Live /\ slotSpeaker[s] =>
            /\ Audible
            /\ armed.gen = generation => armed.speaker
            /\ ingGen = generation => ingSpeaker
            /\ \A t \in Slots : state[t] \in Live /\ slotEpoch[s] < slotEpoch[t]
                  => slotSpeaker[t]

(* Epochs with a speaker are encoded in the order they were filled.        *)
QueueInv ==
    /\ \A s \in Slots : state[s] \in Waiting => slotSpeaker[s]
    /\ \A s, t \in Slots :
          /\ state[s] \in Full /\ state[t] = "FILLING" => slotEpoch[s] < slotEpoch[t]
          /\ state[s] \in Encoded /\ slotSpeaker[s] /\ state[t] \in Waiting
                => slotEpoch[s] < slotEpoch[t]
          /\ state[s] = "ENCODING" /\ state[t] = "READY_ENCODE"
                => slotEpoch[s] < slotEpoch[t]

(* What is still to be sent is later than the last pair, and all but the   *)
(* pair in hand is later than that.                                        *)
SentInv ==
    /\ out.gen <= generation
    /\ out.gen = generation =>
          /\ nextEpoch >= out.epoch + 2
          /\ \A s \in Slots : state[s] \in Live => slotEpoch[s] >= out.epoch + 2
    /\ rdPc \in {"copy", "finish"} /\ rdGen = generation =>
          \A s \in Slots : state[s] \in Live /\ s \notin {rdFirst, rdSecond}
              => slotEpoch[s] > rdEpoch + 1

OInv == SpeakerInv /\ QueueInv /\ SentInv

USE DEF Audible, Waiting, Encoded

(* The types these proofs need.                                            *)
LEMMA OrderTypes ==
  ASSUME IInv
  PROVE  /\ state \in [Slots -> SlotStates] /\ slotGen \in [Slots -> Nat]
         /\ slotEpoch \in [Slots -> Nat] /\ slotSpeaker \in [Slots -> BOOLEAN]
         /\ generation \in Nat /\ nextEpoch \in Nat
         /\ ingGen \in Nat /\ ingSpeaker \in BOOLEAN
         /\ armed.gen \in Nat /\ armed.speaker \in BOOLEAN
         /\ enabled \in BOOLEAN /\ muted \in BOOLEAN
         /\ out.gen \in Nat /\ out.epoch \in Nat /\ rdGen \in Nat /\ rdEpoch \in Nat
BY DEF IInv, TypeOK, SlotsTypeOK, DataTypeOK, StoreTypeOK, IngestTypeOK, ReaderTypeOK,
   Packets, Pairs

LEMMA InitOInv == Init => OInv
BY DEF Init, OInv, SpeakerInv, QueueInv, SentInv, NoPacket, NoPair, Live

(* Slots may leave the live states; nothing else moves.                    *)
LEMMA SpeakerKept ==
  ASSUME SpeakerInv, rdPc' # "apply" => rdPc # "apply",
         UNCHANGED <<slotEpoch, slotSpeaker, generation, armed, enabled, muted, ingGen, ingSpeaker>>,
         \A s \in Slots : state'[s] \in Live => state[s] \in Live
  PROVE  SpeakerInv'
BY DEF SpeakerInv

LEMMA SentKept ==
  ASSUME SentInv, rdPc' \in {"copy", "finish"} => rdPc \in {"copy", "finish"},
         UNCHANGED <<slotEpoch, generation, nextEpoch, rdFirst, rdSecond, rdGen, rdEpoch, out>>,
         \A s \in Slots : state'[s] \in Live => state[s] \in Live
  PROVE  SentInv'
BY DEF SentInv

(* A slot is freed.                                                        *)
LEMMA QueueFreed ==
  ASSUME QueueInv, UNCHANGED <<slotEpoch, slotSpeaker>>,
         \A s \in Slots : state'[s] \in Live => state'[s] = state[s]
  PROVE  QueueInv'
BY DEF QueueInv, Live

LEMMA OrderFreed ==
  ASSUME OInv, UNCHANGED <<slotEpoch, slotSpeaker, storeVars, usbVars, ingGen, ingSpeaker,
                           rdPc, rdFirst, rdSecond, rdGen, rdEpoch, out>>,
         \A s \in Slots : state'[s] \in Live => state'[s] = state[s]
  PROVE  OInv'
<1>1. \A s \in Slots : state'[s] \in Live => state[s] \in Live
  OBVIOUS
<1> QED
  BY <1>1, SpeakerKept, SentKept, QueueFreed DEF OInv

-----------------------------------------------------------------------------
LEMMA OrderAllocate ==
  ASSUME IInv, OInv, NEW s \in Slots, IngestAllocate(s) PROVE OInv'
<1> USE OrderTypes DEF IngestAllocate
<1>1. /\ state[s] \in {"FREE", "READY_ENCODE", "COMPLETE"}
      /\ \A t \in Slots : state[t] # "FILLING"
  BY SMTT(30) DEF Allocatable, Evictable, IInv, FillingInv, NoSlot, Slots
<1>2. /\ state'[s] = "FILLING" /\ slotEpoch'[s] = nextEpoch /\ slotSpeaker'[s] = ingSpeaker
      /\ \A t \in Slots : t # s => /\ state'[t] = state[t] /\ slotEpoch'[t] = slotEpoch[t]
                                   /\ slotSpeaker'[t] = slotSpeaker[t]
  OBVIOUS
<1>3. \A t \in Slots : state[t] \in Live => slotEpoch[t] < nextEpoch
  BY DEF IInv, GenerationInv
<1>4. SpeakerInv'
  BY SMTT(30), <1>2, <1>3 DEF OInv, SpeakerInv
<1>5. QueueInv'
  BY <1>1, <1>2, <1>3 DEF OInv, QueueInv, Live
<1>6. SentInv'
  <2>1. rdPc \in {"copy", "finish"} /\ rdGen = generation => nextEpoch > rdEpoch + 1
    BY DEF IInv, ReadingInv, GenerationInv, Live
  <2>2. s \notin {rdFirst, rdSecond} \/ rdPc \notin {"copy", "finish"}
    BY <1>1 DEF IInv, ReadingInv
  <2> QED
    BY SMTT(30), <1>2, <1>3, <2>1, <2>2 DEF OInv, SentInv
<1> QED
  BY <1>4, <1>5, <1>6 DEF OInv

LEMMA OrderBegin ==
  ASSUME IInv, OInv, NEW len \in PacketSizes, IngestBegin(len) PROVE OInv'
<1> USE OrderTypes DEF IngestBegin
<1>1. armed'.gen = generation /\ armed'.speaker = Audible
  BY DEF NextPacket
<1>2. SpeakerInv'
  BY <1>1 DEF OInv, SpeakerInv
<1>3. QueueInv' /\ SentInv'
  BY DEF OInv, QueueInv, SentInv
<1> QED
  BY <1>2, <1>3 DEF OInv

LEMMA OrderCommit ==
  ASSUME IInv, OInv, IngestCommit PROVE OInv'
<1> USE OrderTypes DEF IngestCommit, StillFilling
<1>1. ingSlot \in Slots /\ state[ingSlot] = "FILLING"
  BY DEF IInv, FillingInv
<1>2. \A s \in Slots : s # ingSlot => state[s] # "FILLING" /\ state'[s] = state[s]
  BY <1>1 DEF IInv, FillingInv
<1>3. \/ state'[ingSlot] = "FILLING"
      \/ state'[ingSlot] = "READY_ENCODE" /\ slotSpeaker[ingSlot]
      \/ state'[ingSlot] = "COMPLETE" /\ ~slotSpeaker[ingSlot]
  BY <1>1
<1>4. QueueInv'
  BY <1>1, <1>2, <1>3 DEF OInv, QueueInv
<1>5. \A s \in Slots : state'[s] \in Live => state[s] \in Live
  BY <1>1, <1>2 DEF Live
<1> QED
  BY <1>4, <1>5, SpeakerKept, SentKept DEF OInv

LEMMA OrderEncodeTake ==
  ASSUME IInv, OInv, NEW s \in Slots, EncodeTake(s) PROVE OInv'
<1> USE OrderTypes DEF EncodeTake
<1>1. /\ state[s] = "READY_ENCODE" /\ state'[s] = "ENCODING"
      /\ \A t \in Slots : t # s => state'[t] = state[t]
  BY DEF OldestIn
<1>2. \A t \in Slots : state[t] # "ENCODING"
  BY DEF IInv, EncodingInv
<1>3. \A t \in Slots : t # s /\ state[t] = "READY_ENCODE" => slotEpoch[s] < slotEpoch[t]
  <2>1. \A t \in Slots : state[t] = "READY_ENCODE" => slotGen[t] = generation
    BY DEF IInv, GenerationInv, Live
  <2> QED
    BY <1>1, <2>1 DEF OldestIn, IInv, UniqueInv
<1>4. QueueInv'
  BY <1>1, <1>2, <1>3 DEF OInv, QueueInv
<1>5. \A t \in Slots : state'[t] \in Live => state[t] \in Live
  BY <1>1 DEF Live
<1> QED
  BY <1>4, <1>5, SpeakerKept, SentKept DEF OInv

(* The encoder's job is found again in its slot.                           *)
LEMMA JobSlot ==
  ASSUME IInv, encPc # "idle"
  PROVE  encSlot \in Slots /\ FindSlot(encGen, encEpoch) = encSlot
<1>1. /\ encSlot \in Slots /\ encSlot # NoSlot
      /\ state[encSlot] \in {"ENCODING", "CANCELLED_ENCODING"}
  BY DEF IInv, EncodingInv, Slots, NoSlot
<1> QED
  BY <1>1 DEF FindSlot, Matches, IInv, EncodingInv, UniqueInv, Slots

LEMMA OrderEncodeSubmit ==
  ASSUME IInv, OInv, EncodeSubmit PROVE OInv'
<1> USE OrderTypes DEF EncodeSubmit, FreeSlot
<1>1. encSlot \in Slots /\ FindSlot(encGen, encEpoch) = encSlot
  BY JobSlot
<1>2. state' = state \/ state' = [state EXCEPT ![encSlot] = "FREE"]
  BY <1>1
<1>3. \A s \in Slots : state'[s] \in Live => state'[s] = state[s]
  BY <1>1, <1>2 DEF Live
<1> QED
  BY <1>3, OrderFreed

LEMMA OrderEncodeFinish ==
  ASSUME IInv, OInv, EncodeFinish PROVE OInv'
<1> USE OrderTypes DEF EncodeFinish, FreeSlot
<1>1. encSlot \in Slots /\ state[encSlot] \in {"ENCODING", "CANCELLED_ENCODING"}
  BY DEF IInv, EncodingInv
<1>2. CASE \A s \in Slots : state'[s] \in Live => state'[s] = state[s]
  BY <1>2, OrderFreed
<1>3. CASE state[encSlot] = "ENCODING" /\ state' = [state EXCEPT ![encSlot] = "COMPLETE"]
  <2>1. \A s \in Slots : s # encSlot => state[s] # "ENCODING" /\ state'[s] = state[s]
    BY <1>3 DEF IInv, EncodingInv
  <2>2. QueueInv'
    BY <1>1, <1>3, <2>1 DEF OInv, QueueInv
  <2>3. \A s \in Slots : state'[s] \in Live => state[s] \in Live
    BY <1>1, <1>3, <2>1 DEF Live
  <2> QED
    BY <2>2, <2>3, SpeakerKept, SentKept DEF OInv
<1> QED
  BY <1>1, <1>2, <1>3 DEF Live

LEMMA OrderDrop ==
  ASSUME IInv, OInv, NEW f \in Slots, DropFirst(f) PROVE OInv'
<1>1. \A s \in Slots : state'[s] \in Live => state'[s] = state[s]
  BY OrderTypes DEF DropFirst, FreeSlot, Live
<1> QED
  BY <1>1, OrderFreed DEF DropFirst

(* The oldest complete epoch is the oldest of all: one that waits for the  *)
(* encoder has a speaker, then so has every later one, and those are       *)
(* encoded in order.                                                       *)
LEMMA OrderClaim ==
  ASSUME IInv, OInv, NEW f \in Slots, NEW s \in Slots, PairClaim(f, s) PROVE OInv'
<1> USE OrderTypes DEF PairClaim, OldestIn, Partner
<1>1. /\ state[f] = "COMPLETE" /\ state[s] = "COMPLETE" /\ f # s
      /\ slotEpoch[s] = slotEpoch[f] + 1
      /\ slotGen[f] = generation /\ slotGen[s] = generation
  OBVIOUS
<1>2. /\ state'[f] = "READING" /\ state'[s] = "READING"
      /\ \A t \in Slots : t \notin {f, s} => state'[t] = state[t]
  BY <1>1
<1>3. QueueInv'
  BY <1>1, <1>2 DEF OInv, QueueInv
<1>4. \A t \in Slots : state'[t] \in Live => state[t] \in Live
  BY <1>1, <1>2 DEF Live
<1>5. SpeakerInv'
  BY <1>4, SpeakerKept DEF OInv
<1>6. \A t \in Slots \ {f, s} : state[t] \in Live => slotEpoch[t] > slotEpoch[f] + 1
  <2> SUFFICES ASSUME NEW t \in Slots, t \notin {f, s}, state[t] \in Live
               PROVE slotEpoch[t] > slotEpoch[f] + 1
    OBVIOUS
  <2>1. slotGen[t] = generation
    BY DEF IInv, GenerationInv
  <2>2. slotEpoch[t] # slotEpoch[f] /\ slotEpoch[t] # slotEpoch[s]
    BY <1>1, <2>1 DEF IInv, UniqueInv, Live
  <2>3. slotEpoch[t] >= slotEpoch[f]
    <3>1. CASE state[t] = "COMPLETE"
      BY <2>1, <3>1
    <3>2. CASE state[t] = "FILLING"
      BY <1>1, <3>2 DEF OInv, QueueInv
    <3>3. CASE state[t] \in Waiting
      <4>1. slotEpoch[t] < slotEpoch[f] => slotSpeaker[f]
        BY <1>1, <3>3 DEF OInv, SpeakerInv, QueueInv, Live
      <4> QED
        BY <1>1, <3>3, <4>1 DEF OInv, QueueInv
    <3>4. state[t] # "READING"
      BY DEF IInv, ReadingInv
    <3> QED
      BY <3>1, <3>2, <3>3, <3>4 DEF Live
  <2> QED
    BY <1>1, <2>2, <2>3
<1>7. SentInv'
  BY <1>1, <1>2, <1>4, <1>6 DEF OInv, SentInv
<1> QED
  BY <1>3, <1>5, <1>7 DEF OInv

LEMMA OrderFinish ==
  ASSUME IInv, OInv, PairFinish PROVE OInv'
<1> USE OrderTypes DEF PairFinish
<1>1. /\ rdFirst \in Slots /\ rdSecond \in Slots
      /\ rdGen = generation => /\ slotEpoch[rdFirst] = rdEpoch
                              /\ slotEpoch[rdSecond] = rdEpoch + 1
                              /\ state[rdFirst] = "READING" /\ state[rdSecond] = "READING"
  BY DEF IInv, ReadingInv
<1>2. \A s \in Slots : state'[s] \in Live => state'[s] = state[s]
  BY <1>1 DEF Live
<1>3. QueueInv' /\ SpeakerInv'
  BY <1>2, QueueFreed, SpeakerKept DEF OInv
<1>4. CASE UNCHANGED out
  <2>1. \A s \in Slots : state'[s] \in Live => state[s] \in Live
    BY <1>2
  <2>2. SentInv'
    BY <1>4, <2>1 DEF OInv, SentInv
  <2> QED
    BY <1>3, <2>2 DEF OInv
<1>5. CASE /\ out' = PairBuilt /\ rdGen = generation
           /\ state' = [state EXCEPT ![rdFirst] = "FREE", ![rdSecond] = "FREE"]
  <2>1. out'.gen = generation /\ out'.epoch = rdEpoch
    BY <1>5 DEF PairBuilt
  <2>2. nextEpoch >= rdEpoch + 2
    BY <1>1, <1>5 DEF IInv, GenerationInv, Live
  <2>3. \A s \in Slots : state'[s] \in Live => slotEpoch[s] > rdEpoch + 1
    BY <1>1, <1>5 DEF OInv, SentInv, Live
  <2>4. rdPc' = "idle"
    OBVIOUS
  <2>5. SentInv'
    BY <2>1, <2>2, <2>3, <2>4 DEF SentInv
  <2> QED
    BY <1>3, <2>5 DEF OInv
<1> QED
  BY <1>3, <1>4, <1>5 DEF OInv

LEMMA OrderReset ==
  ASSUME IInv, OInv, ResetStore, armed' \in {armed, NoPacket},
         rdPc' = rdPc \/ (rdPc = "apply" /\ rdPc' = "idle"),
         UNCHANGED <<rdFirst, rdSecond, rdGen, rdEpoch>>
  PROVE  OInv'
<1> USE OrderTypes DEF ResetStore
<1>1. \A s \in Slots : state'[s] \in {"FREE", "CANCELLED_ENCODING", "CANCELLED_READING"}
  OBVIOUS
<1>2. generation' > generation /\ armed'.gen # generation' /\ ingGen' # generation'
  BY DEF NoPacket, IInv, GenerationInv
<1>3. SpeakerInv' /\ QueueInv'
  BY <1>1, <1>2 DEF SpeakerInv, QueueInv, Live
<1>4. SentInv'
  BY <1>1, <1>2 DEF OInv, SentInv, Live
<1> QED
  BY <1>3, <1>4 DEF OInv

LEMMA OrderFlags ==
  ASSUME IInv, OInv, Arm \/ UnmuteSpeaker \/ ApplyFlag PROVE OInv'
<1> USE OrderTypes
<1>1. CASE Arm
  <2>1. armed'.gen = generation /\ armed'.speaker = Audible
    BY <1>1 DEF Arm, NextPacket
  <2> QED
    BY <1>1, <2>1 DEF Arm, OInv, SpeakerInv, QueueInv, SentInv
<1>2. CASE UnmuteSpeaker
  BY <1>2 DEF UnmuteSpeaker, OInv, SpeakerInv, QueueInv, SentInv
<1>3. CASE ApplyFlag
  BY <1>3 DEF ApplyFlag, OInv, SpeakerInv, QueueInv, SentInv
<1> QED
  BY <1>1, <1>2, <1>3

(* Steps that touch nothing the order depends on.                          *)
LEMMA OrderElse ==
  ASSUME OInv, \/ IngestStale \/ IngestRefused \/ IngestContinue \/ IngestCopy
               \/ IngestAbandon \/ EncodeRun \/ EncodeCopy \/ PairCopy
               \/ UNCHANGED vars
  PROVE  OInv'
<1>1. /\ UNCHANGED <<state, slotEpoch, slotSpeaker, generation, nextEpoch, usbVars,
                     ingGen, ingSpeaker, rdFirst, rdSecond, rdGen, rdEpoch, out>>
      /\ rdPc' = rdPc \/ (rdPc = "copy" /\ rdPc' = "finish")
  BY DEF IngestStale, IngestRefused, IngestContinue, IngestCopy, IngestAbandon,
         EncodeRun, EncodeCopy, PairCopy, LeavePacket, vars
<1> QED
  BY <1>1, SpeakerKept, SentKept, QueueFreed DEF OInv

LEMMA OrderNext == ASSUME IInv, OInv, [Next]_vars PROVE OInv'
<1>1. CASE Ingest
  BY <1>1, OrderElse, OrderCommit, OrderAllocate DEF Ingest
<1>2. CASE Codec
  BY <1>2, OrderElse, OrderEncodeTake, OrderEncodeSubmit, OrderEncodeFinish DEF Codec
<1>3. CASE Reader
  <2>1. ASSUME NEW f \in Slots, NEW s \in Slots, PairMismatch(f, s) \/ PairGap(f) PROVE OInv'
    BY <2>1, OrderDrop DEF PairMismatch, PairGap
  <2> QED
    BY <1>3, <2>1, OrderElse, OrderFinish, OrderClaim DEF Reader
<1>4. CASE ResetKeepDma \/ ResetCancelDma \/ MuteSpeaker \/ ApplyReset
  <2>1. /\ ResetStore /\ armed' \in {armed, NoPacket}
        /\ rdPc' = rdPc \/ (rdPc = "apply" /\ rdPc' = "idle")
        /\ UNCHANGED <<rdFirst, rdSecond, rdGen, rdEpoch>>
    BY <1>4 DEF ResetKeepDma, ResetCancelDma, MuteSpeaker, ApplyReset
  <2> QED
    BY <2>1, OrderReset
<1>5. CASE \E len \in PacketSizes : IngestBegin(len)
  BY <1>5, OrderBegin
<1>6. CASE Arm \/ UnmuteSpeaker \/ ApplyFlag
  BY <1>6, OrderFlags
<1>7. CASE UNCHANGED vars
  BY <1>7, OrderElse
<1> QED
  BY <1>1, <1>2, <1>3, <1>4, <1>5, <1>6, <1>7 DEF Next, Usb

(* Pairs leave in stream order, whatever is evicted, fails, is muted or    *)
(* reset between: never an earlier generation, and within one never a pair *)
(* that overlaps or precedes the last.                                     *)
THEOREM PairsLeaveInOrder == Spec => EmissionOrder
<1>1. Init => OInv
  BY InitOInv
<1>2. IInv /\ OInv /\ [Next]_vars => OInv'
  BY OrderNext
<1>3. ASSUME IInv, OInv, Next, out' # out
      PROVE  out'.gen > out.gen \/ (out'.gen = out.gen /\ out'.epoch >= out.epoch + 2)
  <2>1. PairFinish /\ out' = PairBuilt /\ rdGen = generation
    BY <1>3 DEF Next, Ingest, Codec, Reader, Usb, IngestStale, IngestRefused, IngestContinue,
       IngestCopy, IngestAbandon, IngestCommit, IngestAllocate, IngestBegin, EncodeRun,
       EncodeSubmit, EncodeCopy, EncodeFinish, EncodeTake, PairCopy, PairFinish, PairGap,
       PairMismatch, PairClaim, DropFirst, Arm, ResetKeepDma, ResetCancelDma, MuteSpeaker,
       UnmuteSpeaker, ApplyFlag, ApplyReset, ResetStore
  <2>2. rdFirst \in Slots /\ state[rdFirst] = "READING" /\ slotEpoch[rdFirst] = rdEpoch
    BY <1>3, <2>1 DEF PairFinish, IInv, ReadingInv
  <2>3. out.gen = generation => rdEpoch >= out.epoch + 2
    BY <1>3, <2>2 DEF OInv, SentInv, Live
  <2> QED
    BY <1>3, <2>1, <2>3, OrderTypes DEF PairBuilt, OInv, SentInv
<1>4. IInv /\ OInv /\ [Next]_vars =>
        [out' # out => \/ out'.gen > out.gen
                       \/ out'.gen = out.gen /\ out'.epoch >= out.epoch + 2]_vars
  BY <1>3
<1> QED
  BY <1>1, <1>2, <1>4, OwnershipInvariant, PTL DEF Spec, EmissionOrder

=============================================================================
