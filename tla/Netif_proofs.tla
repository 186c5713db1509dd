------------------------------- MODULE Netif_proofs -------------------------------
(***************************************************************************)
(* Proofs about the two halves of netif.c.  The receive ring, for every    *)
(* ring size (a ring too small to hold a frame included), slot and buffer  *)
(* length: its invariants, and that it implements the FIFO of RxFifo.  The *)
(* transmit gate, for any set of senders and any retry bounds.             *)
(***************************************************************************)
EXTENDS NetifRx, NetifTx, SequenceTheorems, TLAPS

(* The receive ring.                                                        *)

\* What a slot holds once a frame of that length has been copied into it.
Stored(f) == [frame |-> f, len |-> IF f.len > FrameMax THEN FrameMax ELSE f.len]
Sound(s) == s.frame \in Arrivals /\ s = Stored(s.frame)

\* The producer works on a free slot with a frame that arrived; published slots
\* hold what was copied; the consumer works on a published slot.
RxInv ==
    /\ RxTypeOK
    /\ received <= MaxFrames
    /\ producer # "idle" => RingSize > 1 /\ Succ(head) # tail /\ frame \in Arrivals
    /\ producer = "publish" => ring[head] = Stored(frame)
    /\ consumer # "idle" => head # tail
    /\ consumer \in {"decide", "free"} => got = ring[tail].len
    /\ consumer = "free" => got <= BufLen
    /\ \A k \in Indices : k < Count => Sound(ring[Slot(k)])

-----------------------------------------------------------------------------
(* Index arithmetic.                                                       *)

LEMMA SuccInRange ==
    ASSUME NEW i \in Indices
    PROVE  Succ(i) \in Indices
  BY RingAssumption DEF Succ, Indices

LEMMA CountFacts ==
    ASSUME head \in Indices, tail \in Indices
    PROVE  /\ Count \in Indices
           /\ Count > 0 <=> head # tail
           /\ Slot(0) = tail
           /\ Slot(Count) = head
           /\ \A k \in Indices :
                Slot(k) \in Indices /\ (k < Count => Slot(k) # head)
  BY RingAssumption DEF Indices, Count, Slot

LEMMA PublishShape ==
    ASSUME head \in Indices, tail \in Indices, Succ(head) # tail,
           head' = Succ(head), tail' = tail
    PROVE  /\ Count' = Count + 1
           /\ \A k \in Indices : Slot(k)' = Slot(k)
  BY RingAssumption DEF Indices, Count, Slot, Succ

LEMMA FreeShape ==
    ASSUME head \in Indices, tail \in Indices, head # tail,
           tail' = Succ(tail), head' = head
    PROVE  /\ Count' = Count - 1
           /\ \A k \in Indices : k < Count' =>
                k + 1 \in Indices /\ k + 1 < Count /\ Slot(k)' = Slot(k + 1)
  BY RingAssumption DEF Indices, Count, Slot, Succ

-----------------------------------------------------------------------------
(* The invariant.                                                          *)

LEMMA RxInvInit == RxInit => RxInv
  <1>. SUFFICES ASSUME RxInit PROVE RxInv
    OBVIOUS
  <1>1. 0 \in Indices /\ Count = 0
    BY RingAssumption DEF RxInit, Indices, Count
  <1>2. NoFrame \in Frame /\ EmptySlot \in SlotValues
    BY DEF NoFrame, EmptySlot, Frame, SlotValues
  <1>3. ring \in [Indices -> SlotValues] /\ delivered \in Seq(Frame)
    BY <1>2 DEF RxInit
  <1>4. RxTypeOK
    BY <1>1, <1>2, <1>3 DEF RxInit, RxTypeOK
  <1>5. \A k \in Indices : ~(k < Count)
    BY <1>1, RingAssumption DEF Indices
  <1>. QED
    BY <1>4, <1>5, BoundAssumption DEF RxInit, RxInv

LEMMA StoredType ==
    ASSUME NEW f \in Frame
    PROVE  Stored(f) \in SlotValues /\ Stored(f).frame = f
  <1>1. f.len \in Nat /\ FrameMax \in Nat
    BY LengthAssumption DEF Frame
  <1>. DEFINE n == IF f.len > FrameMax THEN FrameMax ELSE f.len
  <1>2. n \in Nat
    BY <1>1
  <1>3. Stored(f) = [frame |-> f, len |-> n]
    BY DEF Stored
  <1>. HIDE DEF n
  <1>. QED
    BY <1>2, <1>3 DEF SlotValues

LEMMA ArrivalType == Arrivals \subseteq Frame
  <1>1. SUFFICES ASSUME NEW f \in Arrivals PROVE f \in Frame
    OBVIOUS
  <1>2. /\ f = [id |-> f.id, len |-> f.len]
        /\ f.id \in 1 .. MaxFrames /\ f.len \in Lengths
    BY DEF Arrivals
  <1>3. f.id \in Nat /\ f.len \in Nat
    BY <1>2, LengthAssumption, BoundAssumption
  <1>. QED
    BY <1>2, <1>3 DEF Frame

LEMMA RxStep == RxInv /\ [RxNext]_rxVars => RxInv'
  <1>. SUFFICES ASSUME RxInv, [RxNext]_rxVars PROVE RxInv'
    OBVIOUS
  <1>. USE DEF RxInv, rxVars
  <1>0. head \in Indices /\ tail \in Indices
    BY DEF RxTypeOK
  <1>1. CASE RxDrop
    BY <1>1, BoundAssumption DEF RxDrop, RxTypeOK, Count, Slot
  <1>2. CASE RxBegin
    <2>1. frame' \in Arrivals /\ received' <= MaxFrames /\ received' \in Nat
      BY <1>2, BoundAssumption DEF RxBegin, Arrivals, RxTypeOK
    <2>2. RxTypeOK'
      BY <1>2, <2>1, ArrivalType DEF RxBegin, RxTypeOK
    <2>3. RingSize > 1 /\ Succ(head) # tail
      BY <1>2, RingAssumption DEF RxBegin, Full
    <2>. QED
      BY <1>2, <2>1, <2>2, <2>3 DEF RxBegin, Count, Slot
  <1>3. CASE RxCopy
    <2>1. ring' = [ring EXCEPT ![head] = Stored(frame)]
      BY <1>3 DEF RxCopy, Stored
    <2>2. ring' \in [Indices -> SlotValues] /\ ring'[head] = Stored(frame)
      BY <2>1, <1>0, StoredType DEF RxTypeOK
    <2>3. RxTypeOK'
      BY <1>3, <2>2 DEF RxCopy, RxTypeOK
    <2>4. \A k \in Indices : k < Count => ring'[Slot(k)] = ring[Slot(k)]
      BY <2>1, <1>0, CountFacts DEF RxTypeOK
    <2>5. head # tail => ring'[tail] = ring[tail]
      BY <2>1, <1>0 DEF RxTypeOK
    <2>. QED
      BY <1>3, <2>2, <2>3, <2>4, <2>5 DEF RxCopy, Count, Slot
  <1>4. CASE RxPublish
    <2>1. Succ(head) # tail /\ head' = Succ(head) /\ tail' = tail
          /\ ring' = ring /\ consumer' = consumer /\ got' = got
          /\ producer' = "idle" /\ received' = received
      BY <1>4 DEF RxPublish
    <2>2. RxTypeOK'
      BY <1>4, SuccInRange, <1>0 DEF RxPublish, RxTypeOK
    <2>3. Sound(ring[head])
      BY <1>4, StoredType, ArrivalType DEF RxPublish, Sound
    <2>4. ASSUME NEW k \in Indices, k < Count' PROVE Sound(ring'[Slot(k)'])
      <3>1. Slot(k)' = Slot(k) /\ (k < Count \/ k = Count)
        BY <2>1, <2>4, <1>0, PublishShape, CountFacts, RingAssumption DEF Indices
      <3>. QED
        BY <3>1, <2>1, <2>3, <1>0, CountFacts
    <2>. QED
      BY <2>1, <2>2, <2>4
  <1>5. CASE PopBegin
    BY <1>5 DEF PopBegin, RxTypeOK, Count, Slot
  <1>6. CASE PopRead
    BY <1>6 DEF PopRead, RxTypeOK, SlotValues, Count, Slot
  <1>7. CASE PopOversize \/ PopFree
    <2>1. head # tail /\ tail' = Succ(tail) /\ head' = head /\ ring' = ring
          /\ consumer' = "idle" /\ producer' = producer /\ frame' = frame
          /\ received' = received
      BY <1>7 DEF PopOversize, PopFree
    <2>2. RxTypeOK'
      <3>1. tail' \in Indices
        BY <2>1, <1>0, SuccInRange
      <3>2. oversize' \in Nat
        BY <1>7 DEF PopOversize, PopFree, RxTypeOK
      <3>3. ring[tail].frame.id \in Nat /\ got \in Nat
        BY <1>0 DEF RxTypeOK, SlotValues, Frame
      <3>4. delivered' \in Seq(Frame)
        <4>1. [id |-> ring[tail].frame.id, len |-> got] \in Frame
          BY <3>3 DEF Frame
        <4>2. delivered \in Seq(Frame)
          BY DEF RxTypeOK
        <4>3. \/ delivered' = delivered
              \/ delivered' = Append(delivered,
                                     [id |-> ring[tail].frame.id, len |-> got])
          BY <1>7 DEF PopOversize, PopFree
        <4>. QED
          BY <4>1, <4>2, <4>3, AppendProperties
      <3>. QED
        BY <1>7, <3>1, <3>2, <3>4 DEF PopOversize, PopFree, RxTypeOK
    <2>3. producer # "idle" => Succ(head) # Succ(tail)
      BY <2>1, <1>0, RingAssumption DEF Succ, Indices
    <2>4. ASSUME NEW k \in Indices, k < Count' PROVE Sound(ring'[Slot(k)'])
      BY <2>1, <2>4, <1>0, FreeShape
    <2>. QED
      BY <2>1, <2>2, <2>3, <2>4 DEF Succ
  <1>8. CASE PopCopy
    BY <1>8 DEF PopCopy, RxTypeOK, Count, Slot
  <1>9. CASE UNCHANGED rxVars
    BY <1>9 DEF RxTypeOK, Count, Slot
  <1>. QED
    BY <1>1, <1>2, <1>3, <1>4, <1>5, <1>6, <1>7, <1>8, <1>9
    DEF RxNext, Producer, Consumer

LEMMA RxInvariant == RxSafeSpec => []RxInv
  BY RxInvInit, RxStep, PTL DEF RxSafeSpec

\* The indices stay in the ring and the counters in range, for any ring size.
THEOREM RxTypeCorrect == RxSafeSpec => []RxTypeOK
  <1>1. RxInv => RxTypeOK
    BY DEF RxInv
  <1>. QED
    BY <1>1, RxInvariant, PTL

\* The callback never writes the slot EthPoll reads, in whatever order an
\* interrupt places their steps.
THEOREM RxNoTornRead == RxSafeSpec => []NoTornRead
  <1>1. RxInv => NoTornRead
    BY DEF RxInv, NoTornRead
  <1>. QED
    BY <1>1, RxInvariant, PTL

-----------------------------------------------------------------------------
(* The accounting.                                                         *)

LEMMA AccountStep ==
    RxInv /\ FramesAccounted /\ [RxNext]_rxVars => FramesAccounted'
  <1>. SUFFICES ASSUME RxInv, FramesAccounted, [RxNext]_rxVars PROVE FramesAccounted'
    OBVIOUS
  <1>0. /\ head \in Indices /\ tail \in Indices /\ delivered \in Seq(Frame)
        /\ received \in Nat /\ lost \in Nat /\ oversize \in Nat
        /\ Len(delivered) \in Nat /\ Count \in Nat
    <2>1. Count \in Indices
      BY CountFacts DEF RxInv, RxTypeOK
    <2>2. delivered \in Seq(Frame)
      BY DEF RxInv, RxTypeOK
    <2>3. Len(delivered) \in Nat
      BY <2>2, LenProperties
    <2>. QED
      BY <2>1, <2>2, <2>3, RingAssumption DEF RxInv, RxTypeOK, Indices
  <1>1. CASE RxDrop
    BY <1>0, <1>1 DEF RxDrop, FramesAccounted, Count
  <1>2. CASE RxBegin
    <2>1. /\ producer = "idle" /\ producer' = "copy" /\ Count' = Count
          /\ received' = received + 1 /\ UNCHANGED <<lost, oversize, delivered>>
      BY <1>2 DEF RxBegin, Count
    <2>. QED
      BY <1>0, <2>1 DEF FramesAccounted
  <1>3. CASE RxCopy
    <2>1. /\ producer = "copy" /\ producer' = "publish" /\ Count' = Count
          /\ UNCHANGED <<received, lost, oversize, delivered>>
      BY <1>3 DEF RxCopy, Count
    <2>. QED
      BY <2>1 DEF FramesAccounted
  <1>4. CASE RxPublish
    <2>1. Count' = Count + 1
      BY <1>0, <1>4, PublishShape DEF RxPublish, RxInv
    <2>2. /\ producer = "publish" /\ producer' = "idle"
          /\ UNCHANGED <<received, lost, oversize, delivered>>
      BY <1>4 DEF RxPublish
    <2>. QED
      BY <1>0, <2>1, <2>2 DEF FramesAccounted
  <1>5. CASE PopBegin \/ PopRead \/ PopCopy
    BY <1>5 DEF PopBegin, PopRead, PopCopy, FramesAccounted, Count
  <1>6. CASE PopOversize
    <2>1. Count' = Count - 1
      BY <1>0, <1>6, FreeShape DEF PopOversize, RxInv
    <2>2. /\ oversize' = oversize + 1
          /\ UNCHANGED <<producer, received, lost, delivered>>
      BY <1>6 DEF PopOversize
    <2>. QED
      BY <1>0, <2>1, <2>2 DEF FramesAccounted
  <1>7. CASE PopFree
    <2>1. Count' = Count - 1
      BY <1>0, <1>7, FreeShape DEF PopFree, RxInv
    <2>2. Len(delivered') = Len(delivered) + 1
      <3>. DEFINE f == [id |-> ring[tail].frame.id, len |-> got]
      <3>1. f \in Frame
        <4>1. ring[tail].frame.id \in Nat /\ got \in Nat
          BY <1>0 DEF RxInv, RxTypeOK, SlotValues, Frame
        <4>. QED
          BY <4>1 DEF Frame
      <3>2. delivered' = Append(delivered, f)
        BY <1>7 DEF PopFree
      <3>. QED
        BY <1>0, <3>1, <3>2, AppendProperties
    <2>3. UNCHANGED <<producer, received, lost, oversize>>
      BY <1>7 DEF PopFree
    <2>. QED
      BY <1>0, <2>1, <2>2, <2>3 DEF FramesAccounted
  <1>8. CASE UNCHANGED rxVars
    BY <1>8 DEF rxVars, FramesAccounted, Count
  <1>. QED
    BY <1>1, <1>2, <1>3, <1>4, <1>5, <1>6, <1>7, <1>8
    DEF RxNext, Producer, Consumer

\* No frame the blob handed over disappears without being counted.
THEOREM RxFramesAccounted == RxSafeSpec => []FramesAccounted
  <1>1. RxInit => FramesAccounted
    BY RingAssumption DEF RxInit, FramesAccounted, Count
  <1>. QED
    BY <1>1, RxInvariant, AccountStep, PTL DEF RxSafeSpec

-----------------------------------------------------------------------------
(* The refinement.                                                         *)

HeldShape ==
    /\ Count \in Nat
    /\ Held \in Seq(Frame) /\ Len(Held) = Count
    /\ \A k \in 1 .. Count : Held[k] = ring[Slot(k - 1)].frame
    /\ \A k \in 1 .. Count : k - 1 \in Indices /\ k - 1 < Count

LEMMA HeldFacts == RxInv => HeldShape
  <1>. SUFFICES ASSUME RxInv PROVE HeldShape
    OBVIOUS
  <1>1. Count \in Indices /\ Count \in Nat
    BY CountFacts, RingAssumption DEF RxInv, RxTypeOK, Indices
  <1>2. \A k \in 1 .. Count : k - 1 \in Indices /\ k - 1 < Count
    BY <1>1, RingAssumption DEF Indices
  <1>3. \A k \in 1 .. Count : ring[Slot(k - 1)].frame \in Frame
    BY <1>2, ArrivalType DEF RxInv, Sound
  <1>4. Held \in [1 .. Count -> Frame]
    BY <1>3 DEF Held
  <1>5. Held \in Seq(Frame)
    BY <1>1, <1>4, SeqDef
  <1>6. Len(Held) = Count
    BY <1>1, <1>4, <1>5, LenProperties
  <1>. QED
    BY <1>1, <1>2, <1>5, <1>6 DEF Held, HeldShape

LEMMA HeldFactsPrime == RxInv' => HeldShape'
  BY HeldFacts, PTL

LEMMA PublishAppends ==
    ASSUME RxInv, RxInv', RxPublish
    PROVE  Held' = Append(Held, frame)
  <1>1. /\ head \in Indices /\ tail \in Indices /\ Succ(head) # tail
        /\ head' = Succ(head) /\ tail' = tail /\ ring' = ring
        /\ ring[head] = Stored(frame) /\ frame \in Frame
    BY DEF RxInv, RxTypeOK, RxPublish
  <1>2. Count' = Count + 1 /\ \A k \in Indices : Slot(k)' = Slot(k)
    BY <1>1, PublishShape
  <1>3. HeldShape /\ HeldShape'
    BY HeldFacts, HeldFactsPrime
  <1>4. /\ Append(Held, frame) \in Seq(Frame)
        /\ Len(Append(Held, frame)) = Count + 1
        /\ \A k \in 1 .. Count : Append(Held, frame)[k] = Held[k]
        /\ Append(Held, frame)[Count + 1] = frame
    BY <1>1, <1>3, AppendProperties DEF HeldShape
  <1>5. /\ Held' \in Seq(Frame) /\ Len(Held') = Count + 1
        /\ \A k \in 1 .. Count + 1 : Held'[k] = ring[Slot(k - 1)'].frame
    BY <1>1, <1>2, <1>3 DEF HeldShape
  <1>6. ASSUME NEW k \in 1 .. Count + 1
        PROVE  Held'[k] = Append(Held, frame)[k]
    <2>1. CASE k \in 1 .. Count
      BY <2>1, <1>2, <1>3, <1>4, <1>5 DEF HeldShape
    <2>2. CASE k = Count + 1
      <3>1. k - 1 = Count /\ Count \in Indices /\ Slot(Count) = head
        BY <1>1, <1>3, <2>2, CountFacts DEF HeldShape
      <3>2. Slot(k - 1)' = head
        BY <1>2, <3>1
      <3>. QED
        BY <1>1, <1>4, <1>5, <2>2, <3>2, StoredType
    <2>. QED
      BY <1>3, <2>1, <2>2 DEF HeldShape
  <1>. QED
    BY <1>4, <1>5, <1>6, SeqEqual

LEMMA FreeTakesHead ==
    ASSUME RxInv, RxInv', head # tail,
           tail' = Succ(tail), head' = head, ring' = ring
    PROVE  /\ Held # <<>>
           /\ Head(Held) = ring[tail].frame
           /\ Held' = Tail(Held)
  <1>1. head \in Indices /\ tail \in Indices
    BY DEF RxInv, RxTypeOK
  <1>2. /\ Count' = Count - 1
        /\ \A k \in Indices : k < Count' => Slot(k)' = Slot(k + 1)
    BY <1>1, FreeShape
  <1>3. HeldShape /\ HeldShape'
    BY HeldFacts, HeldFactsPrime
  <1>4. Count > 0 /\ Slot(0) = tail
    BY <1>1, CountFacts
  <1>5. Held # <<>> /\ Head(Held) = Held[1]
    BY <1>3, <1>4, EmptySeq DEF HeldShape
  <1>6. Held[1] = ring[tail].frame
    BY <1>3, <1>4 DEF HeldShape
  <1>7. /\ Held' \in Seq(Frame) /\ Len(Held') = Count - 1
        /\ \A k \in 1 .. Count - 1 : Held'[k] = ring[Slot(k - 1)'].frame
        /\ \A k \in 1 .. Count - 1 : k - 1 \in Indices /\ k - 1 < Count'
    BY <1>2, <1>3 DEF HeldShape
  <1>8. ASSUME NEW k \in 1 .. Count - 1 PROVE Held'[k] = Held[k + 1]
    <2>1. /\ Count \in Nat /\ k - 1 \in Indices /\ k - 1 < Count'
          /\ Held'[k] = ring[Slot(k - 1)'].frame
      BY <1>3, <1>7 DEF HeldShape
    <2>2. (k - 1) + 1 = k /\ (k + 1) - 1 = k /\ k + 1 \in 1 .. Count
      BY <2>1
    <2>3. Slot(k - 1)' = Slot(k)
      BY <1>2, <2>1, <2>2
    <2>4. Held[k + 1] = ring[Slot(k)].frame
      BY <1>3, <2>2 DEF HeldShape
    <2>. QED
      BY <2>1, <2>3, <2>4
  <1>9. /\ Tail(Held) \in Seq(Frame) /\ Len(Tail(Held)) = Count - 1
        /\ \A k \in 1 .. Count - 1 : Tail(Held)[k] = Held[k + 1]
    BY <1>3, <1>5, HeadTailProperties DEF HeldShape
  <1>10. Held' = Tail(Held)
    BY <1>7, <1>8, <1>9, SeqEqual
  <1>. QED
    BY <1>5, <1>6, <1>10

LEMMA RefinementInit == RxInit => Fifo!FifoInit
  <1>. SUFFICES ASSUME RxInit PROVE Fifo!FifoInit
    OBVIOUS
  <1>1. HeldShape /\ Count = 0
    BY RxInvInit, HeldFacts, RingAssumption DEF RxInit, Count
  <1>2. Held = <<>>
    BY <1>1, EmptySeq DEF HeldShape
  <1>. QED
    BY <1>2 DEF RxInit, Fifo!FifoInit

LEMMA RefinementStep ==
    RxInv /\ RxInv' /\ [RxNext]_rxVars => [Fifo!FifoNext]_(Fifo!fifo)
  <1>. SUFFICES ASSUME RxInv, RxInv', [RxNext]_rxVars
                PROVE  [Fifo!FifoNext]_(Fifo!fifo)
    OBVIOUS
  <1>0. head \in Indices /\ tail \in Indices /\ HeldShape
    BY HeldFacts DEF RxInv, RxTypeOK
  <1>1. CASE RxDrop
    <2>1. Count = (IF RingSize < 2 THEN 0 ELSE RingSize - 1)
      BY <1>0, <1>1, RingAssumption DEF RxDrop, Full, Count, Succ, Indices
    <2>2. Held' = Held
      BY <1>1 DEF RxDrop, Held, Count, Slot
    <2>. QED
      BY <1>0, <1>1, <2>1, <2>2
      DEF RxDrop, HeldShape, Fifo!FifoNext, Fifo!Lose
  <1>2. CASE RxBegin
    BY <1>2 DEF RxBegin, Fifo!fifo, Held, Count, Slot
  <1>3. CASE RxCopy
    \* The slot at the head is not one of those held.
    <2>1. ASSUME NEW k \in 1 .. Count
          PROVE  ring'[Slot(k - 1)] = ring[Slot(k - 1)]
      <3>1. k - 1 \in Indices /\ k - 1 < Count
        BY <1>0 DEF HeldShape
      <3>2. Slot(k - 1) \in Indices /\ Slot(k - 1) # head
        BY <1>0, <3>1, CountFacts
      <3>. QED
        BY <1>3, <3>2 DEF RxCopy, RxInv, RxTypeOK
    <2>2. Count' = Count /\ \A k \in 1 .. Count : Slot(k - 1)' = Slot(k - 1)
      BY <1>3 DEF RxCopy, Count, Slot
    <2>3. Held' = Held
      BY <2>1, <2>2 DEF Held
    <2>. QED
      BY <1>3, <2>3 DEF RxCopy, Fifo!fifo
  <1>4. CASE RxPublish
    <2>1. Held' = Append(Held, frame)
      BY <1>4, PublishAppends
    <2>2. frame \in Arrivals /\ RingSize > 1 /\ Succ(head) # tail
      BY <1>4 DEF RxPublish, RxInv
    <2>3. Count < (IF RingSize < 2 THEN 0 ELSE RingSize - 1)
      BY <1>0, <2>2, RingAssumption DEF Count, Succ, Indices
    <2>. QED
      BY <1>0, <1>4, <2>1, <2>2, <2>3
      DEF RxPublish, HeldShape, Fifo!FifoNext, Fifo!Accept
  <1>5. CASE PopBegin \/ PopRead \/ PopCopy
    BY <1>5 DEF PopBegin, PopRead, PopCopy, Fifo!fifo, Held, Count, Slot
  <1>6. CASE PopOversize \/ PopFree
    <2>1. /\ head # tail /\ tail' = Succ(tail) /\ head' = head /\ ring' = ring
          /\ got = ring[tail].len
      BY <1>6 DEF PopOversize, PopFree, RxInv
    <2>2. Held # <<>> /\ Head(Held) = ring[tail].frame /\ Held' = Tail(Held)
      BY <2>1, FreeTakesHead
    \* What is stored tells whether the frame fits: the buffer is smaller than
    \* the slot, so a frame the slot cuts short is too large for the buffer.
    <2>3. Sound(ring[tail])
      BY <1>0, <2>1, CountFacts, RingAssumption DEF RxInv, Indices
    <2>. DEFINE f == ring[tail].frame
    <2>4. f \in Arrivals /\ f = [id |-> f.id, len |-> f.len]
      BY <2>3 DEF Sound, Arrivals
    <2>5. /\ f.len \in Nat
          /\ got = (IF f.len > FrameMax THEN FrameMax ELSE f.len)
      BY <2>1, <2>3, <2>4, ArrivalType DEF Sound, Stored, Frame
    <2>6. (got <= BufLen <=> f.len <= BufLen) /\ (got <= BufLen => got = f.len)
      BY <2>5, LengthAssumption
    <2>7. CASE PopOversize
      <3>1. f.len > BufLen
        BY <2>5, <2>6, <2>7, LengthAssumption DEF PopOversize
      <3>. QED
        BY <2>2, <2>7, <3>1 DEF PopOversize, Fifo!FifoNext, Fifo!Discard
    <2>8. CASE PopFree
      <3>1. got <= BufLen
        BY <2>8 DEF PopFree, RxInv
      <3>2. [id |-> f.id, len |-> got] = f
        BY <2>4, <2>6, <3>1
      <3>. QED
        BY <2>2, <2>6, <2>8, <3>1, <3>2
        DEF PopFree, Fifo!FifoNext, Fifo!Deliver
    <2>. QED
      BY <1>6, <2>7, <2>8
  <1>7. CASE UNCHANGED rxVars
    BY <1>7 DEF rxVars, Fifo!fifo, Held, Count, Slot
  <1>. QED
    BY <1>1, <1>2, <1>3, <1>4, <1>5, <1>6, <1>7
    DEF RxNext, Producer, Consumer

\* The ring with its two unlocked indices is a bounded FIFO that delivers frames
\* in order and whole, and loses one only when it is full.
THEOREM RxImplementsFifo == RxSafeSpec => ImplementsFifo
  BY RefinementInit, RefinementStep, RxInvariant, PTL
  DEF RxSafeSpec, ImplementsFifo, Fifo!FifoSpec
-----------------------------------------------------------------------------
(* The transmit gate.                                                       *)

\* s_tx_busy is set when somebody writes, and no two senders write at once.
Sole ==
    /\ busy <=> \E s \in Senders : Writing(s)
    /\ \A s, t \in Senders : Writing(s) /\ Writing(t) => s = t

\* What the caller of Start and Stop knows at each of its steps.
ControlInv ==
    /\ control \in {"idle", "starting", "pumping"} => (txEnabled <=> wifiStarted)
    /\ control \in {"idle", "starting"} => (wifiStarted <=> radio = "on")
    /\ control = "pumping" => radio = "on"
    /\ control = "quiesce" => ~txEnabled /\ wifiStarted /\ radio = "on"
    /\ control = "stopping" => ~txEnabled /\ wifiStarted /\ ~busy

GateInv == Sole /\ ControlInv /\ (busy => wifiStarted /\ radio = "on")

\* The last event posted tells the association the blob has now.
LinkInv ==
    IF events = <<>> THEN connected <=> assoc
    ELSE events[Len(events)] = "connected" <=> assoc

-----------------------------------------------------------------------------
(* Type correctness.                                                       *)

LEMMA TxTypeInit == TxInit => TxTypeOK
  <1>. SUFFICES ASSUME TxInit PROVE TxTypeOK
    OBVIOUS
  <1>1. events \in Seq(WifiEvents) /\ Len(events) <= EventCap
    BY EventAssumption DEF TxInit
  <1>2. tries \in [Senders -> 0 .. Retries]
    BY RetryAssumption DEF TxInit
  <1>3. passes \in [Senders -> 0 .. PumpPasses - 1]
    BY PumpAssumption DEF TxInit
  <1>. QED
    BY <1>1, <1>2, <1>3 DEF TxInit, TxTypeOK

LEMMA TxTypeStep == TxTypeOK /\ [TxNext]_txVars => TxTypeOK'
  <1>. SUFFICES ASSUME TxTypeOK, [TxNext]_txVars PROVE TxTypeOK'
    OBVIOUS
  <1>. USE DEF TxTypeOK, gate, sending, link
  <1>1. ASSUME NEW s \in Senders, TxCall(s) PROVE TxTypeOK'
    BY <1>1 DEF TxCall, TakeGate
  <1>2. ASSUME NEW s \in Senders, TxWake(s) PROVE TxTypeOK'
    BY <1>2 DEF TxWake, TakeGate, Leave
  <1>3. ASSUME NEW s \in Senders, TxDone(s) PROVE TxTypeOK'
    <2>1. tries' \in [Senders -> 0 .. Retries]
      BY <1>3, RetryAssumption DEF TxDone, Release
    <2>. QED
      BY <1>3, <2>1 DEF TxDone, Release
  <1>4. ASSUME NEW s \in Senders, TxNoMem(s) PROVE TxTypeOK'
    <2>1. tries' \in [Senders -> 0 .. Retries]
      <3>1. CASE tries[s] < Retries /\ Rejected(s)
        <4>1. tries[s] + 1 \in 0 .. Retries
          BY <3>1, RetryAssumption
        <4>. QED
          BY <3>1, <4>1 DEF Rejected
      <3>2. CASE Release(s)
        BY <3>2, RetryAssumption DEF Release
      <3>. QED
        BY <1>4, <3>1, <3>2 DEF TxNoMem
    <2>. QED
      BY <1>4, <2>1 DEF TxNoMem, Rejected, Release
  <1>5. ASSUME NEW s \in Senders, TxPump(s) PROVE TxTypeOK'
    <2>1. passes' \in [Senders -> 0 .. PumpPasses - 1]
      <3>1. 0 \in 0 .. PumpPasses - 1
        BY PumpAssumption
      <3>2. passes[s] + 1 < PumpPasses => passes[s] + 1 \in 0 .. PumpPasses - 1
        BY PumpAssumption
      <3>. QED
        BY <1>5, <3>1, <3>2 DEF TxPump
    <2>. QED
      BY <1>5, <2>1 DEF TxPump
  <1>6. CASE StartCall
    BY <1>6 DEF StartCall
  <1>7. CASE StopCall
    BY <1>7 DEF StopCall, EnterWifiStop
  <1>8. CASE StartFails
    BY <1>8 DEF StartFails
  <1>9. CASE StartReturns
    BY <1>9 DEF StartReturns
  <1>10. CASE StartReady
    BY <1>10 DEF StartReady
  <1>11. CASE StopQuiesced
    BY <1>11 DEF StopQuiesced, EnterWifiStop
  <1>12. CASE StopTimeout
    BY <1>12 DEF StopTimeout
  <1>13. CASE StopFails
    BY <1>13 DEF StopFails
  <1>14. CASE StopReturns
    <2>1. PICK bye \in {<<"stop">>, <<"disconnected", "stop">>} :
              Len(events \o bye) <= EventCap /\ events' = events \o bye
      BY <1>14 DEF StopReturns
    <2>2. bye \in Seq(WifiEvents)
      <3>1. <<"stop">> \in Seq(WifiEvents)
        BY DEF WifiEvents
      <3>2. <<"disconnected", "stop">> \in Seq(WifiEvents)
        BY DEF WifiEvents
      <3>. QED
        BY <2>1, <3>1, <3>2
    <2>3. events' \in Seq(WifiEvents)
      BY <2>1, <2>2, ConcatProperties
    <2>. QED
      BY <1>14, <2>1, <2>3 DEF StopReturns
  <1>15. ASSUME NEW e \in WifiEvents, Post(e) PROVE
             /\ events' \in Seq(WifiEvents) /\ Len(events') <= EventCap
             /\ UNCHANGED <<iface, txEnabled, wifiStarted, busy, pc, tries, passes,
                            control, radio, connected>>
    <2>1. events' \in Seq(WifiEvents) /\ Len(events') = Len(events) + 1
      BY <1>15, AppendProperties DEF Post
    <2>. QED
      BY <1>15, <2>1, EventAssumption, LenProperties DEF Post
  <1>16. CASE Associate
    BY <1>16, <1>15 DEF Associate, WifiEvents
  <1>17. CASE LoseAssociation
    BY <1>17, <1>15 DEF LoseAssociation, WifiEvents
  <1>18. CASE Dispatch
    <2>1. events' \in Seq(WifiEvents) /\ Len(events') = Len(events) - 1
      BY <1>18, HeadTailProperties DEF Dispatch
    <2>2. Len(events) \in Nat
      BY LenProperties
    <2>. QED
      BY <1>18, <2>1, <2>2, EventAssumption DEF Dispatch
  <1>19. CASE UNCHANGED txVars
    BY <1>19 DEF txVars
  <1>. QED
    BY <1>1, <1>2, <1>3, <1>4, <1>5, <1>6, <1>7, <1>8, <1>9, <1>10, <1>11,
       <1>12, <1>13, <1>14, <1>16, <1>17, <1>18, <1>19
       DEF TxNext, SenderStep, ControlReturns

-----------------------------------------------------------------------------
(* The gate.                                                               *)

LEMMA GateInit == TxInit => GateInv
  BY DEF TxInit, GateInv, Sole, ControlInv, Writing

\* A sender that leaves pc alone, or moves outside or inside the gate.
LEMMA SoleKept ==
    ASSUME TxTypeOK, Sole, NEW s \in Senders, busy' = busy,
           \E step \in {"idle", "wait", "blob", "pump"} :
               /\ pc' = [pc EXCEPT ![s] = step]
               /\ pc[s] \in {"blob", "pump"} <=> step \in {"blob", "pump"}
    PROVE  Sole'
  <1>1. \A t \in Senders : Writing(t)' <=> Writing(t)
    BY DEF TxTypeOK, Writing
  <1>. QED
    BY <1>1 DEF Sole

LEMMA SoleTaken ==
    ASSUME TxTypeOK, Sole, NEW s \in Senders, ~busy, TakeGate(s)
    PROVE  Sole'
  <1>1. \A t \in Senders : Writing(t)' <=> t = s
    BY DEF TxTypeOK, Sole, TakeGate, Writing
  <1>. QED
    BY <1>1 DEF Sole, TakeGate

LEMMA SoleReleased ==
    ASSUME TxTypeOK, Sole, NEW s \in Senders, Writing(s), Release(s)
    PROVE  Sole'
  <1>1. \A t \in Senders : ~Writing(t)'
    BY DEF TxTypeOK, Sole, Release, Writing
  <1>. QED
    BY <1>1 DEF Sole, Release

LEMMA GateStep == TxTypeOK /\ GateInv /\ [TxNext]_txVars => GateInv'
  <1>. SUFFICES ASSUME TxTypeOK, GateInv, [TxNext]_txVars PROVE GateInv'
    OBVIOUS
  <1>. USE DEF GateInv
  <1>1. ASSUME NEW s \in Senders, TxCall(s) PROVE GateInv'
    <2>1. CASE ~busy /\ TakeGate(s)
      BY <1>1, <2>1, SoleTaken DEF TxTypeOK, TxCall, TakeGate, ControlInv, gate
    <2>2. CASE busy /\ pc' = [pc EXCEPT ![s] = "wait"] /\ UNCHANGED gate
      BY <1>1, <2>2, SoleKept DEF TxTypeOK, TxCall, ControlInv, gate
    <2>. QED
      BY <1>1, <2>1, <2>2 DEF TxCall
  <1>2. ASSUME NEW s \in Senders, TxWake(s) PROVE GateInv'
    <2>1. CASE ~txEnabled /\ Leave(s)
      BY <1>2, <2>1, SoleKept DEF TxTypeOK, TxWake, Leave, ControlInv, gate
    <2>2. CASE txEnabled /\ ~busy /\ TakeGate(s)
      BY <1>2, <2>2, SoleTaken DEF TxTypeOK, TxWake, TakeGate, ControlInv
    <2>. QED
      BY <1>2, <2>1, <2>2 DEF TxWake
  <1>3. ASSUME NEW s \in Senders, TxDone(s) PROVE GateInv'
    BY <1>3, SoleReleased DEF TxDone, Release, Writing, ControlInv
  <1>4. ASSUME NEW s \in Senders, TxNoMem(s) PROVE GateInv'
    <2>1. CASE Rejected(s)
      BY <1>4, <2>1, SoleKept DEF TxNoMem, Rejected, ControlInv, gate
    <2>2. CASE Release(s)
      BY <1>4, <2>2, SoleReleased DEF TxNoMem, Release, Writing, ControlInv
    <2>. QED
      BY <1>4, <2>1, <2>2 DEF TxNoMem
  <1>5. ASSUME NEW s \in Senders, TxPump(s) PROVE GateInv'
    <2>1. CASE pc' = [pc EXCEPT ![s] = "blob"]
      BY <1>5, <2>1, SoleKept DEF TxPump, ControlInv, gate
    <2>2. CASE UNCHANGED pc
      BY <1>5, <2>2 DEF TxPump, Sole, Writing, ControlInv, gate
    <2>. QED
      BY <1>5, <2>1, <2>2 DEF TxPump
  <1>6. ASSUME UNCHANGED <<pc, busy>> PROVE Sole'
    BY <1>6 DEF Sole, Writing
  <1>. USE DEF ControlInv, gate, sending, link
  <1>7. CASE StartCall
    BY <1>7, <1>6 DEF StartCall
  <1>8. CASE StopCall
    BY <1>8, <1>6 DEF StopCall, EnterWifiStop
  <1>9. CASE StartFails
    BY <1>9, <1>6 DEF StartFails
  <1>10. CASE StartReturns
    BY <1>10, <1>6 DEF StartReturns
  <1>11. CASE StartReady
    BY <1>11, <1>6 DEF StartReady
  <1>12. CASE StopQuiesced
    BY <1>12, <1>6 DEF StopQuiesced, EnterWifiStop
  <1>13. CASE StopTimeout
    BY <1>13, <1>6 DEF StopTimeout
  <1>14. CASE StopFails
    BY <1>14, <1>6 DEF StopFails
  <1>15. CASE StopReturns
    BY <1>15, <1>6 DEF StopReturns
  <1>16. CASE Associate \/ LoseAssociation
    BY <1>16, <1>6 DEF Associate, LoseAssociation, Post
  <1>17. CASE Dispatch
    BY <1>17, <1>6 DEF Dispatch
  <1>18. CASE UNCHANGED txVars
    BY <1>18, <1>6 DEF txVars
  <1>. QED
    BY <1>1, <1>2, <1>3, <1>4, <1>5, <1>7, <1>8, <1>9, <1>10, <1>11, <1>12,
       <1>13, <1>14, <1>15, <1>16, <1>17, <1>18
       DEF TxNext, SenderStep, ControlReturns

-----------------------------------------------------------------------------
(* The link flag.                                                          *)

LEMMA LinkStep == TxTypeOK /\ LinkInv /\ [TxNext]_txVars => LinkInv'
  <1>. SUFFICES ASSUME TxTypeOK, LinkInv, [TxNext]_txVars PROVE LinkInv'
    OBVIOUS
  <1>0. events \in Seq(WifiEvents) /\ Len(events) \in Nat
    BY LenProperties DEF TxTypeOK
  <1>1. ASSUME UNCHANGED link PROVE LinkInv'
    BY <1>1 DEF LinkInv, link
  <1>2. ASSUME NEW e \in WifiEvents, Post(e), assoc' <=> e = "connected"
        PROVE LinkInv'
    <2>1. Len(events') = Len(events) + 1 /\ events'[Len(events) + 1] = e
      BY <1>0, <1>2, AppendProperties DEF Post
    <2>2. events' # <<>>
      BY <1>0, <2>1
    <2>. QED
      BY <1>2, <2>1, <2>2 DEF LinkInv
  <1>3. CASE Associate
    BY <1>2, <1>3 DEF Associate, WifiEvents
  <1>4. CASE LoseAssociation
    BY <1>2, <1>4 DEF LoseAssociation, WifiEvents
  <1>5. CASE Dispatch
    <2>1. /\ Len(events') = Len(events) - 1
          /\ \A i \in 1 .. Len(events') : events'[i] = events[i + 1]
          /\ Head(events) = events[1]
      BY <1>0, <1>5, HeadTailProperties DEF Dispatch
    <2>2. CASE Len(events) = 1
      <3>1. events' = <<>>
        BY <1>0, <1>5, <2>1, <2>2, HeadTailProperties, EmptySeq DEF Dispatch
      <3>. QED
        BY <1>5, <2>1, <2>2, <3>1 DEF Dispatch, LinkInv
    <2>3. CASE Len(events) > 1
      <3>1. events' # <<>> /\ events'[Len(events')] = events[Len(events)]
        BY <1>0, <2>1, <2>3
      <3>. QED
        BY <1>5, <3>1 DEF Dispatch, LinkInv
    <2>4. Len(events) \in Nat \ {0}
      <3>1. events # <<>>
        BY <1>5 DEF Dispatch
      <3>. QED
        BY <1>0, <3>1, EmptySeq
    <2>5. \A n \in Nat \ {0} : n = 1 \/ n > 1
      OBVIOUS
    <2>. QED
      BY <2>2, <2>3, <2>4, <2>5, Zenon
  <1>6. CASE StopReturns
    <2>1. PICK bye \in {<<"stop">>, <<"disconnected", "stop">>} :
              events' = events \o bye
      BY <1>6 DEF StopReturns
    <2>2. bye \in Seq(WifiEvents) /\ Len(bye) \in 1 .. 2 /\ bye[Len(bye)] = "stop"
      <3>1. <<"stop">> \in Seq(WifiEvents)
        BY DEF WifiEvents
      <3>2. <<"disconnected", "stop">> \in Seq(WifiEvents)
        BY DEF WifiEvents
      <3>3. CASE bye = <<"stop">>
        BY <3>1, <3>3
      <3>4. CASE bye = <<"disconnected", "stop">>
        BY <3>2, <3>4
      <3>. QED
        BY <2>1, <3>3, <3>4
    <2>3. /\ Len(events') = Len(events) + Len(bye)
          /\ events'[Len(events) + Len(bye)] = bye[Len(bye)]
      BY <1>0, <2>1, <2>2, ConcatProperties
    <2>4. events' # <<>> /\ events'[Len(events')] = "stop"
      BY <1>0, <2>2, <2>3
    <2>. QED
      BY <1>6, <2>4 DEF StopReturns, LinkInv
  <1>7. CASE \E s \in Senders : SenderStep(s)
    BY <1>1, <1>7 DEF SenderStep, TxCall, TxWake, TxDone, TxNoMem, TxPump, link
  <1>8. CASE StartCall \/ StopCall \/ StartFails \/ StartReturns \/ StartReady
    BY <1>1, <1>8 DEF StartCall, StopCall, StartFails, StartReturns, StartReady
  <1>9. CASE StopQuiesced \/ StopTimeout \/ StopFails \/ UNCHANGED txVars
    BY <1>1, <1>9 DEF StopQuiesced, StopTimeout, StopFails, txVars
  <1>. QED
    BY <1>3, <1>4, <1>5, <1>6, <1>7, <1>8, <1>9 DEF TxNext, ControlReturns

-----------------------------------------------------------------------------
LEMMA TxInvariant == TxSpec => [](TxTypeOK /\ GateInv /\ LinkInv)
  <1>1. TxInit => TxTypeOK /\ GateInv /\ LinkInv
    BY TxTypeInit, GateInit DEF TxInit, LinkInv
  <1>2. TxTypeOK /\ GateInv /\ LinkInv /\ [TxNext]_txVars
            => (TxTypeOK /\ GateInv /\ LinkInv)'
    BY TxTypeStep, GateStep, LinkStep
  <1>. QED
    BY <1>1, <1>2, PTL DEF TxSpec

\* The model's variables keep their types: the retry and pump counters of
\* espradio_netif_tx stay within its two loop bounds.
THEOREM TxTypeCorrect == TxSpec => []TxTypeOK
  BY TxInvariant, PTL

\* s_tx_busy admits one goroutine at a time to esp_wifi_internal_tx, however
\* the waiters of the gate are scheduled while the one inside pumps.
THEOREM TxOneWriter == TxSpec => []OneWriter
  <1>1. GateInv => OneWriter
    <2>. SUFFICES ASSUME GateInv PROVE OneWriter
      OBVIOUS
    <2>1. CASE busy
      <3>1. PICK s \in Senders : Writing(s)
        BY <2>1 DEF GateInv, Sole
      <3>2. Writers = {s}
        BY <3>1 DEF GateInv, Sole, Writers
      <3>. QED
        BY <2>1, <3>2 DEF OneWriter
    <2>2. CASE ~busy
      BY <2>2 DEF GateInv, Sole, Writers, OneWriter
    <2>. QED
      BY <2>1, <2>2
  <1>. QED
    BY <1>1, TxInvariant, PTL

\* esp_wifi_stop never runs under a sender, and no sender gets into the blob
\* from there until postWiFiStart has opened the gate again.
THEOREM TxNeverIntoStop == TxSpec => []TxOnlyWhileStarted
  <1>1. GateInv => TxOnlyWhileStarted
    BY DEF GateInv, Sole, Writers, TxOnlyWhileStarted
  <1>. QED
    BY <1>1, TxInvariant, PTL

\* However Start and Stop end, they leave gate, flag and driver in agreement.
THEOREM TxGateFollowsDriver == TxSpec => []GateFollowsDriver
  <1>1. GateInv => GateFollowsDriver
    BY DEF GateInv, ControlInv, GateFollowsDriver
  <1>. QED
    BY <1>1, TxInvariant, PTL

\* The events in flight carry the flag senders read to the blob's state.
THEOREM TxLinkFlagSettles == TxSpec => []LinkFlagSettles
  <1>1. LinkInv => LinkFlagSettles
    BY DEF LinkInv, LinkFlagSettles
  <1>. QED
    BY <1>1, TxInvariant, PTL
=============================================================================
