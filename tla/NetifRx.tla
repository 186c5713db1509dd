-------------------------------- MODULE NetifRx --------------------------------
(***************************************************************************)
(* The receive ring of netif.c: espradio_sta_rxcb fills it, in interrupt   *)
(* context on the ESP32-C3 and from a blob task elsewhere, and             *)
(* espradio_netif_rx_pop empties it for NetDev.EthPoll (netif_esp.go).     *)
(* One producer, one consumer, no lock: each side writes one index.        *)
(***************************************************************************)
EXTENDS Integers, Sequences

CONSTANTS
    RingSize,    \* s_rx_ring_size, in frames
    FrameMax,    \* ESPRADIO_NETIF_FRAME_MAX, 1600
    BufLen,      \* the caller's dst_len; MaxFrameSize, 1518, with a handler
    Lengths,     \* lengths the blob may report
    MaxFrames    \* bound: frames received in a behaviour

ASSUME RingAssumption == RingSize \in Nat
\* No caller's buffer takes the largest slot: MaxFrameSize < FRAME_MAX.
ASSUME LengthAssumption ==
    /\ FrameMax \in Nat /\ BufLen \in Nat /\ BufLen < FrameMax
    /\ Lengths \subseteq Nat
ASSUME BoundAssumption == MaxFrames \in Nat

Frame == [id : Nat, len : Nat]

VARIABLES
    head, tail,       \* s_rx_head, s_rx_tail
    ring,             \* the slots
    producer, frame,  \* where the callback is, and the frame it was given
    consumer, got,    \* where EthPoll is, and the length it read
    received,         \* s_rx_cb_count
    lost, oversize,   \* s_rx_cb_drop, s_rx_oversize
    delivered         \* history: what EthPoll returned, with the length it gave

rxVars == <<head, tail, ring, producer, frame, consumer, got, received, lost,
            oversize, delivered>>

Indices == 0 .. (IF RingSize = 0 THEN 0 ELSE RingSize - 1)
\* The n-th frame carries the identity n.
Arrivals == [id : 1 .. MaxFrames, len : Lengths]
NoFrame == [id |-> 0, len |-> 0]
\* A slot holds a frame's bytes and the length stored with them.
SlotValues == [frame : Frame, len : Nat]
EmptySlot == [frame |-> NoFrame, len |-> 0]

Succ(i) == IF i + 1 >= RingSize THEN 0 ELSE i + 1
Count == IF head >= tail THEN head - tail ELSE head - tail + RingSize
\* the index of the k-th stored frame, counted from the tail
Slot(k) == IF tail + k < RingSize THEN tail + k ELSE tail + k - RingSize

RxInit ==
    /\ head = 0 /\ tail = 0 /\ ring = [i \in Indices |-> EmptySlot]
    /\ producer = "idle" /\ frame = NoFrame
    /\ consumer = "idle" /\ got = 0
    /\ received = 0 /\ lost = 0 /\ oversize = 0 /\ delivered = <<>>

-----------------------------------------------------------------------------
(* espradio_sta_rxcb                                                       *)

\* Variant: the head is not compared with the tail.
FullUnchecked == RingSize < 2
Full == RingSize < 2 \/ Succ(head) = tail

RxDrop ==
    /\ producer = "idle" /\ received < MaxFrames /\ Full
    /\ received' = received + 1 /\ lost' = lost + 1
    /\ UNCHANGED <<head, tail, ring, producer, frame, consumer, got, oversize,
                   delivered>>

RxBegin ==
    /\ producer = "idle" /\ received < MaxFrames /\ ~Full
    /\ received' = received + 1
    /\ \E n \in Lengths : frame' = [id |-> received + 1, len |-> n]
    /\ producer' = "copy"
    /\ UNCHANGED <<head, tail, ring, consumer, got, lost, oversize, delivered>>

\* The slot keeps at most FrameMax bytes of the frame.
RxCopy ==
    /\ producer = "copy"
    /\ ring' = [ring EXCEPT ![head] =
                  [frame |-> frame,
                   len |-> IF frame.len > FrameMax THEN FrameMax ELSE frame.len]]
    /\ producer' = "publish"
    /\ UNCHANGED <<head, tail, frame, consumer, got, received, lost, oversize,
                   delivered>>

\* After the barrier the head covers the slot.
RxPublish ==
    /\ producer = "publish"
    /\ head' = Succ(head) /\ producer' = "idle"
    /\ UNCHANGED <<tail, ring, frame, consumer, got, received, lost, oversize,
                   delivered>>

Producer == RxDrop \/ RxBegin \/ RxCopy \/ RxPublish

-----------------------------------------------------------------------------
(* NetDev.ethPoll and espradio_netif_rx_pop; an empty ring returns at once. *)

PopBegin ==
    /\ consumer = "idle" /\ head # tail
    /\ consumer' = "read"
    /\ UNCHANGED <<head, tail, ring, producer, frame, got, received, lost,
                   oversize, delivered>>

PopRead ==
    /\ consumer = "read"
    /\ got' = ring[tail].len /\ consumer' = "decide"
    /\ UNCHANGED <<head, tail, ring, producer, frame, received, lost,
                   oversize, delivered>>

\* Variant: the frame is cut to the buffer instead of being dropped.
PopOversizeTruncates ==
    /\ consumer = "decide" /\ got > BufLen
    /\ delivered' = Append(delivered, [id |-> ring[tail].frame.id, len |-> BufLen])
    /\ tail' = Succ(tail) /\ consumer' = "idle"
    /\ UNCHANGED <<head, ring, producer, frame, got, received, lost, oversize>>

\* Variant: a frame that does not fit stays at the head of the line.
PopOversizeKeeps ==
    /\ consumer = "decide" /\ got > BufLen
    /\ oversize' = oversize + 1 /\ consumer' = "idle" /\ oversize < MaxFrames
    /\ UNCHANGED <<head, tail, ring, producer, frame, got, received, lost,
                   delivered>>

\* The frame will never fit: drop it whole and consume the slot.
PopOversize ==
    /\ consumer = "decide" /\ got > BufLen
    /\ oversize' = oversize + 1
    /\ tail' = Succ(tail) /\ consumer' = "idle"
    /\ UNCHANGED <<head, ring, producer, frame, got, received, lost, delivered>>

\* memcpy to the caller, then free the slot.
PopCopy ==
    /\ consumer = "decide" /\ got <= BufLen
    /\ consumer' = "free"
    /\ UNCHANGED <<head, tail, ring, producer, frame, got, received, lost,
                   oversize, delivered>>

PopFree ==
    /\ consumer = "free"
    /\ delivered' = Append(delivered, [id |-> ring[tail].frame.id, len |-> got])
    /\ tail' = Succ(tail) /\ consumer' = "idle"
    /\ UNCHANGED <<head, ring, producer, frame, got, received, lost, oversize>>

Consumer == PopBegin \/ PopRead \/ PopOversize \/ PopCopy \/ PopFree

RxNext == Producer \/ Consumer

\* The callback runs to its end, and the application keeps polling.
RxFairness ==
    /\ WF_rxVars(RxCopy \/ RxPublish)
    /\ WF_rxVars(Consumer)

RxSafeSpec == RxInit /\ [][RxNext]_rxVars
RxSpec == RxSafeSpec /\ RxFairness

-----------------------------------------------------------------------------
RxTypeOK ==
    /\ head \in Indices /\ tail \in Indices
    /\ ring \in [Indices -> SlotValues]
    /\ producer \in {"idle", "copy", "publish"} /\ frame \in Frame
    /\ consumer \in {"idle", "read", "decide", "free"} /\ got \in Nat
    /\ received \in Nat /\ lost \in Nat /\ oversize \in Nat
    /\ delivered \in Seq(Frame)

\* The callback never writes the slot that EthPoll is reading, although nothing
\* but the two indices keeps them apart.
NoTornRead ==
    (producer \in {"copy", "publish"} /\ consumer # "idle") => head # tail

\* Every frame the blob handed over is counted once: lost at a full ring, being
\* copied, stored, dropped as too large, or delivered.
FramesAccounted ==
    received = lost + (IF producer = "idle" THEN 0 ELSE 1) + Count
                    + oversize + Len(delivered)

\* The ring implements the FIFO: frames leave in arrival order, whole, none is
\* lost while there is room, and the only one withheld is too large.
Held == [k \in 1 .. Count |-> ring[Slot(k - 1)].frame]
Fifo == INSTANCE RxFifo WITH
          Capacity <- IF RingSize < 2 THEN 0 ELSE RingSize - 1,
          Frame <- Arrivals, held <- Held
ImplementsFifo == Fifo!FifoSpec

\* While the application polls, no frame stays in the ring for ever: one that
\* does not fit the caller's buffer does not block those behind it.
RingEmpties == (head # tail) ~> (head = tail)
=============================================================================
