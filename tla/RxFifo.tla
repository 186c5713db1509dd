-------------------------------- MODULE RxFifo --------------------------------
(***************************************************************************)
(* What the receive path of netif.c promises its user: a bounded FIFO of   *)
(* Ethernet frames.  A frame is lost only when the FIFO is full, frames    *)
(* come out in order and whole, and a frame too large for the caller's     *)
(* buffer is discarded instead of being cut short.                         *)
(***************************************************************************)
EXTENDS Integers, Sequences

CONSTANTS
    Capacity,    \* frames the FIFO holds
    BufLen,      \* length of the caller's buffer
    Frame        \* the frames the radio may receive, records with a field len

VARIABLES held, delivered, lost, oversize

fifo == <<held, delivered, lost, oversize>>

FifoInit == held = <<>> /\ delivered = <<>> /\ lost = 0 /\ oversize = 0

Accept(f) ==
    /\ Len(held) < Capacity
    /\ held' = Append(held, f)
    /\ UNCHANGED <<delivered, lost, oversize>>

Lose ==
    /\ Len(held) = Capacity
    /\ lost' = lost + 1
    /\ UNCHANGED <<held, delivered, oversize>>

Deliver ==
    /\ held # <<>> /\ Head(held).len <= BufLen
    /\ delivered' = Append(delivered, Head(held)) /\ held' = Tail(held)
    /\ UNCHANGED <<lost, oversize>>

Discard ==
    /\ held # <<>> /\ Head(held).len > BufLen
    /\ oversize' = oversize + 1 /\ held' = Tail(held)
    /\ UNCHANGED <<delivered, lost>>

FifoNext == (\E f \in Frame : Accept(f)) \/ Lose \/ Deliver \/ Discard

FifoSpec == FifoInit /\ [][FifoNext]_fifo
=============================================================================
