-------------------------------- MODULE Vhci --------------------------------
(***************************************************************************)
(* The HCI transport to the BLE controller (vhci_ring.go, bluetooth.go,    *)
(* bt_ble.c) on the interrupt delivery of BtIrq.                           *)
(*                                                                         *)
(* To the host: the controller's callback, in the blob's ISR or in its     *)
(* event pump, puts the bytes of a packet one by one in a ring that one    *)
(* goroutine reads.  On the C3 it interrupts that goroutine, and is taken  *)
(* to come from the ISR only, as the ring's comment says.  With            *)
(* scheduler.cores the goroutine may be on core 1 (Read does not go        *)
(* through onCore0) and run at any time, during a push too; volatile       *)
(* stores of one core are taken to reach the other in their order.         *)
(* To the controller: a gate, a slot for one packet and a bounded pump.    *)
(* The controller runs on goroutines; it takes the packet and announces it *)
(* in one step, or takes it and announces nothing, and it may report room  *)
(* or none whatever is in the slot, but not none for ever.                 *)
(***************************************************************************)
EXTENDS BtIrq

CONSTANTS
    Uses,        \* "interrupts", "receive" (only 8 is raised), "send": what a behaviour has
    RingSize,    \* vhciRingSize, 2048 in the code
    Bytes,       \* what a byte can be
    MaxPacket,   \* bound: length of a packet
    MaxRead,     \* bound: length of a reader's buffer
    Writers,     \* goroutines that write
    MaxWrites    \* bound: packets each writes

CONSTANT None

ASSUME RingAssumption == RingSize \in Nat /\ RingSize > 1
ASSUME BoundAssumption == {MaxRead, MaxPacket, MaxWrites} \subseteq Nat \ {0}
ASSUME WriterAssumption == None \notin Writers

VARIABLES
    use,
    cores,       \* built with scheduler.cores, the reader on core 1
    pushing,     \* vhciRingPush: the bytes of the packet not published yet
    landed,      \* vhciRingPush: the first of them is stored
    buf, head, tail,   \* vhciRXBuf, vhciRXHead, vhciRXTail
    stream,      \* history: the bytes published and not read
    reader, want, byte,   \* vhciRead: where it is, the room left, the byte copied
    txBusy,      \* s_vhci_tx_busy
    sendAvailable,   \* s_vhci_send_available
    slot,        \* the writer of the packet the controller has not taken
    writer, round,   \* espradio_vhci_write: where each is; the rounds pumped
    writes,      \* how many packets each has written
    trampled     \* history: a packet was written over before its four rounds

build == <<use, cores>>
push == <<pushing, landed>>
ring == <<buf, head, tail, stream, push>>
read == <<reader, want, byte>>
tx   == <<txBusy, sendAvailable, slot, writer, round, writes, trampled>>
hvars == <<build, ring, read, tx>>
vars == <<ivars, hvars>>

Init ==
    /\ IInit
    /\ use \in Uses
    /\ cores \in IF Xtensa /\ use = "receive" THEN BOOLEAN ELSE {FALSE}
    /\ pushing = <<>> /\ landed = FALSE
    /\ buf = [i \in 0 .. RingSize - 1 |-> None] /\ head = 0 /\ tail = 0
    /\ stream = <<>>
    /\ reader = "idle" /\ want = 0 /\ byte = None
    /\ txBusy = FALSE /\ sendAvailable = TRUE /\ slot = None
    /\ writer = [w \in Writers |-> "idle"] /\ round = 0
    /\ writes = [w \in Writers |-> 0] /\ trampled = FALSE

-----------------------------------------------------------------------------
(* To the host.                                                            *)

Wrap(i) == IF i >= RingSize THEN i - RingSize ELSE i
\* vhciBuffered
Buffered == IF head >= tail THEN head - tail ELSE RingSize - tail + head
Packets == UNION {[1..n -> Bytes] : n \in 1..MaxPacket}

\* espradio_vhci_ring_push, called by vhci_host_recv_cb.
PushBegins(p) ==
    /\ pushing = <<>> /\ pushing' = p
    /\ UNCHANGED <<build, landed, buf, head, tail, stream, read, tx>>

\* Variant: the tail is not looked at.
FullNever == FALSE
\* The slot before the tail stays free.
Full == Wrap(head + 1) = tail

\* The head of the loop of vhciRingPush, with the tail read for every byte: it is
\* stored, or the packet loses its end.
StoreByte ==
    /\ pushing # <<>> /\ ~landed /\ UNCHANGED <<head, stream>>
    /\ IF Full THEN pushing' = <<>> /\ UNCHANGED <<landed, buf>>
       ELSE /\ landed' = TRUE /\ UNCHANGED pushing
            /\ buf' = [buf EXCEPT ![head] = pushing[1]]

PublishByte ==
    /\ landed /\ landed' = FALSE /\ UNCHANGED buf
    /\ head' = Wrap(head + 1) /\ stream' = Append(stream, pushing[1])
    /\ pushing' = Tail(pushing)

\* Variant: the index goes out before the byte.
PushIndexFirst ==
    \/ /\ pushing # <<>> /\ ~landed /\ ~Full /\ landed' = TRUE
       /\ head' = Wrap(head + 1) /\ stream' = Append(stream, pushing[1])
       /\ UNCHANGED <<pushing, buf>>
    \/ /\ landed /\ landed' = FALSE /\ pushing' = Tail(pushing)
       /\ buf' = [buf EXCEPT ![Wrap(head + RingSize - 1)] = pushing[1]]
       /\ UNCHANGED <<head, stream>>
PushByte == StoreByte \/ PublishByte

\* Only a handler of the CPU that pushes comes in between, and the reader of the
\* other core.
PushStep ==
    /\ ~Preempted /\ PushByte
    /\ UNCHANGED <<ivars, build, tail, read, tx>>

\* The blob's ISR runs, and may have a packet for the host.
IsrRuns(l) ==
    /\ use # "send" /\ pushing = <<>> /\ Isr(l)
    /\ UNCHANGED hvars \/ (use = "receive" /\ \E p \in Packets : PushBegins(p))

\* r_ke_event_schedule, called by espradio_bt_sched_tick.
KeDelivers ==
    /\ Xtensa /\ use = "receive" /\ At("work")
    /\ \E p \in Packets : PushBegins(p)
    /\ UNCHANGED ivars

\* The reader needs the CPU of the scheduler pass, unless it has core 1.
ReaderRuns == use = "receive" /\ (cores \/ (pushing = <<>> /\ Runs("reader")))
ReaderKeeps == IF cores THEN UNCHANGED where ELSE Keeps("reader")
ReaderYields == IF cores THEN UNCHANGED where ELSE Yields

\* VHCITransport.Read; ReadByte is a read of one byte.
ReadBegins(n) ==
    /\ ReaderRuns /\ reader = "idle" /\ reader' = "look"
    /\ want' = n /\ ReaderKeeps
    /\ UNCHANGED <<target, pending_, intr, build, ring, byte, tx>>

\* The head of vhciRead's loop: a byte is there, or what was read is returned,
\* or, with nothing read, Gosched.
Look ==
    /\ ReaderRuns /\ reader \in {"look", "more", "wait"}
    /\ IF want > 0 /\ head # tail
       THEN reader' = "copy" /\ ReaderKeeps /\ UNCHANGED want
       ELSE /\ ReaderYields
            /\ IF reader = "more" THEN reader' = "idle" /\ want' = 0
               ELSE reader' = "wait" /\ UNCHANGED want
    /\ UNCHANGED <<target, pending_, intr, build, ring, byte, tx>>

Copy ==
    /\ ReaderRuns /\ reader = "copy" /\ reader' = "store"
    /\ byte' = buf[tail]
    /\ UNCHANGED <<ivars, build, ring, want, tx>>

\* The slot is given back byte by byte, and what it held is forgotten.
Store ==
    /\ ReaderRuns /\ reader = "store" /\ reader' = "more"
    /\ tail' = Wrap(tail + 1) /\ stream' = Tail(stream)
    /\ buf' = [buf EXCEPT ![tail] = None]
    /\ want' = want - 1 /\ byte' = None
    /\ UNCHANGED <<ivars, build, head, push, tx>>

-----------------------------------------------------------------------------
(* To the controller.                                                      *)

Sends == use = "send" /\ UNCHANGED <<ivars, build, ring, read>>
PumpRounds == 4

\* espradio_vhci_write, up to the gate.
WriteBegins(w) ==
    /\ Sends /\ writer[w] = "idle" /\ writes[w] < MaxWrites
    /\ writer' = [writer EXCEPT ![w] = "gate"]
    /\ writes' = [writes EXCEPT ![w] = @ + 1]
    /\ UNCHANGED <<txBusy, sendAvailable, slot, round, trampled>>

GateOpens(w) ==
    /\ Sends /\ writer[w] = "gate" /\ ~txBusy /\ txBusy' = TRUE
    /\ writer' = [writer EXCEPT ![w] = "room"]
    /\ UNCHANGED <<sendAvailable, slot, round, writes, trampled>>

\* Variant: the flag of the last packet is not reset.
HandOverStale(w) ==
    /\ Sends /\ writer[w] = "room"
    /\ writer' = [writer EXCEPT ![w] = IF sendAvailable THEN "done" ELSE "pump"]
    /\ slot' = w /\ round' = 0
    /\ trampled' = (trampled \/ (slot # None /\ round < PumpRounds))
    /\ UNCHANGED <<txBusy, sendAvailable, writes>>

\* The controller reports room: the packet is in its slot, and the pump has
\* woken the controller task and yielded.
HandOver(w) ==
    /\ Sends /\ writer[w] = "room"
    /\ sendAvailable' = FALSE
    /\ writer' = [writer EXCEPT ![w] = "pump"]
    /\ slot' = w /\ round' = 0
    /\ trampled' = (trampled \/ (slot # None /\ round < PumpRounds))
    /\ UNCHANGED <<txBusy, writes>>

\* The controller takes the packet, or does nothing.
Takes == \/ slot # None /\ slot' = None /\ sendAvailable' \in {TRUE, sendAvailable}
         \/ UNCHANGED <<slot, sendAvailable>>
ControllerTakes ==
    /\ Sends /\ slot # None /\ Takes
    /\ UNCHANGED <<txBusy, writer, round, writes, trampled>>

\* Variant: it is pumped until it has been announced.
PumpForever(w) ==
    /\ Sends /\ writer[w] = "pump" /\ Takes
    /\ round' = IF round < PumpRounds THEN round + 1 ELSE round
    /\ writer' = [writer EXCEPT ![w] = IF sendAvailable' THEN "done" ELSE "pump"]
    /\ UNCHANGED <<txBusy, writes, trampled>>

\* The rest of a round of bt_pump_hci calls r_ke_event_schedule; then it is over,
\* or the next round wakes the controller and yields.
Pump(w) ==
    /\ Sends /\ writer[w] = "pump" /\ Takes
    /\ round' = round + 1
    /\ writer' = [writer EXCEPT ![w] =
                    IF sendAvailable' \/ round' = PumpRounds THEN "done" ELSE "pump"]
    /\ UNCHANGED <<txBusy, writes, trampled>>

WriteEnds(w) ==
    /\ Sends /\ writer[w] = "done" /\ txBusy' = FALSE
    /\ writer' = [writer EXCEPT ![w] = "idle"]
    /\ UNCHANGED <<sendAvailable, slot, round, writes, trampled>>

WriteStep(w) == GateOpens(w) \/ HandOver(w) \/ Pump(w) \/ WriteEnds(w)

Interrupts == use # "send" /\ UNCHANGED hvars
\* The pass waits for a packet that it, or an ISR, is pushing.
Passes == Interrupts /\ pushing = <<>> /\ Progress

Next ==
    \/ Interrupts /\ Disturbs /\ use = "interrupts"
    \/ Passes
    \/ Interrupts /\ \E l \in Lines : Latch(l)
    \/ Interrupts /\ \E l \in Lines : (l = 8 \/ use = "interrupts") /\ Raise(l)
    \/ \E l \in Lines \cup {Soft} : IsrRuns(l)
    \/ KeDelivers \/ PushStep \/ Look \/ Copy \/ Store \/ \E n \in 1..MaxRead : ReadBegins(n)
    \/ \E w \in Writers : WriteBegins(w) \/ WriteStep(w)
    \/ ControllerTakes

\* Handlers are entered; a goroutine that can go on gets its turn, however often
\* others take theirs; the controller reports room in the end.
Spec ==
    /\ Init /\ [][Next]_vars
    /\ \A l \in Lines : WF_vars(Interrupts /\ Latch(l))
    /\ SF_vars(Interrupts /\ TaskWrites)
    /\ SF_vars(Passes)
    /\ \A l \in Lines \cup {Soft} : SF_vars(IsrRuns(l))
    /\ WF_vars(PushStep) /\ WF_vars(Look \/ Copy \/ Store)
    /\ \A w \in Writers : WF_vars(WriteStep(w))

-----------------------------------------------------------------------------
(* Properties.                                                             *)

\* What the host reads is what the controller published, in that order: the byte
\* being read and those between tail and head, whenever a packet comes in
\* between and whatever reader runs during a push, and a full ring is not an
\* empty one.
StreamInOrder ==
    /\ Buffered = Len(stream)
    /\ \A i \in 1..Len(stream) : buf[Wrap(tail + i - 1)] = stream[i]
    /\ reader = "store" => byte = stream[1]

\* The single packet the controller has room for is written over only after its
\* writer has pumped four rounds for it in vain.
PacketsPumped == ~trampled

\* A write returns, whether or not the controller announces that it took the
\* packet.
WriteReturns == \A w \in Writers : writer[w] # "idle" ~> writer[w] = "idle"
=============================================================================
