------------------------------ MODULE Vhci_proofs ------------------------------
(***************************************************************************)
(* Proofs about the interrupts of the Bluetooth peripheral and the HCI     *)
(* transport, for any ring, packets, reads and writers.                    *)
(***************************************************************************)
EXTENDS Vhci, TLAPS, SequenceTheorems

-----------------------------------------------------------------------------
(* The interrupts.                                                         *)

LEMMA Names ==
  /\ Test(5) = "test5" /\ Test(7) = "test7" /\ Test(8) = "test8"
  /\ Run(5) = "run5" /\ Run(7) = "run7" /\ Run(8) = "run8"
  /\ Then(5) = "unmask" /\ Then(7) = "test8" /\ Then(8) = "test5"
  BY DEF Test, Run, Then

\* A latched line is one its peripheral asserts.  While an ISR is about to run
\* its line is not latched again: it is masked, or no handler may run.
Latched ==
    /\ \A l \in Lines : l \in pending => l \in raised
    /\ \A l \in Lines : pass = Run(l) => /\ l \in raised /\ l \notin pending
                                         /\ held \/ l \notin intenable
\* What a pass ends with is at least what it began with.
Restores ==
    /\ Xtensa /\ pass # "idle" => Gpio \in snapshot
    /\ pass = "idle" => Gpio \in intenable /\ (holder = "task" => Gpio \in val)
\* The C3 neither latches nor masks.
Direct == ~Xtensa => /\ pending = {} /\ holder # "task"
                     /\ pass \in {"idle", "work"} /\ Gpio \in intenable
IrqInv == Latched /\ Restores /\ Direct

LEMMA IrqInvInit == Init => IrqInv
  BY Names DEF Init, IInit, IrqInv, Latched, Restores, Direct, Lines, Gpio

LEMMA IrqSame ==
  ASSUME IrqInv, UNCHANGED <<target, pending_, intr, pass>>,
         holder' = "task" => holder = "task"
  PROVE  IrqInv'
  BY Names DEF IrqInv, Latched, Restores, Direct, Xtensa, pending_, intr, Lines

LEMMA IrqHardware ==
  ASSUME IrqInv, NEW l \in Lines, Raise(l) \/ Latch(l) \/ HwIsr(l)
  PROVE  IrqInv'
  <1>1. l # Gpio /\ (l = 5 \/ l = 8)
    BY DEF Lines, Gpio
  <1>2. CASE Raise(l)
    BY <1>2, Names DEF Raise, IrqInv, Latched, Restores, Direct, Xtensa, intr, where, Lines
  <1>3. CASE Latch(l)
    <2>1. /\ Xtensa /\ ~held /\ l \in raised /\ l \in intenable
          /\ pending' = pending \cup {l} /\ intenable' = intenable \ {l}
          /\ UNCHANGED <<target, raised, held, snapshot, val, pass, holder>>
      BY <1>3 DEF Latch, where
    <2>2. pass # Run(l)
      BY <2>1 DEF IrqInv, Latched
    <2>3. Latched'
      BY <1>1, <2>1, <2>2, Names DEF IrqInv, Latched, Lines
    <2>4. Restores' /\ Direct'
      BY <1>1, <2>1 DEF IrqInv, Restores, Direct, Xtensa
    <2>. QED
      BY <2>3, <2>4 DEF IrqInv
  <1>4. CASE HwIsr(l)
    <2>1. /\ ~Xtensa /\ raised' = raised \ {l}
          /\ UNCHANGED <<target, pending, intenable, held, snapshot, val, pass, holder>>
      BY <1>4 DEF HwIsr, RunIsr, intr, where
    <2>2. pending = {} /\ pass \in {"idle", "work"}
      BY <2>1 DEF IrqInv, Direct
    <2>3. Latched'
      BY <2>1, <2>2, Names DEF Latched, Lines
    <2>4. Restores' /\ Direct'
      BY <2>1 DEF IrqInv, Restores, Direct, Xtensa
    <2>. QED
      BY <2>3, <2>4 DEF IrqInv
  <1>. QED
    BY <1>2, <1>3, <1>4

LEMMA IrqDisturbs ==
  ASSUME IrqInv, Disturbs
  PROVE  IrqInv'
  <1>1. CASE RaiseSoft
    <2>1. /\ target = "esp32" /\ pending' = pending \cup {Soft}
          /\ UNCHANGED <<target, raised, intenable, held, snapshot, val, pass, holder>>
      BY <1>1 DEF RaiseSoft, intr, where
    <2>2. Xtensa /\ Soft \notin Lines
      BY <2>1 DEF Xtensa, Soft, Lines
    <2>. QED
      BY <2>1, <2>2 DEF IrqInv, Latched, Restores, Direct, Xtensa, Run
  <1>2. CASE TaskReads
    <2>1. /\ Xtensa /\ Yielding /\ holder' = "task" /\ val' = intenable
          /\ UNCHANGED <<target, raised, pending, intenable, held, snapshot, pass>>
      BY <1>2 DEF TaskReads, Runs, Keeps, pending_
    <2>. QED
      BY <2>1 DEF IrqInv, Latched, Restores, Direct, Xtensa, Run
  <1>3. CASE TaskWrites
    <2>1. /\ pass \in {"idle", "work"} /\ holder = "task" /\ holder' = "none"
          /\ intenable' = val
          /\ UNCHANGED <<target, raised, pending, held, snapshot, pass>>
      BY <1>3 DEF TaskWrites, Runs, Yields, Yielding, pending_
    <2>2. Xtensa
      BY <2>1 DEF IrqInv, Direct
    <2>. QED
      BY <2>1, <2>2, Names DEF IrqInv, Latched, Restores, Direct, Xtensa, Lines
  <1>4. CASE BlobMasks
    <2>1. /\ Xtensa /\ pass = "work" /\ intenable' = intenable \ {Gpio}
          /\ UNCHANGED <<target, raised, pending, held, snapshot, val, pass, holder>>
      BY <1>4 DEF BlobMasks, pending_, where
    <2>. QED
      BY <2>1, Names DEF IrqInv, Latched, Restores, Direct, Xtensa, Lines
  <1>5. CASE GcHolds
    <2>1. /\ held' = TRUE
          /\ UNCHANGED <<target, raised, pending, intenable, snapshot, val, pass, holder>>
      BY <1>5 DEF GcHolds, pending_, where
    <2>. QED
      BY <2>1 DEF IrqInv, Latched, Restores, Direct, Xtensa, Run
  <1>. QED
    BY <1>1, <1>2, <1>3, <1>4, <1>5 DEF Disturbs

\* Steps of the pass that change nothing but INTENABLE and what is read of it.
LEMMA IrqPass ==
  ASSUME IrqInv, Xtensa, holder = "none", holder' = "none", pass # "idle",
         pass' \notin {"idle", "run5", "run8"},
         UNCHANGED <<target, pending_, held, snapshot>>
  PROVE  IrqInv'
  BY Names DEF IrqInv, Latched, Restores, Direct, Xtensa, pending_, Lines

\* An ISR is taken from the latch when no handler is due: its own line is masked.
LEMMA IrqService ==
  ASSUME IrqInv, NEW l \in Lines \cup {Soft}, Service(l)
  PROVE  IrqInv'
  <1>1. /\ pass = Test(l) /\ holder = "none" /\ ~Preempted /\ holder' = "none"
        /\ pass' = (IF l \in pending THEN Run(l) ELSE Then(l))
        /\ pending' = pending \ {l}
        /\ UNCHANGED <<target, raised, intenable, held, snapshot, val>>
    BY DEF Service, At, PassRuns, Goto, intr
  <1>2. l \in {5, 7, 8} /\ Soft = 7 /\ Lines = {5, 8}
    BY DEF Lines, Soft
  <1>3. Xtensa /\ pass # "idle" /\ pass' # "idle"
    BY <1>1, <1>2, Names DEF IrqInv, Direct
  <1>4. Restores' /\ Direct'
    BY <1>1, <1>3 DEF IrqInv, Restores, Direct, Xtensa
  <1>5. ASSUME NEW k \in Lines, pass' = Run(k)
        PROVE  k \in raised' /\ k \notin pending' /\ (held' \/ k \notin intenable')
    <2>1. k = l /\ l \in pending
      BY <1>1, <1>2, <1>5, Names
    <2>2. k \in raised
      BY <2>1 DEF IrqInv, Latched
    <2>3. held \/ k \notin intenable
      BY <1>1, <1>3, <2>2 DEF Preempted
    <2>. QED
      BY <1>1, <2>1, <2>2, <2>3
  <1>6. Latched'
    BY <1>1, <1>5 DEF IrqInv, Latched, Run
  <1>. QED
    BY <1>4, <1>6 DEF IrqInv

LEMMA IrqServiceRuns ==
  ASSUME IrqInv, NEW l \in Lines \cup {Soft}, ServiceRuns(l)
  PROVE  IrqInv'
  <1>1. /\ pass = Run(l) /\ holder = "none" /\ holder' = "none" /\ pass' = Then(l)
        /\ raised' = raised \ {l}
        /\ UNCHANGED <<target, pending, intenable, held, snapshot, val>>
    BY DEF ServiceRuns, At, PassRuns, Goto, RunIsr, intr
  <1>2. l \in {5, 7, 8} /\ Soft = 7 /\ Lines = {5, 8}
    BY DEF Lines, Soft
  <1>3. Xtensa /\ pass # "idle" /\ pass' \notin {"idle", "run5", "run8"}
    BY <1>1, <1>2, Names DEF IrqInv, Direct
  <1>4. l \in Lines => l \notin pending
    BY <1>1 DEF IrqInv, Latched
  <1>5. Latched'
    BY <1>1, <1>2, <1>3, <1>4, Names DEF IrqInv, Latched
  <1>6. Restores' /\ Direct'
    BY <1>1, <1>3 DEF IrqInv, Restores, Direct, Xtensa
  <1>. QED
    BY <1>5, <1>6 DEF IrqInv

LEMMA IrqProgress ==
  ASSUME IrqInv, Progress
  PROVE  IrqInv'
  <1>1. CASE PassBegins
    <2>1. /\ pass = "idle" /\ snapshot' = (IF Xtensa THEN intenable ELSE {})
          /\ pass' = (IF Xtensa THEN "off" ELSE "work") /\ holder' = holder
          /\ UNCHANGED <<target, raised, pending, intenable, held, val>>
      BY <1>1 DEF PassBegins, At, Goto, pending_
    <2>. QED
      BY <2>1, Names DEF IrqInv, Latched, Restores, Direct, Xtensa, Lines
  <1>2. CASE IntsOffReads \/ UnmaskReads \/ EndReads
    <2>1. /\ pass \in {"off", "unmask", "end"} /\ holder = "none" /\ holder' = "none"
          /\ pass' \in {"offw", "unmaskw", "endw"}
          /\ UNCHANGED <<target, pending_, intenable, held, snapshot>>
      BY <1>2 DEF IntsOffReads, UnmaskReads, EndReads, Reads, At, PassRuns, Goto
    <2>2. Xtensa
      BY <2>1 DEF IrqInv, Direct
    <2>. QED
      BY <2>1, <2>2, IrqPass
  <1>3. CASE IntsOffWrites \/ UnmaskWrites
    <2>1. /\ pass \in {"offw", "unmaskw"} /\ holder = "none" /\ holder' = "none"
          /\ pass' \in {"test7", "test8", "work"}
          /\ UNCHANGED <<target, pending_, held, snapshot>>
      BY <1>3 DEF IntsOffWrites, UnmaskWrites, Writes, At, PassRuns, Goto
    <2>2. Xtensa
      BY <2>1 DEF IrqInv, Direct
    <2>. QED
      BY <2>1, <2>2, IrqPass
  <1>4. CASE WorkEnds
    <2>1. /\ pass = "work" /\ holder = "none" /\ holder' = "none"
          /\ pass' = (IF Xtensa THEN "end" ELSE "idle")
          /\ UNCHANGED <<target, raised, pending, intenable, held, snapshot, val>>
      BY <1>4 DEF WorkEnds, At, PassRuns, Goto, pending_, intr
    <2>. QED
      BY <2>1, Names DEF IrqInv, Latched, Restores, Direct, Xtensa, Lines
  <1>5. CASE EndWrites
    <2>1. /\ pass = "endw" /\ holder = "none" /\ holder' = "none" /\ pass' = "idle"
          /\ intenable' = val \cup snapshot
          /\ UNCHANGED <<target, raised, pending>>
      BY <1>5 DEF EndWrites, Writes, At, PassRuns, Goto, pending_
    <2>2. Xtensa
      BY <2>1 DEF IrqInv, Direct
    <2>. QED
      BY <2>1, <2>2, Names DEF IrqInv, Latched, Restores, Direct, Xtensa, Lines
  <1>6. CASE \E l \in Lines \cup {Soft} : Service(l)
    BY <1>6, IrqService
  <1>. QED
    BY <1>1, <1>2, <1>3, <1>4, <1>5, <1>6 DEF Progress

LEMMA IrqInvStep == IrqInv /\ [Next]_vars => IrqInv'
  <1>. SUFFICES ASSUME IrqInv, [Next]_vars PROVE IrqInv'
    OBVIOUS
  <1>1. ASSUME UNCHANGED ivars PROVE IrqInv'
    BY <1>1, IrqSame DEF ivars, where
  <1>2. CASE UNCHANGED vars
    BY <1>1, <1>2 DEF vars
  <1>3. CASE Disturbs \/ Progress \/ \E l \in Lines : Latch(l) \/ Raise(l)
    BY <1>3, IrqDisturbs, IrqProgress, IrqHardware
  <1>4. CASE \E l \in Lines \cup {Soft} : IsrRuns(l)
    BY <1>4, IrqHardware, IrqServiceRuns DEF IsrRuns, Isr
  <1>5. ASSUME Look \/ \E n \in 1..MaxRead : ReadBegins(n) PROVE IrqInv'
    <2>1. /\ UNCHANGED <<target, pending_, intr, pass>>
          /\ holder' \in {"reader", "none", holder}
      BY <1>5 DEF Look, ReadBegins, ReaderKeeps, ReaderYields, Keeps, Yields, where
    <2>. QED
      BY <2>1, IrqSame
  <1>6. CASE KeDelivers \/ PushStep \/ Copy \/ Store
    BY <1>1, <1>6 DEF KeDelivers, PushStep, Copy, Store
  <1>7. CASE (\E w \in Writers : WriteBegins(w) \/ WriteStep(w)) \/ ControllerTakes
    BY <1>1, <1>7 DEF WriteBegins, WriteStep, GateOpens, HandOver, Pump, WriteEnds,
                      ControllerTakes, Sends
  <1>. QED
    BY <1>2, <1>3, <1>4, <1>5, <1>6, <1>7 DEF Next, Interrupts, Passes

\* espradio_bt_chip_service_isrs calls the blob's ISR only for an interrupt the
\* peripheral asserts.
THEOREM IsrJustified == Spec => []IsrOnlyOnEvent
  <1>1. IrqInv => IsrOnlyOnEvent
    BY DEF IrqInv, Latched, IsrOnlyOnEvent
  <1>. QED
    BY IrqInvInit, IrqInvStep, <1>1, PTL DEF Spec

\* espradio_wifi_unmask gives TinyGo back the interrupt a ROM function masked.
THEOREM GpioRestored == Spec => []GpioKept
  <1>1. IrqInv => GpioKept
    BY DEF IrqInv, Restores, GpioKept
  <1>. QED
    BY IrqInvInit, IrqInvStep, <1>1, PTL DEF Spec

-----------------------------------------------------------------------------
(* To the controller.                                                      *)

Inside == {"room", "pump", "done"}
\* One writer is past the gate at most, and a packet leaves the slot before
\* another comes, or has been pumped for.
TxInv ==
    /\ txBusy \in BOOLEAN /\ writer \in [Writers -> {"idle", "gate"} \cup Inside]
    /\ round \in 0..PumpRounds
    /\ \A w \in Writers : writer[w] \in Inside => txBusy
    /\ \A w \in Writers, u \in Writers : writer[w] \in Inside /\ writer[u] \in Inside => w = u
    /\ sendAvailable => slot = None
    /\ \A w \in Writers : writer[w] = "pump" => round < PumpRounds
    /\ slot = None \/ round = PumpRounds \/ \E w \in Writers : writer[w] = "pump"
    /\ ~trampled

LEMMA TxInvInit == Init => TxInv
  <1>. SUFFICES ASSUME Init PROVE TxInv
    OBVIOUS
  <1>1. /\ txBusy = FALSE /\ slot = None /\ trampled = FALSE /\ round = 0
        /\ writer = [w \in Writers |-> "idle"]
    BY DEF Init
  <1>2. writer \in [Writers -> {"idle", "gate"} \cup Inside]
        /\ \A w \in Writers : writer[w] = "idle"
    BY <1>1
  <1>3. "idle" \notin Inside /\ "idle" # "pump" /\ 0 \in 0..PumpRounds
    BY DEF Inside, PumpRounds
  <1>. QED
    BY <1>1, <1>2, <1>3 DEF TxInv

LEMMA TxWriter ==
  ASSUME TxInv, NEW w \in Writers, WriteBegins(w) \/ WriteStep(w)
  PROVE  TxInv'
  <1>1. writer \in [Writers -> {"idle", "gate"} \cup Inside] /\ PumpRounds = 4
    BY DEF TxInv, PumpRounds
  <1>2. CASE WriteBegins(w)
    <2>1. /\ writer[w] = "idle" /\ writer' = [writer EXCEPT ![w] = "gate"]
          /\ UNCHANGED <<txBusy, sendAvailable, slot, round, trampled>>
      BY <1>2 DEF WriteBegins
    <2>2. writer'[w] = "gate" /\ \A u \in Writers : u # w => writer'[u] = writer[u]
      BY <1>1, <2>1
    <2>3. writer' \in [Writers -> {"idle", "gate"} \cup Inside]
      BY <1>1, <2>1
    <2>. QED
      BY <2>1, <2>2, <2>3 DEF TxInv, Inside
  <1>3. CASE GateOpens(w)
    <2>1. /\ writer[w] = "gate" /\ ~txBusy /\ txBusy' = TRUE
          /\ writer' = [writer EXCEPT ![w] = "room"]
          /\ UNCHANGED <<sendAvailable, slot, round, trampled>>
      BY <1>3 DEF GateOpens
    <2>2. writer'[w] = "room" /\ \A u \in Writers : u # w => writer'[u] = writer[u]
      BY <1>1, <2>1
    <2>3. writer' \in [Writers -> {"idle", "gate"} \cup Inside]
      BY <1>1, <2>1 DEF Inside
    <2>4. \A u \in Writers : writer[u] \notin Inside
      BY <2>1 DEF TxInv
    <2>. QED
      BY <2>1, <2>2, <2>3, <2>4 DEF TxInv, Inside
  <1>4. CASE HandOver(w)
    <2>1. /\ writer[w] = "room" /\ sendAvailable' = FALSE
          /\ writer' = [writer EXCEPT ![w] = "pump"] /\ round' = 0
          /\ trampled' = (trampled \/ (slot # None /\ round < PumpRounds))
          /\ UNCHANGED txBusy
      BY <1>4 DEF HandOver
    <2>2. writer'[w] = "pump" /\ \A u \in Writers : u # w => writer'[u] = writer[u]
      BY <1>1, <2>1
    <2>3. writer' \in [Writers -> {"idle", "gate"} \cup Inside]
      BY <1>1, <2>1 DEF Inside
    <2>4. \A u \in Writers : writer[u] \in Inside => u = w
      BY <2>1 DEF TxInv, Inside
    <2>5. slot = None \/ round = PumpRounds
      BY <2>1, <2>4 DEF TxInv, Inside
    <2>7. ~(slot # None /\ round < PumpRounds) /\ ~trampled
      BY <1>1, <2>5 DEF TxInv
    <2>8. round' \in 0..PumpRounds /\ round' < PumpRounds
      BY <1>1, <2>1
    <2>6. ~trampled' /\ round' \in 0..PumpRounds /\ round' < PumpRounds
      BY <2>1, <2>7, <2>8
    <2>. QED
      BY <2>1, <2>2, <2>3, <2>4, <2>6 DEF TxInv, Inside
  <1>5. CASE Pump(w)
    <2>1. /\ writer[w] = "pump" /\ Takes /\ round' = round + 1
          /\ writer' = [writer EXCEPT ![w] =
                          IF sendAvailable' \/ round' = PumpRounds THEN "done" ELSE "pump"]
          /\ UNCHANGED <<txBusy, trampled>>
      BY <1>5 DEF Pump
    <2>2. /\ writer'[w] = (IF sendAvailable' \/ round' = PumpRounds THEN "done" ELSE "pump")
          /\ \A u \in Writers : u # w => writer'[u] = writer[u]
      BY <1>1, <2>1
    <2>3. writer' \in [Writers -> {"idle", "gate"} \cup Inside]
      BY <1>1, <2>1 DEF Inside
    <2>4. \A u \in Writers : u # w => writer[u] \notin Inside
      BY <2>1 DEF TxInv, Inside
    <2>5. round \in 0..PumpRounds /\ round < PumpRounds
      BY <2>1 DEF TxInv
    <2>6. round' \in 0..PumpRounds /\ (round' # PumpRounds => round' < PumpRounds)
      BY <1>1, <2>1, <2>5
    <2>7. sendAvailable' => slot' = None
      BY <2>1 DEF Takes, TxInv
    <2>8. /\ \A u \in Writers : writer'[u] \in Inside => u = w /\ txBusy'
          /\ \A u \in Writers : writer'[u] = "pump" => round' < PumpRounds
      BY <2>1, <2>2, <2>4, <2>6 DEF TxInv, Inside
    <2>9. slot' = None \/ round' = PumpRounds \/ writer'[w] = "pump"
      BY <2>2, <2>7
    <2>. QED
      BY <2>1, <2>3, <2>6, <2>7, <2>8, <2>9 DEF TxInv
  <1>6. CASE WriteEnds(w)
    <2>1. /\ writer[w] = "done" /\ txBusy' = FALSE /\ writer' = [writer EXCEPT ![w] = "idle"]
          /\ UNCHANGED <<sendAvailable, slot, round, trampled>>
      BY <1>6 DEF WriteEnds
    <2>2. writer'[w] = "idle" /\ \A u \in Writers : u # w => writer'[u] = writer[u]
      BY <1>1, <2>1
    <2>3. writer' \in [Writers -> {"idle", "gate"} \cup Inside]
      BY <1>1, <2>1
    <2>4. \A u \in Writers : u # w => writer[u] \notin Inside
      BY <2>1 DEF TxInv, Inside
    <2>. QED
      BY <2>1, <2>2, <2>3, <2>4 DEF TxInv, Inside
  <1>. QED
    BY <1>2, <1>3, <1>4, <1>5, <1>6 DEF WriteStep

LEMMA TxInvStep == TxInv /\ [Next]_vars => TxInv'
  <1>. SUFFICES ASSUME TxInv, [Next]_vars PROVE TxInv'
    OBVIOUS
  <1>1. ASSUME UNCHANGED tx PROVE TxInv'
    BY <1>1 DEF tx, TxInv
  <1>2. CASE ControllerTakes
    <2>1. UNCHANGED <<txBusy, writer, round, trampled>>
      BY <1>2 DEF ControllerTakes
    <2>2. slot' = None \/ UNCHANGED <<slot, sendAvailable>>
      BY <1>2 DEF ControllerTakes, Takes
    <2>3. sendAvailable' => slot' = None
      BY <2>2 DEF TxInv
    <2>4. slot' = None \/ round = PumpRounds \/ \E w \in Writers : writer[w] = "pump"
      BY <2>2 DEF TxInv
    <2>. QED
      BY <2>1, <2>3, <2>4 DEF TxInv
  <1>3. CASE \E w \in Writers : WriteBegins(w) \/ WriteStep(w)
    BY <1>3, TxWriter
  <1>4. ASSUME NEW l \in Lines \cup {Soft}, IsrRuns(l) PROVE UNCHANGED tx
    BY <1>4 DEF IsrRuns, hvars, PushBegins
  <1>5. CASE \/ KeDelivers \/ PushStep \/ Look \/ Copy \/ Store
             \/ \E n \in 1..MaxRead : ReadBegins(n)
    BY <1>1, <1>5 DEF KeDelivers, PushStep, Look, Copy, Store, ReadBegins, PushBegins
  <1>. QED
    BY <1>1, <1>2, <1>3, <1>4, <1>5 DEF Next, Interrupts, Passes, hvars, vars

\* espradio_vhci_write never gives the controller a packet over one that had
\* fewer than the four rounds of bt_pump_hci.
THEOREM PacketsSafe == Spec => []PacketsPumped
  <1>1. TxInv => PacketsPumped
    BY DEF TxInv, PacketsPumped
  <1>. QED
    BY TxInvInit, TxInvStep, <1>1, PTL DEF Spec

-----------------------------------------------------------------------------
(* To the host.                                                            *)

Buffer == 0 .. RingSize - 1
\* A byte that is stored and not published is in a slot the reader does not look at.
Landed == landed => pushing # <<>> /\ ~Full /\ buf[head] = pushing[1]
RingInv ==
    /\ head \in Buffer /\ tail \in Buffer /\ buf \in [Buffer -> Bytes \cup {None}]
    /\ stream \in Seq(Bytes) /\ Buffered = Len(stream)
    /\ \A i \in 1..Len(stream) : buf[Wrap(tail + i - 1)] = stream[i]
    /\ reader \in {"copy", "store"} => stream # <<>>
    /\ reader = "store" => byte = stream[1]
    /\ pushing \in Seq(Bytes) /\ Landed

LEMMA Ranges ==
  ASSUME RingInv
  PROVE  /\ RingSize \in Int /\ RingSize > 1 /\ head \in Int /\ tail \in Int
         /\ 0 <= head /\ head < RingSize /\ 0 <= tail /\ tail < RingSize
         /\ Len(stream) \in Nat /\ Len(stream) <= RingSize - 1
         /\ Len(stream) = IF head >= tail THEN head - tail ELSE RingSize - tail + head
         /\ stream = <<>> <=> Len(stream) = 0
         /\ stream = <<>> <=> head = tail
  <1>1. RingSize \in Int /\ RingSize > 1
    BY RingAssumption
  <1>2. /\ head \in Int /\ tail \in Int /\ 0 <= head /\ head < RingSize
        /\ 0 <= tail /\ tail < RingSize
    BY <1>1 DEF RingInv, Buffer
  <1>3. Len(stream) = IF head >= tail THEN head - tail ELSE RingSize - tail + head
    BY DEF RingInv, Buffered
  <1>4. Len(stream) \in Nat /\ (stream = <<>> <=> Len(stream) = 0)
    BY LenProperties, EmptySeq DEF RingInv
  <1>5. Len(stream) <= RingSize - 1 /\ (Len(stream) = 0 <=> head = tail)
    BY <1>1, <1>2, <1>3
  <1>. QED
    BY <1>1, <1>2, <1>3, <1>4, <1>5

LEMMA RingBegins ==
  ASSUME RingInv, NEW p \in Packets, PushBegins(p)
  PROVE  RingInv'
  <1>1. /\ pushing = <<>> /\ pushing' = p
        /\ UNCHANGED <<landed, buf, head, tail, stream, reader, byte>>
    BY DEF PushBegins, read
  <1>2. p \in Seq(Bytes)
    BY BoundAssumption DEF Packets
  <1>3. ~landed
    BY <1>1 DEF RingInv, Landed
  <1>. QED
    BY <1>1, <1>2, <1>3 DEF RingInv, Landed, Buffered

\* A byte is stored in none of the slots that hold the stream.
LEMMA RingStore ==
  ASSUME RingInv, StoreByte, UNCHANGED <<tail, reader, byte>>
  PROVE  RingInv'
  <1>1. pushing # <<>> /\ ~landed /\ UNCHANGED <<head, stream>> /\ pushing \in Seq(Bytes)
    BY DEF StoreByte, RingInv
  <1>2. CASE Full
    <2>1. pushing' = <<>> /\ UNCHANGED <<landed, buf>>
      BY <1>2 DEF StoreByte
    <2>2. pushing' \in Seq(Bytes)
      BY <2>1, EmptySeq
    <2>. QED
      BY <1>1, <2>1, <2>2 DEF RingInv, Landed, Buffered
  <1>3. CASE ~Full
    <2>1. /\ landed' = TRUE /\ UNCHANGED pushing
          /\ buf' = [buf EXCEPT ![head] = pushing[1]]
      BY <1>3 DEF StoreByte
    <2>2. pushing[1] \in Bytes
      <3>1. Len(pushing) # 0 /\ Len(pushing) \in Nat
        BY <1>1, LenProperties, EmptySeq
      <3>2. 1 \in 1..Len(pushing)
        BY <3>1
      <3>. QED
        BY <1>1, <3>2, ElementOfSeq
    <2>3. head \in Buffer /\ buf \in [Buffer -> Bytes \cup {None}]
      BY DEF RingInv
    <2>4. /\ buf' \in [Buffer -> Bytes \cup {None}] /\ buf'[head] = pushing[1]
          /\ \A i \in Buffer : i # head => buf'[i] = buf[i]
      BY <2>1, <2>2, <2>3
    <2>5. ASSUME NEW i \in 1..Len(stream)
          PROVE  buf'[Wrap(tail + i - 1)] = stream[i]
      <3>1. Wrap(tail + i - 1) \in Buffer /\ Wrap(tail + i - 1) # head
        BY Ranges DEF Wrap, Buffer
      <3>. QED
        BY <2>4, <3>1 DEF RingInv
    <2>6. ~Full'
      BY <1>1, <1>3 DEF Full, Wrap
    <2>. QED
      BY <1>1, <2>1, <2>4, <2>5, <2>6 DEF RingInv, Landed, Buffered
  <1>. QED
    BY <1>2, <1>3

\* What is published goes behind what is there.
LEMMA RingPublish ==
  ASSUME RingInv, PublishByte, UNCHANGED <<tail, reader, byte>>
  PROVE  RingInv'
  <1>1. /\ landed' = FALSE /\ UNCHANGED buf /\ head' = Wrap(head + 1)
        /\ stream' = Append(stream, pushing[1]) /\ pushing' = Tail(pushing)
        /\ pushing # <<>> /\ pushing \in Seq(Bytes) /\ ~Full /\ buf[head] = pushing[1]
    BY DEF PublishByte, RingInv, Landed
  <1>2. /\ RingSize \in Int /\ RingSize > 1 /\ head \in Int /\ tail \in Int
        /\ 0 <= head /\ head < RingSize /\ 0 <= tail /\ tail < RingSize
        /\ Len(stream) \in Nat /\ Len(stream) <= RingSize - 1
        /\ Len(stream) = IF head >= tail THEN head - tail ELSE RingSize - tail + head
    BY Ranges
  <1>3. pushing' \in Seq(Bytes) /\ pushing[1] \in Bytes
    <2>1. Len(pushing) # 0 /\ Len(pushing) \in Nat
      BY <1>1, LenProperties, EmptySeq
    <2>2. 1 \in 1..Len(pushing)
      BY <2>1
    <2>3. pushing[1] \in Bytes
      BY <1>1, <2>2, ElementOfSeq
    <2>. QED
      BY <1>1, <2>3, HeadTailProperties
  <1>4. /\ stream' \in Seq(Bytes) /\ Len(stream') = Len(stream) + 1
        /\ \A i \in 1..Len(stream) : stream'[i] = stream[i]
        /\ stream'[Len(stream) + 1] = pushing[1]
    BY <1>1, <1>3, AppendProperties DEF RingInv
  <1>5. head' \in Buffer /\ tail' \in Buffer
    BY <1>1, <1>2 DEF Wrap, Buffer
  <1>6. Buffered' = Len(stream')
    BY <1>1, <1>2, <1>4 DEF Buffered, Wrap, Full
  <1>7. ASSUME NEW i \in 1..Len(stream')
        PROVE  buf'[Wrap(tail' + i - 1)] = stream'[i]
    <2>1. CASE i \in 1..Len(stream)
      BY <1>1, <1>4, <2>1 DEF RingInv
    <2>2. CASE i = Len(stream) + 1
      <3>1. Wrap(tail + i - 1) = head
        BY <1>2, <2>2 DEF Wrap
      <3>. QED
        BY <1>1, <1>4, <2>2, <3>1
    <2>3. i \in 1..Len(stream) \/ i = Len(stream) + 1
      BY <1>2, <1>4
    <2>. QED
      BY <2>1, <2>2, <2>3
  <1>8. stream # <<>> => stream' # <<>> /\ stream'[1] = stream[1]
    <2>1. ASSUME stream # <<>> PROVE stream' # <<>> /\ stream'[1] = stream[1]
      <3>1. Len(stream) # 0
        BY <2>1, Ranges
      <3>2. 1 \in 1..Len(stream) /\ Len(stream') # 0
        BY <1>2, <1>4, <3>1
      <3>. QED
        BY <1>4, <3>2, EmptySeq
    <2>. QED
      BY <2>1
  <1>. QED
    BY <1>1, <1>3, <1>4, <1>5, <1>6, <1>7, <1>8 DEF RingInv, Landed

LEMMA RingRead ==
  ASSUME RingInv, Look \/ Copy \/ Store \/ \E n \in 1..MaxRead : ReadBegins(n)
  PROVE  RingInv'
  <1>1. /\ RingSize \in Int /\ RingSize > 1 /\ head \in Int /\ tail \in Int
        /\ 0 <= head /\ head < RingSize /\ 0 <= tail /\ tail < RingSize
        /\ Len(stream) \in Nat /\ Len(stream) <= RingSize - 1
        /\ Len(stream) = IF head >= tail THEN head - tail ELSE RingSize - tail + head
        /\ stream = <<>> <=> head = tail
    BY Ranges
  <1>2. ASSUME NEW n \in 1..MaxRead, ReadBegins(n) PROVE RingInv'
    <2>1. reader' = "look" /\ UNCHANGED <<head, tail, buf, stream, pushing, landed>>
      BY <1>2 DEF ReadBegins, ring, push
    <2>. QED
      BY <2>1 DEF RingInv, Buffered, Landed, Full
  <1>3. CASE Look
    <2>1. /\ UNCHANGED <<head, tail, buf, stream, pushing, landed>> /\ reader' # "store"
          /\ reader' = "copy" => head # tail
      BY <1>3 DEF Look, ring, push
    <2>. QED
      BY <1>1, <2>1 DEF RingInv, Buffered, Landed, Full
  <1>4. CASE Copy
    <2>1. /\ reader = "copy" /\ reader' = "store" /\ byte' = buf[tail]
          /\ UNCHANGED <<head, tail, buf, stream, pushing, landed>>
      BY <1>4 DEF Copy, ring, push
    <2>2. 1 \in 1..Len(stream) /\ Wrap(tail + 1 - 1) = tail /\ stream # <<>>
      BY <1>1, <2>1, Ranges DEF RingInv, Wrap
    <2>3. buf[tail] = stream[1]
      BY <2>2 DEF RingInv
    <2>. QED
      BY <2>1, <2>2, <2>3 DEF RingInv, Buffered, Landed, Full
  <1>5. CASE Store
    <2>1. /\ reader = "store" /\ reader' = "more" /\ tail' = Wrap(tail + 1)
          /\ stream' = Tail(stream) /\ buf' = [buf EXCEPT ![tail] = None]
          /\ UNCHANGED <<head, pushing, landed>>
      BY <1>5 DEF Store, push
    <2>2. stream # <<>> /\ head # tail /\ stream \in Seq(Bytes)
      BY <1>1, <2>1 DEF RingInv
    <2>3. /\ stream' \in Seq(Bytes) /\ Len(stream') = Len(stream) - 1
          /\ \A i \in 1..Len(stream') : stream'[i] = stream[i + 1]
      BY <2>1, <2>2, HeadTailProperties
    <2>4. tail' \in Buffer /\ head' \in Buffer
      BY <1>1, <2>1 DEF Wrap, Buffer
    <2>5. Buffered' = Len(stream')
      BY <1>1, <2>1, <2>2, <2>3 DEF Buffered, Wrap
    <2>6. buf' \in [Buffer -> Bytes \cup {None}]
          /\ \A i \in Buffer : i # tail => buf'[i] = buf[i]
      BY <2>1 DEF RingInv
    <2>7. ASSUME NEW i \in 1..Len(stream')
          PROVE  buf'[Wrap(tail' + i - 1)] = stream'[i]
      <3>1. i \in Int /\ 1 <= i /\ i + 1 \in 1..Len(stream)
        BY <1>1, <2>3
      <3>2. Wrap(tail' + i - 1) = Wrap(tail + (i + 1) - 1)
        BY <1>1, <2>1, <3>1 DEF Wrap
      <3>3. Wrap(tail + (i + 1) - 1) \in Buffer /\ Wrap(tail + (i + 1) - 1) # tail
        BY <1>1, <3>1 DEF Wrap, Buffer
      <3>4. buf[Wrap(tail + (i + 1) - 1)] = stream[i + 1]
        BY <3>1 DEF RingInv
      <3>. QED
        BY <2>3, <2>6, <3>2, <3>3, <3>4
    <2>8. ~Full => ~Full'
      BY <1>1, <2>1, <2>2 DEF Full, Wrap
    <2>9. buf'[head] = buf[head]
      BY <2>2, <2>6 DEF RingInv
    <2>10. Landed'
      BY <2>1, <2>8, <2>9 DEF RingInv, Landed
    <2>. QED
      BY <2>1, <2>3, <2>4, <2>5, <2>6, <2>7, <2>10 DEF RingInv
  <1>. QED
    BY <1>2, <1>3, <1>4, <1>5

LEMMA RingInvInit == Init => RingInv
  <1>. SUFFICES ASSUME Init PROVE RingInv
    OBVIOUS
  <1>1. /\ buf = [i \in 0 .. RingSize - 1 |-> None] /\ head = 0 /\ tail = 0
        /\ stream = <<>> /\ reader = "idle" /\ pushing = <<>> /\ landed = FALSE
    BY DEF Init
  <1>2. 0 \in Buffer
    BY RingAssumption DEF Buffer
  <1>3. stream \in Seq(Bytes) /\ Len(stream) = 0
    BY <1>1, EmptySeq
  <1>4. Buffered = 0
    BY <1>1 DEF Buffered
  <1>. QED
    BY <1>1, <1>2, <1>3, <1>4 DEF RingInv, Buffer, Landed

LEMMA RingInvStep == RingInv /\ [Next]_vars => RingInv'
  <1>. SUFFICES ASSUME RingInv, [Next]_vars PROVE RingInv'
    OBVIOUS
  <1>1. ASSUME UNCHANGED <<ring, read>> PROVE RingInv'
    BY <1>1 DEF ring, push, read, RingInv, Buffered, Landed, Full
  <1>2. ASSUME NEW l \in Lines \cup {Soft}, IsrRuns(l) PROVE RingInv'
    BY <1>1, <1>2, RingBegins DEF IsrRuns, hvars
  <1>3. CASE KeDelivers \/ PushStep
    BY <1>3, RingBegins, RingStore, RingPublish DEF KeDelivers, PushStep, PushByte, read
  <1>4. CASE Look \/ Copy \/ Store \/ \E n \in 1..MaxRead : ReadBegins(n)
    BY <1>4, RingRead
  <1>5. CASE (\E w \in Writers : WriteBegins(w) \/ WriteStep(w)) \/ ControllerTakes
    BY <1>1, <1>5 DEF WriteBegins, WriteStep, GateOpens, HandOver, Pump, WriteEnds,
                      ControllerTakes, Sends
  <1>. QED
    BY <1>1, <1>2, <1>3, <1>4, <1>5 DEF Next, Interrupts, Passes, hvars, vars

\* VHCITransport.Read returns the bytes vhci_host_recv_cb was given and had room
\* for, in that order.
THEOREM StreamRight == Spec => []StreamInOrder
  <1>1. RingInv => StreamInOrder
    BY DEF RingInv, StreamInOrder
  <1>. QED
    BY RingInvInit, RingInvStep, <1>1, PTL DEF Spec

=============================================================================
