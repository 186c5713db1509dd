-------------------------------- MODULE BtIrq --------------------------------
(***************************************************************************)
(* How an interrupt of the Bluetooth peripheral reaches the blob           *)
(* (bt_ble_<chip>.c, <chip>/isr.c, radio_<chip>.go).  On the C3 the        *)
(* hardware handler runs the blob's ISR.  On the Xtensa chips the handler  *)
(* only latches the interrupt and masks its line, and the next scheduler   *)
(* pass runs the ISR on a goroutine.  Several parts of the program change  *)
(* INTENABLE by reading it and writing it back, and a handler may come in  *)
(* between.                                                                *)
(*                                                                         *)
(* The peripherals hold a level until the blob's ISR acknowledges it, and  *)
(* a CPU that may take an interrupt takes it before its next instruction.  *)
(* The model starts when BLEInit has registered the ISRs and enabled the   *)
(* lines.  Of INTENABLE it has the two BT lines and TinyGo's GPIO line.    *)
(***************************************************************************)
EXTENDS Integers, Sequences

CONSTANT Targets     \* "c3", "s3", "esp32"

Lines == {5, 8}      \* 5 is RWBT and BT_BB, 8 is RWBLE
Gpio == 10
Soft == 7            \* the software interrupt of the classic ESP32

VARIABLES
    target,
    raised,      \* what the peripherals assert
    intenable,
    held,        \* PS.INTLEVEL keeps every handler out
    pending,     \* s_isr_pending_5, _7 and _8
    snapshot,    \* s_intenable_snapshot
    val,         \* what a read of INTENABLE has returned
    pass,        \* where schedOnce is
    holder       \* the goroutine that has the CPU while the pass has yielded

pending_ == <<raised, pending>>
intr  == <<intenable, held, snapshot, val>>
where == <<pass, holder>>
ivars == <<target, pending_, intr, where>>

Xtensa == target # "c3"

IInit ==
    /\ target \in Targets
    /\ raised = {} /\ pending = {}
    /\ intenable = Lines \cup {Gpio} /\ held = FALSE
    /\ snapshot = {} /\ val = {}
    /\ pass = "idle" /\ holder = "none"

\* A handler that may run runs now.
Preempted == Xtensa /\ ~held /\ raised \cap intenable # {}
\* The pass is between two passes, or in blob code that may yield.
Yielding == pass \in {"idle", "work"}
PassRuns == holder = "none" /\ ~Preempted
\* Goroutine g goes on, and then has the CPU or has yielded it.
Runs(g) == Yielding /\ holder \in {"none", g} /\ ~Preempted
Keeps(g) == holder' = g /\ UNCHANGED pass
Yields == holder' = "none" /\ UNCHANGED pass
At(step) == pass = step /\ PassRuns
Goto(step) == pass' = step /\ UNCHANGED holder

-----------------------------------------------------------------------------
(* Hardware and handlers.                                                  *)

Raise(l) ==
    /\ l \notin raised /\ raised' = raised \cup {l}
    /\ UNCHANGED <<target, pending, intr, where>>

\* btISR5Handler, btISR8Handler: espradio_bt_isr_latch_5 and _8.
Latch(l) ==
    /\ Xtensa /\ ~held /\ l \in raised \cap intenable
    /\ pending' = pending \cup {l}
    /\ intenable' = intenable \ {l}
    /\ UNCHANGED <<target, raised, held, snapshot, val, where>>

\* espradio_bt_run_isr: the blob's ISR acknowledges what it finds.
RunIsr(l) == raised' = raised \ {l}

\* The handlers of the C3: espradio_bt_isr_dispatch_5 and _8.
HwIsr(l) ==
    /\ ~Xtensa /\ l \in raised /\ RunIsr(l)
    /\ UNCHANGED <<target, pending, intr, where>>

-----------------------------------------------------------------------------
(* Blob tasks.                                                             *)

\* espradio_bt_sw_intr_raise
RaiseSoft ==
    /\ target = "esp32" /\ Yielding /\ PassRuns
    /\ pending' = pending \cup {Soft}
    /\ UNCHANGED <<target, raised, intr, where>>

\* espradio_ints_on and espradio_ints_off change the Wi-Fi bit, which is not in
\* the model, and write the others back.
TaskReads ==
    /\ Xtensa /\ Runs("task") /\ holder = "none" /\ Keeps("task")
    /\ val' = intenable
    /\ UNCHANGED <<target, pending_, intenable, held, snapshot>>
TaskWrites ==
    /\ Runs("task") /\ holder = "task" /\ Yields
    /\ intenable' = val /\ val' = {}
    /\ UNCHANGED <<target, pending_, held, snapshot>>

\* A ROM function the pass has called masks a line TinyGo uses, which has the
\* number of a line the blob takes for its own.
BlobMasks ==
    /\ Xtensa /\ pass = "work" /\ PassRuns
    /\ intenable' = intenable \ {Gpio}
    /\ UNCHANGED <<target, pending_, held, snapshot, val, where>>

\* The garbage collector leaves the interrupt level of a goroutine up when it
\* yields in the wrong place.
GcHolds ==
    /\ Xtensa /\ Yielding /\ PassRuns /\ ~held /\ held' = TRUE
    /\ UNCHANGED <<target, pending_, intenable, snapshot, val, where>>

-----------------------------------------------------------------------------
(* The scheduler pass.                                                     *)

\* espradio_snapshot_intenable
PassBegins ==
    /\ At("idle")
    /\ snapshot' = IF Xtensa THEN intenable ELSE {}
    /\ Goto(IF Xtensa THEN "off" ELSE "work")
    /\ UNCHANGED <<target, pending_, intenable, held, val>>

\* A read of INTENABLE that is written back with on added in the next step.
Reads(step, then) ==
    /\ At(step) /\ Goto(then) /\ val' = intenable
    /\ UNCHANGED <<target, pending_, intenable, held, snapshot>>
Writes(step, on, then) ==
    /\ At(step) /\ Goto(then) /\ intenable' = val \cup on /\ val' = {}

\* schedOnce masks the Wi-Fi line.
IntsOffReads  == Reads("off", "offw")
IntsOffWrites ==
    /\ Writes("offw", {}, IF target = "esp32" THEN "test7" ELSE "test8")
    /\ UNCHANGED <<target, pending_, held, snapshot>>

\* espradio_bt_chip_service_isrs takes the latched interrupts in this order.
Test(l) == CASE l = 7 -> "test7" [] l = 8 -> "test8" [] l = 5 -> "test5"
Run(l)  == CASE l = 7 -> "run7" [] l = 8 -> "run8" [] l = 5 -> "run5"
Then(l) == CASE l = 7 -> "test8" [] l = 8 -> "test5" [] l = 5 -> "unmask"

\* Variant: the latch is not reset.
ServiceKeeps(l) ==
    /\ At(Test(l))
    /\ IF l \in pending THEN Goto(Run(l)) ELSE Goto(Then(l))
    /\ UNCHANGED <<target, pending_, intr>>

Service(l) ==
    /\ At(Test(l))
    /\ IF l \in pending THEN Goto(Run(l)) ELSE Goto(Then(l))
    /\ pending' = pending \ {l}
    /\ UNCHANGED <<target, raised, intr>>

ServiceRuns(l) ==
    /\ At(Run(l)) /\ Goto(Then(l)) /\ RunIsr(l)
    /\ UNCHANGED <<target, pending, intr>>

\* Variant: only the line of the ISR that ran last is opened.
UnmaskWritesOne ==
    /\ Writes("unmaskw", {5}, "work") /\ UNCHANGED <<target, pending_, held, snapshot>>

\* espradio_bt_unmask opens both lines.
UnmaskReads == Reads("unmask", "unmaskw")
UnmaskWrites ==
    /\ Writes("unmaskw", Lines, "work")
    /\ UNCHANGED <<target, pending_, held, snapshot>>

\* The rest of the pass, blob code that may yield, is over.
WorkEnds ==
    /\ At("work") /\ Goto(IF Xtensa THEN "end" ELSE "idle")
    /\ UNCHANGED <<target, pending_, intr>>

\* espradio_wifi_unmask adds what was on when the pass began, and
\* espradio_lower_intlevel lets handlers in again.
EndReads == Reads("end", "endw")
EndWrites ==
    /\ Writes("endw", snapshot, "idle") /\ held' = FALSE /\ snapshot' = {}
    /\ UNCHANGED <<target, pending_>>

\* What may come in the way of a latched interrupt.
Disturbs == RaiseSoft \/ TaskReads \/ TaskWrites \/ BlobMasks \/ GcHolds
Isr(l) == (l \in Lines /\ HwIsr(l)) \/ ServiceRuns(l)

\* What the pass does when it has its turn; the ticker begins one every 5 ms.
Progress ==
    \/ PassBegins \/ IntsOffReads \/ IntsOffWrites \/ UnmaskReads \/ UnmaskWrites
    \/ WorkEnds \/ EndReads \/ EndWrites
    \/ \E l \in Lines \cup {Soft} : Service(l)

-----------------------------------------------------------------------------
(* Properties.                                                             *)

\* On the Xtensa chips the blob's ISR is run only while its peripheral asks for
\* it: schedOnce must not call it without a real hardware event.
IsrOnlyOnEvent == \A l \in Lines : pass = Run(l) => l \in raised

\* TinyGo's own interrupt is on after every pass, whatever the blob masked
\* during it.
GpioKept == pass = "idle" => Gpio \in intenable

\* Every interrupt of the peripheral is acknowledged by the blob's ISR, latched
\* at whatever moment and with the line opened again by whatever write, and the
\* software interrupt is served.
BtServed ==
    /\ \A l \in Lines : l \in raised ~> l \notin raised
    /\ Soft \in pending ~> Soft \notin pending
=============================================================================
