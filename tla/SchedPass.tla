------------------------------ MODULE SchedPass ------------------------------
(***************************************************************************)
(* The scheduler pass of espradio and the interrupt path it shares with    *)
(* the Wi-Fi hardware: schedOnce (radio.go), the blob's Wi-Fi ISR and the  *)
(* ISR ring (isr.c), the per-target interrupt handlers and unmask code     *)
(* (radio_esp32c3.go, radio_esp32s3.go, esp32c3/isr.c, esp32s3/isr.c).     *)
(*                                                                         *)
(* Everything runs on core 0.  Goroutines (the ticker and any goroutine    *)
(* that pumps the scheduler) switch at yields; a hardware interrupt runs   *)
(* on top of the current goroutine and returns before any goroutine runs   *)
(* again.  The model starts once initialisation is over (wifiInitDone = 1, *)
(* the C3 line switched to level mode).                                    *)
(***************************************************************************)
EXTENDS Integers, Sequences

CONSTANTS
    RingSize,    \* ESPRADIO_ISR_RING_SIZE, 64 in the code
    QueueCap,    \* length of the blob queue the ISR posts to
    MaxEvents,   \* bound: how many events the MAC raises in a behaviour
    Pumpers      \* goroutines that call pumpSched besides the ticker

CONSTANT Ticker  \* the goroutine started by startSchedTicker

ASSUME RingAssumption == RingSize \in Nat /\ RingSize > 1
ASSUME QueueAssumption == QueueCap \in Nat /\ QueueCap > 0
ASSUME EventAssumption == MaxEvents \in Nat
ASSUME CallerAssumption == Ticker \notin Pumpers

Callers == Pumpers \cup {Ticker}

VARIABLES
    target,      \* "c3": the handler runs the blob ISR; "xtensa": it masks and kicks
    poll,        \* schedPolicyHas(schedPollWiFiISR)
    pending,     \* events the MAC holds asserted and nobody has acknowledged
    lineOn,      \* the Wi-Fi CPU interrupt is enabled (INTENABLE, INTC_ENABLE_REG)
    kick,        \* a kick is waiting (isrKick, schedKicked)
    tickDue,     \* schedTicker has fired
    recent,      \* less than s_unmask_interval_us since s_last_unmask_us
    suppressed,  \* the last espradio_wifi_unmask left the line as it was
    pc,          \* where each caller is in schedOnce
    schedInProgress,
    inISR,       \* s_in_isr
    isr,         \* where the blob ISR is, called from the pass or from hardware
    slot,        \* the head each ISR invocation read
    head, tail,  \* s_isr_ring_head, s_isr_ring_tail
    ring,        \* s_isr_ring_queue and s_isr_ring_items
    queue,       \* the destination queue of the blob
    produced, drops, accepted, handled, sent, sendFail  \* history counters

line == <<lineOn, recent, suppressed>>
wake == <<kick, tickDue>>
cpu  == <<pc, schedInProgress>>
body == <<inISR, isr, slot>>
ringVars == <<head, tail, ring>>
counts == <<produced, drops, accepted, handled, sent, sendFail>>
config == <<target, poll>>
vars == <<config, pending, line, wake, cpu, body, ringVars, queue, counts>>

Contexts == {"soft", "hw"}       \* the pass's espradio_call_wifi_isr; the trap handler
PassSteps == {"mask", "call", "isr", "drain", "advance", "work", "unmask",
              "finish"}
\* Steps a goroutine leaves without a yield: only an interrupt gets in between.
NoYield == {"begin", "mask", "call", "advance", "unmask", "finish"}

Succ(i) == IF i + 1 = RingSize THEN 0 ELSE i + 1
Count == IF head >= tail THEN head - tail ELSE head - tail + RingSize
\* the index of the k-th undrained entry, counted from the tail
Slot(k) == IF tail + k < RingSize THEN tail + k ELSE tail + k - RingSize

InPass(g) == pc[g] \in PassSteps
InBody(c) == isr[c] # "off"
\* The current goroutine may be any one that the rest have yielded to.
Yielded(g) == pc[g] \notin NoYield
BlobRuns == ~InBody("hw") /\ \A g \in Callers : Yielded(g)
At(g, step) ==
    /\ pc[g] = step /\ ~InBody("hw")
    /\ \A h \in Callers \ {g} : Yielded(h)
Goto(g, step) == pc' = [pc EXCEPT ![g] = step]

Init ==
    /\ target \in {"c3", "xtensa"}
    /\ poll \in BOOLEAN
    /\ target = "xtensa" => poll     \* required there: see schedPollWiFiISR
    /\ pending = 0
    /\ lineOn = TRUE /\ recent = FALSE /\ suppressed = FALSE
    /\ kick = FALSE /\ tickDue = FALSE
    /\ pc = [g \in Callers |-> "idle"] /\ schedInProgress = FALSE
    /\ inISR = FALSE
    /\ isr = [c \in Contexts |-> "off"] /\ slot = [c \in Contexts |-> 0]
    /\ head = 0 /\ tail = 0 /\ ring = [i \in 0 .. RingSize - 1 |-> 0]
    /\ queue = <<>>
    /\ produced = 0 /\ drops = 0 /\ accepted = 0
    /\ handled = 0 /\ sent = 0 /\ sendFail = 0

-----------------------------------------------------------------------------
(* The environment: the MAC, time, and blob tasks.                         *)

\* The MAC asserts its level-triggered source.
MacEvent ==
    /\ produced < MaxEvents
    /\ produced' = produced + 1 /\ pending' = pending + 1
    /\ UNCHANGED <<config, line, wake, cpu, body, ringVars, queue,
                   drops, accepted, handled, sent, sendFail>>

\* The 5 ms tick.  The unmask interval is 1 ms, so it is over by then.
Tick ==
    /\ ~tickDue
    /\ tickDue' = TRUE /\ recent' = FALSE
    /\ UNCHANGED <<config, pending, lineOn, suppressed, kick, cpu, body,
                   ringVars, queue, counts>>

\* The unmask interval runs out between two ticks.
UnmaskIntervalOver ==
    /\ recent /\ recent' = FALSE
    /\ UNCHANGED <<config, pending, lineOn, suppressed, wake, cpu, body,
                   ringVars, queue, counts>>

\* A blob task yields: espradio_task_yield_go, kickSchedThrottled.
BlobYield ==
    /\ BlobRuns /\ ~kick /\ kick' = TRUE
    /\ UNCHANGED <<config, pending, line, tickDue, cpu, body, ringVars,
                   queue, counts>>

\* The blob enables its interrupt through the OS adapter (_ints_on).  It is
\* assumed not to do so while its own ISR body is being run.
BlobIntsOn ==
    /\ BlobRuns /\ ~InBody("soft") /\ ~lineOn
    /\ lineOn' = TRUE
    /\ UNCHANGED <<config, pending, recent, suppressed, wake, cpu, body,
                   ringVars, queue, counts>>

\* A blob task takes an item from its queue.
BlobReceive ==
    /\ BlobRuns /\ queue # <<>>
    /\ queue' = Tail(queue)
    /\ UNCHANGED <<config, pending, line, wake, cpu, body, ringVars, counts>>

-----------------------------------------------------------------------------
(* The hardware handler.                                                   *)

\* wifiISRHandler on the C3: run the blob ISR in interrupt context.
HwEnter ==
    /\ target = "c3" /\ lineOn /\ pending > 0 /\ ~InBody("hw")
    /\ isr' = [isr EXCEPT !["hw"] = "run"] /\ inISR' = TRUE
    /\ UNCHANGED <<config, pending, line, wake, cpu, slot, ringVars, queue,
                   counts>>

\* Variant: the handler returns without waking the ticker.
HwReturnNoKick ==
    /\ isr["hw"] = "run" /\ pending = 0
    /\ isr' = [isr EXCEPT !["hw"] = "off"] /\ inISR' = FALSE
    /\ lineOn' = FALSE
    /\ UNCHANGED <<config, pending, recent, suppressed, wake, cpu, slot,
                   ringVars, queue, counts>>

\* espradio_wifi_isr_post_mask masks the level line, then wifiISRHandler kicks.
HwReturn ==
    /\ isr["hw"] = "run" /\ pending = 0
    /\ isr' = [isr EXCEPT !["hw"] = "off"] /\ inISR' = FALSE
    /\ lineOn' = FALSE /\ kick' = TRUE
    /\ UNCHANGED <<config, pending, recent, suppressed, tickDue, cpu, slot,
                   ringVars, queue, counts>>

\* wifiISRHandler on ESP32-S3 and ESP32: mask the line and wake the ticker.
HwMaskAndKick ==
    /\ target = "xtensa" /\ lineOn /\ pending > 0
    /\ lineOn' = FALSE /\ kick' = TRUE
    /\ UNCHANGED <<config, pending, recent, suppressed, tickDue, cpu, body,
                   ringVars, queue, counts>>

-----------------------------------------------------------------------------
(* The blob ISR posting to the ring: espradio_queue_send_from_isr.         *)

\* An invocation from the pass runs when its goroutine does.
Runs(c) == c = "soft" => BlobRuns

\* Acknowledge one event, read the head and refuse the item when full.
PostFull(c) ==
    /\ Runs(c) /\ isr[c] = "run" /\ pending > 0
    /\ Succ(head) = tail
    /\ pending' = pending - 1 /\ drops' = drops + 1
    /\ UNCHANGED <<config, line, wake, cpu, body, ringVars, queue,
                   produced, accepted, handled, sent, sendFail>>

\* Variant: the full test is missing.
PostReadUnchecked(c) ==
    /\ Runs(c) /\ isr[c] = "run" /\ pending > 0
    /\ pending' = pending - 1
    /\ isr' = [isr EXCEPT ![c] = "write"] /\ slot' = [slot EXCEPT ![c] = head]
    /\ UNCHANGED <<config, line, wake, cpu, inISR, ringVars, queue, counts>>

PostRead(c) ==
    /\ Runs(c) /\ isr[c] = "run" /\ pending > 0
    /\ Succ(head) # tail
    /\ pending' = pending - 1
    /\ isr' = [isr EXCEPT ![c] = "write"] /\ slot' = [slot EXCEPT ![c] = head]
    /\ UNCHANGED <<config, line, wake, cpu, inISR, ringVars, queue, counts>>

PostWrite(c) ==
    /\ Runs(c) /\ isr[c] = "write"
    /\ ring' = [ring EXCEPT ![slot[c]] = accepted + 1]
    /\ isr' = [isr EXCEPT ![c] = "publish"]
    /\ UNCHANGED <<config, pending, line, wake, cpu, inISR, slot, head, tail,
                   queue, counts>>

PostPublish(c) ==
    /\ Runs(c) /\ isr[c] = "publish"
    /\ head' = Succ(slot[c]) /\ accepted' = accepted + 1
    /\ isr' = [isr EXCEPT ![c] = "run"]
    /\ UNCHANGED <<config, pending, line, wake, cpu, inISR, slot, tail, ring,
                   queue, produced, drops, handled, sent, sendFail>>

Post(c) == PostFull(c) \/ PostRead(c) \/ PostWrite(c) \/ PostPublish(c)

-----------------------------------------------------------------------------
(* schedOnce and the loops that call it.                                   *)

\* waitSchedKick: a kick or a tick, whichever the select takes.
WakeByKick ==
    /\ At(Ticker, "idle") /\ kick
    /\ kick' = FALSE /\ Goto(Ticker, "begin")
    /\ UNCHANGED <<config, pending, line, tickDue, schedInProgress, body,
                   ringVars, queue, counts>>

WakeByTick ==
    /\ At(Ticker, "idle") /\ tickDue
    /\ tickDue' = FALSE /\ Goto(Ticker, "begin")
    /\ UNCHANGED <<config, pending, line, kick, schedInProgress, body,
                   ringVars, queue, counts>>

\* Bring-up, Connect and the TX retry pump passes of their own.
Pump(g) ==
    /\ g \in Pumpers /\ At(g, "idle")
    /\ Goto(g, "begin")
    /\ UNCHANGED <<config, pending, line, wake, schedInProgress, body,
                   ringVars, queue, counts>>

\* The CompareAndSwap on schedInProgress.
Begin(g) ==
    /\ At(g, "begin") /\ ~schedInProgress
    /\ schedInProgress' = TRUE /\ Goto(g, "mask")
    /\ UNCHANGED <<config, pending, line, wake, body, ringVars, queue, counts>>

\* Another pass is in flight: bail out (and pumpSched yields).
Skip(g) ==
    /\ At(g, "begin") /\ schedInProgress
    /\ Goto(g, "idle")
    /\ UNCHANGED <<config, pending, line, wake, schedInProgress, body,
                   ringVars, queue, counts>>

\* Variant: the pass starts without masking the line.
MaskLeavesLineOn(g) ==
    /\ At(g, "mask")
    /\ Goto(g, IF poll THEN "call" ELSE "drain")
    /\ UNCHANGED <<config, pending, line, wake, schedInProgress, body,
                   ringVars, queue, counts>>

\* Variant: the policy bit is tested the wrong way round.
MaskPollInverted(g) ==
    /\ At(g, "mask")
    /\ lineOn' = FALSE
    /\ Goto(g, IF poll THEN "drain" ELSE "call")
    /\ UNCHANGED <<config, pending, recent, suppressed, wake, schedInProgress,
                   body, ringVars, queue, counts>>

\* espradio_ints_off before any blob code runs.
Mask(g) ==
    /\ At(g, "mask")
    /\ lineOn' = FALSE
    /\ Goto(g, IF poll THEN "call" ELSE "drain")
    /\ UNCHANGED <<config, pending, recent, suppressed, wake, schedInProgress,
                   body, ringVars, queue, counts>>

\* espradio_call_wifi_isr from the pass.
SoftEnter(g) ==
    /\ At(g, "call")
    /\ isr' = [isr EXCEPT !["soft"] = "run"] /\ inISR' = TRUE
    /\ Goto(g, "isr")
    /\ UNCHANGED <<config, pending, line, wake, schedInProgress, slot,
                   ringVars, queue, counts>>

\* It ends in espradio_wifi_isr_post_mask, which masks the line on each target.
SoftReturn(g) ==
    /\ At(g, "isr") /\ isr["soft"] = "run" /\ pending = 0
    /\ isr' = [isr EXCEPT !["soft"] = "off"] /\ inISR' = FALSE
    /\ lineOn' = FALSE
    /\ Goto(g, "drain")
    /\ UNCHANGED <<config, pending, recent, suppressed, wake, schedInProgress,
                   slot, ringVars, queue, counts>>

\* Variant: a full queue loses the item silently.
DrainSendUncounted(g) ==
    /\ At(g, "drain") /\ tail # head
    /\ \/ /\ Len(queue) < QueueCap
          /\ queue' = Append(queue, ring[tail])
          /\ sent' = sent + 1 /\ UNCHANGED sendFail
       \/ /\ Len(queue) = QueueCap
          /\ UNCHANGED <<queue, sent, sendFail>>
    /\ Goto(g, "advance")
    /\ UNCHANGED <<config, pending, line, wake, schedInProgress, body,
                   ringVars, produced, drops, accepted, handled>>

\* One entry of the ring goes to its queue; the outcome only moves a counter.
DrainSend(g) ==
    /\ At(g, "drain") /\ tail # head
    /\ \/ /\ Len(queue) < QueueCap
          /\ queue' = Append(queue, ring[tail])
          /\ sent' = sent + 1 /\ UNCHANGED sendFail
       \/ /\ Len(queue) = QueueCap
          /\ sendFail' = sendFail + 1 /\ UNCHANGED <<queue, sent>>
    /\ Goto(g, "advance")
    /\ UNCHANGED <<config, pending, line, wake, schedInProgress, body,
                   ringVars, produced, drops, accepted, handled>>

\* Variant: the tail stays, so the entry is offered again.
DrainAdvanceStuck(g) ==
    /\ At(g, "advance")
    /\ handled' = handled + 1
    /\ Goto(g, "drain")
    /\ UNCHANGED <<config, pending, line, wake, schedInProgress, body,
                   ringVars, queue, produced, drops, accepted, sent, sendFail>>

\* espradio_isr_ring_advance_tail
DrainAdvance(g) ==
    /\ At(g, "advance")
    /\ tail' = Succ(tail) /\ handled' = handled + 1
    /\ Goto(g, "drain")
    /\ UNCHANGED <<config, pending, line, wake, schedInProgress, body, head,
                   ring, queue, produced, drops, accepted, sent, sendFail>>

DrainDone(g) ==
    /\ At(g, "drain") /\ tail = head
    /\ Goto(g, "work")
    /\ UNCHANGED <<config, pending, line, wake, schedInProgress, body,
                   ringVars, queue, counts>>

\* Events and timers: other goroutines run while these call the blob.
Work(g) ==
    /\ At(g, "work")
    /\ Goto(g, "unmask")
    /\ UNCHANGED <<config, pending, line, wake, schedInProgress, body,
                   ringVars, queue, counts>>

\* espradio_wifi_unmask; on Xtensa at most once per interval.
Unmask(g) ==
    /\ At(g, "unmask")
    /\ \/ /\ target = "xtensa" /\ recent
          /\ suppressed' = TRUE /\ UNCHANGED <<lineOn, recent>>
       \/ /\ target = "xtensa" /\ ~recent
          /\ lineOn' = TRUE /\ recent' = TRUE /\ suppressed' = FALSE
       \/ /\ target = "c3"
          /\ lineOn' = TRUE /\ UNCHANGED <<recent, suppressed>>
    /\ Goto(g, "finish")
    /\ UNCHANGED <<config, pending, wake, schedInProgress, body, ringVars,
                   queue, counts>>

Finish(g) ==
    /\ At(g, "finish")
    /\ schedInProgress' = FALSE /\ Goto(g, "idle")
    /\ UNCHANGED <<config, pending, line, wake, body, ringVars, queue, counts>>

PassStep(g) ==
    \/ Begin(g) \/ Skip(g) \/ Mask(g) \/ SoftEnter(g) \/ SoftReturn(g)
    \/ DrainSend(g) \/ DrainAdvance(g) \/ DrainDone(g) \/ Work(g)
    \/ Unmask(g) \/ Finish(g)

-----------------------------------------------------------------------------
Env == MacEvent \/ Tick \/ UnmaskIntervalOver \/ BlobYield \/ BlobIntsOn
       \/ BlobReceive
Hw == HwEnter \/ HwReturn \/ HwMaskAndKick

Next ==
    \/ Env \/ Hw
    \/ \E c \in Contexts : Post(c)
    \/ WakeByKick \/ WakeByTick
    \/ \E g \in Callers : Pump(g) \/ PassStep(g)

\* Time passes.  The run queue is served in turn, so a goroutine that has
\* yielded in a pass gets the CPU back even when others keep it busy: strong
\* fairness.  An enabled, asserted level interrupt is taken at the next
\* instruction, although the next pass would mask it again: strong fairness.
Fairness ==
    /\ WF_vars(Tick) /\ WF_vars(UnmaskIntervalOver)
    /\ SF_vars(WakeByKick \/ WakeByTick)
    /\ SF_vars(HwEnter \/ HwMaskAndKick)
    /\ WF_vars(HwReturn)
    /\ \A c \in Contexts : SF_vars(Post(c))
    /\ \A g \in Callers : SF_vars(PassStep(g))

SafeSpec == Init /\ [][Next]_vars
Spec == SafeSpec /\ Fairness

-----------------------------------------------------------------------------
TypeOK ==
    /\ target \in {"c3", "xtensa"} /\ poll \in BOOLEAN
    /\ pending \in Nat
    /\ lineOn \in BOOLEAN /\ recent \in BOOLEAN /\ suppressed \in BOOLEAN
    /\ kick \in BOOLEAN /\ tickDue \in BOOLEAN
    /\ pc \in [Callers -> {"idle", "begin"} \cup PassSteps]
    /\ schedInProgress \in BOOLEAN /\ inISR \in BOOLEAN
    /\ isr \in [Contexts -> {"off", "run", "write", "publish"}]
    /\ slot \in [Contexts -> 0 .. RingSize - 1]
    /\ head \in 0 .. RingSize - 1 /\ tail \in 0 .. RingSize - 1
    /\ ring \in [0 .. RingSize - 1 -> Nat]
    /\ queue \in Seq(Nat)
    /\ produced \in Nat /\ drops \in Nat /\ accepted \in Nat
    /\ handled \in Nat /\ sent \in Nat /\ sendFail \in Nat

\* The blob's ISR is never entered while an invocation of it is under way,
\* although the pass and the hardware handler both call it, and s_in_isr, which
\* the blob reads through _is_from_isr, is set exactly while it runs.
NoReentrantISR ==
    /\ ~(InBody("soft") /\ InBody("hw"))
    /\ inISR <=> \E c \in Contexts : InBody(c)

\* The ring holds exactly the items the ISR published and no pass has taken,
\* oldest first: an interrupt that posts during a drain neither overwrites an
\* undrained entry nor makes the drain read an unwritten one.
RingIntact ==
    /\ accepted = handled + Count
    /\ \A k \in 0 .. RingSize - 1 : k < Count => ring[Slot(k)] = handled + k + 1

\* Where an event is: raised and not posted, in the ring, or handed over.  The
\* entry a pass has sent stays in the ring until it advances the tail.
Posting == \E c \in Contexts : isr[c] \in {"write", "publish"}
Taken == \E g \in Callers : pc[g] = "advance"
Unposted == pending + (IF Posting THEN 1 ELSE 0)
InTransit == LET n == IF Taken THEN 1 ELSE 0
             IN [k \in 1 .. Count - n |-> ring[Slot(k - 1 + n)]]

Pipe == INSTANCE EventPipe WITH
    Capacity <- RingSize - 1, waiting <- Unposted, posted <- accepted,
    transit <- InTransit, inbox <- queue, lost <- drops, refused <- sendFail

\* The ISR's acknowledging, posting and publishing in separate steps and the
\* drain's sending and advancing in two more, with interrupts between them,
\* make one pipe: no event is lost uncounted, none comes twice or out of order.
ImplementsPipe == Pipe!PipeSpec

\* A Wi-Fi event is acknowledged by the blob at most once and then sits in one
\* place: counted as dropped at the ring, being posted, in the ring, or handed
\* over with its outcome counted.  No event disappears uncounted.
EventsAccounted ==
    /\ produced = Unposted + drops + accepted
    /\ sent + sendFail = handled + (IF Taken THEN 1 ELSE 0)

\* The blob queue receives items in the order the ISR posted them, never one
\* twice, and never one the ring still offers to a later drain step.
QueueInOrder ==
    /\ \A i, j \in 1 .. Len(queue) : i < j => queue[i] < queue[j]
    /\ \A i \in 1 .. Len(queue) :
         queue[i] <= handled + (IF Taken THEN 1 ELSE 0)

\* An event waits on a masked line with no pass on its way only when the unmask
\* was rate limited: then the next tick takes it.  In every other case a pass
\* is running or the ticker has been kicked.
NotStranded ==
    (/\ pending > 0 /\ ~lineOn /\ ~InBody("hw")
     /\ ~schedInProgress /\ \A g \in Callers : pc[g] # "begin")
        => kick \/ suppressed

\* Every event the MAC raises is acknowledged by the blob ISR, on each target
\* and with either scheduler policy.
EventsServed == (pending > 0) ~> (pending = 0)

=============================================================================
