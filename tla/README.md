# espradio in TLA+

`espradio` runs Espressif's closed Wi-Fi and Bluetooth libraries ("the blob")
under TinyGo on the ESP32, ESP32-C3 and ESP32-S3. The repository supplies
everything the blob expects of an operating system (tasks, queues, timers,
semaphores, a heap, an event loop, interrupts) and, on top, a Go API for
stations, access points, frames, ESP-NOW and Bluetooth HCI. This directory
models that code in TLA+, checks it with TLC and proves part of it with TLAPS.
Paths below are relative to the repository root, without the leading `src/`.

## How the program runs

* The goroutines that call the blob run on core 0 and are **cooperative**: one
  goroutine runs until it yields (`runtime.Gosched`, a channel, a sleep). Blob
  tasks are goroutines too; each call into the blob may yield through the OS
  adapter (`espradio_task_yield_go`, radio.go).
* A hardware interrupt runs on top of the current goroutine and returns before
  any goroutine continues. Calls from the application that arrive on core 1 go
  to core 0 through `onCore0` (core0_cores.go). What needs no call into the blob
  may stay on core 1 of a `scheduler.cores` build: of the modelled parts, ESP-NOW's
  Go side and the reader of the HCI ring (`VHCITransport.Read`, bluetooth.go).
* Blob events and timers make progress only in a *scheduler pass*, `schedOnce`
  (radio.go), run by the ticker goroutine on a kick or a 5 ms tick and by
  everyone who waits for the blob (`pumpSched`).

A model step is therefore the code between two places that may yield, unless an
interrupt can get in between: then it is cut there too.

## Inventory

| Component | State | Operations | Interacts with | What is hard | What makes it correct |
|---|---|---|---|---|---|
| Scheduler pass, ticker, Wi-Fi interrupt (radio.go, isr.c, esp32*/isr.c, radio_esp32*.go, core0_*.go) | `schedInProgress`, CPU interrupt enable, kick, tick, unmask timestamp, `s_in_isr`, ISR ring | schedOnce, startSchedTicker, kicks, hardware handlers, espradio_call_wifi_isr, queue_send_from_isr, wifi_unmask | blob ISR; queues; timers; events | an interrupt between any two instructions; a pass run by any goroutine; rate-limited unmask | ISR not re-entered; ring intact; no event lost uncounted; no event stranded on a masked line |
| Receive ring (netif.c, netif_esp.go) | ring, two indices, counters | espradio_sta_rxcb, EthPoll | blob, TCP/IP stack | producer in interrupt context, no lock | FIFO of whole frames, nothing lost uncounted |
| Transmit gate, Start, Stop (netif.c, radio.go) | `s_tx_enabled`, `s_tx_busy`, `s_sta_connected`, `wifiStarted` | espradio_netif_tx, start, postWiFiStart, stop, espradio_on_wifi_event | blob driver, events, pump | waits that yield, retry budgets, a Stop that times out or fails | one writer; never into a stopping driver; gate agrees with driver |
| Station link (radio.go, wifi.go, link.go) | `connectResult`, `staLinkUp`, `linkEvents`, `Link` | connect, reportConnect, disconnect, SetLinkNotify, LinkConnect, LinkDisconnect, onLink | events, pump | two Connects at once, stale results, late results, losses during a retry | success is fresh; Connect returns; every loss outside Connect is reported |
| OS adapter queues (osi.c) | list of queues, storage, indices, locks | create, delete, send, recv, from-ISR | ISR ring, blob tasks | a receiver keeps a queue across its yields; a late send finds another queue at the address | bounded FIFO per queue |
| Event loop (osi.c) | event list, handlers, lock | post, run_once, handler_register, loop_create, loop_delete | pass, arena, reportConnect | the walk over the handlers holds no lock and handlers yield, post and register; allocation fails half-way | order; each handler called once; no block leaked or freed twice |
| Timers (osi.c, esp_timer_shim.c) | 32 slots; a linked list | setfn, arm, disarm, done, poll_due; create, start, stop, delete | pass, blob callbacks | callbacks re-arm and delete; compaction; table full; starvation | fires once per arming, not after disarm |
| OS adapter synchronisation (radio.go) | interrupt nesting, mutex pool, semaphore pool, event groups | int_disable/restore, mutex, semphr, event_group, task_create | blob tasks, both radios | timeouts, slots reused, no yield with interrupts off | exclusion; no lost count |
| Arena (arena.c) | blocks with boundary tags, free list | init, alloc, calloc, realloc, free | everything that allocates | split, coalesce, long sequences | blocks tile the arena, no two free neighbours |
| ESP-NOW (espnow*.go, espnow.c) | instance slot, peer map, receive queues; the SDK's peer table | NewESPNow, Close, AddPeer, Peer.Close, broadcast, handleReceive, ReadFrom, WriteTo | blob callback, SDK | steps that yield between map and SDK table; partial failures | map and SDK table agree; a closed peer never comes back |
| BT interrupts (bt_ble_esp32*.c, esp32s3/isr.c, radio_esp32*.go) | INTENABLE, latches, its snapshot, interrupt level | latch, service_isrs, run_isr, ints_on/off, unmask, sw_intr_raise | blob's BT ISR, pass | INTENABLE is read and written back while handlers change it | every interrupt served; the ISR run only when asked for |
| VHCI transport (vhci_ring.go, bluetooth.go, bt_ble.c) | byte ring, write gate, `s_vhci_send_available` | push, Read, ReadByte, write, pump | BT controller, HCI host | a packet stored in the middle of a read, or a read in the middle of a push; a full ring; a controller that never announces | bytes in order; one packet in the slot; a write returns |
| Enable, BLEInit (radio.go, ble.go) | enable state, arena, ticker | Enable, BLEInit | all | yields half-way; partial failures | initialised once |
| ROM pointer latch (netif.c) | saved pointers | save, restore | blob ROM code | reset without power loss | restored before use |

Not candidates for a model: scan, soft AP, sniffing, RSSI, power and country
settings (thin calls, the state is the blob's); the lneto glue and DHCP (the
stack is another repository); register-level bring-up; C library shims, error
names, logging; vendored headers, tools and examples.

`PROJECT.json` lists the components with their status and, under "hazards",
what is hard to test in this code, each at its line with the properties that
cover it.

## Modules

### EventPipe, SchedPass — the pass and the interrupt path

`EventPipe` is what the path promises for the events the MAC raises: a pipe of
bounded length into the blob's queue, in order, once each, a loss counted.
`SchedPass` is the code.

`schedOnce` is split where an interrupt matters: take the guard (`Begin`,
`Skip`), mask the line (`Mask`), call the blob ISR (`SoftEnter` … `SoftReturn`),
drain the ring one entry at a time (`DrainSend`, `DrainAdvance`, `DrainDone`),
dispatch events and timers (`Work`, during which other goroutines run), unmask
(`Unmask`), release (`Finish`). `HwEnter`/`HwReturn` are the C3 handler, which
runs the blob ISR in interrupt context; `HwMaskAndKick` is the handler of the
two Xtensa chips. The blob ISR posts to the ring in three steps (read the head,
write the entry, publish the head), so a handler can be anywhere in a pass.
Chip and polling policy are chosen in `Init`.

`At(g, step)` says that a goroutine's step is taken by the running goroutine:
every other one stands where it has yielded (`NoYield` lists the places that do
not). The model begins when initialisation is over. One assumption about the
blob: it does not enable its interrupt (`_ints_on`) from inside its own ISR.

`ImplementsPipe` is the refinement. An entry the drain has sent stays in the ring
until `DrainAdvance`, so `InTransit` leaves out the first entry in between
(`Taken`), and an event the ISR has acknowledged counts as not posted until the
head is published (`Unposted`). For the same reason `EventPipe!Lose` is allowed
one entry before the pipe is full: the ring may still hold the entry being handed
over. `RingIntact`, `EventsAccounted` and `QueueInOrder` say the parts of it as
invariants.

### RxFifo, NetifRx — the receive ring

`RxFifo` is what the receive path promises: a bounded FIFO, whole frames, a
frame lost only when full, an oversize frame discarded. `NetifRx` is the code:
the callback checks, copies and publishes in separate steps, the consumer reads
the length, decides, copies and frees. `Held` maps the ring to the FIFO's
contents; `ImplementsFifo` is the refinement.

### NetifTx — the transmit gate

`TxCall`/`TxWake` are the check and the wait for `s_tx_busy`, `TxDone`,
`TxNoMem`, `TxPump` the blob's answers with the retry and pump budgets.
`StartCall` … `StartReady` are `start` and `postWiFiStart`; `StopCall` …
`StopReturns` are `stop` with its quiesce wait, timeout and failure. `events`
holds the Wi-Fi events the blob posted; `Dispatch` is the handler that keeps
`s_sta_connected`. One goroutine calls Start and Stop; senders are any number.
Left out: statistics, and events lost because the arena is full.

### Link — connect, link events and reconnecting

`ConnectStep` is `connect` for two callers: the application (`LinkConnect`) and
the notify goroutine (the retries of `onLink`). Channels are identities 1 and 2,
recycled when nobody waits on them; `waits` is the channel a `select` evaluated,
which need not be the one in the global. `Dispatch` is `reportConnect`. The
blob's station (`sta`) answers when it likes or never. `owed` and `rough` are
history: a loss that no callback has told of, and whether one of the conditions
under which the code cannot tell has occurred (two Connects overlapping; a
Connect on a link that is up or changing or whose event is queued; a loss during
a Connect; an attempt that succeeds after its timeout; `linkEvents` full). Left
out: the first Enable and Start of `LinkConnect` and its `StartNetDev` tail.

### Timers — ets timers, esp_timers and the part of the pass that runs them

One action per operation of `osi.c`'s table (`SetFn`, `Arm`, `ArmNow`, `Disarm`,
`Done`) and of `esp_timer_shim.c`'s list (`Create`, `Start`, `StartNow`,
`Restart`, `Stop`, `Delete`). `BeginPass` … `EspRound` are the two drain loops
of `schedOnce`: adopt, fire the lowest due slot, walk the list, each up to its
budget. A callback is blob code that may call any operation and may yield, so
between `EtsFire` and `EtsReturn` (`EspFire` and `EspReturn`) any operation may
happen. Time is what is left until each deadline. `asked` is history: what the
calls, in order, ask of each timer; `EtsKept` and `EspKept` compare it with what
the structures say, and `TimersKept` asks both. Their exceptions name what the code
does not promise: an ets timer that found the table full; one whose `expire`
field the blob wrote (it is adopted again even after a disarm); an esp_timer
started inside its own callback (the poll deactivates it afterwards); a periodic
one restarted (it becomes a one-shot, where `blobs/include/esp_timer.h:181` says
it keeps its kind). A timer
deleted in its own callback is freed memory the walk then reads: `freedOwn`,
the one exception of `WalkStaysInList`. `overdue`, `busy` and `crowded` are history
too: which timers due at the start of a pass it has yet to serve (`PassServesDue`),
and whether more became due meanwhile or too many were due at once.
`NoStrayCallback` is about the steps that call back: the timer was last armed, not
stopped, deleted or fired. It has the same exceptions, and one more: an esp_timer
whose callback `esp_timer_start_once` runs on the spot stays active until that
callback returns, so a pass the callback yields to may call it a second time.

### Heap, Arena — the allocator

`Heap` is what the blob may expect of malloc: disjoint blocks that stay where
they are, moved only by realloc. `Arena` is `arena.c` in units of 8 bytes:
first-fit search, split from the end, boundary tags, coalescing. All of it runs
under `arena_lock` without yielding, so each call is a step. `Grant` clears the
tags inside a block that is handed out, because the blob may write there: no
later decision can rest on them. `gone` are blocks that may be freed a second
time (their memory has not been handed out since), which `arena_free` promises
to notice. `Held` maps the used blocks to the heap's. `asked` is history, the
request each block answers: `Heap` wants every block as long as its own request
and its tags.

### OsiSync — the OS adapter's synchronisation

Tasks, the critical section (`IntDisable`, `IntRestore`), recursive mutexes
(`TryLock` is one turn of the lock loop), semaphores (`Load` and
`CompareAndSwap` are the two halves of `semTryTake`, between which a handler may
give or take), per-task semaphores with the reuse of their slots, and event
groups (`TryWait`). Every wait either yields, expires, or, inside a critical
section, returns at once (`safeGosched`). A behaviour uses the objects of one
kind, which share nothing but the critical section. `nested`, `holds` and
`balance` are history: what each task believes it has. Assumed of the blob: no
delete of what is held or waited on, no take in a handler that finds nothing. A
task that ends without `espradio_task_delete` keeps its semaphore slot, as in the
code built without `scheduler.cores`; with it `unpinCore0` frees the slot first,
which here is `TaskDelete` before `TaskEnds`.

`safeGosched` guards the waits for mutexes, semaphores and event groups only.
A sleep, the creation of a task, a task's end, `espradio_task_yield_go` and what
calls it (a receive that finds the queue empty, a post to the event loop) yield
whether interrupts are off or not. In the model they do so too (`YieldsAnyway`):
another task then runs with the count of open sections up and the interrupt still
masked (a switch of goroutines does not touch the mask), and nobody can tell any
more whose section it is. `breached` is the history that records it, from such a
yield until interrupts are on again. `CriticalIsExclusive` says that no other
task enters a section in which no such call was made; that the interrupt is
masked exactly while the count is up holds in either case.

### OsiQueue, EventBus, EventLoop, OsiAdapter — queues and event loop on those tasks

Both extend `OsiSync`: their waits are its sleeps and wakes. `OsiQueue` is a
queue's create, delete, send and receive in the three modes of
`espradio_queue_recv`; neither of its locks is held across a yield, so what a
call does between two yields is a step. A receiver that sleeps keeps in `at` the
queue it resolved. `IsrSend` is a handler's send, which waits in the ring of
`SchedPass` (`late`) until `Deliver`, where a pass resolves the queue by its
address: that may by then be another queue, or none. `fifo` is history, what was
put in and not taken.

`EventLoop` is `esp_event_post`, `espradio_event_loop_run_once`, registration,
create and delete, over linked lists in a pool of arena blocks that runs out.
`Dispatch`, `HandlerReturns` and `Dispatched` are the walk; between them any
task may post and register. A post finds memory for all, some or none of its
item, its base and its data. `order`, `known` and `rest` are history. `EventBus`
is what the loop promises: events dispatched one at a time in the order of their
posts, each to the handlers registered when its dispatch began, newest first.
`ImplementsBus` (in `OsiAdapter`) maps `order`, `known` and `rest` to its
sequences, and the pointers the code follows, `evNow` and `hNow`, to the event and
the handler that are current. `HandlerReturns` looks up the next handler only
when the one before is done, so that a registration in between must not show.

`OsiAdapter` composes the three: every step is one of `OsiSync`, of the queues
or of the event loop. Assumed of the blob: it does not delete a queue a task
waits on.

### BtIrq, Vhci — Bluetooth

`BtIrq` is how an interrupt reaches the blob's ISR. On the C3 the handler runs it
(`HwIsr`). On the S3 and the classic ESP32 the handler latches and masks
(`Latch`), and a pass takes the latches in the code's order and runs the ISR
(`Service`, `ServiceRuns`). Each part of the program that changes INTENABLE
(`espradio_ints_on` and `_off`, `espradio_bt_unmask`, `espradio_wifi_unmask`) is
a read and a write with handlers in between; the ROM and the garbage collector,
which change it behind the program's back, are there as the comments of
`esp32s3/isr.c` describe them. A handler that may run does so before the next
instruction of a goroutine (`Preempted`).

`Vhci` EXTENDS it. To the host: a packet comes from the blob's ISR or from the
controller's event pump (`PushBegins`); each of its bytes is stored and then
published (`StoreByte`, `PublishByte`, with the tail read anew for each), and a
reader looks, copies a byte and gives back its slot in separate steps. Where the
code has one core, the push is over before a goroutine runs, but it may come
between any two steps of the reader (C3) or of another goroutine's turn. With
`cores` the reader is on core 1 and takes its steps during a push as well; stores
to volatile variables of one core are taken to reach the other in the order of the
program. `KeDelivers` is on the Xtensa chips only: `bt_ble.c` calls
`r_ke_event_schedule` from goroutines of the C3 too (444, 466, 490), and whether
the controller's callback then runs there is the blob's choice; the model takes
the ring's comment ("On the C3 that callback runs in real interrupt context",
vhci_ring.go) at its word. Were both to happen, an ISR could push into a push.
To the controller: the gate, the slot of one packet, and
`bt_pump_hci`'s four rounds. `slot` and `trampled` are history. A behaviour has
interrupts only, receives or sends, which share no state but the interrupts.

### EspNow — managed ESP-NOW

Calls may come from both cores, so a step is the code under one lock or one call
of the SDK. `NewClaim` … `InitRelease` are `NewESPNow`, `CloseBegin` …
`CloseFree` are `ESPNow.Close`, `AddBegin` … `AddUndo` are `AddPeer` and
`Broadcast` (`mu` is held from the first to the last), `PeerCloseLocal`,
`PeerUnmap` and `SdkDelete` are `Peer.Close`. `Receive`, `Route`, `EnqueueCheck`
and `EnqueuePut` are the blob's callback, `handleReceive` and the two halves of
`enqueue`; `ReadFrom` is the receive from a peer's queue. `sdkOn`, `sdkRecv` and
`sdkTable` are what the SDK keeps: initialised, callback registered, peer table.
Every SDK call may fail, `esp_now_deinit` at each of its three steps. Two
variables are history: `recv.shutThen`, the mapped peers that were closed when
the packet came, and `crossed`, whether a `Peer.Close` reached the SDK when
another instance had the slot already. Left out: handlers set by hand and direct
use of the `ESPNow*` functions beside an instance, the waiting and deadlines of
`ReadFrom`, sending, `PeerStream`.

Definitions preceded by a comment that begins "Variant" are deliberately wrong
forms of the next definition; no specification uses them. Putting one in place
of the real definition makes TLC report the property that guards against it
(`PROJECT.json`, "mutants").

## Runs

| Run | Configuration | Question | Bounds, and why they are enough |
|---|---|---|---|
| `sched` | MCSchedPass | Can an interrupt or a second pumping goroutine break the ring, re-enter the ISR, or lose, repeat, reorder or strand an event? | Ring of 3 (2 entries: it fills and wraps), queue of 2 (it fills), 3 events, the ticker and one more pumper (they compete for the guard), both chips' handlers, both policies |
| `rx_ring` | MCNetifRx | Is the lock-free ring a FIFO of whole frames? | Ring of 3, 5 frames (the indices wrap), lengths 1 to 5 with a buffer of 2 and a slot of 4: below, at and above the buffer, at and above the slot. 57 000 states. The application may stop polling and the blob may stop receiving, so deadlock is not an error |
| `tx_stop` | MCNetifTx | One writer, and never into a stopping driver, whatever budgets and timeouts do? | 3 senders (one in the blob, two waiting), the code's own budgets of 4 and 4, 3 queued events (both of Stop's and an earlier one) |
| `link` | MCLink | Is success fresh, does Connect return, is a loss reported? | Two callers (all there are), 2 retries, a `linkEvents` of 2 and one event of the blob's own in flight (calls may add one): overflow and every overlap happen |
| `link_down` | MCLinkDown | Does LinkDisconnect stop reconnecting, as link.go:54 says? | As `link`. Violated |
| `link_loss` | MCLinkLoss | Is every loss outside Connect reported, as wifi.go:144 says? | As `link`. Violated |
| `espnow` | MCEspNow | Do the slot, the maps and the SDK's table stay consistent when calls overlap and fail, and does a packet reach the right peers, in order and never a closed one? | 2 goroutines (each race is between two) and the blob's callback, 2 instances (one after the other), one address besides broadcast; `MaxPeers` = 3 bounds peers and packets together, so 3 peers, or 2 peers and a packet, or 1 and 2 (order shows); queues of 2. The bounds use up, so deadlock is not an error. 243 000 states |
| `espnow_table` | MCEspNow | Is every open peer in the SDK's table when no call is under way? | 2 peers, one after the other. Violated |
| `timers` | MCTimers | Does each timer do what was last asked of it, and none after it was stopped, whatever callbacks do during a poll? | 3 ets timers for 2 slots (the table fills and compacts), or 2 esp_timers, or one of each; budget 1 and 2 rounds, so a pass can fire as many as the table has, as in the code (32 = 4·8); delays up to 2. Deadlock is not an error: the model ends where the code would read freed memory |
| `arena` | MCArena | Do tags, free list and blocks stay consistent, and is free space always merged? | A misaligned pool of 10 units: up to five blocks, every split and each of the four coalescing cases; requests 0, 2 and 4 (each takes a block of another size). 28 700 states |
| `osi` | MCOsi | Do critical sections, mutexes, semaphores, queues and the event loop keep what they promise with timeouts, handlers, reused slots and failed allocations? | 3 tasks, 2 mutexes, 1 semaphore, 2 task semaphores for 3 tasks (reuse), a group of 2 bits, nesting and counts up to 2; a queue of up to 3 (it fills and wraps, and is deleted with items in the ring), 2 items in the ring; 4 arena blocks (two events, or one with its base and data beside a handler, and exhaustion at each allocation). 200 000 states under the symmetry of tasks, objects and items |
| `vhci` | MCVhci | Is every BT interrupt served and the ISR run only when asked for; do bytes reach the host in order, and does a write return? | All three chips, both lines and the software interrupt, every writer of INTENABLE; a ring that holds 2 bytes (it fills, wraps and truncates, and a packet goes into a ring that a reader empties meanwhile), packets and reads of up to 2, on the Xtensa chips the reader on either core; 2 writers of 2 packets each. The bounds use up, so deadlock is not an error. 100 000 states |

### What the runs show

The properties of the passing runs hold. Four of them are refinements: the ISR
ring with its drain is `EventPipe`, the receive ring is `RxFifo`, the arena is
`Heap`, the event loop is `EventBus`. The other three runs are disagreements
between a comment and the code:

* **LinkDisconnect does not stop a reconnect that has begun.** `onLink` reads
  `l.down` before it calls the callback and never again, so a retry loop under
  way goes on connecting after LinkDisconnect has returned (`DownStopsReconnect`).
* **A link that comes up after Connect's timeout is never reported lost.** The
  late CONNECTED is received and dropped, `staLinkUp` stays false, and the later
  loss looks like no change (`LossAlwaysNotified`). `LossNotified` shows the
  weaker statement that does hold.
* **Broadcast during the Close of the earlier broadcast peer is undone.**
  `Peer.Close` takes the peer out of the map, releases `mu` and then deletes the
  SDK's entry. `Broadcast` in between finds the entry, does not add it, and the
  delete takes it from the new peer (`PeersInTable`). `NamedPeerInTable` holds:
  for any other address the SDK refuses the second add, so `AddPeer` fails
  instead. It excepts one more case (`crossed`): a `Peer.Close` so slow that
  `ESPNow.Close`, `NewESPNow` and `AddPeer` all run before its delete.

One more disagreement is modelled but has no run of its own, since the property
of the adapter excepts it. `osi.c` (165-168) says of its queue lock that yielding
"would NOT be safe inside a region the blob treats as a critical section", and
`safeGosched` (radio.go) keeps the waits from doing so; but a receive that finds a
queue empty (osi.c, 375 and 379) and a post (osi.c, 714) call
`espradio_task_yield_go`, which yields without a look at `wifiIntsOff`. Whether
the blob makes these calls inside its critical sections cannot be read from the
source; `CriticalIsExclusive` says nothing of a section in which it does.

## Fairness

* `SchedPass`: time passes (weak fairness of the tick). Goroutines are served in
  turn, so one that yielded in a pass gets the CPU back however often others are
  ready: strong fairness. An asserted, enabled level interrupt is taken at the
  next instruction, although a pass would mask the line: strong fairness.
* `NetifRx`: a callback that began finishes; the application keeps polling.
* `NetifTx`: a goroutine inside the code goes on, the blob answers each call, the
  ticker dispatches events. Nobody is made to send, start or stop. No fairness
  for a sender waiting at the gate: its loop has no queue and may lose for ever.
* `Link`: goroutines that can run do, `connect`'s timers expire, events are
  dispatched. Nothing is assumed of the blob: it may never end an attempt.
* `Timers`, `Arena`, `OsiAdapter`: none; only safety is claimed.
* `Vhci`: an enabled handler is entered (weak: while it may run nothing else
  does). The pass, which the ticker begins every 5 ms, and a task in the middle
  of `espradio_ints_on` get the CPU back from the round-robin scheduler however
  often others run: strong. A push that no handler interrupts, the reader and a
  writer that can go on do, and the controller reports room in the end: weak.
* `EspNow`: a call that has begun goes on, and one that waits for `mu` gets it in
  the end although others take it in turn (a Go lock is handed on): strong
  fairness of `Proceed`. Nobody is made to begin a call. `Routing` is weakly fair.

## Proofs

Each `*_proofs` module EXTENDS its component. The theorems hold for every value
of the constants that satisfies the named assumptions beside them.

* `SchedPass_proofs`: `TypeCorrect`; `ISRNotReentered`, from an invariant that
  says a softcall implies a masked line and a pass in progress, that only one
  goroutine is inside a pass, and that the handler runs only on an enabled line;
  `RingLosesNothing`, from an invariant that also says what a half-posted entry
  is (the slot read is the head, and the entry written is the next item).
  `NothingUncounted` (`Accounts`) counts an event from the blob's ISR to where it
  ends up; `QueueKeepsOrder` (`Ordered`) needs that a step of the ring adds at
  one end and removes at the other (`RingSteps`); `LineNotStranded` (`Awake`)
  says which pass, kick or tick is still to come wherever the line is masked.
  `PassImplementsPipe` rests on those invariants: the entries in transit are
  numbered one by one from the last one handed over to `accepted` (`InTransitIs`),
  so that a publish appends the next number, an advance is invisible, and what `DrainSend` hands
  over is the head.
* `Netif_proofs`, the receive ring: `RxTypeCorrect`, `RxNoTornRead`, `RxFramesAccounted`, and
  `RxImplementsFifo`, the refinement. `RxInv` adds to the typing that a producer
  past its check has a free slot, that a slot being consumed is not empty and
  that the frame written is the frame taken. `RxFramesAccounted` and the
  refinement need that the ring arithmetic (`Succ`, `Count`, `Slot`) behaves as
  a queue, which are lemmas.
* `Netif_proofs`, the transmit gate: `TxTypeCorrect`, `TxOneWriter`,
  `TxNeverIntoStop`, `TxGateFollowsDriver`, `TxLinkFlagSettles`. `GateInv` relates where the
  controlling goroutine is to the gate and the driver: busy implies started and
  on, because Stop enters the blob only when the gate is free and closed.
  `LinkInv` says the flag after the queued events is the association.
* `Timers_proofs`: `TimersTypeCorrect`, `TimersWalkStaysInList` (`WalkInv`) and
  `TimersDoWhatIsAsked`, from `EtsInv` and `EspInv`, which say of each slot and each
  list element that it does what was asked of its timer, and of a timer whose
  callback is under way that it will. `TimersPassServesDue` counts: while no timer
  becomes due, the overdue timers are those that are due (`OverdueInv`), the walk
  has them ahead of it (`AheadInv`), and the callbacks the pass still has are
  enough for all of them (`RoomInv`). `TimersNoStray` is an action property: what
  `EtsInv` and `EspInv` say of a due slot and of a due list element, at the step
  that calls it back. `PassAssumption` says the two budgets cover a
  full table (32 = 4·8 in the code). Nothing bounds how many esp_timers there are,
  so a pass that begins with more of them due than its budget (`crowded`) may leave
  some: the run's two are too few for that, and only the theorem covers it.
* `Link_proofs`: `LinkTypeCorrect`, `ConnectSuccessIsFresh`, `LossIsNotified`.
  `FreshInv` says that a TRUE in a channel some caller waits on, or may yet read,
  was put there while that caller was in Connect. For the losses, `OwedInv` says
  that one is owed only when no Connect runs. `LossInv` says that a Connect that
  runs alone knows where its attempt is (the station, the queued events and the
  result not yet read agree), and that outside Connect the flag after the queued
  events equals the association: a loss then shows as a change and gets into
  `linkEvents`.
* `EspNow_proofs`: `EspTypeCorrect`, `EspOpenInstanceHasSDK`,
  `EspCloseClosesPeers`, `EspNamedPeerInTable`, `EspNothingAfterClose`,
  `EspRoutedRight`. `SlotInv`: one call at a time holds the slot, and while
  it does no instance is open, so nobody takes the SDK from one that is.
  `MapInv`: an adding call holds its instance's lock and finds no peer there, an
  open peer is in its map or on the list of a Close that has yet to shut it, and
  an address has one open peer. `TableInv`: a `Peer.Close` that has not reached
  the SDK still has its entry there, and no open peer, adding call or other
  Peer.Close of the instance shares its address. That is what makes the delete
  harmless, and what `Broadcast`, which skips the add, escapes. `RecvInv`: a
  packet about to be enqueued goes to a peer that was open when it came.
  `RouteInv` relates each peer's queue to the packets already routed.
* `OsiAdapter_proofs`, the synchronisation: `TypeCorrect`, `Criticals`, `Mutexed`,
  `CountsRight` of `OsiSync`, for any number of tasks and objects. The invariant
  says that a task inside the critical section stands where it can run and every
  other one at a yield, that after a breach nobody is taken to be inside one, what
  the lock and take loops have seen when they wait, and that a task semaphore in
  use has one owner.
* `OsiAdapter_proofs`, the composition: `AdapterIsSync`, that every behaviour of
  it is one of `OsiSync`, so that the three invariants above hold of it too
  (`AdapterCriticals`, `AdapterMutexed`, `AdapterCounts`). `QueuesRight` and
  `ReceiversSafe` come from `QInv`: the ring's indices and count agree, its
  entries are `fifo`, and a receiver that waits has a queue that exists.
  `ListsWhole` and `MemoryRight` come from `LInv`: where the walk stands, what
  the two linked lists hold, and that each block in use belongs to one item,
  handler, base or data. `LoopImplementsBus` goes step by step under the same
  invariant: the head the code takes is the oldest event, the handler it reaches
  through `next` is the next one of those to call, and the blocks the arena gives
  are not those of an event or handler in use.
* `Arena_proofs`: `StaysWellFormed`, `RefusesOnlyWhenFull` and the refinement
  `ArenaIsHeap`, for any pool and any requests. `Shape` is the invariant: blocks
  of given sizes tile the pool (`Tiles`), tags agree, and no two free blocks are
  neighbours. A split (`SplitTiles`) and a join (`JoinTiles`) keep a tiling;
  `NextFree` and `PrevFree` say that the tags `arena_free` reads tell which
  neighbours are free, and `AllocFresh` and `ReleaseReturns` what a call does to
  the whole. `ArenaInv` adds that no tag where a freed pointer points says used,
  which is why a second free is noticed.
* `Vhci_proofs`: `IsrJustified` and `GpioRestored` from `IrqInv` (what a pass has
  latched, what a read of INTENABLE not yet written back contains), `PacketsSafe`
  from `TxInv`, `StreamRight` from `RingInv`, which adds that a byte stored and not
  yet published (`Landed`) is in the slot at the head, and that the ring has been
  found not full for it, whatever the reader has taken since.

Only model-checked: the liveness properties (`EventsServed`, `RingEmpties`,
`GateReleased`, `ConnectReturns`, `CallsReturn`, `BtServed`, `WriteReturns`),
which need fairness and ENABLED. The `TypeOK` of SchedPass and Timers and the
`RxTypeOK` of NetifRx are proved and no run repeats them; so are `RingIntact`,
`EventsAccounted` and `QueueInOrder`, which the run's `ImplementsPipe` covers.

## What is left

* `PeerStream` of ESP-NOW, the kick throttle of the ticker.
* A composition of the pass with queue and event loop, in place of the abstract
  queue and event list the core modules use.

## Not modelled

The components the table in `PROJECT.json` marks "not_modelled", each with its
reason. In particular:

* Enable and BLE bring-up take their flags by a test and a set with no yield
  between, on core 0; what follows is a straight line of calls whose effect is
  the chip's. Only the second caller that meets a half-done Enable is a
  behaviour, and nothing in the repository says what it should see.
* The ROM pointer latch restores words the chip's ROM keeps over a reset; how the
  chip does that is not in the repository.
* Most of the lines of the repository hold no behaviour: vendored headers of the
  blob, generated `sdkconfig.h`, register-level bring-up, error tables, thin
  calls into the blob. The modules model the part that does.

Inside the modelled components: diagnostics and counters no property is about,
the kick throttle, TinyGo's own interrupt bits, routing of interrupt sources,
frame contents, durations (a timeout may expire whenever its wait is under way);
on the C3, the BT ISR as a second producer of the ISR ring (`SchedPass` has one,
`Vhci` no ring); Start or Stop called by two goroutines at once; an event handler
that itself waits on a queue. Assumed: the blob deletes no queue that is waited
on. The assumptions on constants stand beside their declarations.
