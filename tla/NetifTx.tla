-------------------------------- MODULE NetifTx --------------------------------
(***************************************************************************)
(* The transmit gate of netif.c (espradio_netif_tx) against Start and Stop *)
(* of the driver (start, postWiFiStart and stop in radio.go) and the link  *)
(* state the Wi-Fi events keep (espradio_on_wifi_event).                   *)
(*                                                                         *)
(* Every caller runs on core 0 (NetDev.SendOffsetEthFrame, Start and Stop  *)
(* go through onCore0) and switches only where it yields, so a step below  *)
(* is the code between two places that may yield: the wait loops and the   *)
(* calls into the blob.  One goroutine calls Start and Stop.               *)
(***************************************************************************)
EXTENDS Integers, Sequences

CONSTANTS
    Senders,     \* goroutines that send frames
    Retries,     \* ESPRADIO_TX_RETRIES, 4 in the code
    PumpPasses,  \* ESPRADIO_TX_PUMP_PASSES, 4 in the code
    EventCap     \* bound: events the blob leaves undispatched

ASSUME RetryAssumption == Retries \in Nat
ASSUME PumpAssumption == PumpPasses \in Nat /\ PumpPasses > 0
ASSUME EventAssumption == EventCap \in Nat /\ EventCap > 1

VARIABLES
    iface,        \* s_active_if
    txEnabled,    \* s_tx_enabled
    wifiStarted,
    connected,    \* s_sta_connected
    busy,         \* s_tx_busy
    pc,           \* where each sender is in espradio_netif_tx
    tries,        \* the i of its retry loop, 0 outside it
    passes,       \* the p of its pump loop, 0 outside it
    control,      \* where the goroutine calling Start and Stop is
    radio,        \* the blob's driver: "off", "on", "stopping"
    assoc,        \* the blob is associated with an access point
    events        \* Wi-Fi events posted and not dispatched

gate == <<txEnabled, wifiStarted, busy>>
sending == <<pc, tries, passes>>
link == <<connected, assoc, events>>
txVars == <<iface, gate, sending, control, radio, link>>

WifiEvents == {"connected", "disconnected", "stop"}
Writing(s) == pc[s] \in {"blob", "pump"}
Writers == {s \in Senders : Writing(s)}

TxInit ==
    /\ iface \in {"sta", "ap"}
    /\ txEnabled = FALSE /\ wifiStarted = FALSE /\ connected = FALSE
    /\ busy = FALSE
    /\ pc = [s \in Senders |-> "idle"]
    /\ tries = [s \in Senders |-> 0] /\ passes = [s \in Senders |-> 0]
    /\ control = "idle" /\ radio = "off" /\ assoc = FALSE /\ events = <<>>

-----------------------------------------------------------------------------
(* espradio_netif_tx                                                       *)

\* Refused: the call returns without touching the gate.
LinkRefuses == iface = "sta" /\ ~connected

\* The gate is taken and esp_wifi_internal_tx called; no yield in between.
TakeGate(s) ==
    /\ busy' = TRUE
    /\ pc' = [pc EXCEPT ![s] = "blob"]
    /\ UNCHANGED <<txEnabled, wifiStarted, tries, passes>>

Leave(s) ==
    /\ pc' = [pc EXCEPT ![s] = "idle"]
    /\ UNCHANGED <<gate, tries, passes>>

TxCall(s) ==
    /\ pc[s] = "idle" /\ txEnabled /\ ~LinkRefuses
    /\ \/ ~busy /\ TakeGate(s)
       \/ /\ busy
          /\ pc' = [pc EXCEPT ![s] = "wait"]
          /\ UNCHANGED <<gate, tries, passes>>
    /\ UNCHANGED <<iface, control, radio, link>>

\* Variant: the enable flag is not read again when the gate is free.
TxWakeUnchecked(s) ==
    /\ pc[s] = "wait"
    /\ \/ ~txEnabled /\ busy /\ Leave(s)
       \/ ~busy /\ TakeGate(s)
    /\ UNCHANGED <<iface, control, radio, link>>

\* Variant: a sender told to go on does not look at the gate again.
TxWakeBarges(s) ==
    /\ pc[s] = "wait"
    /\ \/ ~txEnabled /\ Leave(s)
       \/ txEnabled /\ TakeGate(s)
    /\ UNCHANGED <<iface, control, radio, link>>

\* Back from the yield of the wait loop: Stop may have run meanwhile.
TxWake(s) ==
    /\ pc[s] = "wait"
    /\ \/ ~txEnabled /\ Leave(s)
       \/ txEnabled /\ ~busy /\ TakeGate(s)
    /\ UNCHANGED <<iface, control, radio, link>>

\* The blob's answer ends the call: success, another error, or one rejection
\* too many.
Release(s) ==
    /\ busy' = FALSE
    /\ pc' = [pc EXCEPT ![s] = "idle"]
    /\ tries' = [tries EXCEPT ![s] = 0]
    /\ UNCHANGED <<txEnabled, wifiStarted, passes>>

TxDone(s) ==
    /\ pc[s] = "blob" /\ Release(s)
    /\ UNCHANGED <<iface, control, radio, link>>

\* Pump the scheduler until a buffer comes free, then retry.
Rejected(s) ==
    /\ pc' = [pc EXCEPT ![s] = "pump"]
    /\ tries' = [tries EXCEPT ![s] = @ + 1]
    /\ UNCHANGED <<gate, passes>>

\* Variant: the retry loop forgets to count.
TxNoMemForever(s) ==
    /\ pc[s] = "blob"
    /\ pc' = [pc EXCEPT ![s] = "pump"]
    /\ UNCHANGED <<gate, tries, passes, iface, control, radio, link>>

\* ESP_ERR_NO_MEM, within the retry budget or beyond it.
TxNoMem(s) ==
    /\ pc[s] = "blob"
    /\ \/ tries[s] < Retries /\ Rejected(s)
       \/ tries[s] = Retries /\ Release(s)
    /\ UNCHANGED <<iface, control, radio, link>>

\* One pump pass.  Either it is the last, or a TX-done callback has run since
\* the rejection, and the frame is offered again; or neither.
TxPump(s) ==
    /\ pc[s] = "pump"
    /\ \/ /\ pc' = [pc EXCEPT ![s] = "blob"]
          /\ passes' = [passes EXCEPT ![s] = 0]
       \/ /\ passes[s] + 1 < PumpPasses
          /\ passes' = [passes EXCEPT ![s] = @ + 1]
          /\ UNCHANGED pc
    /\ UNCHANGED <<gate, tries, iface, control, radio, link>>

-----------------------------------------------------------------------------
(* Start and Stop                                                          *)

\* start: the mode calls or esp_wifi_start may fail and leave all as it was.
StartCall ==
    /\ control = "idle"
    /\ control' = "starting"
    /\ UNCHANGED <<iface, gate, sending, radio, link>>

StartFails ==
    /\ control = "starting"
    /\ control' = "idle"
    /\ UNCHANGED <<iface, gate, sending, radio, link>>

StartReturns ==
    /\ control = "starting"
    /\ radio' = "on" /\ control' = "pumping"
    /\ UNCHANGED <<iface, gate, sending, link>>

\* postWiFiStart: after its pump passes the transmit path is opened.
StartReady ==
    /\ control = "pumping"
    /\ wifiStarted' = TRUE /\ txEnabled' = TRUE
    /\ control' = "idle"
    /\ UNCHANGED <<iface, busy, sending, radio, link>>

EnterWifiStop == control' = "stopping" /\ radio' = "stopping"

\* stop: closes the gate, then calls esp_wifi_stop at once if it is free.
StopCall ==
    /\ control = "idle" /\ wifiStarted
    /\ txEnabled' = FALSE
    /\ \/ ~busy /\ EnterWifiStop
       \/ busy /\ control' = "quiesce" /\ UNCHANGED radio
    /\ UNCHANGED <<iface, wifiStarted, busy, sending, link>>

StopQuiesced ==
    /\ control = "quiesce" /\ ~busy
    /\ EnterWifiStop
    /\ UNCHANGED <<iface, gate, sending, link>>

\* Variant: the timeout returns with the gate left closed.
StopTimeoutStaysClosed ==
    /\ control = "quiesce"
    /\ control' = "idle"
    /\ UNCHANGED <<iface, gate, sending, radio, link>>

\* stopTxQuiesceUs is up when the yield returns, gate free or not.
StopTimeout ==
    /\ control = "quiesce"
    /\ txEnabled' = TRUE
    /\ control' = "idle"
    /\ UNCHANGED <<iface, wifiStarted, busy, sending, radio, link>>

StopFails ==
    /\ control = "stopping"
    /\ radio' = "on" /\ txEnabled' = TRUE /\ control' = "idle"
    /\ UNCHANGED <<iface, wifiStarted, busy, sending, link>>

\* esp_wifi_stop posts its events, the driver is off, the flags are cleared.
StopReturns ==
    /\ control = "stopping"
    /\ \E bye \in {<<"stop">>, <<"disconnected", "stop">>} :
           /\ Len(events \o bye) <= EventCap
           /\ events' = events \o bye
    /\ radio' = "off" /\ assoc' = FALSE
    /\ connected' = FALSE /\ wifiStarted' = FALSE /\ control' = "idle"
    /\ UNCHANGED <<iface, txEnabled, busy, sending>>

-----------------------------------------------------------------------------
(* The blob's association and the dispatch of its events by a pass         *)

Post(event) ==
    /\ Len(events) < EventCap
    /\ events' = Append(events, event)
    /\ UNCHANGED <<iface, gate, sending, control, radio, connected>>

Associate ==
    /\ iface = "sta" /\ radio = "on" /\ ~assoc
    /\ assoc' = TRUE /\ Post("connected")

LoseAssociation ==
    /\ assoc /\ radio = "on"
    /\ assoc' = FALSE /\ Post("disconnected")

\* Variant: the handler ignores WIFI_EVENT_STA_STOP.
DispatchIgnoresStop ==
    /\ events # <<>>
    /\ events' = Tail(events)
    /\ connected' = IF Head(events) = "stop" THEN connected
                    ELSE Head(events) = "connected"
    /\ UNCHANGED <<iface, gate, sending, control, radio, assoc>>

\* espradio_event_loop_run_once with espradio_on_wifi_event
Dispatch ==
    /\ events # <<>>
    /\ events' = Tail(events)
    /\ connected' = (Head(events) = "connected")
    /\ UNCHANGED <<iface, gate, sending, control, radio, assoc>>

-----------------------------------------------------------------------------
SenderStep(s) ==
    TxCall(s) \/ TxWake(s) \/ TxDone(s) \/ TxNoMem(s) \/ TxPump(s)

ControlReturns ==
    \/ StartFails \/ StartReturns \/ StartReady
    \/ StopQuiesced \/ StopTimeout \/ StopFails \/ StopReturns

TxNext ==
    \/ \E s \in Senders : SenderStep(s)
    \/ StartCall \/ StopCall \/ ControlReturns
    \/ Associate \/ LoseAssociation \/ Dispatch

\* A goroutine inside the code is scheduled again after it yields, the blob
\* answers its calls, and the ticker keeps dispatching events.  Nothing makes
\* anybody send, start or stop, and a waiter may find the gate taken each time.
TxFairness ==
    /\ \A s \in Senders : WF_txVars(TxDone(s) \/ TxNoMem(s) \/ TxPump(s))
    /\ WF_txVars(ControlReturns)
    /\ WF_txVars(Dispatch)

TxSpec == TxInit /\ [][TxNext]_txVars /\ TxFairness

-----------------------------------------------------------------------------
TxTypeOK ==
    /\ iface \in {"sta", "ap"}
    /\ txEnabled \in BOOLEAN /\ wifiStarted \in BOOLEAN /\ busy \in BOOLEAN
    /\ connected \in BOOLEAN /\ assoc \in BOOLEAN
    /\ pc \in [Senders -> {"idle", "wait", "blob", "pump"}]
    /\ tries \in [Senders -> 0 .. Retries]
    /\ passes \in [Senders -> 0 .. PumpPasses - 1]
    /\ control \in {"idle", "starting", "pumping", "quiesce", "stopping"}
    /\ radio \in {"off", "on", "stopping"}
    /\ events \in Seq(WifiEvents) /\ Len(events) <= EventCap

\* At most one goroutine is between taking and releasing s_tx_busy, and the
\* flag is set exactly then, although the pump inside yields.
OneWriter ==
    IF busy THEN \E s \in Senders : Writers = {s} ELSE Writers = {}

\* The blob never holds a frame of ours while it stops or before postWiFiStart
\* has finished: stop waits for the writer out, and no waiter slips in after.
TxOnlyWhileStarted == Writers # {} => wifiStarted /\ radio = "on"

\* Between two calls of Start and Stop the gate, the flag and the driver agree:
\* a Stop that timed out or failed leaves a driver that still transmits.
GateFollowsDriver ==
    control = "idle" =>
        /\ txEnabled <=> wifiStarted
        /\ wifiStarted <=> radio = "on"

\* Once every event is dispatched the link flag senders read is the blob's
\* association, whatever Stop cleared in between.
LinkFlagSettles == events = <<>> => (connected <=> assoc)

\* Whoever takes the gate gives it back, even if the blob has no buffer left.
GateReleased == busy ~> ~busy
=============================================================================
