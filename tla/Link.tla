---------------------------------- MODULE Link ----------------------------------
(***************************************************************************)
(* Station links: connect, reportConnect and disconnect (radio.go), the    *)
(* notify goroutine of SetLinkNotify (wifi.go) and Link, which reconnects  *)
(* from its callback (link.go), over the blob's station and its events.    *)
(*                                                                         *)
(* Two goroutines may be inside Connect at once: the application's, in     *)
(* LinkConnect, and the notify goroutine, in the retries of Link.onLink.   *)
(* The radio is enabled and started and LinkNotify was called: what a      *)
(* later LinkConnect finds.  Steps are what runs between two yields.       *)
(***************************************************************************)
EXTENDS Integers, Sequences

CONSTANTS
    Retries,   \* most retries the notify callback asks for
    LinkCap,   \* capacity of linkEvents, 4 in the code
    EventCap   \* bound: the air and the blob add no event beyond so many

ASSUME RetryAssumption == Retries \in Nat
ASSUME LinkAssumption == LinkCap \in Nat /\ LinkCap > 0
ASSUME EventAssumption == EventCap \in Nat /\ EventCap > 0

Callers == {"app", "notifier"}
\* Each unread result channel belongs to a caller waiting on it or to the last
\* Connect: as many channels as callers are enough, 0 is nil.
Chans == {1, 2}

VARIABLES
    sta,            \* the blob's station: "idle", "joining", "joined"
    events,         \* events posted and not dispatched, TRUE for CONNECTED
    connectResult,  \* the channel of the Connect call that wrote it last
    chan,           \* what each channel holds, at most one result
    waits,          \* the channel each caller's select evaluated
    staLinkUp, linkEvents,
    pc,             \* where each caller is
    down,           \* Link.down
    retry,          \* onLink may retry: what it sampled before the callback
    tries,          \* retries left
    fresh,          \* history: a CONNECTED was dispatched during this Connect
    owed,           \* history: a loss outside Connect that no callback told
    rough           \* history: see Rough below

blob == <<sta, events>>
results == <<connectResult, chan, waits>>
flags == <<staLinkUp, linkEvents>>
onLinkVars == <<down, retry, tries>>
history == <<fresh, owed, rough>>
vars == <<blob, results, flags, pc, onLinkVars, history>>

Nil == 0
Unread == {<<>>, <<TRUE>>, <<FALSE>>}
Connecting == {"config", "asked", "waiting", "settle", "abort", "aborted", "reap"}
InConnect(c) == pc[c] \in Connecting
NobodyConnects == \A c \in Callers : ~InConnect(c)
Other(c) == CHOOSE d \in Callers : d # c
Goto(c, step) == pc' = [pc EXCEPT ![c] = step]

Init ==
    /\ sta = "idle" /\ events = <<>>
    /\ connectResult = Nil /\ chan = [k \in Chans |-> <<>>]
    /\ waits = [c \in Callers |-> Nil]
    /\ staLinkUp = FALSE /\ linkEvents = <<>>
    /\ pc = [c \in Callers |-> "out"]
    /\ down = FALSE /\ retry = FALSE /\ tries = 0
    /\ fresh = [c \in Callers |-> FALSE] /\ owed = FALSE /\ rough = FALSE

-----------------------------------------------------------------------------
(* The blob's station, as connect uses it.                                 *)

Post(up) == events' = Append(events, up)
Room == Len(events) < EventCap

\* An attempt ends, whatever asked for it.
AttemptEnds ==
    /\ sta = "joining" /\ Room
    /\ \E up \in BOOLEAN :
           Post(up) /\ sta' = IF up THEN "joined" ELSE "idle"
    /\ UNCHANGED <<results, flags, pc, onLinkVars, history>>

\* A loss: the application is owed a callback if no Connect is running.
Lost ==
    /\ sta' = "idle" /\ Post(FALSE)
    /\ owed' = (owed \/ NobodyConnects)

AccessPointGone ==
    /\ sta = "joined" /\ Room /\ Lost
    /\ rough' = (rough \/ ~NobodyConnects)
    /\ UNCHANGED <<results, flags, pc, onLinkVars, fresh>>

\* esp_wifi_disconnect_internal ends a link; it does not stop an attempt.
DisconnectInternal ==
    \/ sta = "joined" /\ Lost
    \/ sta # "joined" /\ UNCHANGED <<blob, owed>>

-----------------------------------------------------------------------------
(* Dispatch of one event: espradio_on_wifi_event and reportConnect.        *)

\* No Connect is active: a change of the link goes to the notify goroutine,
\* unless its channel is full.
ReportChange(up) ==
    /\ staLinkUp' = up
    /\ \/ UNCHANGED <<linkEvents, rough>> /\ staLinkUp = up
       \/ /\ staLinkUp # up /\ Len(linkEvents) < LinkCap
          /\ linkEvents' = Append(linkEvents, up) /\ UNCHANGED rough
       \/ /\ staLinkUp # up /\ Len(linkEvents) = LinkCap
          /\ UNCHANGED linkEvents /\ rough' = TRUE
    /\ UNCHANGED results

\* The active Connect gets it, unless an earlier result is still unread.
ReportResult(up) ==
    /\ chan' = IF chan[connectResult] = <<>>
               THEN [chan EXCEPT ![connectResult] = <<up>>] ELSE chan
    /\ UNCHANGED <<connectResult, waits, flags, rough>>

Dispatch ==
    /\ events # <<>> /\ events' = Tail(events)
    /\ LET up == Head(events)
       IN  /\ \/ connectResult = Nil /\ ReportChange(up)
              \/ connectResult # Nil /\ ReportResult(up)
           /\ fresh' = [c \in Callers |-> fresh[c] \/ (up /\ InConnect(c))]
    /\ UNCHANGED <<sta, pc, onLinkVars, owed>>

-----------------------------------------------------------------------------
(* connect                                                                 *)

\* What makes the link flag or the result unreliable (see LossNotified): the
\* link is up or changing, or an event is on its way, or another Connect runs.
Rough(c) == sta # "idle" \/ events # <<>> \/ InConnect(Other(c))

\* Variant: the channel of the previous Connect is used again.
ConnectCallOldChannel(c) ==
    /\ pc[c] = "call" /\ Goto(c, "config")
    /\ connectResult' = IF waits[Other(c)] = 1 THEN 2 ELSE 1
    /\ staLinkUp' = FALSE
    /\ owed' = FALSE /\ rough' = (rough \/ Rough(c))
    /\ UNCHANGED <<blob, chan, waits, linkEvents, onLinkVars, fresh>>

\* A new channel of one result, replacing whatever another Connect put there.
ConnectCall(c) ==
    /\ pc[c] = "call" /\ Goto(c, "config")
    /\ connectResult' = IF waits[Other(c)] = 1 THEN 2 ELSE 1
    /\ chan' = [chan EXCEPT ![connectResult'] = <<>>]
    /\ staLinkUp' = FALSE
    /\ owed' = FALSE /\ rough' = (rough \/ Rough(c))
    /\ UNCHANGED <<blob, waits, linkEvents, onLinkVars, fresh>>

\* Connect returned err == nil, or an error, to LinkConnect or to onLink.
AppGets == Goto("app", "out") /\ UNCHANGED onLinkVars
NotifierGets(ok) ==
    /\ tries' = IF ok THEN 0 ELSE tries - 1
    /\ Goto("notifier", IF tries' = 0 THEN "out" ELSE "call")
    /\ UNCHANGED <<down, retry>>

\* The deferred func clears connectResult, even if another Connect owns it.
Return(c, ok) ==
    /\ connectResult' = Nil
    /\ waits' = [waits EXCEPT ![c] = Nil]
    /\ chan' = [k \in Chans |-> IF waits[Other(c)] = k THEN chan[k] ELSE <<>>]
    /\ fresh' = [fresh EXCEPT ![c] = FALSE]
    /\ \/ c = "app" /\ AppGets
       \/ c = "notifier" /\ NotifierGets(ok)

\* espradio_sta_set_config or esp_wifi_connect_internal failed.
ConfigFails(c) ==
    /\ pc[c] = "config" /\ Return(c, FALSE)
    /\ UNCHANGED <<blob, flags, owed, rough>>

\* esp_wifi_connect_internal; an existing link may be dropped for the attempt.
Ask(c) ==
    /\ pc[c] = "config" /\ Goto(c, "asked")
    /\ \/ sta' = "joining" /\ sta = "joined" /\ Post(FALSE)
       \/ sta' = (IF sta = "idle" THEN "joining" ELSE sta) /\ UNCHANGED events
    /\ UNCHANGED <<results, flags, onLinkVars, history>>

\* select evaluates the global, which another Connect may have changed.
Select(c) ==
    /\ \/ pc[c] = "asked" /\ Goto(c, "waiting")
       \/ pc[c] = "aborted" /\ Goto(c, "reap")
    /\ waits' = [waits EXCEPT ![c] = connectResult]
    /\ UNCHANGED <<blob, connectResult, chan, flags, onLinkVars, history>>

HasResult(c) == waits[c] # Nil /\ chan[waits[c]] # <<>>
Result(c) == chan[waits[c]][1]

ResultUp(c) ==
    /\ pc[c] = "waiting" /\ HasResult(c) /\ Result(c)
    /\ Goto(c, "settle")
    /\ chan' = [chan EXCEPT ![waits[c]] = <<>>]
    /\ UNCHANGED <<blob, connectResult, waits, flags, onLinkVars, history>>

ResultDown(c) ==
    /\ pc[c] = "waiting" /\ HasResult(c) /\ ~Result(c)
    /\ Return(c, FALSE)
    /\ UNCHANGED <<blob, flags, owed, rough>>

\* 15 s are over: disconnect, then wait as long again for the attempt to end.
Expire(c) ==
    /\ pc[c] = "waiting" /\ Goto(c, "abort")
    /\ UNCHANGED <<blob, results, flags, onLinkVars, history>>

Abort(c) ==
    /\ pc[c] = "abort" /\ Goto(c, "aborted")
    /\ DisconnectInternal
    /\ UNCHANGED <<results, flags, onLinkVars, fresh, rough>>

\* Variant: the second wait has no timeout.
ReapForever(c) ==
    /\ pc[c] = "reap" /\ HasResult(c) /\ Return(c, FALSE)
    /\ rough' = (rough \/ Result(c))
    /\ UNCHANGED <<blob, flags, owed>>

\* The attempt ends or takes another 15 s.  Its result is not looked at, even
\* if it is a CONNECTED.
Reap(c) ==
    /\ pc[c] = "reap" /\ Return(c, FALSE)
    /\ rough' = (rough \/ (HasResult(c) /\ Result(c)))
    /\ UNCHANGED <<blob, flags, owed>>

\* Variant: the link that Connect brought up is not recorded.
SettledUnrecorded(c) ==
    /\ pc[c] = "settle" /\ Return(c, TRUE)
    /\ UNCHANGED <<blob, flags, owed, rough>>

\* After the pump passes that let the blob finish: the link counts as up.
Settled(c) ==
    /\ pc[c] = "settle" /\ Return(c, TRUE)
    /\ staLinkUp' = TRUE
    /\ UNCHANGED <<blob, linkEvents, owed, rough>>

ConnectStep(c) ==
    \/ ConnectCall(c) \/ ConfigFails(c) \/ Ask(c) \/ Select(c)
    \/ ResultUp(c) \/ ResultDown(c) \/ Expire(c) \/ Abort(c)
    \/ Reap(c) \/ Settled(c)

-----------------------------------------------------------------------------
(* Link and the notify goroutine                                           *)

LinkConnect ==
    /\ pc["app"] = "out" /\ Goto("app", "call")
    /\ down' = FALSE
    /\ UNCHANGED <<blob, results, flags, retry, tries, history>>

LinkDisconnect ==
    /\ pc["app"] = "out" /\ Goto("app", "disconnect")
    /\ down' = TRUE
    /\ UNCHANGED <<blob, results, flags, retry, tries, history>>

Disconnect ==
    /\ pc["app"] = "disconnect" /\ Goto("app", "out")
    /\ DisconnectInternal
    /\ rough' = (rough \/ (sta = "joined" /\ ~NobodyConnects))
    /\ UNCHANGED <<results, flags, onLinkVars, fresh>>

\* onLink reads l.notify and l.down, then runs the callback.
NotifyTake ==
    /\ pc["notifier"] = "out" /\ linkEvents # <<>>
    /\ linkEvents' = Tail(linkEvents)
    /\ retry' = (~Head(linkEvents) /\ ~down)
    /\ owed' = (owed /\ Head(linkEvents))
    /\ Goto("notifier", "callback")
    /\ UNCHANGED <<blob, results, staLinkUp, down, tries, fresh, rough>>

\* The callback returns how often to retry; the loop calls Connect at once.
CallbackReturns ==
    /\ pc["notifier"] = "callback"
    /\ \E n \in 0 .. Retries :
           /\ tries' = IF retry THEN n ELSE 0
           /\ Goto("notifier", IF tries' = 0 THEN "out" ELSE "call")
    /\ retry' = FALSE
    /\ UNCHANGED <<blob, results, flags, down, history>>

Next ==
    \/ AttemptEnds \/ AccessPointGone \/ Dispatch
    \/ \E c \in Callers : ConnectStep(c)
    \/ LinkConnect \/ LinkDisconnect \/ Disconnect
    \/ NotifyTake \/ CallbackReturns

\* Goroutines that can run do, both timeouts of connect expire if nothing else
\* happens, and passes dispatch events.  The blob promises nothing.
Fairness ==
    /\ \A c \in Callers : WF_vars(ConnectStep(c))
    /\ WF_vars(Disconnect) /\ WF_vars(CallbackReturns)
    /\ WF_vars(NotifyTake) /\ WF_vars(Dispatch)

Spec == Init /\ [][Next]_vars /\ Fairness

-----------------------------------------------------------------------------
TypeOK ==
    /\ sta \in {"idle", "joining", "joined"}
    /\ events \in Seq(BOOLEAN) /\ Len(events) <= EventCap + 1
    /\ connectResult \in Chans \cup {Nil}
    /\ chan \in [Chans -> Unread]
    /\ waits \in [Callers -> Chans \cup {Nil}]
    /\ staLinkUp \in BOOLEAN
    /\ linkEvents \in Seq(BOOLEAN) /\ Len(linkEvents) <= LinkCap
    /\ pc \in [Callers -> {"out", "call", "disconnect", "callback"} \cup Connecting]
    /\ down \in BOOLEAN /\ retry \in BOOLEAN /\ tries \in 0 .. Retries
    /\ fresh \in [Callers -> BOOLEAN] /\ owed \in BOOLEAN /\ rough \in BOOLEAN

\* Connect succeeds on a CONNECTED dispatched while it ran, never on a result
\* an earlier Connect left behind, whatever channels two callers swap.
SuccessIsFresh == \A c \in Callers : pc[c] = "settle" => fresh[c]

\* Connect returns: even if the blob never answers, and even if a second
\* Connect takes over the result channel.
ConnectReturns == \A c \in Callers : InConnect(c) ~> ~InConnect(c)

Quiet == events = <<>> /\ linkEvents = <<>>

\* A link lost outside any Connect is reported to the notify callback, as long
\* as no Connect overlapped another, began on a link that was up, changing or
\* about to be reported, was hit by a loss itself, or timed out just before
\* its attempt succeeded, and linkEvents never overflowed.
LossNotified == Quiet /\ ~rough => ~owed

\* wifi.go:144 without those conditions: "SetLinkNotify sets a callback for
\* station connects and disconnects that happen outside a Connect call."
LossAlwaysNotified == Quiet => ~owed

\* link.go:54: "LinkDisconnect disconnects from the access point and stops any
\* reconnect."  Once it has returned, onLink begins no further Connect until
\* the application asks for a link again.
DownStopsReconnect ==
    [][pc["notifier"] = "call" /\ pc'["notifier"] = "config"
           => ~(down /\ pc["app"] = "out")]_vars
=============================================================================
