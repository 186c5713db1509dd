------------------------------- MODULE Timers -------------------------------
(***************************************************************************)
(* The two timer services the OS adapter gives the blob, and the part of   *)
(* the scheduler pass that runs them (schedOnce, radio.go): the table of   *)
(* ets timers (osi.c) and the list of esp_timers (esp_timer_shim.c).       *)
(*                                                                         *)
(* A callback is blob code: it may call any operation on any timer, and it *)
(* may yield, so other goroutines may do the same while it is under way.   *)
(* The pass itself does not yield.  Time is kept relative: a timer's       *)
(* `left` is what its deadline is ahead of the clock, 0 when it is due;    *)
(* every comparison in the code is against a clock read in the same step.  *)
(***************************************************************************)
EXTENDS Integers, SequencesExt

CONSTANTS
    EtsTimers,   \* the blob's ets_timer structures
    EspTimers,   \* addresses the arena gives out for struct esp_timer
    Clients,     \* sets of timers: a behaviour uses one of them
    SelfArmed,   \* ets timers whose `expire` field the blob writes itself
    Slots,       \* TIMER_SLOTS, 32 in the code
    Budget,      \* timerFirePerRound, 8
    DrainCap,    \* drainCap, 4
    MaxDelay     \* bound: the longest timeout, in ticks

ASSUME TimerAssumption == EtsTimers \cap EspTimers = {} /\ SelfArmed \subseteq EtsTimers
ASSUME ClientAssumption == \A c \in Clients : c \subseteq EtsTimers \cup EspTimers
ASSUME BoundAssumption == {Slots, Budget, DrainCap, MaxDelay} \subseteq Nat \ {0}

CONSTANT None    \* no timer
ASSUME NoneAssumption == None \notin EtsTimers \cup EspTimers

\* The rounds of one pass are enough to fire a full table: 32 <= 8 * 4.
ASSUME PassAssumption == Slots <= Budget * DrainCap

VARIABLES
    client,      \* the timers this behaviour uses
    slots,       \* timer_slots[0 .. timer_slots_used - 1]
    func,        \* ets_timer: func is set
    expire,      \* ets_timer: expire and period, written by the blob
    list,        \* s_timer_list, head first
    live,        \* addresses that hold a timer not freed
    tm,          \* struct esp_timer at each address
    inline,      \* timers whose callback runs inside esp_timer_start_once
    at,          \* where the pass is
    round,       \* n in the drain loop of schedOnce
    fired,       \* fired in the poll function
    timer,       \* timer whose callback the pass is in; next one of the walk
    wild,        \* the code has used a timer that was freed
    asked,       \* history: what the calls so far ask of each timer
    refused,     \* history: ets timers that found the table full
    muddled,     \* history: esp_timers outside the promise of EspKept
    freedOwn,    \* history: a timer was deleted inside its own callback
    overdue,     \* history: timers due when the pass began, not yet served
    busy,        \* history: a timer has become due since the pass began
    crowded      \* history: it began with more esp_timers due than it can serve

ets == <<slots, func, expire>>
esp == <<list, live, tm, inline>>
pass == <<at, round, fired, timer>>
history == <<asked, refused, muddled, freedOwn>>
excuse == <<busy, crowded>>
served == <<overdue, excuse>>
vars == <<client, ets, esp, pass, wild, history, served>>

Delays == 0 .. MaxDelay
Modes == {"off", "once", "periodic"}
Kind(repeat) == IF repeat THEN "periodic" ELSE "once"
\* A timeout of 0 is raised to one microsecond.
AtLeastOne(d) == IF d = 0 THEN 1 ELSE d

\* Inactive: the other fields are written again before they are read.
Idle == [active |-> FALSE, periodic |-> FALSE, interval |-> 0, left |-> 0]
\* The fields every arming writes.
Armed(d, repeat) ==
    [active |-> TRUE, periodic |-> repeat, interval |-> d, left |-> d]
Due(r) == r.active /\ r.left = 0

Used == DOMAIN slots
Index(t) == {i \in Used : slots[i].ptimer = t}     \* timer_slot_find
\* The successor of h in the list; None at the end.
NextOf(h) ==
    LET i == CHOOSE j \in DOMAIN list : list[j] = h
    IN IF i = Len(list) THEN None ELSE list[i + 1]

\* esp_timer clears `active` after a callback: what was started in it is lost,
\* unless the pass called back and the timer is periodic by then.
WillClear(h, repeat) ==
    h \in inline \/ (at = "espCall" /\ timer = h /\ ~repeat)
InOwnCallback(h) == h \in inline \/ (at = "espCall" /\ timer = h)
Ask(t, mode) == asked' = [asked EXCEPT ![t] = mode]
Serve(t) == overdue' = overdue \ {t}
\* Blob code runs between passes and inside callbacks.
BlobRuns == ~wild /\ at \in {"idle", "etsCall", "espCall"}

EtsDue == {t \in EtsTimers : \E i \in Index(t) : Due(slots[i].run)}
EspDue == {h \in ToSet(list) : Due(tm[h])}

Init ==
    /\ client \in Clients
    /\ slots = <<>>
    /\ func = [t \in EtsTimers |-> FALSE]
    /\ expire = [t \in EtsTimers |-> Idle]
    /\ list = <<>> /\ live = {} /\ tm = [h \in EspTimers |-> Idle] /\ inline = {}
    /\ at = "idle" /\ round = 0 /\ fired = 0 /\ timer = None
    /\ wild = FALSE
    /\ asked = [t \in EtsTimers \cup EspTimers |-> "off"]
    /\ refused = {} /\ muddled = {} /\ freedOwn = FALSE
    /\ overdue = {} /\ busy = FALSE /\ crowded = FALSE
-----------------------------------------------------------------------------
(* The operations on ets timers.  The blob sets a timer up before it arms  *)
(* it; what it then asks of a timer that found the table full is ignored.  *)

SetRun(t, r) == slots' = [i \in Used |->
    IF slots[i].ptimer = t THEN [slots[i] EXCEPT !.run = r] ELSE slots[i]]

\* espradio_timer_setfn: take a slot, or go on without one.
SetFn(t) ==
    /\ BlobRuns /\ t \in client
    /\ \/ Index(t) # {} /\ SetRun(t, Idle) /\ UNCHANGED refused
       \/ /\ Index(t) = {} /\ Len(slots) < Slots
          /\ slots' = Append(slots, [ptimer |-> t, run |-> Idle])
          /\ refused' = refused \ {t}
       \/ /\ Index(t) = {} /\ Len(slots) = Slots
          /\ refused' = refused \cup {t} /\ UNCHANGED slots
    /\ func' = [func EXCEPT ![t] = TRUE]
    /\ expire' = [expire EXCEPT ![t] = Idle]
    /\ Ask(t, "off") /\ Serve(t)
    /\ UNCHANGED <<client, esp, pass, wild, muddled, freedOwn, excuse>>

\* espradio_timer_arm, espradio_timer_arm_us with a timeout ahead.
Arm(t, d, repeat) ==
    /\ BlobRuns /\ t \in client /\ func[t] /\ d > 0
    /\ SetRun(t, Armed(d, repeat))
    /\ Ask(t, Kind(repeat)) /\ Serve(t)
    /\ UNCHANGED <<client, func, expire, esp, pass, wild, refused, muddled,
                   freedOwn, excuse>>

\* With a timeout of 0: the deadline is one microsecond ahead, and
\* espradio_timer_fire calls back at once.
ArmNow(t, repeat) ==
    /\ BlobRuns /\ t \in client /\ func[t]
    /\ SetRun(t, IF repeat THEN Armed(1, TRUE) ELSE Idle)
    /\ Ask(t, IF repeat THEN "periodic" ELSE "off") /\ Serve(t)
    /\ UNCHANGED <<client, func, expire, esp, pass, wild, refused, muddled,
                   freedOwn, excuse>>

\* espradio_timer_disarm
Disarm(t) ==
    /\ BlobRuns /\ t \in client
    /\ SetRun(t, Idle)
    /\ Ask(t, "off") /\ Serve(t)
    /\ UNCHANGED <<client, func, expire, esp, pass, wild, refused, muddled,
                   freedOwn, excuse>>

\* Variant: the last slot goes, whichever timer is done.
DoneDropsLast(t) ==
    /\ BlobRuns /\ t \in client /\ func[t]
    /\ slots' = IF Index(t) = {} THEN slots ELSE Front(slots)
    /\ func' = [func EXCEPT ![t] = FALSE]
    /\ Ask(t, "off") /\ Serve(t) /\ refused' = refused \ {t}
    /\ UNCHANGED <<client, expire, esp, pass, wild, muddled, freedOwn, excuse>>

\* espradio_timer_done: the slots behind move down.
Done(t) ==
    /\ BlobRuns /\ t \in client /\ func[t]
    /\ slots' = IF Index(t) = {} THEN slots ELSE RemoveAt(slots, Min(Index(t)))
    /\ func' = [func EXCEPT ![t] = FALSE]
    /\ Ask(t, "off") /\ Serve(t) /\ refused' = refused \ {t}
    /\ UNCHANGED <<client, expire, esp, pass, wild, muddled, freedOwn, excuse>>

\* The blob writes `expire` and `period` itself; the next poll adopts them.
BlobWritesExpire(t, d, repeat) ==
    /\ BlobRuns /\ t \in client \cap SelfArmed /\ func[t] /\ d > 0
    /\ expire' = [expire EXCEPT ![t] = Armed(d, repeat)]
    /\ UNCHANGED <<client, slots, func, esp, pass, wild, history, served>>

-----------------------------------------------------------------------------
(* The operations on esp_timers.                                           *)

\* esp_timer_create: the address may be that of a timer deleted before.
Create(h) ==
    /\ BlobRuns /\ h \in client \ live
    /\ live' = live \cup {h} /\ list' = <<h>> \o list
    /\ tm' = [tm EXCEPT ![h] = Idle]
    /\ Ask(h, "off")
    /\ UNCHANGED <<client, ets, inline, pass, wild, refused, muddled, freedOwn,
                   served>>

\* esp_timer_start_once, esp_timer_start_periodic
Start(h, d, repeat) ==
    /\ BlobRuns /\ h \in live /\ d > 0
    /\ tm' = [tm EXCEPT ![h] = Armed(d, repeat)]
    /\ Ask(h, Kind(repeat)) /\ Serve(h)
    /\ muddled' = IF WillClear(h, repeat) THEN muddled \cup {h}
                                        ELSE muddled \ {h}
    /\ UNCHANGED <<client, ets, list, live, inline, pass, wild, refused,
                   freedOwn, excuse>>

\* esp_timer_start_once with no timeout calls back before it returns.  Until
\* then the timer is due to the pass as well.
StartNow(h) ==
    /\ BlobRuns /\ h \in live \ inline
    /\ tm' = [tm EXCEPT ![h] = Armed(0, FALSE)]
    /\ inline' = inline \cup {h} /\ busy' = TRUE
    /\ Ask(h, "off") /\ Serve(h) /\ muddled' = muddled \ {h}
    /\ UNCHANGED <<client, ets, list, live, pass, wild, refused, freedOwn, crowded>>

\* The callback of StartNow has returned.
InlineReturn(h) ==
    /\ BlobRuns /\ h \in inline
    /\ inline' = inline \ {h}
    /\ wild' = (h \notin live)
    /\ tm' = IF h \in live THEN [tm EXCEPT ![h] = Idle] ELSE tm
    /\ Serve(h)
    /\ UNCHANGED <<client, ets, list, live, pass, history, excuse>>

\* esp_timer_restart makes the timer a one-shot.  What it should ask for, in
\* words of esp_timer.h, is the kind the timer has.
Restart(h, d) ==
    /\ BlobRuns /\ h \in live /\ tm[h].active
    /\ tm' = [tm EXCEPT ![h] = Armed(d, FALSE)]
    /\ Ask(h, IF asked[h] = "off" THEN "once" ELSE asked[h]) /\ Serve(h)
    /\ muddled' = IF WillClear(h, FALSE) \/ asked[h] = "periodic"
                    THEN muddled \cup {h} ELSE muddled \ {h}
    /\ busy' = (busy \/ d = 0)
    /\ UNCHANGED <<client, ets, list, live, inline, pass, wild, refused,
                   freedOwn, crowded>>

\* esp_timer_stop
Stop(h) ==
    /\ BlobRuns /\ h \in live
    /\ tm' = [tm EXCEPT ![h] = [Idle EXCEPT !.periodic = tm[h].periodic]]
    /\ Ask(h, "off") /\ Serve(h) /\ muddled' = muddled \ {h}
    /\ UNCHANGED <<client, ets, list, live, inline, pass, wild, refused,
                   freedOwn, excuse>>

\* Variant: only the head of the list is unlinked.
DeleteHeadOnly(h) ==
    /\ BlobRuns /\ h \in live
    /\ list' = IF Head(list) = h THEN Tail(list) ELSE list
    /\ live' = live \ {h} /\ tm' = [tm EXCEPT ![h] = Idle]
    /\ Ask(h, "off") /\ Serve(h) /\ muddled' = muddled \ {h}
    /\ freedOwn' = (freedOwn \/ InOwnCallback(h))
    /\ UNCHANGED <<client, ets, inline, pass, wild, refused, excuse>>

\* esp_timer_delete
Delete(h) ==
    /\ BlobRuns /\ h \in live
    /\ list' = RemoveFirst(list, h)
    /\ live' = live \ {h} /\ tm' = [tm EXCEPT ![h] = Idle]
    /\ Ask(h, "off") /\ Serve(h) /\ muddled' = muddled \ {h}
    /\ freedOwn' = (freedOwn \/ InOwnCallback(h))
    /\ UNCHANGED <<client, ets, inline, pass, wild, refused, excuse>>

-----------------------------------------------------------------------------
(* The pass: schedOnce polls the ets timers, then the esp_timers, each up  *)
(* to drainCap times.                                                      *)

Goto(step) == at' = step

BeginPass ==
    /\ at = "idle" /\ ~wild
    /\ Goto("ets") /\ round' = 0
    /\ overdue' = EtsDue \cup EspDue /\ busy' = FALSE
    /\ crowded' = (Cardinality(EspDue) > Budget * DrainCap)
    /\ UNCHANGED <<client, ets, esp, fired, timer, wild, history>>

\* The next poll, or the next service when nothing fired or the rounds are up.
NextRound(again, done) ==
    /\ fired' = 0 /\ timer' = None
    /\ IF fired = 0 \/ round + 1 = DrainCap
       THEN Goto(done) /\ round' = 0
       ELSE Goto(again) /\ round' = round + 1

\* espradio_timer_poll_due begins: inactive timers whose `expire` the blob has
\* written become active.
Adopt ==
    /\ at = "ets"
    /\ slots' = [i \in Used |->
          LET t == slots[i].ptimer IN
          IF ~slots[i].run.active /\ func[t] /\ expire[t].active
          THEN [slots[i] EXCEPT !.run = expire[t]] ELSE slots[i]]
    /\ Goto("etsScan")
    /\ UNCHANGED <<client, func, expire, esp, round, fired, timer, wild,
                   history, served>>

\* Variant: a periodic timer's deadline stays where it was.
EtsFireKeepsDeadline ==
    /\ at = "etsScan" /\ fired < Budget /\ EtsDue # {}
    /\ LET i == CHOOSE i \in Used : /\ Due(slots[i].run)
                                    /\ \A j \in 1 .. i - 1 : ~Due(slots[j].run)
           t == slots[i].ptimer
           r == slots[i].run
       IN /\ SetRun(t, IF r.periodic THEN r ELSE Idle)
          /\ Ask(t, IF r.periodic THEN asked[t] ELSE "off") /\ Serve(t)
          /\ timer' = t
    /\ Goto("etsCall")
    /\ UNCHANGED <<client, func, expire, esp, round, fired, wild, refused,
                   muddled, freedOwn, excuse>>

\* The lowest slot that is due fires: espradio_timer_fire.
EtsFire ==
    /\ at = "etsScan" /\ fired < Budget /\ EtsDue # {}
    /\ LET i == CHOOSE i \in Used : /\ Due(slots[i].run)
                                    /\ \A j \in 1 .. i - 1 : ~Due(slots[j].run)
           t == slots[i].ptimer
           r == slots[i].run
       IN /\ SetRun(t, IF r.periodic THEN [r EXCEPT !.left = r.interval] ELSE Idle)
          /\ Ask(t, IF r.periodic THEN asked[t] ELSE "off") /\ Serve(t)
          /\ timer' = t
    /\ Goto("etsCall")
    /\ UNCHANGED <<client, func, expire, esp, round, fired, wild, refused,
                   muddled, freedOwn, excuse>>

EtsReturn ==
    /\ at = "etsCall" /\ ~wild
    /\ Goto("etsScan") /\ fired' = fired + 1 /\ timer' = None
    /\ UNCHANGED <<client, ets, esp, round, wild, history, served>>

EtsRound ==
    /\ at = "etsScan" /\ (fired = Budget \/ EtsDue = {})
    /\ NextRound("ets", "esp")
    /\ UNCHANGED <<client, ets, esp, wild, history, served>>

\* The walk comes to h, which it reads next.
Reach(h) == timer' = h /\ wild' = (h # None /\ h \notin live)

\* espradio_esp_timer_poll_due begins its walk.
Walk ==
    /\ at = "esp"
    /\ Reach(IF list = <<>> THEN None ELSE Head(list))
    /\ Goto("espWalk")
    /\ UNCHANGED <<client, ets, esp, round, fired, history, served>>

EspSkip ==
    /\ at = "espWalk" /\ fired < Budget
    /\ timer \in live /\ ~Due(tm[timer])
    /\ Reach(NextOf(timer))
    /\ UNCHANGED <<client, ets, esp, at, round, fired, history, served>>

EspFire ==
    /\ at = "espWalk" /\ fired < Budget
    /\ timer \in live /\ Due(tm[timer])
    /\ Goto("espCall")
    /\ Ask(timer, IF tm[timer].periodic THEN asked[timer] ELSE "off")
    /\ Serve(timer)
    /\ UNCHANGED <<client, ets, esp, round, fired, timer, wild, refused, muddled,
                   freedOwn, excuse>>

\* Variant: a one-shot timer stays active.
EspReturnActive ==
    /\ at = "espCall" /\ ~wild
    /\ fired' = fired + 1 /\ Goto("espWalk")
    /\ IF timer \in live THEN Reach(NextOf(timer))
                           ELSE wild' = TRUE /\ UNCHANGED timer
    /\ UNCHANGED <<client, ets, esp, round, history, served>>

\* The callback has returned: a periodic timer gets its next deadline, any
\* other is made inactive, and the walk goes on with what is next now.
EspReturn ==
    /\ at = "espCall" /\ ~wild
    /\ fired' = fired + 1 /\ Goto("espWalk")
    /\ IF timer \in live
       THEN /\ Reach(NextOf(timer))
            /\ tm' = [tm EXCEPT ![timer] =
                 IF @.active /\ @.periodic THEN Armed(@.interval, TRUE) ELSE Idle]
       ELSE wild' = TRUE /\ UNCHANGED <<timer, tm>>
    /\ UNCHANGED <<client, ets, list, live, inline, round, history, served>>

EspRound ==
    /\ at = "espWalk" /\ ~wild /\ (timer = None \/ fired = Budget)
    /\ NextRound("esp", "idle")
    /\ UNCHANGED <<client, ets, esp, wild, history, served>>

PassStep == \/ BeginPass \/ Adopt \/ EtsFire \/ EtsReturn \/ EtsRound
            \/ Walk \/ EspSkip \/ EspFire \/ EspReturn \/ EspRound

Later(r) == IF r.active /\ r.left > 0 THEN [r EXCEPT !.left = @ - 1] ELSE r

\* Time passes; a step of the pass outside a callback takes none.
Tick ==
    /\ BlobRuns
    /\ slots' = [i \in Used |-> [slots[i] EXCEPT !.run = Later(@)]]
    /\ tm' = [h \in EspTimers |-> Later(tm[h])]
    /\ <<slots', tm'>> # <<slots, tm>>
    /\ busy' = TRUE
    /\ UNCHANGED <<client, func, expire, list, live, inline, pass, wild, history,
                   overdue, crowded>>

EtsCall(t) ==
    \/ SetFn(t) \/ Disarm(t) \/ Done(t)
    \/ \E repeat \in BOOLEAN :
          \/ ArmNow(t, repeat)
          \/ \E d \in Delays : Arm(t, d, repeat) \/ BlobWritesExpire(t, d, repeat)

EspCall(h) ==
    \/ Create(h) \/ StartNow(h) \/ InlineReturn(h) \/ Stop(h) \/ Delete(h)
    \/ \E d \in Delays : \/ Restart(h, d)
                         \/ \E repeat \in BOOLEAN : Start(h, d, repeat)

Next ==
    \/ PassStep \/ Tick
    \/ \E t \in EtsTimers : EtsCall(t)
    \/ \E h \in EspTimers : EspCall(h)

Spec == Init /\ [][Next]_vars

-----------------------------------------------------------------------------
Runs == [active : BOOLEAN, periodic : BOOLEAN, interval : Delays, left : Delays]
Steps == {"idle", "ets", "etsScan", "etsCall", "esp", "espWalk", "espCall"}
Mode(r) == IF r.active THEN Kind(r.periodic) ELSE "off"

\* Everything has its type, the table has no more slots than it may, no timer
\* has two, and the list holds each live timer once.
TypeOK ==
    /\ client \in Clients
    /\ slots \in Seq([ptimer : EtsTimers, run : Runs]) /\ Len(slots) <= Slots
    /\ \A i, j \in Used : slots[i].ptimer = slots[j].ptimer => i = j
    /\ func \in [EtsTimers -> BOOLEAN] /\ expire \in [EtsTimers -> Runs]
    /\ list \in Seq(EspTimers) /\ IsInjective(list) /\ ToSet(list) = live
    /\ tm \in [EspTimers -> Runs] /\ inline \subseteq EspTimers
    /\ at \in Steps /\ round \in 0 .. DrainCap - 1 /\ fired \in 0 .. Budget
    /\ timer \in EtsTimers \cup EspTimers \cup {None}
    /\ asked \in [EtsTimers \cup EspTimers -> Modes]
    /\ refused \subseteq EtsTimers /\ muddled \subseteq EspTimers
    /\ overdue \subseteq EtsTimers \cup EspTimers
    /\ wild \in BOOLEAN /\ freedOwn \in BOOLEAN
    /\ busy \in BOOLEAN /\ crowded \in BOOLEAN

\* The table does for each timer what the calls about that timer ask, whatever
\* callbacks do to other slots while a poll is under way: a timer fires once or
\* again and again if and only if it was last armed so.  Excepted are timers
\* that found the table full (espradio_timer_setfn says nothing) and those whose
\* `expire` the blob has written.
EtsKept ==
    \A t \in EtsTimers \ refused :
        \/ expire[t].active
        \/ IF Index(t) = {} THEN asked[t] = "off"
           ELSE \A i \in Index(t) : Mode(slots[i].run) = asked[t]

\* The same for esp_timers, the one whose callback runs aside.  Excepted are a
\* timer started in its own callback and a periodic one restarted.
EspKept ==
    \A h \in live \ muddled : InOwnCallback(h) \/ Mode(tm[h]) = asked[h]

\* Both services do what was asked of their timers.
TimersKept == EtsKept /\ EspKept

\* No stray callback: a timer is called back only if it was last armed, not once
\* it has been stopped or, a one-shot, has fired.  Excepted besides those above
\* is an esp_timer whose callback its own start is running: it stays active
\* until that returns, so a pass meanwhile may find it due.
Excused(t) == IF t \in EtsTimers THEN t \in refused \/ expire[t].active
                                 ELSE t \in muddled \cup inline
Calling(t) == at' # at /\ at' \in {"etsCall", "espCall"} /\ timer' = t
NoStrayCallback ==
    [][\A t \in EtsTimers \cup EspTimers :
          Calling(t) => asked[t] # "off" \/ Excused(t)]_vars

\* Callbacks may delete timers while the poll walks the list: the walk leaves
\* the list only if a timer was deleted in its own callback.
WalkStaysInList == wild => freedOwn

\* drainCap polls of timerFirePerRound callbacks are enough for a full table:
\* after a pass in which no timer became due, every timer that was due when it
\* began has fired, or was set again or stopped.  Excepted are esp_timers, of
\* which there may be any number, if more were due than the pass can call back.
PassServesDue ==
    at = "idle" /\ ~busy /\ ~wild =>
        overdue \subseteq (IF crowded THEN EspTimers ELSE {})
=============================================================================
