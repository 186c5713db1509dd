------------------------------ MODULE Link_proofs ------------------------------
(***************************************************************************)
(* Proofs about connect and the callers that share its result channel, for *)
(* any number of retries and any capacity of the event queues.             *)
(***************************************************************************)
EXTENDS Link, SequenceTheorems, TLAPS

\* What keeps the bounds of TypeOK: a caller that is retrying has a retry left,
\* and a station that is up leaves room for the event that ends the link.
BoundInv ==
    /\ InConnect("notifier") \/ pc["notifier"] = "call" => tries > 0
    /\ pc["notifier"] # "disconnect" /\ pc["app"] # "callback"
    /\ sta = "joined" => Len(events) <= EventCap

\* A channel that a running Connect waits on, or may yet read from the global,
\* holds a CONNECTED only if one was dispatched during that Connect.
FreshInv ==
    \A c \in Callers :
        /\ ~InConnect(c) => waits[c] = Nil
        /\ InConnect(c) => \A k \in {connectResult, waits[c]} \ {Nil} :
                               chan[k] = <<TRUE>> => fresh[c]
        /\ pc[c] = "settle" => fresh[c]

-----------------------------------------------------------------------------
LEMMA TheOther ==
    \A c \in Callers : Other(c) \in Callers /\ Other(c) # c
  <1>1. \A c \in Callers : \E d \in Callers : d # c
    BY DEF Callers
  <1>. QED
    BY <1>1 DEF Other

LEMMA UnreadShort ==
    \A r \in Unread : r # <<>> => r[1] \in BOOLEAN /\ (r[1] <=> r = <<TRUE>>)
  <1>1. <<TRUE>>[1] = TRUE /\ <<FALSE>>[1] = FALSE
    OBVIOUS
  <1>2. <<TRUE>> # <<FALSE>>
    BY <1>1
  <1>. QED
    BY <1>1, <1>2 DEF Unread

\* Appending to one of the two event queues.
LEMMA AppendFlag ==
    ASSUME NEW q \in Seq(BOOLEAN), NEW up \in BOOLEAN
    PROVE  /\ Append(q, up) \in Seq(BOOLEAN)
           /\ Len(Append(q, up)) = Len(q) + 1
           /\ Len(q) \in Nat
  BY AppendProperties, LenProperties

LEMMA TailFlag ==
    ASSUME NEW q \in Seq(BOOLEAN), q # <<>>
    PROVE  /\ Head(q) \in BOOLEAN /\ Tail(q) \in Seq(BOOLEAN)
           /\ Len(Tail(q)) = Len(q) - 1
           /\ Len(q) \in Nat
  BY HeadTailProperties, LenProperties

-----------------------------------------------------------------------------
(* Types and bounds.                                                       *)

LEMMA LinkTypeInit == Init => TypeOK /\ BoundInv
  <1>. SUFFICES ASSUME Init PROVE TypeOK /\ BoundInv
    OBVIOUS
  <1>1. <<>> \in Seq(BOOLEAN) /\ Len(<<>>) = 0
    OBVIOUS
  <1>2. Len(events) <= EventCap + 1 /\ Len(linkEvents) <= LinkCap
    BY <1>1, LinkAssumption, EventAssumption DEF Init
  <1>3. pc = [c \in Callers |-> "out"] /\ "notifier" \in Callers /\ "app" \in Callers
    BY DEF Init, Callers
  <1>4. ~InConnect("notifier")
    BY <1>3 DEF InConnect, Connecting
  <1>5. chan \in [Chans -> Unread]
    <2>1. <<>> \in Unread
      BY DEF Unread
    <2>. QED
      BY <2>1 DEF Init
  <1>6. tries \in 0 .. Retries
    BY RetryAssumption DEF Init
  <1>7. /\ events \in Seq(BOOLEAN) /\ linkEvents \in Seq(BOOLEAN)
        /\ waits \in [Callers -> Chans \cup {Nil}]
    BY <1>1 DEF Init
  <1>8. TypeOK
    BY <1>2, <1>3, <1>5, <1>6, <1>7 DEF Init, TypeOK
  <1>. QED
    BY <1>3, <1>4, <1>8 DEF Init, BoundInv

LEMMA ReturnTypes ==
    ASSUME TypeOK, BoundInv, NEW c \in Callers, InConnect(c),
           NEW ok \in BOOLEAN, Return(c, ok)
    PROVE  /\ connectResult' \in Chans \cup {Nil}
           /\ chan' \in [Chans -> Unread]
           /\ waits' \in [Callers -> Chans \cup {Nil}]
           /\ pc' \in [Callers -> {"out", "call", "disconnect", "callback"}
                                      \cup Connecting]
           /\ down' = down /\ retry' = retry /\ tries' \in 0 .. Retries
           /\ fresh' \in [Callers -> BOOLEAN]
           /\ InConnect("notifier")' \/ pc'["notifier"] = "call" => tries' > 0
           /\ pc'["notifier"] # "disconnect" /\ pc'["app"] # "callback"
  <1>1. /\ connectResult' \in Chans \cup {Nil}
        /\ chan' \in [Chans -> Unread]
        /\ waits' \in [Callers -> Chans \cup {Nil}]
        /\ fresh' \in [Callers -> BOOLEAN]
    BY DEF TypeOK, Return, Unread
  <1>2. CASE c = "app"
    BY <1>1, <1>2 DEF Return, AppGets, Goto, onLinkVars, TypeOK, BoundInv,
                      InConnect, Connecting, Callers
  <1>3. CASE c = "notifier"
    <2>1. tries \in 0 .. Retries /\ tries > 0
      BY <1>3 DEF TypeOK, BoundInv
    <2>2. /\ tries' = IF ok THEN 0 ELSE tries - 1
          /\ pc' = [pc EXCEPT !["notifier"] = IF tries' = 0 THEN "out" ELSE "call"]
          /\ UNCHANGED <<down, retry>>
      BY <1>3 DEF Return, NotifierGets, Goto
    <2>3. tries' \in 0 .. Retries
      BY <2>1, <2>2, RetryAssumption
    <2>4. /\ tries' = 0 => pc'["notifier"] = "out"
          /\ tries' # 0 => pc'["notifier"] = "call"
          /\ pc'["app"] = pc["app"]
      BY <2>2 DEF TypeOK, Callers
    <2>5. tries' # 0 => tries' > 0
      BY <2>3, RetryAssumption
    <2>6. pc' \in [Callers -> {"out", "call", "disconnect", "callback"}
                                  \cup Connecting]
      BY <2>2 DEF TypeOK
    <2>. QED
      BY <1>1, <2>2, <2>3, <2>4, <2>5, <2>6 DEF BoundInv, InConnect, Connecting
  <1>. QED
    BY <1>2, <1>3 DEF Callers

\* A caller that stays in Connect, or in one of its own steps outside.
LEMMA GotoTypes ==
    ASSUME TypeOK, BoundInv, NEW c \in Callers,
           NEW step \in {"out", "call", "disconnect", "callback"} \cup Connecting,
           Goto(c, step), tries' = tries,
           c = "notifier" =>
               /\ step # "disconnect"
               /\ step \in Connecting \cup {"call"} =>
                      InConnect(c) \/ pc[c] = "call",
           c = "app" => step # "callback"
    PROVE  /\ pc' \in [Callers -> {"out", "call", "disconnect", "callback"}
                                      \cup Connecting]
           /\ InConnect("notifier")' \/ pc'["notifier"] = "call" => tries' > 0
           /\ pc'["notifier"] # "disconnect" /\ pc'["app"] # "callback"
  <1>1. pc' \in [Callers -> {"out", "call", "disconnect", "callback"}
                                \cup Connecting]
    BY DEF TypeOK, Goto
  <1>2. CASE c = "app"
    BY <1>1, <1>2 DEF TypeOK, Goto, BoundInv, InConnect, Callers
  <1>3. CASE c = "notifier"
    BY <1>1, <1>3 DEF TypeOK, Goto, BoundInv, InConnect, Callers
  <1>. QED
    BY <1>2, <1>3 DEF Callers

LEMMA LinkTypeStep ==
    TypeOK /\ BoundInv /\ [Next]_vars => TypeOK' /\ BoundInv'
  <1>. SUFFICES ASSUME TypeOK, BoundInv, [Next]_vars PROVE TypeOK' /\ BoundInv'
    OBVIOUS
  <1>. USE DEF blob, results, flags, onLinkVars, history
  <1>0. /\ events \in Seq(BOOLEAN) /\ linkEvents \in Seq(BOOLEAN)
        /\ Len(events) \in Nat /\ Len(linkEvents) \in Nat
    BY LenProperties DEF TypeOK
  \* The actions of the blob.
  <1>1. ASSUME NEW up \in BOOLEAN, Post(up)
        PROVE  events' \in Seq(BOOLEAN) /\ Len(events') = Len(events) + 1
    BY <1>0, <1>1, AppendFlag DEF Post
  <1>2. CASE AttemptEnds
    <2>1. PICK up \in BOOLEAN : Post(up) /\ sta' = IF up THEN "joined" ELSE "idle"
      BY <1>2 DEF AttemptEnds
    <2>2. events' \in Seq(BOOLEAN) /\ Len(events') = Len(events) + 1
      BY <1>1, <2>1
    <2>3. Len(events') <= EventCap /\ Len(events') <= EventCap + 1
      BY <1>0, <1>2, <2>2, EventAssumption DEF AttemptEnds, Room
    <2>. QED
      BY <1>2, <2>1, <2>2, <2>3 DEF AttemptEnds, TypeOK, BoundInv, InConnect
  <1>3. ASSUME sta = "joined", Lost
        PROVE  /\ events' \in Seq(BOOLEAN) /\ Len(events') <= EventCap + 1
               /\ sta' = "idle" /\ owed' \in BOOLEAN
    <2>1. events' \in Seq(BOOLEAN) /\ Len(events') = Len(events) + 1
      BY <1>1, <1>3 DEF Lost
    <2>2. Len(events) <= EventCap
      BY <1>3 DEF BoundInv
    <2>. QED
      BY <1>0, <1>3, <2>1, <2>2, EventAssumption DEF Lost
  <1>4. CASE AccessPointGone
    BY <1>3, <1>4 DEF AccessPointGone, TypeOK, BoundInv, InConnect
  <1>5. ASSUME DisconnectInternal
        PROVE  /\ events' \in Seq(BOOLEAN) /\ Len(events') <= EventCap + 1
               /\ sta' \in {"idle", "joining", "joined"} /\ owed' \in BOOLEAN
               /\ sta' = "joined" => Len(events') <= EventCap
    <2>1. CASE sta = "joined" /\ Lost
      BY <1>3, <2>1
    <2>2. CASE sta # "joined" /\ UNCHANGED <<blob, owed>>
      BY <2>2 DEF TypeOK
    <2>. QED
      BY <1>5, <2>1, <2>2 DEF DisconnectInternal
  <1>6. CASE Dispatch
    <2>. DEFINE up == Head(events)
    <2>1. /\ up \in BOOLEAN /\ events' \in Seq(BOOLEAN)
          /\ Len(events') = Len(events) - 1
      BY <1>0, <1>6, TailFlag DEF Dispatch
    <2>2. /\ fresh' \in [Callers -> BOOLEAN]
          /\ UNCHANGED <<sta, pc, down, retry, tries, owed>>
      BY <1>6, <2>1 DEF Dispatch, InConnect
    <2>3. /\ Len(events') <= EventCap + 1
          /\ Len(events) <= EventCap => Len(events') <= EventCap
      BY <1>0, <2>1, EventAssumption DEF TypeOK
    <2>4. CASE connectResult = Nil /\ ReportChange(up)
      <3>1. /\ staLinkUp' \in BOOLEAN /\ rough' \in BOOLEAN
            /\ UNCHANGED results
        BY <2>1, <2>4 DEF ReportChange, TypeOK
      <3>2. linkEvents' \in Seq(BOOLEAN) /\ Len(linkEvents') <= LinkCap
        <4>1. CASE UNCHANGED linkEvents
          BY <4>1 DEF TypeOK
        <4>2. CASE Len(linkEvents) < LinkCap /\ linkEvents' = Append(linkEvents, up)
          BY <1>0, <2>1, <4>2, AppendFlag, LinkAssumption
        <4>. QED
          BY <2>4, <4>1, <4>2 DEF ReportChange
      <3>. QED
        BY <2>1, <2>2, <2>3, <3>1, <3>2 DEF TypeOK, BoundInv, InConnect
    <2>5. CASE connectResult # Nil /\ ReportResult(up)
      <3>1. <<up>> \in Unread
        BY <2>1 DEF Unread
      <3>2. chan' \in [Chans -> Unread]
        BY <2>5, <3>1 DEF ReportResult, TypeOK
      <3>. QED
        BY <2>1, <2>2, <2>3, <2>5, <3>2 DEF ReportResult, TypeOK, BoundInv, InConnect
    <2>. QED
      BY <1>6, <2>4, <2>5 DEF Dispatch
  \* The steps of connect.
  <1>7. ASSUME NEW c \in Callers, ConnectCall(c) PROVE TypeOK' /\ BoundInv'
    <2>1. connectResult' \in Chans /\ <<>> \in Unread
      BY <1>7 DEF ConnectCall, Chans, Unread
    <2>2. chan' \in [Chans -> Unread]
      BY <1>7, <2>1 DEF ConnectCall, TypeOK
    <2>3. rough' \in BOOLEAN
      BY <1>7 DEF ConnectCall, TypeOK, Rough, InConnect
    <2>. QED
      BY <1>7, <2>1, <2>2, <2>3, GotoTypes
         DEF ConnectCall, TypeOK, BoundInv, Connecting
  <1>8. ASSUME NEW c \in Callers, ConfigFails(c) PROVE TypeOK' /\ BoundInv'
    BY <1>8, ReturnTypes DEF ConfigFails, TypeOK, BoundInv, InConnect, Connecting
  <1>9. ASSUME NEW c \in Callers, Ask(c) PROVE TypeOK' /\ BoundInv'
    <2>1. /\ events' \in Seq(BOOLEAN) /\ Len(events') <= EventCap + 1
          /\ sta' \in {"idle", "joining", "joined"}
          /\ sta' = "joined" => Len(events') <= EventCap
      <3>1. CASE sta' = "joining" /\ sta = "joined" /\ Post(FALSE)
        <4>1. events' \in Seq(BOOLEAN) /\ Len(events') = Len(events) + 1
          BY <1>1, <3>1
        <4>2. Len(events') <= EventCap + 1
          BY <1>0, <3>1, <4>1, EventAssumption DEF BoundInv
        <4>. QED
          BY <3>1, <4>1, <4>2
      <3>2. CASE sta' = (IF sta = "idle" THEN "joining" ELSE sta) /\ UNCHANGED events
        BY <3>2 DEF TypeOK, BoundInv
      <3>. QED
        BY <1>9, <3>1, <3>2 DEF Ask
    <2>2. InConnect(c)
      BY <1>9 DEF Ask, InConnect, Connecting
    <2>. QED
      BY <1>9, <2>1, <2>2, GotoTypes DEF Ask, TypeOK, BoundInv, Connecting
  <1>10. ASSUME NEW c \in Callers, Select(c) PROVE TypeOK' /\ BoundInv'
    <2>1. InConnect(c) /\ \E step \in {"waiting", "reap"} : Goto(c, step)
      BY <1>10 DEF Select, InConnect, Connecting
    <2>. QED
      BY <1>10, <2>1, GotoTypes DEF Select, TypeOK, BoundInv, Connecting
  <1>11. ASSUME NEW c \in Callers, ResultUp(c) PROVE TypeOK' /\ BoundInv'
    <2>1. <<>> \in Unread /\ InConnect(c)
      BY <1>11 DEF Unread, ResultUp, InConnect, Connecting
    <2>2. chan' \in [Chans -> Unread]
      BY <1>11, <2>1 DEF ResultUp, TypeOK
    <2>. QED
      BY <1>11, <2>1, <2>2, GotoTypes DEF ResultUp, TypeOK, BoundInv, Connecting
  <1>12. ASSUME NEW c \in Callers, ResultDown(c) PROVE TypeOK' /\ BoundInv'
    BY <1>12, ReturnTypes DEF ResultDown, TypeOK, BoundInv, InConnect, Connecting
  <1>13. ASSUME NEW c \in Callers, Expire(c) PROVE TypeOK' /\ BoundInv'
    <2>1. InConnect(c)
      BY <1>13 DEF Expire, InConnect, Connecting
    <2>. QED
      BY <1>13, <2>1, GotoTypes DEF Expire, TypeOK, BoundInv, Connecting
  <1>14. ASSUME NEW c \in Callers, Abort(c) PROVE TypeOK' /\ BoundInv'
    <2>1. InConnect(c)
      BY <1>14 DEF Abort, InConnect, Connecting
    <2>. QED
      BY <1>14, <1>5, <2>1, GotoTypes DEF Abort, TypeOK, BoundInv, Connecting
  <1>15. ASSUME NEW c \in Callers, Reap(c) PROVE TypeOK' /\ BoundInv'
    <2>1. InConnect(c) /\ Return(c, FALSE)
      BY <1>15 DEF Reap, InConnect, Connecting
    <2>2. rough' \in BOOLEAN
      <3>1. HasResult(c) => Result(c) \in BOOLEAN
        BY UnreadShort DEF HasResult, Result, TypeOK
      <3>. QED
        BY <1>15, <3>1 DEF Reap, TypeOK, HasResult
    <2>. QED
      BY <1>15, <2>1, <2>2, ReturnTypes DEF Reap, TypeOK, BoundInv
  <1>16. ASSUME NEW c \in Callers, Settled(c) PROVE TypeOK' /\ BoundInv'
    BY <1>16, ReturnTypes DEF Settled, TypeOK, BoundInv, InConnect, Connecting
  \* The application and the notify goroutine.
  <1>17. CASE LinkConnect
    BY <1>17, GotoTypes DEF LinkConnect, TypeOK, BoundInv, Callers
  <1>18. CASE LinkDisconnect
    BY <1>18, GotoTypes DEF LinkDisconnect, TypeOK, BoundInv, Callers
  <1>19. CASE Disconnect
    <2>1. rough' \in BOOLEAN
      BY <1>19 DEF Disconnect, TypeOK, NobodyConnects, InConnect
    <2>. QED
      BY <1>5, <1>19, <2>1, GotoTypes DEF Disconnect, TypeOK, BoundInv, Callers
  <1>20. CASE NotifyTake
    <2>1. /\ Head(linkEvents) \in BOOLEAN /\ linkEvents' \in Seq(BOOLEAN)
          /\ Len(linkEvents') = Len(linkEvents) - 1
      BY <1>0, <1>20, TailFlag DEF NotifyTake
    <2>2. Len(linkEvents') <= LinkCap
      BY <1>0, <2>1, LinkAssumption DEF TypeOK
    <2>3. retry' \in BOOLEAN /\ owed' \in BOOLEAN
      BY <1>20, <2>1 DEF NotifyTake, TypeOK
    <2>4. "notifier" \in Callers /\ Goto("notifier", "callback") /\ tries' = tries
      BY <1>20 DEF NotifyTake, Callers
    <2>5. /\ pc' \in [Callers -> {"out", "call", "disconnect", "callback"}
                                      \cup Connecting]
          /\ InConnect("notifier")' \/ pc'["notifier"] = "call" => tries' > 0
          /\ pc'["notifier"] # "disconnect" /\ pc'["app"] # "callback"
      BY <2>4, GotoTypes DEF Connecting
    <2>. QED
      BY <1>20, <2>1, <2>2, <2>3, <2>5 DEF NotifyTake, TypeOK, BoundInv
  <1>21. CASE CallbackReturns
    <2>1. PICK n \in 0 .. Retries :
              /\ tries' = IF retry THEN n ELSE 0
              /\ pc' = [pc EXCEPT !["notifier"] =
                                       IF tries' = 0 THEN "out" ELSE "call"]
      BY <1>21 DEF CallbackReturns, Goto
    <2>2. tries' \in 0 .. Retries
      BY <2>1, RetryAssumption
    <2>3. tries' # 0 => tries' > 0
      BY <2>2, RetryAssumption
    <2>4. /\ tries' = 0 => pc'["notifier"] = "out"
          /\ tries' # 0 => pc'["notifier"] = "call"
          /\ pc'["app"] = pc["app"]
          /\ pc' \in [Callers -> {"out", "call", "disconnect", "callback"}
                                     \cup Connecting]
      BY <2>1 DEF TypeOK, Callers
    <2>. QED
      BY <1>21, <2>2, <2>3, <2>4
         DEF CallbackReturns, TypeOK, BoundInv, InConnect, Connecting
  <1>22. CASE UNCHANGED vars
    BY <1>22 DEF vars, TypeOK, BoundInv, InConnect
  <1>. QED
    BY <1>2, <1>4, <1>6, <1>7, <1>8, <1>9, <1>10, <1>11, <1>12, <1>13, <1>14,
       <1>15, <1>16, <1>17, <1>18, <1>19, <1>20, <1>21, <1>22
       DEF Next, ConnectStep
-----------------------------------------------------------------------------
(* Freshness.                                                              *)

LEMMA FreshInit == Init => FreshInv
  <1>. SUFFICES ASSUME Init PROVE FreshInv
    OBVIOUS
  <1>1. \A c \in Callers : waits[c] = Nil /\ pc[c] = "out"
    BY DEF Init
  <1>. QED
    BY <1>1 DEF FreshInv, InConnect, Connecting

\* A step that moves no result and starts or ends no Connect.
LEMMA FreshSame ==
    ASSUME FreshInv, UNCHANGED <<connectResult, chan, waits, fresh>>,
           \A c \in Callers :
               /\ InConnect(c)' <=> InConnect(c)
               /\ pc'[c] = "settle" => pc[c] = "settle"
    PROVE  FreshInv'
  BY DEF FreshInv

\* connect returns: its channel is dropped, and nothing else gets a result.
LEMMA FreshReturn ==
    ASSUME TypeOK, FreshInv, NEW c \in Callers, InConnect(c),
           NEW ok \in BOOLEAN, Return(c, ok)
    PROVE  FreshInv'
  <1>1. /\ ~InConnect(c)' /\ pc'[c] # "settle" /\ waits'[c] = Nil
        /\ \A d \in Callers \ {c} :
               /\ pc'[d] = pc[d]
               /\ InConnect(d)' <=> InConnect(d)
               /\ waits'[d] = waits[d] /\ fresh'[d] = fresh[d]
    <2>1. pc'[c] \in {"out", "call"} /\ \A d \in Callers \ {c} : pc'[d] = pc[d]
      <3>1. CASE c = "app"
        BY <3>1 DEF Return, AppGets, Goto, TypeOK
      <3>2. CASE c = "notifier"
        BY <3>2 DEF Return, NotifierGets, Goto, TypeOK
      <3>. QED
        BY <3>1, <3>2 DEF Callers
    <2>. QED
      BY <2>1 DEF Return, TypeOK, InConnect, Connecting
  <1>2. connectResult' = Nil
    BY DEF Return
  <1>3. \A k \in Chans : chan'[k] = <<TRUE>> => chan[k] = <<TRUE>>
    <2>1. <<TRUE>> # <<>>
      OBVIOUS
    <2>. QED
      BY <2>1 DEF Return
  <1>4. \A d \in Callers : waits[d] \in Chans \cup {Nil}
    BY DEF TypeOK
  <1>5. ASSUME NEW d \in Callers, d # c, InConnect(d)',
               NEW k \in {connectResult', waits'[d]} \ {Nil}, chan'[k] = <<TRUE>>
        PROVE  fresh'[d]
    <2>1. k = waits[d] /\ k \in Chans /\ InConnect(d)
      BY <1>1, <1>2, <1>4, <1>5
    <2>2. chan[k] = <<TRUE>>
      BY <1>3, <1>5, <2>1
    <2>3. fresh[d]
      BY <1>5, <2>1, <2>2 DEF FreshInv
    <2>. QED
      BY <1>1, <1>5, <2>3
  <1>6. \A d \in Callers \ {c} :
           /\ ~InConnect(d)' => waits'[d] = Nil
           /\ pc'[d] = "settle" => fresh'[d]
    BY <1>1 DEF FreshInv
  <1>. QED
    BY <1>1, <1>5, <1>6 DEF FreshInv

LEMMA FreshStep == TypeOK /\ FreshInv /\ [Next]_vars => FreshInv'
  <1>. SUFFICES ASSUME TypeOK, FreshInv, [Next]_vars PROVE FreshInv'
    OBVIOUS
  <1>. USE DEF blob, results, flags, onLinkVars, history
  <1>1. CASE UNCHANGED <<results, pc, fresh>>
    BY <1>1, FreshSame DEF InConnect
  <1>2. CASE AttemptEnds \/ AccessPointGone
    BY <1>1, <1>2 DEF AttemptEnds, AccessPointGone
  <1>3. CASE Dispatch
    <2>. DEFINE up == Head(events)
    <2>1. /\ UNCHANGED <<connectResult, waits, pc>>
          /\ \A k \in Chans : chan'[k] = <<TRUE>> =>
                 chan[k] = <<TRUE>> \/ (up = TRUE)
      <3>1. CASE connectResult = Nil /\ ReportChange(up)
        BY <1>3, <3>1 DEF Dispatch, ReportChange
      <3>2. CASE connectResult # Nil /\ ReportResult(up)
        <4>1. \A b : <<b>> = <<TRUE>> => b = TRUE
          <5>1. \A b : <<b>>[1] = b
            OBVIOUS
          <5>. QED
            BY <5>1
        <4>. QED
          BY <1>3, <3>2, <4>1 DEF Dispatch, ReportResult, TypeOK
      <3>. QED
        BY <1>3, <3>1, <3>2 DEF Dispatch
    <2>2. \A c \in Callers :
             /\ fresh[c] => fresh'[c]
             /\ InConnect(c) /\ up = TRUE => fresh'[c]
      BY <1>3 DEF Dispatch, TypeOK
    <2>3. \A c \in Callers : connectResult \in Chans \cup {Nil}
                              /\ waits[c] \in Chans \cup {Nil}
      BY DEF TypeOK
    <2>. QED
      BY <2>1, <2>2, <2>3 DEF FreshInv, InConnect
  <1>4. ASSUME NEW c \in Callers, ConnectCall(c) PROVE FreshInv'
    <2>1. /\ connectResult' \in Chans /\ chan'[connectResult'] # <<TRUE>>
          /\ \A k \in Chans : chan'[k] = <<TRUE>> => chan[k] = <<TRUE>>
      BY <1>4 DEF ConnectCall, TypeOK, Chans
    <2>2. /\ waits[c] = Nil /\ waits' = waits /\ fresh' = fresh
          /\ pc'[c] = "config"
          /\ \A d \in Callers \ {c} : pc'[d] = pc[d]
      BY <1>4 DEF ConnectCall, Goto, TypeOK, FreshInv, InConnect, Connecting
    <2>3. \A d \in Callers : waits[d] \in Chans \cup {Nil}
      BY DEF TypeOK
    <2>4. /\ InConnect(c)'
          /\ \A d \in Callers \ {c} : InConnect(d)' <=> InConnect(d)
      BY <2>2 DEF InConnect, Connecting
    <2>. QED
      BY <2>1, <2>2, <2>3, <2>4 DEF FreshInv
  <1>5. ASSUME NEW c \in Callers, ConfigFails(c) PROVE FreshInv'
    BY <1>5, FreshReturn DEF ConfigFails, InConnect, Connecting
  <1>6. ASSUME NEW c \in Callers, Ask(c) PROVE FreshInv'
    BY <1>6, FreshSame DEF Ask, Goto, TypeOK, InConnect, Connecting
  <1>7. ASSUME NEW c \in Callers, Select(c) PROVE FreshInv'
    <2>1. /\ waits'[c] = connectResult /\ InConnect(c) /\ InConnect(c)'
          /\ pc'[c] # "settle"
          /\ UNCHANGED <<connectResult, chan, fresh>>
          /\ \A d \in Callers \ {c} :
                 waits'[d] = waits[d] /\ pc'[d] = pc[d]
      BY <1>7 DEF Select, Goto, TypeOK, InConnect, Connecting
    <2>. QED
      BY <2>1 DEF FreshInv, InConnect
  <1>8. ASSUME NEW c \in Callers, ResultUp(c) PROVE FreshInv'
    <2>1. waits[c] # Nil /\ chan[waits[c]] = <<TRUE>> /\ InConnect(c)
      <3>1. waits[c] \in Chans
        BY <1>8 DEF ResultUp, HasResult, TypeOK
      <3>. QED
        BY <1>8, <3>1, UnreadShort
           DEF ResultUp, HasResult, Result, TypeOK, InConnect, Connecting
    <2>2. fresh[c]
      BY <2>1 DEF FreshInv
    <2>3. \A k \in Chans : chan'[k] = <<TRUE>> => chan[k] = <<TRUE>>
      BY <1>8 DEF ResultUp, TypeOK
    <2>4. /\ UNCHANGED <<connectResult, waits, fresh>>
          /\ pc'[c] = "settle"
          /\ \A d \in Callers \ {c} : pc'[d] = pc[d]
      BY <1>8 DEF ResultUp, Goto, TypeOK
    <2>5. /\ InConnect(c)' /\ connectResult \in Chans \cup {Nil}
          /\ \A d \in Callers : waits[d] \in Chans \cup {Nil}
          /\ \A d \in Callers \ {c} : InConnect(d)' <=> InConnect(d)
      BY <2>4 DEF TypeOK, InConnect, Connecting
    <2>6. ASSUME NEW d \in Callers, InConnect(d)',
                 NEW k \in {connectResult', waits'[d]} \ {Nil}, chan'[k] = <<TRUE>>
          PROVE  fresh'[d]
      <3>1. /\ k \in {connectResult, waits[d]} \ {Nil} /\ k \in Chans
            /\ InConnect(d)
        BY <2>1, <2>4, <2>5, <2>6
      <3>2. chan[k] = <<TRUE>>
        BY <2>3, <2>6, <3>1
      <3>. QED
        BY <2>4, <3>1, <3>2 DEF FreshInv
    <2>7. \A d \in Callers :
             /\ ~InConnect(d)' => waits'[d] = Nil
             /\ pc'[d] = "settle" => fresh'[d]
      BY <2>1, <2>2, <2>4, <2>5 DEF FreshInv
    <2>. QED
      BY <2>6, <2>7 DEF FreshInv
  <1>9. ASSUME NEW c \in Callers, ResultDown(c) PROVE FreshInv'
    BY <1>9, FreshReturn DEF ResultDown, InConnect, Connecting
  <1>10. ASSUME NEW c \in Callers, Expire(c) PROVE FreshInv'
    BY <1>10, FreshSame DEF Expire, Goto, TypeOK, InConnect, Connecting
  <1>11. ASSUME NEW c \in Callers, Abort(c) PROVE FreshInv'
    BY <1>11, FreshSame DEF Abort, Goto, TypeOK, InConnect, Connecting
  <1>12. ASSUME NEW c \in Callers, Reap(c) PROVE FreshInv'
    BY <1>12, FreshReturn DEF Reap, InConnect, Connecting
  <1>13. ASSUME NEW c \in Callers, Settled(c) PROVE FreshInv'
    BY <1>13, FreshReturn DEF Settled, InConnect, Connecting
  <1>14. ASSUME NEW c \in Callers,
                NEW step \in {"out", "call", "disconnect", "callback"},
                Goto(c, step), ~InConnect(c), UNCHANGED <<results, fresh>>
         PROVE  FreshInv'
    BY <1>14, FreshSame DEF Goto, TypeOK, InConnect, Connecting
  <1>15. CASE LinkConnect \/ LinkDisconnect \/ Disconnect
    BY <1>14, <1>15 DEF LinkConnect, LinkDisconnect, Disconnect, InConnect,
                        Connecting, Callers
  <1>16. CASE NotifyTake
    BY <1>14, <1>16 DEF NotifyTake, InConnect, Connecting, Callers
  <1>17. CASE CallbackReturns
    <2>1. \E step \in {"out", "call"} : Goto("notifier", step)
      BY <1>17 DEF CallbackReturns, Goto
    <2>. QED
      BY <1>14, <1>17, <2>1 DEF CallbackReturns, InConnect, Connecting, Callers
  <1>18. CASE UNCHANGED vars
    BY <1>1, <1>18 DEF vars
  <1>. QED
    BY <1>2, <1>3, <1>4, <1>5, <1>6, <1>7, <1>8, <1>9, <1>10, <1>11, <1>12,
       <1>13, <1>15, <1>16, <1>17, <1>18 DEF Next, ConnectStep

-----------------------------------------------------------------------------
LEMMA LinkInvariant == Spec => [](TypeOK /\ BoundInv /\ FreshInv)
  <1>1. Init => TypeOK /\ BoundInv /\ FreshInv
    BY LinkTypeInit, FreshInit
  <1>2. TypeOK /\ BoundInv /\ FreshInv /\ [Next]_vars
            => (TypeOK /\ BoundInv /\ FreshInv)'
    BY LinkTypeStep, FreshStep
  <1>. QED
    BY <1>1, <1>2, PTL DEF Spec

\* The variables keep their types: a result channel holds at most one result
\* and linkEvents never more than its capacity, though nobody waits to send.
THEOREM LinkTypeCorrect == Spec => []TypeOK
  BY LinkInvariant, PTL

\* However two Connect calls overlap, overwrite and clear connectResult, a call
\* succeeds only on a CONNECTED that was dispatched during that call.
THEOREM ConnectSuccessIsFresh == Spec => []SuccessIsFresh
  <1>1. FreshInv => SuccessIsFresh
    BY DEF FreshInv, SuccessIsFresh
  <1>. QED
    BY <1>1, LinkInvariant, PTL

-----------------------------------------------------------------------------
(* A loss outside Connect is reported                                      *)

\* A loss is owed only when no Connect runs, and then no Connect's result is
\* awaited.
OwedInv ==
    /\ owed => NobodyConnects
    /\ NobodyConnects => connectResult = Nil

\* What staLinkUp will be when the queued events are dispatched, and what it
\* will be just before the k-th of them.
Final == IF events = <<>> THEN staLinkUp ELSE events[Len(events)]
Before(k) == IF k = 1 THEN staLinkUp ELSE events[k - 1]
LossQueued == \E k \in 1 .. Len(events) : ~events[k] /\ Before(k)
LossReported == \E k \in 1 .. Len(linkEvents) : ~linkEvents[k]

\* Where an attempt is: the station, the events under way, the unread result.
Stage(s, ev, result) ==
    sta = s /\ events = ev /\ chan[connectResult] = result
Attempt ==
    \/ Stage("joining", <<>>, <<>>)
    \/ Stage("joined", <<TRUE>>, <<>>) \/ Stage("joined", <<>>, <<TRUE>>)
    \/ Stage("idle", <<FALSE>>, <<>>) \/ Stage("idle", <<>>, <<FALSE>>)
\* The disconnect after the timeout may have met an attempt that succeeded.
Aborted ==
    \/ Attempt
    \/ Stage("idle", <<TRUE, FALSE>>, <<>>)
    \/ Stage("idle", <<FALSE>>, <<TRUE>>) \/ Stage("idle", <<>>, <<TRUE>>)

Phase(c) ==
    /\ pc[c] = "config" => Stage("idle", <<>>, <<>>)
    /\ pc[c] \in {"asked", "waiting", "abort"} => Attempt
    /\ pc[c] = "settle" => Stage("joined", <<>>, <<>>)
    /\ pc[c] \in {"aborted", "reap"} => Aborted
    /\ pc[c] \in {"waiting", "settle", "abort", "reap"} => waits[c] = connectResult

\* A Connect that runs alone knows where its attempt is, and outside Connect the
\* flag and the queued events follow the station, so that a loss shows as a
\* change of the flag and gets into linkEvents.
Alone == ~(InConnect("app") /\ InConnect("notifier"))
Follows == NobodyConnects => (sta = "joined" <=> Final)
OnItsWay == owed => LossQueued \/ LossReported
Known == \A c \in Callers :
             InConnect(c) => ~staLinkUp /\ connectResult # Nil /\ Phase(c)
LossInv == ~rough => Alone /\ Follows /\ OnItsWay /\ Known

\* Sequences of at most two elements.
LEMMA Pairs ==
    ASSUME NEW a, NEW b
    PROVE  /\ <<>> \in Seq({a, b}) /\ Len(<<>>) = 0
           /\ <<a>> \in Seq({a, b}) /\ Len(<<a>>) = 1 /\ <<a>>[1] = a
           /\ <<b>> \in Seq({a, b}) /\ Len(<<b>>) = 1 /\ <<b>>[1] = b
           /\ <<a, b>> \in Seq({a, b}) /\ Len(<<a, b>>) = 2
           /\ <<a, b>>[1] = a /\ <<a, b>>[2] = b
  OBVIOUS

LEMMA TailOfTwo ==
    ASSUME NEW S, NEW s \in Seq(S), Len(s) = 2
    PROVE  Tail(s) = <<s[2]>>
  <1>1. s # <<>>
    BY EmptySeq
  <1>2. /\ Tail(s) \in Seq(S) /\ Len(Tail(s)) = Len(s) - 1
        /\ \A i \in 1 .. Len(Tail(s)) : Tail(s)[i] = s[i + 1]
    BY <1>1, HeadTailProperties
  <1>3. Len(Tail(s)) = 1
    BY <1>2
  <1>4. Tail(s)[1] = s[2] /\ s[2] \in S
    BY <1>2, <1>3, ElementOfSeq
  <1>5. <<s[2]>> \in Seq(S) /\ Len(<<s[2]>>) = 1 /\ <<s[2]>>[1] = s[2]
    BY <1>4
  <1>6. \A i \in 1 .. Len(Tail(s)) : Tail(s)[i] = <<s[2]>>[i]
    <2>. TAKE i \in 1 .. Len(Tail(s))
    <2>1. i \in 1 .. 1
      BY <1>3
    <2>. QED
      BY <1>4, <1>5, <2>1
  <1>. QED
    BY <1>2, <1>3, <1>5, <1>6, SeqEqual

LEMMA PairParts ==
    ASSUME NEW a, NEW b
    PROVE  /\ Head(<<a>>) = a /\ Head(<<a, b>>) = a
           /\ Tail(<<a, b>>) = <<b>> /\ Append(<<>>, a) = <<a>>
           /\ Append(<<a>>, b) = <<a, b>>
  <1>1. Tail(<<a, b>>) = <<<<a, b>>[2]>>
    BY Pairs, TailOfTwo
  <1>2. Append(<<>>, a) = <<a>>
    BY Pairs, AppendProperties, SeqEqual
  <1>3. Append(<<a>>, b) = <<a, b>>
    <2>1. /\ Append(<<a>>, b) \in Seq({a, b}) /\ Len(Append(<<a>>, b)) = 2
          /\ Append(<<a>>, b)[1] = a /\ Append(<<a>>, b)[2] = b
      BY Pairs, AppendProperties
    <2>2. \A i \in 1 .. Len(Append(<<a>>, b)) : Append(<<a>>, b)[i] = <<a, b>>[i]
      BY <2>1, Pairs
    <2>. QED
      BY <2>1, <2>2, Pairs, SeqEqual
  <1>4. Head(<<a>>) = a /\ Head(<<a, b>>) = a
    OBVIOUS
  <1>. QED
    BY <1>1, <1>2, <1>3, <1>4, Pairs

\* The short sequences of Stage.
LEMMA ShortEvents ==
    /\ <<>> # <<TRUE>> /\ <<>> # <<FALSE>> /\ <<>> # <<TRUE, FALSE>>
    /\ <<TRUE>> # <<FALSE>> /\ <<TRUE>> # <<TRUE, FALSE>>
    /\ <<FALSE>> # <<TRUE, FALSE>>
    /\ Head(<<TRUE>>) = TRUE /\ Tail(<<TRUE>>) = <<>>
    /\ Head(<<FALSE>>) = FALSE /\ Tail(<<FALSE>>) = <<>>
    /\ Head(<<TRUE, FALSE>>) = TRUE /\ Tail(<<TRUE, FALSE>>) = <<FALSE>>
    /\ Append(<<>>, TRUE) = <<TRUE>> /\ Append(<<>>, FALSE) = <<FALSE>>
    /\ Append(<<TRUE>>, FALSE) = <<TRUE, FALSE>>
  <1>1. /\ Len(<<>>) = 0 /\ Len(<<TRUE>>) = 1 /\ Len(<<FALSE>>) = 1
        /\ Len(<<TRUE, FALSE>>) = 2 /\ <<TRUE>>[1] = TRUE /\ <<FALSE>>[1] = FALSE
    OBVIOUS
  <1>2. /\ <<>> # <<TRUE>> /\ <<>> # <<FALSE>> /\ <<>> # <<TRUE, FALSE>>
        /\ <<TRUE>> # <<TRUE, FALSE>> /\ <<FALSE>> # <<TRUE, FALSE>>
    BY <1>1
  <1>3. <<TRUE>> # <<FALSE>>
    BY <1>1
  <1>4. /\ Head(<<TRUE>>) = TRUE /\ Head(<<FALSE>>) = FALSE
        /\ Head(<<TRUE, FALSE>>) = TRUE
    BY PairParts, Zenon
  <1>5. Tail(<<TRUE>>) = <<>> /\ Tail(<<FALSE>>) = <<>>
    OBVIOUS
  <1>6. Tail(<<TRUE, FALSE>>) = <<FALSE>>
    BY PairParts, Zenon
  <1>7. Append(<<>>, TRUE) = <<TRUE>> /\ Append(<<>>, FALSE) = <<FALSE>>
    BY PairParts, Zenon
  <1>8. Append(<<TRUE>>, FALSE) = <<TRUE, FALSE>>
    BY PairParts, Zenon
  <1>. QED
    BY <1>2, <1>3, <1>4, <1>5, <1>6, <1>7, <1>8

\* An event posted decides what the flag will be; a loss that is queued stays
\* queued, and one posted while the flag is up, or will be, is queued.
LEMMA Posted ==
    ASSUME events \in Seq(BOOLEAN), staLinkUp \in BOOLEAN, NEW up \in BOOLEAN,
           Post(up), staLinkUp' = staLinkUp
    PROVE  /\ Final' = up
           /\ LossQueued => LossQueued'
           /\ Final /\ ~up => LossQueued'
  <1>1. /\ Len(events') = Len(events) + 1 /\ Len(events) \in Nat
        /\ events'[Len(events) + 1] = up
        /\ \A k \in 1 .. Len(events) : events'[k] = events[k]
    BY AppendProperties, LenProperties DEF Post
  <1>2. events' # <<>>
    BY <1>1
  <1>3. Final' = up
    BY <1>1, <1>2 DEF Final
  <1>4. \A k \in 1 .. Len(events) : Before(k)' = Before(k)
    <2>. TAKE k \in 1 .. Len(events)
    <2>1. k = 1 \/ k - 1 \in 1 .. Len(events)
      BY <1>1
    <2>. QED
      BY <1>1, <2>1 DEF Before
  <1>5. LossQueued => LossQueued'
    <2>. SUFFICES ASSUME NEW k \in 1 .. Len(events), ~events[k], Before(k)
                  PROVE  LossQueued'
      BY DEF LossQueued
    <2>1. k \in 1 .. Len(events')
      BY <1>1
    <2>2. ~events'[k] /\ Before(k)'
      BY <1>1, <1>4
    <2>. QED
      BY <2>1, <2>2 DEF LossQueued
  <1>6. ASSUME Final, ~up PROVE LossQueued'
    <2>1. PICK n \in Nat : n = Len(events)
      BY <1>1
    <2>2. n + 1 \in 1 .. Len(events') /\ ~events'[n + 1]
      BY <1>1, <1>6, <2>1
    <2>3. Before(n + 1)'
      <3>1. CASE n = 0
        <4>1. events = <<>>
          BY <2>1, <3>1, EmptySeq
        <4>2. n + 1 = 1
          BY <3>1
        <4>. QED
          BY <1>6, <4>1, <4>2 DEF Before, Final
      <3>2. CASE n # 0
        <4>1. events # <<>>
          BY <2>1, <3>2, EmptySeq
        <4>2. events[n]
          BY <1>6, <2>1, <4>1 DEF Final
        <4>3. n \in 1 .. Len(events) /\ n + 1 # 1 /\ (n + 1) - 1 = n
          BY <2>1, <3>2
        <4>4. events'[n]
          BY <1>1, <4>2, <4>3
        <4>. QED
          BY <4>3, <4>4 DEF Before
      <3>. QED
        BY <3>1, <3>2
    <2>. QED
      BY <2>2, <2>3 DEF LossQueued
  <1>. QED
    BY <1>3, <1>5, <1>6

\* Dispatching an event moves the flag to where it was to be after that event.
LEMMA Delivered ==
    ASSUME events \in Seq(BOOLEAN), events # <<>>, events' = Tail(events),
           staLinkUp' = Head(events)
    PROVE  /\ Final' = Final
           /\ LossQueued => LossQueued' \/ (staLinkUp /\ ~Head(events))
  <1>1. /\ Len(events') = Len(events) - 1 /\ Len(events) \in Nat \ {0}
        /\ Head(events) = events[1]
        /\ \A k \in 1 .. Len(events') : events'[k] = events[k + 1]
    BY HeadTailProperties, EmptySeq, LenProperties
  <1>2. events' \in Seq(BOOLEAN)
    BY HeadTailProperties
  <1>3. Final' = Final
    <2>1. CASE events' = <<>>
      <3>1. Len(events) = 1
        <4>1. Len(events') = 0
          BY <2>1, EmptySeq
        <4>. QED
          BY <1>1, <4>1
      <3>. QED
        BY <1>1, <2>1, <3>1 DEF Final
    <2>2. CASE events' # <<>>
      <3>1. Len(events') \in 1 .. Len(events') /\ Len(events') + 1 = Len(events)
        BY <1>1, <1>2, <2>2, EmptySeq, LenProperties
      <3>2. events'[Len(events')] = events[Len(events)]
        BY <1>1, <3>1
      <3>. QED
        BY <2>2, <3>2 DEF Final
    <2>. QED
      BY <2>1, <2>2
  <1>4. ASSUME NEW k \in 1 .. Len(events), ~events[k], Before(k),
               ~(staLinkUp /\ ~Head(events))
        PROVE  LossQueued'
    <2>1. k # 1
      BY <1>1, <1>4 DEF Before
    <2>0. events[k - 1]
      BY <1>4, <2>1 DEF Before
    <2>2. k - 1 \in 1 .. Len(events') /\ (k - 1) + 1 = k /\ events[k - 1]
      BY <1>1, <2>0, <2>1
    <2>3. ~events'[k - 1]
      BY <1>1, <1>4, <2>2
    <2>4. Before(k - 1)'
      <3>1. CASE k - 1 = 1
        BY <1>1, <2>2, <3>1 DEF Before
      <3>2. CASE k - 1 # 1
        <4>1. (k - 1) - 1 \in 1 .. Len(events') /\ ((k - 1) - 1) + 1 = k - 1
          BY <1>1, <2>2, <3>2
        <4>2. events'[(k - 1) - 1] = events[k - 1]
          BY <1>1, <4>1
        <4>. QED
          BY <2>2, <3>2, <4>2 DEF Before
      <3>. QED
        BY <3>1, <3>2
    <2>. QED
      BY <2>2, <2>3, <2>4 DEF LossQueued
  <1>. QED
    BY <1>3, <1>4 DEF LossQueued

LEMMA Reported ==
    ASSUME linkEvents \in Seq(BOOLEAN), NEW up \in BOOLEAN,
           linkEvents' = Append(linkEvents, up)
    PROVE  LossReported \/ ~up => LossReported'
  <1>1. /\ Len(linkEvents') = Len(linkEvents) + 1 /\ Len(linkEvents) \in Nat
        /\ linkEvents'[Len(linkEvents) + 1] = up
        /\ \A k \in 1 .. Len(linkEvents) : linkEvents'[k] = linkEvents[k]
    BY AppendProperties, LenProperties
  <1>2. \A k \in 1 .. Len(linkEvents) : k \in 1 .. Len(linkEvents')
    BY <1>1
  <1>3. Len(linkEvents) + 1 \in 1 .. Len(linkEvents')
    BY <1>1
  <1>. QED
    BY <1>1, <1>2, <1>3 DEF LossReported

LEMMA Taken ==
    ASSUME linkEvents \in Seq(BOOLEAN), linkEvents # <<>>,
           linkEvents' = Tail(linkEvents)
    PROVE  LossReported => LossReported' \/ ~Head(linkEvents)
  <1>1. /\ Len(linkEvents') = Len(linkEvents) - 1 /\ Len(linkEvents) \in Nat \ {0}
        /\ Head(linkEvents) = linkEvents[1]
        /\ \A k \in 1 .. Len(linkEvents') : linkEvents'[k] = linkEvents[k + 1]
    BY HeadTailProperties, EmptySeq, LenProperties
  <1>2. ASSUME NEW k \in 1 .. Len(linkEvents), k # 1
        PROVE  k - 1 \in 1 .. Len(linkEvents') /\ (k - 1) + 1 = k
    BY <1>1, <1>2
  <1>3. ASSUME NEW k \in 1 .. Len(linkEvents), ~linkEvents[k], k # 1
        PROVE  LossReported'
    <2>1. k - 1 \in 1 .. Len(linkEvents') /\ linkEvents'[k - 1] = linkEvents[k]
      BY <1>1, <1>2, <1>3
    <2>. QED
      BY <1>3, <2>1 DEF LossReported
  <1>. QED
    BY <1>1, <1>3 DEF LossReported

Outside == {"out", "call", "disconnect", "callback"}

\* A step outside connect.
LEMMA StaysOutside ==
    ASSUME TypeOK, NEW c \in Callers, ~InConnect(c), NEW step \in Outside, Goto(c, step)
    PROVE  /\ \A d \in Callers : InConnect(d)' <=> InConnect(d)
           /\ \A d \in Callers : InConnect(d) => pc'[d] = pc[d]
           /\ NobodyConnects' <=> NobodyConnects
  <1>1. pc'[c] = step /\ \A d \in Callers \ {c} : pc'[d] = pc[d]
    BY DEF TypeOK, Goto
  <1>2. step \notin Connecting
    BY DEF Outside, Connecting
  <1>. QED
    BY <1>1, <1>2 DEF InConnect, NobodyConnects

\* A step inside.
LEMMA StaysInside ==
    ASSUME TypeOK, NEW c \in Callers, InConnect(c), NEW step \in Connecting, Goto(c, step)
    PROVE  /\ \A d \in Callers : InConnect(d)' <=> InConnect(d)
           /\ \A d \in Callers \ {c} : pc'[d] = pc[d]
           /\ pc'[c] = step /\ ~NobodyConnects /\ ~NobodyConnects'
  BY DEF TypeOK, Goto, InConnect, NobodyConnects

\* The return from connect.
LEMMA StepsOut ==
    ASSUME TypeOK, NEW c \in Callers, InConnect(c), NEW ok \in BOOLEAN, Return(c, ok)
    PROVE  /\ ~InConnect(c)' /\ connectResult' = Nil /\ ~NobodyConnects
           /\ \A d \in Callers \ {c} : pc'[d] = pc[d] /\ (InConnect(d)' <=> InConnect(d))
  <1>1. pc'[c] \in {"out", "call"} /\ \A d \in Callers \ {c} : pc'[d] = pc[d]
    <2>1. CASE c = "app"
      BY <2>1 DEF Return, AppGets, Goto, TypeOK
    <2>2. CASE c = "notifier"
      BY <2>2 DEF Return, NotifierGets, Goto, TypeOK
    <2>. QED
      BY <2>1, <2>2 DEF Callers
  <1>. QED
    BY <1>1 DEF Return, InConnect, Connecting, NobodyConnects

LEMMA OwedStep == TypeOK /\ OwedInv /\ [Next]_vars => OwedInv'
  <1>. SUFFICES ASSUME TypeOK, OwedInv, [Next]_vars PROVE OwedInv'
    OBVIOUS
  <1>. USE DEF blob, results, flags, onLinkVars, history
  <1>1. ASSUME NobodyConnects' <=> NobodyConnects, connectResult' = connectResult,
               owed' => owed \/ NobodyConnects
        PROVE  OwedInv'
    BY <1>1 DEF OwedInv
  <1>2. CASE AttemptEnds \/ AccessPointGone \/ Dispatch \/ UNCHANGED vars
    <2>1. /\ UNCHANGED <<pc, connectResult>>
          /\ owed' => owed \/ NobodyConnects
      <3>1. CASE AttemptEnds \/ UNCHANGED vars
        BY <3>1 DEF AttemptEnds, vars
      <3>2. CASE AccessPointGone
        BY <3>2 DEF AccessPointGone, Lost
      <3>3. CASE Dispatch
        BY <3>3 DEF Dispatch, ReportChange, ReportResult
      <3>. QED
        BY <1>2, <3>1, <3>2, <3>3
    <2>2. NobodyConnects' <=> NobodyConnects
      BY <2>1 DEF NobodyConnects, InConnect
    <2>. QED
      BY <1>1, <2>1, <2>2
  <1>3. ASSUME NEW c \in Callers, ConnectCall(c) PROVE OwedInv'
    <2>1. pc'[c] = "config" /\ ~owed'
      BY <1>3 DEF ConnectCall, Goto, TypeOK
    <2>. QED
      BY <2>1 DEF OwedInv, NobodyConnects, InConnect, Connecting
  <1>4. ASSUME NEW c \in Callers, InConnect(c), NEW ok \in BOOLEAN, Return(c, ok),
               owed' = owed
        PROVE  OwedInv'
    BY <1>4, StepsOut DEF OwedInv
  <1>5. ASSUME NEW c \in Callers, ConfigFails(c) \/ ResultDown(c) \/ Reap(c) \/ Settled(c)
        PROVE  OwedInv'
    <2>1. InConnect(c) /\ owed' = owed /\ \E ok \in BOOLEAN : Return(c, ok)
      BY <1>5 DEF ConfigFails, ResultDown, Reap, Settled, InConnect, Connecting
    <2>. QED
      BY <1>4, <2>1
  <1>6. ASSUME NEW c \in Callers,
               Ask(c) \/ Select(c) \/ ResultUp(c) \/ Expire(c) \/ Abort(c)
        PROVE  OwedInv'
    <2>1. InConnect(c) /\ \E step \in Connecting : Goto(c, step)
      BY <1>6 DEF Ask, Select, ResultUp, Expire, Abort, InConnect, Connecting
    <2>2. ~NobodyConnects /\ ~NobodyConnects'
      BY <2>1, StaysInside
    <2>3. owed' => owed \/ NobodyConnects
      BY <1>6 DEF Ask, Select, ResultUp, Expire, Abort, DisconnectInternal, Lost
    <2>. QED
      BY <2>2, <2>3 DEF OwedInv
  <1>7. CASE LinkConnect \/ LinkDisconnect \/ Disconnect \/ NotifyTake \/ CallbackReturns
    <2>1. /\ connectResult' = connectResult
          /\ \E c \in Callers, step \in Outside : ~InConnect(c) /\ Goto(c, step)
      BY <1>7 DEF LinkConnect, LinkDisconnect, Disconnect, NotifyTake,
                  CallbackReturns, Outside, Callers, InConnect, Connecting
    <2>2. NobodyConnects' <=> NobodyConnects
      BY <2>1, StaysOutside
    <2>3. owed' => owed \/ NobodyConnects
      BY <1>7 DEF LinkConnect, LinkDisconnect, Disconnect, DisconnectInternal, Lost,
                  NotifyTake, CallbackReturns
    <2>. QED
      BY <1>1, <2>1, <2>2, <2>3
  <1>. QED
    BY <1>2, <1>3, <1>5, <1>6, <1>7 DEF Next, ConnectStep

-----------------------------------------------------------------------------
LEMMA LossInit == Init => OwedInv /\ LossInv
  <1>. SUFFICES ASSUME Init PROVE OwedInv /\ LossInv
    OBVIOUS
  <1>1. \A c \in Callers : ~InConnect(c)
    BY DEF Init, InConnect, Connecting
  <1>2. OwedInv
    BY <1>1 DEF Init, OwedInv
  <1>3. Alone /\ Known
    BY <1>1 DEF Alone, Known, Callers
  <1>4. Follows /\ OnItsWay
    BY DEF Init, Follows, OnItsWay, Final
  <1>. QED
    BY <1>2, <1>3, <1>4 DEF LossInv

\* What LossInv says of the events depends on the events and the flag only.
LEMMA EventsSame ==
    ASSUME UNCHANGED <<events, staLinkUp>>
    PROVE  Final' = Final /\ (LossQueued' <=> LossQueued)
  BY DEF Final, LossQueued, Before

LEMMA ReportSame ==
    ASSUME UNCHANGED linkEvents PROVE LossReported' <=> LossReported
  BY DEF LossReported

\* A step outside connect that leaves station, events and results alone.
LEMMA LossOutside ==
    ASSUME TypeOK, LossInv, \A d \in Callers : InConnect(d)' <=> InConnect(d),
           \A d \in Callers : InConnect(d) => pc'[d] = pc[d],
           UNCHANGED <<blob, results, flags, owed, rough>>
    PROVE  LossInv'
  <1>. SUFFICES ASSUME ~rough PROVE Alone' /\ Follows' /\ OnItsWay' /\ Known'
    BY DEF LossInv
  <1>. USE DEF blob, results, flags
  <1>1. Alone /\ Follows /\ OnItsWay /\ Known
    BY DEF LossInv
  <1>2. Alone' /\ (NobodyConnects' <=> NobodyConnects)
    BY <1>1 DEF Alone, NobodyConnects, Callers
  <1>3. Follows' /\ OnItsWay'
    BY <1>1, <1>2, EventsSame, ReportSame DEF Follows, OnItsWay
  <1>4. ASSUME NEW d \in Callers, InConnect(d)' PROVE Phase(d)'
    <2>1. Phase(d) /\ pc'[d] = pc[d]
      BY <1>1, <1>4 DEF Known
    <2>. QED
      BY <2>1 DEF Phase, Stage, Attempt, Aborted
  <1>5. Known'
    BY <1>1, <1>4 DEF Known
  <1>. QED
    BY <1>2, <1>3, <1>5

\* A step inside connect.
LEMMA LossInside ==
    ASSUME TypeOK, Alone, OwedInv', NEW c \in Callers, InConnect(c),
           NEW step \in Connecting, Goto(c, step),
           ~staLinkUp', connectResult' # Nil, Phase(c)'
    PROVE  Alone' /\ Follows' /\ OnItsWay' /\ Known'
  <1>1. /\ \A d \in Callers : InConnect(d)' <=> InConnect(d)
        /\ ~NobodyConnects'
    BY StaysInside
  <1>2. Alone' /\ Follows' /\ OnItsWay'
    BY <1>1 DEF Alone, Follows, OnItsWay, OwedInv, Callers
  <1>3. \A d \in Callers : InConnect(d)' => d = c
    BY <1>1 DEF Alone, Callers
  <1>. QED
    BY <1>2, <1>3 DEF Known

\* The return from a connect that ran alone.
LEMMA LossReturn ==
    ASSUME TypeOK, Alone, OwedInv, NEW c \in Callers, InConnect(c),
           NEW ok \in BOOLEAN, Return(c, ok), owed' = owed,
           sta' = "joined" <=> Final'
    PROVE  Alone' /\ Follows' /\ OnItsWay' /\ Known'
  <1>1. /\ ~InConnect(c)' /\ ~NobodyConnects
        /\ \A d \in Callers \ {c} : InConnect(d)' <=> InConnect(d)
    BY StepsOut
  <1>2. \A d \in Callers : ~InConnect(d)'
    BY <1>1 DEF Alone, Callers
  <1>3. ~owed'
    BY <1>1 DEF OwedInv
  <1>. QED
    BY <1>2, <1>3 DEF Alone, Follows, OnItsWay, Known, Callers

\* rough is never taken back.
LEMMA RoughStays == TypeOK /\ [Next]_vars => (rough => rough')
  <1>. SUFFICES ASSUME TypeOK, [Next]_vars, rough PROVE rough'
    OBVIOUS
  <1>. USE DEF history
  <1>1. CASE AttemptEnds \/ AccessPointGone \/ UNCHANGED vars
    BY <1>1 DEF AttemptEnds, AccessPointGone, vars
  <1>2. CASE Dispatch
    BY <1>2 DEF Dispatch, ReportChange, ReportResult
  <1>3. ASSUME NEW c \in Callers, ConnectStep(c) PROVE rough'
    BY <1>3 DEF ConnectStep, ConnectCall, ConfigFails, Ask, Select, ResultUp,
                ResultDown, Expire, Abort, Reap, Settled
  <1>4. CASE LinkConnect \/ LinkDisconnect \/ Disconnect \/ NotifyTake \/ CallbackReturns
    BY <1>4 DEF LinkConnect, LinkDisconnect, Disconnect, NotifyTake, CallbackReturns
  <1>. QED
    BY <1>1, <1>2, <1>3, <1>4 DEF Next

\* What is known of a Connect that has a result, and of one that has not.
LEMMA Results ==
    ASSUME TypeOK, connectResult # Nil
    PROVE  /\ connectResult \in Chans /\ chan[connectResult] \in Unread
           /\ Unread = {<<>>, <<TRUE>>, <<FALSE>>}
  BY DEF TypeOK, Unread

\* The end of an attempt shows in the events.
LEMMA LossAttemptEnds ==
    ASSUME TypeOK, OwedInv, Alone, Follows, OnItsWay, Known, AttemptEnds
    PROVE  Alone' /\ Follows' /\ OnItsWay' /\ Known'
  <1>. USE DEF results, flags, history
  <1>1. PICK up \in BOOLEAN : Post(up) /\ sta' = IF up THEN "joined" ELSE "idle"
    BY DEF AttemptEnds
  <1>2. /\ sta = "joining"
        /\ UNCHANGED <<connectResult, chan, waits, staLinkUp, linkEvents, pc, owed>>
    BY DEF AttemptEnds
  <1>3. Final' = up /\ (LossQueued => LossQueued')
    BY <1>1, <1>2, Posted DEF TypeOK
  <1>4. LossReported' <=> LossReported
    BY <1>2, ReportSame
  <1>5. Alone' /\ (NobodyConnects' <=> NobodyConnects)
    BY <1>2 DEF Alone, NobodyConnects, InConnect
  <1>6. Follows'
    BY <1>1, <1>3 DEF Follows
  <1>7. OnItsWay'
    BY <1>2, <1>3, <1>4 DEF OnItsWay
  <1>8. ASSUME NEW c \in Callers, InConnect(c)' PROVE ~staLinkUp' /\ connectResult' # Nil /\ Phase(c)'
    <2>1. InConnect(c) /\ ~staLinkUp /\ connectResult # Nil /\ Phase(c)
      BY <1>2, <1>8 DEF InConnect, Known
    <2>2. Attempt \/ Aborted => Stage("joining", <<>>, <<>>)
      BY <1>2 DEF Attempt, Aborted, Stage
    <2>3. Stage("joining", <<>>, <<>>) => Attempt'
      <3>. SUFFICES ASSUME Stage("joining", <<>>, <<>>) PROVE Attempt'
        OBVIOUS
      <3>1. events = <<>> /\ chan'[connectResult'] = <<>>
        BY <1>2 DEF Stage
      <3>2. CASE up = TRUE
        <4>1. events' = <<TRUE>> /\ sta' = "joined"
          BY <1>1, <3>1, <3>2, ShortEvents DEF Post
        <4>. QED
          BY <3>1, <4>1 DEF Attempt, Stage
      <3>3. CASE up = FALSE
        <4>1. events' = <<FALSE>> /\ sta' = "idle"
          BY <1>1, <3>1, <3>3, ShortEvents DEF Post
        <4>. QED
          BY <3>1, <4>1 DEF Attempt, Stage
      <3>. QED
        BY <1>1, <3>2, <3>3
    <2>4. Attempt' => Aborted'
      BY DEF Aborted
    <2>5. pc[c] \notin {"config", "settle"}
      BY <1>2, <2>1 DEF Phase, Stage
    <2>6. Phase(c)'
      BY <1>2, <2>1, <2>2, <2>3, <2>4, <2>5 DEF Phase
    <2>. QED
      BY <1>2, <2>1, <2>6
  <1>9. Known'
    BY <1>8 DEF Known
  <1>. QED
    BY <1>5, <1>6, <1>7, <1>9

\* A loss while nobody connects: the flag is up, or will be, so it shows.
LEMMA LossShows ==
    ASSUME TypeOK, Follows, NobodyConnects, NobodyConnects', sta = "joined", Lost,
           staLinkUp' = staLinkUp
    PROVE  Alone' /\ Follows' /\ OnItsWay' /\ Known'
  <1>1. Final
    BY DEF Follows
  <1>2. Final' = FALSE /\ LossQueued'
    BY <1>1, Posted DEF TypeOK, Lost
  <1>3. sta' # "joined"
    BY DEF Lost
  <1>4. \A c \in Callers : ~InConnect(c)'
    BY DEF NobodyConnects
  <1>. QED
    BY <1>2, <1>3, <1>4 DEF Alone, Follows, OnItsWay, Known, Callers

\* An event that no Connect waits for.
LEMMA LossChange ==
    ASSUME TypeOK, Alone, Follows, OnItsWay, Known, ~rough', connectResult = Nil,
           events # <<>>, events' = Tail(events), ReportChange(Head(events)),
           UNCHANGED <<sta, pc, owed>>
    PROVE  Alone' /\ Follows' /\ OnItsWay' /\ Known'
  <1>1. \A c \in Callers : ~InConnect(c) /\ ~InConnect(c)'
    BY DEF Known, InConnect
  <1>2. NobodyConnects /\ NobodyConnects' /\ Alone' /\ Known'
    BY <1>1 DEF NobodyConnects, Alone, Known, Callers
  <1>3. Head(events) \in BOOLEAN /\ events \in Seq(BOOLEAN) /\ linkEvents \in Seq(BOOLEAN)
    BY TailFlag DEF TypeOK
  <1>4. /\ Final' = Final
        /\ LossQueued => LossQueued' \/ (staLinkUp /\ ~Head(events))
    BY <1>3, Delivered DEF ReportChange
  <1>5. Follows'
    BY <1>2, <1>4 DEF Follows
  <1>6. CASE linkEvents' = linkEvents /\ staLinkUp = Head(events)
    <2>1. LossReported' <=> LossReported
      BY <1>6, ReportSame
    <2>2. ~(staLinkUp /\ ~Head(events))
      BY <1>6
    <2>. QED
      BY <1>2, <1>4, <1>5, <2>1, <2>2 DEF OnItsWay
  <1>7. CASE linkEvents' = Append(linkEvents, Head(events))
    <2>1. LossReported \/ ~Head(events) => LossReported'
      BY <1>3, <1>7, Reported
    <2>. QED
      BY <1>2, <1>4, <1>5, <2>1 DEF OnItsWay
  <1>. QED
    BY <1>6, <1>7 DEF ReportChange

\* An event for the Connect that runs.
LEMMA LossResult ==
    ASSUME TypeOK, OwedInv, Alone, Known, connectResult # Nil,
           events # <<>>, events' = Tail(events), ReportResult(Head(events)),
           UNCHANGED <<sta, pc, owed>>
    PROVE  Alone' /\ Follows' /\ OnItsWay' /\ Known'
  <1>1. /\ UNCHANGED <<connectResult, waits, staLinkUp, linkEvents>>
        /\ chan[connectResult] = <<>> => chan'[connectResult] = <<Head(events)>>
        /\ chan[connectResult] # <<>> => chan' = chan
        /\ connectResult \in Chans
    BY Results DEF ReportResult, flags, TypeOK
  <1>2. ~NobodyConnects /\ ~NobodyConnects' /\ ~owed'
    BY DEF OwedInv, NobodyConnects, InConnect
  <1>3. Alone' /\ Follows' /\ OnItsWay'
    BY <1>2 DEF Alone, Follows, OnItsWay, InConnect
  <1>4. /\ Stage("joined", <<TRUE>>, <<>>) => Stage("joined", <<>>, <<TRUE>>)'
        /\ Stage("idle", <<FALSE>>, <<>>) => Stage("idle", <<>>, <<FALSE>>)'
        /\ Stage("idle", <<TRUE, FALSE>>, <<>>) => Stage("idle", <<FALSE>>, <<TRUE>>)'
        /\ Stage("idle", <<FALSE>>, <<TRUE>>) => Stage("idle", <<>>, <<TRUE>>)'
    BY <1>1, ShortEvents DEF Stage
  <1>5. Attempt => Attempt'
    BY <1>4 DEF Attempt, Stage
  <1>6. Aborted => Aborted'
    BY <1>4, <1>5 DEF Aborted, Stage
  <1>7. ASSUME NEW c \in Callers, InConnect(c)' PROVE Phase(c)'
    <2>1. Phase(c)
      BY <1>7 DEF Known, InConnect
    <2>2. pc[c] \notin {"config", "settle"}
      BY <2>1 DEF Phase, Stage
    <2>. QED
      BY <1>1, <1>5, <1>6, <2>1, <2>2 DEF Phase
  <1>8. Known'
    BY <1>1, <1>7 DEF Known, InConnect
  <1>. QED
    BY <1>3, <1>8

\* connect begins, with the station idle and nothing on its way.
LEMMA LossCall ==
    ASSUME TypeOK, ~rough', NEW c \in Callers, ConnectCall(c)
    PROVE  Alone' /\ Follows' /\ OnItsWay' /\ Known'
  <1>. USE DEF blob
  <1>1. /\ sta' = "idle" /\ events' = <<>> /\ ~InConnect(Other(c))
        /\ ~staLinkUp' /\ ~owed'
        /\ connectResult' \in Chans /\ chan'[connectResult'] = <<>>
    BY DEF ConnectCall, Rough, Chans, TypeOK
  <1>2. pc'[c] = "config" /\ \A d \in Callers \ {c} : pc'[d] = pc[d]
    BY DEF ConnectCall, Goto, TypeOK
  <1>3. \A d \in Callers : InConnect(d)' <=> d = c
    <2>1. \A d \in Callers \ {c} : d = Other(c)
      BY TheOther DEF Callers
    <2>. QED
      BY <1>1, <1>2, <2>1 DEF InConnect, Connecting
  <1>4. Alone' /\ Follows' /\ OnItsWay'
    BY <1>1, <1>3 DEF Alone, Follows, OnItsWay, NobodyConnects, Callers
  <1>5. Phase(c)'
    BY <1>1, <1>2 DEF Phase, Stage
  <1>6. connectResult' # Nil
    BY <1>1 DEF Chans, Nil
  <1>. QED
    BY <1>1, <1>3, <1>4, <1>5, <1>6 DEF Known

\* What goes on inside a connect.
LEMMA LossProceeds ==
    ASSUME TypeOK, OwedInv', Alone, Known, NEW c \in Callers,
           Ask(c) \/ Select(c) \/ ResultUp(c) \/ Expire(c) \/ Abort(c)
    PROVE  Alone' /\ Follows' /\ OnItsWay' /\ Known'
  <1>. USE DEF blob, results, flags
  <1>1. InConnect(c) /\ ~staLinkUp /\ connectResult # Nil /\ Phase(c)
    BY DEF Known, Ask, Select, ResultUp, Expire, Abort, InConnect, Connecting
  <1>2. UNCHANGED <<connectResult, staLinkUp>>
    BY DEF Ask, Select, ResultUp, Expire, Abort
  <1>3. \E step \in Connecting : Goto(c, step)
    BY DEF Ask, Select, ResultUp, Expire, Abort, Connecting
  <1>4. Phase(c)'
    <2>1. CASE Ask(c)
      <3>1. pc'[c] = "asked" /\ Stage("idle", <<>>, <<>>)
        BY <1>1, <2>1 DEF Ask, Goto, TypeOK, Phase
      <3>2. Stage("joining", <<>>, <<>>)'
        BY <2>1, <3>1 DEF Ask, Stage
      <3>. QED
        BY <3>1, <3>2 DEF Phase, Attempt
    <2>2. CASE Select(c)
      <3>1. /\ UNCHANGED <<sta, events, chan, connectResult>>
            /\ waits'[c] = connectResult'
            /\ \/ pc[c] = "asked" /\ pc'[c] = "waiting"
               \/ pc[c] = "aborted" /\ pc'[c] = "reap"
        BY <2>2 DEF Select, Goto, TypeOK
      <3>. QED
        BY <1>1, <3>1 DEF Phase, Stage, Attempt, Aborted
    <2>3. CASE ResultUp(c)
      <3>1. /\ pc'[c] = "settle" /\ waits' = waits /\ UNCHANGED <<sta, events>>
            /\ waits[c] = connectResult /\ Attempt
            /\ chan'[connectResult] = <<>>
        BY <1>1, <2>3, Results DEF ResultUp, Goto, TypeOK, Phase
      <3>2. chan[connectResult] = <<TRUE>>
        <4>1. chan[connectResult] \in Unread /\ chan[connectResult] # <<>>
          BY <1>1, <2>3, <3>1, Results DEF ResultUp, HasResult
        <4>. QED
          BY <2>3, <3>1, <4>1, UnreadShort DEF ResultUp, Result
      <3>3. Stage("joined", <<>>, <<TRUE>>)
        BY <3>1, <3>2, ShortEvents DEF Attempt, Stage
      <3>. QED
        BY <1>2, <3>1, <3>3 DEF Phase, Stage
    <2>4. CASE Expire(c)
      <3>1. pc[c] = "waiting" /\ pc'[c] = "abort"
            /\ UNCHANGED <<sta, events, chan, connectResult, waits>>
        BY <2>4 DEF Expire, Goto, TypeOK
      <3>. QED
        BY <1>1, <3>1 DEF Phase, Stage, Attempt, Aborted
    <2>5. CASE Abort(c)
      <3>1. /\ pc'[c] = "aborted" /\ Attempt
            /\ UNCHANGED <<chan, connectResult>>
        BY <1>1, <2>5 DEF Abort, Goto, TypeOK, Phase
      <3>2. CASE sta # "joined" /\ UNCHANGED <<sta, events>>
        BY <3>1, <3>2 DEF Phase, Stage, Attempt, Aborted
      <3>3. CASE sta = "joined" /\ sta' = "idle" /\ events' = Append(events, FALSE)
        <4>1. Stage("joined", <<TRUE>>, <<>>) => Stage("idle", <<TRUE, FALSE>>, <<>>)'
          BY <3>1, <3>3, ShortEvents DEF Stage
        <4>2. Stage("joined", <<>>, <<TRUE>>) => Stage("idle", <<FALSE>>, <<TRUE>>)'
          BY <3>1, <3>3, ShortEvents DEF Stage
        <4>3. Stage("joined", <<TRUE>>, <<>>) \/ Stage("joined", <<>>, <<TRUE>>)
          BY <3>1, <3>3 DEF Attempt, Stage
        <4>. QED
          BY <3>1, <4>1, <4>2, <4>3 DEF Phase, Aborted
      <3>. QED
        BY <2>5, <3>2, <3>3 DEF Abort, DisconnectInternal, Lost, Post
    <2>. QED
      BY <2>1, <2>2, <2>3, <2>4, <2>5
  <1>. QED
    BY <1>1, <1>2, <1>3, <1>4, LossInside

\* Where a connect that returns leaves station and flag.
LEMMA LossReturns ==
    ASSUME TypeOK, OwedInv, Alone, Known, ~rough', NEW c \in Callers,
           ConfigFails(c) \/ ResultDown(c) \/ Reap(c) \/ Settled(c)
    PROVE  Alone' /\ Follows' /\ OnItsWay' /\ Known'
  <1>. USE DEF blob, flags
  <1>1. /\ InConnect(c) /\ ~staLinkUp /\ connectResult # Nil /\ Phase(c)
        /\ UNCHANGED <<sta, events>>
        /\ Settled(c) \/ staLinkUp' = staLinkUp
    BY DEF Known, ConfigFails, ResultDown, Reap, Settled, InConnect, Connecting
  <1>2. owed' = owed /\ \E ok \in BOOLEAN : Return(c, ok)
    BY DEF ConfigFails, ResultDown, Reap, Settled
  <1>3. /\ events = <<>> => Final' = staLinkUp'
        /\ events = <<TRUE>> => Final' = TRUE
        /\ events = <<FALSE>> => Final' = FALSE
        /\ events = <<TRUE, FALSE>> => Final' = FALSE
    <2>1. /\ events' = <<>> => Final' = staLinkUp'
          /\ events' = <<TRUE>> => Final' = TRUE
          /\ events' = <<FALSE>> => Final' = FALSE
          /\ events' = <<TRUE, FALSE>> => Final' = FALSE
      <3>1. /\ Len(<<TRUE>>) = 1 /\ Len(<<FALSE>>) = 1 /\ Len(<<TRUE, FALSE>>) = 2
            /\ <<TRUE>>[1] = TRUE /\ <<FALSE>>[1] = FALSE /\ <<TRUE, FALSE>>[2] = FALSE
        OBVIOUS
      <3>. QED
        BY <3>1, ShortEvents DEF Final
    <2>. QED
      BY <1>1, <2>1
  <1>4. sta' = "joined" <=> Final'
    <2>1. CASE ConfigFails(c)
      BY <1>1, <1>3, <2>1 DEF ConfigFails, Phase, Stage
    <2>2. CASE ResultDown(c)
      <3>1. Attempt /\ chan[connectResult] = <<FALSE>>
        <4>1. /\ waits[c] = connectResult /\ Attempt
              /\ chan[connectResult] \in Unread /\ chan[connectResult] # <<>>
              /\ ~Result(c)
          BY <1>1, <2>2, Results DEF ResultDown, HasResult, Phase
        <4>2. ~chan[connectResult][1]
          BY <4>1 DEF Result
        <4>. QED
          BY <4>1, <4>2, UnreadShort DEF Unread
      <3>2. Stage("idle", <<>>, <<FALSE>>)
        BY <3>1, ShortEvents DEF Attempt, Stage
      <3>. QED
        BY <1>1, <1>3, <2>2, <3>2 DEF ResultDown, Stage
    <2>3. CASE Reap(c)
      <3>1. Aborted /\ waits[c] = connectResult
        BY <1>1, <2>3 DEF Reap, Phase
      <3>2. chan[connectResult] # <<TRUE>>
        <4>. SUFFICES ASSUME chan[connectResult] = <<TRUE>> PROVE FALSE
          OBVIOUS
        <4>1. HasResult(c) /\ Result(c)
          BY <1>1, <3>1, ShortEvents, Results, UnreadShort DEF HasResult, Result
        <4>. QED
          BY <2>3, <4>1 DEF Reap
      <3>3. staLinkUp' = staLinkUp
        BY <2>3 DEF Reap
      <3>4. CASE events = <<>>
        <4>1. sta # "joined"
          BY <3>1, <3>2, <3>4, ShortEvents DEF Aborted, Attempt, Stage
        <4>. QED
          BY <1>1, <1>3, <3>3, <3>4, <4>1
      <3>5. CASE events = <<TRUE>>
        <4>1. sta = "joined"
          BY <3>1, <3>5, ShortEvents DEF Aborted, Attempt, Stage
        <4>. QED
          BY <1>1, <1>3, <3>5, <4>1
      <3>6. CASE events = <<FALSE>> \/ events = <<TRUE, FALSE>>
        <4>1. sta # "joined"
          BY <3>1, <3>6, ShortEvents DEF Aborted, Attempt, Stage
        <4>. QED
          BY <1>1, <1>3, <3>6, <4>1
      <3>. QED
        BY <3>1, <3>4, <3>5, <3>6 DEF Aborted, Attempt, Stage
    <2>4. CASE Settled(c)
      BY <1>1, <1>3, <2>4 DEF Settled, Phase, Stage
    <2>. QED
      BY <2>1, <2>2, <2>3, <2>4
  <1>. QED
    BY <1>1, <1>2, <1>4, LossReturn

\* The notify goroutine takes what linkEvents has for it.
LEMMA LossTaken ==
    ASSUME TypeOK, LossInv, NotifyTake
    PROVE  LossInv'
  <1>. USE DEF blob, results
  <1>. SUFFICES ASSUME ~rough' PROVE Alone' /\ Follows' /\ OnItsWay' /\ Known'
    BY DEF LossInv
  <1>1. Alone /\ Follows /\ OnItsWay /\ Known
    BY DEF LossInv, NotifyTake
  <1>2. /\ "notifier" \in Callers /\ ~InConnect("notifier")
        /\ "callback" \in Outside /\ Goto("notifier", "callback")
    BY DEF NotifyTake, Outside, Callers, InConnect, Connecting
  <1>3. /\ \A d \in Callers : InConnect(d)' <=> InConnect(d)
        /\ \A d \in Callers : InConnect(d) => pc'[d] = pc[d]
        /\ NobodyConnects' <=> NobodyConnects
    BY <1>2, StaysOutside
  <1>4. Final' = Final /\ (LossQueued' <=> LossQueued)
    BY EventsSame DEF NotifyTake
  <1>5. Alone' /\ Follows'
    BY <1>1, <1>3, <1>4 DEF NotifyTake, Alone, Follows, Callers
  <1>6. LossReported => LossReported' \/ ~Head(linkEvents)
    BY Taken DEF NotifyTake, TypeOK
  <1>7. OnItsWay'
    BY <1>1, <1>4, <1>6 DEF NotifyTake, OnItsWay
  <1>8. ASSUME NEW d \in Callers, InConnect(d)' PROVE Phase(d)'
    <2>1. Phase(d) /\ pc'[d] = pc[d]
      BY <1>1, <1>3, <1>8 DEF Known
    <2>. QED
      BY <2>1 DEF NotifyTake, Phase, Stage, Attempt, Aborted
  <1>9. Known'
    BY <1>1, <1>3, <1>8 DEF Known, NotifyTake
  <1>. QED
    BY <1>5, <1>7, <1>9

LEMMA LossStep ==
    TypeOK /\ OwedInv /\ OwedInv' /\ LossInv /\ [Next]_vars => LossInv'
  <1>. SUFFICES ASSUME TypeOK, OwedInv, OwedInv', LossInv, [Next]_vars, ~rough'
                PROVE  LossInv'
    BY DEF LossInv
  <1>. USE DEF blob, results, flags, onLinkVars, history
  <1>1. Alone /\ Follows /\ OnItsWay /\ Known
    BY RoughStays DEF LossInv
  <1>2. CASE AttemptEnds
    BY <1>1, <1>2, LossAttemptEnds DEF LossInv
  <1>3. CASE AccessPointGone
    <2>1. NobodyConnects /\ NobodyConnects'
      BY <1>3 DEF AccessPointGone, NobodyConnects, InConnect
    <2>. QED
      BY <1>1, <1>3, <2>1, LossShows DEF AccessPointGone, LossInv
  <1>4. CASE Dispatch
    <2>1. CASE connectResult = Nil /\ ReportChange(Head(events))
      BY <1>1, <1>4, <2>1, LossChange DEF Dispatch, LossInv
    <2>2. CASE connectResult # Nil /\ ReportResult(Head(events))
      BY <1>1, <1>4, <2>2, LossResult DEF Dispatch, LossInv
    <2>. QED
      BY <1>4, <2>1, <2>2 DEF Dispatch
  <1>5. ASSUME NEW c \in Callers, ConnectStep(c) PROVE LossInv'
    <2>1. CASE ConnectCall(c)
      BY <2>1, LossCall DEF LossInv
    <2>2. CASE Ask(c) \/ Select(c) \/ ResultUp(c) \/ Expire(c) \/ Abort(c)
      BY <1>1, <2>2, LossProceeds DEF LossInv
    <2>3. CASE ConfigFails(c) \/ ResultDown(c) \/ Reap(c) \/ Settled(c)
      BY <1>1, <2>3, LossReturns DEF LossInv
    <2>. QED
      BY <1>5, <2>1, <2>2, <2>3 DEF ConnectStep
  <1>6. CASE LinkConnect \/ LinkDisconnect \/ CallbackReturns
    <2>1. /\ UNCHANGED <<blob, results, flags, owed, rough>>
          /\ \E c \in Callers, step \in Outside : ~InConnect(c) /\ Goto(c, step)
      BY <1>6 DEF LinkConnect, LinkDisconnect, CallbackReturns, Outside, Callers,
                  InConnect, Connecting
    <2>. QED
      BY <2>1, StaysOutside, LossOutside
  <1>7. CASE Disconnect
    <2>1. /\ "app" \in Callers /\ ~InConnect("app")
          /\ "out" \in Outside /\ Goto("app", "out")
      BY <1>7 DEF Disconnect, Outside, Callers, InConnect, Connecting
    <2>2. /\ \A d \in Callers : InConnect(d)' <=> InConnect(d)
          /\ \A d \in Callers : InConnect(d) => pc'[d] = pc[d]
          /\ NobodyConnects' <=> NobodyConnects
      BY <2>1, StaysOutside
    <2>3. CASE sta = "joined" /\ Lost
      BY <1>1, <1>7, <2>2, <2>3, LossShows DEF Disconnect, LossInv
    <2>4. CASE sta # "joined" /\ UNCHANGED <<blob, owed>>
      <3>1. rough' = rough
        BY <1>7, <2>4 DEF Disconnect, TypeOK
      <3>. QED
        BY <1>7, <2>2, <2>4, <3>1, LossOutside DEF Disconnect
    <2>. QED
      BY <1>7, <2>3, <2>4 DEF Disconnect, DisconnectInternal
  <1>8. CASE NotifyTake
    BY <1>8, LossTaken
  <1>9. CASE UNCHANGED vars
    BY <1>9, LossOutside DEF vars, InConnect
  <1>. QED
    BY <1>2, <1>3, <1>4, <1>5, <1>6, <1>7, <1>8, <1>9 DEF Next

\* A link lost while no Connect runs is told to the notify callback before the
\* program comes to rest, unless one of the conditions in Rough or those of
\* reportConnect's full channel and connect's late success has occurred.
THEOREM LossIsNotified == Spec => []LossNotified
  <1>1. Init => OwedInv /\ LossInv
    BY LossInit
  <1>2. TypeOK /\ OwedInv /\ LossInv /\ [Next]_vars => (OwedInv /\ LossInv)'
    BY OwedStep, LossStep
  <1>3. LossInv => LossNotified
    <2>. SUFFICES ASSUME LossInv, events = <<>>, linkEvents = <<>>, ~rough PROVE ~owed
      BY DEF LossNotified, Quiet
    <2>1. Len(events) = 0 /\ Len(linkEvents) = 0
      BY EmptySeq
    <2>2. ~LossQueued /\ ~LossReported
      BY <2>1 DEF LossQueued, LossReported
    <2>. QED
      BY <2>2 DEF LossInv, OnItsWay
  <1>. QED
    BY <1>1, <1>2, <1>3, LinkTypeCorrect, PTL DEF Spec
=============================================================================
