------------------------------- MODULE EventBus -------------------------------
(***************************************************************************)
(* What the default event loop of the OS adapter promises: events are      *)
(* dispatched one at a time in the order they were posted, and each is     *)
(* given, newest handler first, to every handler that was registered when  *)
(* its dispatch began, whatever the handlers post or register meanwhile.   *)
(***************************************************************************)
EXTENDS Sequences

CONSTANTS
    Blocks,      \* the identities of events and handlers
    Nil          \* no event, no handler

VARIABLES
    open,        \* the loop has been created
    pending,     \* events posted and not dispatched, oldest first
    handlers,    \* the handlers registered, newest first
    current,     \* the event being dispatched
    calling,     \* the handler it is given to
    toCall       \* that handler and those it has yet to be given to

bus == <<open, pending, handlers, current, calling, toCall>>

InUse == {pending[i] : i \in DOMAIN pending} \cup
         {handlers[i] : i \in DOMAIN handlers} \cup {current}
Front(s) == IF s = <<>> THEN Nil ELSE Head(s)

BusInit ==
    /\ open = FALSE /\ pending = <<>> /\ handlers = <<>>
    /\ current = Nil /\ calling = Nil /\ toCall = <<>>

Open ==
    /\ ~open /\ open' = TRUE
    /\ UNCHANGED <<pending, handlers, current, calling, toCall>>

Close ==
    /\ open /\ current = Nil
    /\ open' = FALSE /\ pending' = <<>> /\ handlers' = <<>>
    /\ UNCHANGED <<current, calling, toCall>>

Post(e) ==
    /\ open /\ e \notin InUse /\ pending' = Append(pending, e)
    /\ UNCHANGED <<open, handlers, current, calling, toCall>>

Register(h) ==
    /\ open /\ h \notin InUse /\ handlers' = <<h>> \o handlers
    /\ UNCHANGED <<open, pending, current, calling, toCall>>

Dispatch ==
    /\ open /\ current = Nil /\ pending # <<>>
    /\ current' = Head(pending) /\ pending' = Tail(pending)
    /\ toCall' = handlers /\ calling' = Front(handlers)
    /\ UNCHANGED <<open, handlers>>

HandlerReturns ==
    /\ current # Nil /\ toCall # <<>>
    /\ toCall' = Tail(toCall) /\ calling' = Front(Tail(toCall))
    /\ UNCHANGED <<open, pending, handlers, current>>

Dispatched ==
    /\ current # Nil /\ toCall = <<>>
    /\ current' = Nil
    /\ UNCHANGED <<open, pending, handlers, calling, toCall>>

BusNext ==
    \/ Open \/ Close \/ Dispatch \/ HandlerReturns \/ Dispatched
    \/ \E b \in Blocks : Post(b) \/ Register(b)

BusSpec == BusInit /\ [][BusNext]_bus
=============================================================================
