------------------------------ MODULE EventLoop ------------------------------
(***************************************************************************)
(* The default event loop of the OS adapter (osi.c), on the tasks of       *)
(* OsiSync: blob tasks post events, and whichever goroutine runs a         *)
(* scheduler pass dispatches them.  At most one pass runs at a time, which *)
(* SchedPass shows, so at most one event is being dispatched.              *)
(*                                                                         *)
(* The lock is never held across a yield: a call is one step between two   *)
(* yields.  A handler is blob or user code: it may yield, post, register.  *)
(* Nothing in the repository deletes the loop, and nothing creates it but  *)
(* Enable; here it is deleted and created again while nothing is being     *)
(* dispatched, and a handler is registered once it has been created.       *)
(***************************************************************************)
EXTENDS OsiSync, Sequences

CONSTANTS
    Blocks,      \* arena blocks
    Nil          \* NULL

ASSUME BlockAssumption == Nil \notin Blocks

VARIABLES
    ready,       \* s_event_loop_ready
    evHead, evTail, hHead,   \* s_event_head .. s_handler_head
    next,        \* next of each event_item_t and event_handler_t
    base, data,  \* of each event_item_t, Nil also for a base in flash
    allocated,   \* blocks taken from the arena
    by, evNow, hNow,   \* the dispatch: its goroutine, e and h of run_once
    order,       \* history: the events queued, oldest first
    known,       \* history: the handlers registered, newest first
    rest         \* history: those the dispatch still has to call, or calls

lists == <<evHead, evTail, hHead, next, order, known>>
event == <<base, data>>
walk  == <<by, evNow, hNow, rest>>
lvars == <<ready, lists, event, allocated, walk>>

LInit ==
    /\ ready = FALSE
    /\ evHead = Nil /\ evTail = Nil /\ hHead = Nil
    /\ next = [b \in Blocks |-> Nil]
    /\ base = [b \in Blocks |-> Nil] /\ data = [b \in Blocks |-> Nil]
    /\ allocated = {}
    /\ by = None /\ evNow = Nil /\ hNow = Nil
    /\ order = <<>> /\ known = <<>> /\ rest = <<>>

Members(s) == {s[i] : i \in DOMAIN s}
Release(bs) == allocated' = allocated \ bs
Owned(e) == {e, base[e], data[e]} \ {Nil}

\* esp_event_loop_create_default
LoopCreate(t) ==
    /\ Calls(t, "loop") /\ ~ready /\ ready' = TRUE
    /\ evHead' = Nil /\ evTail' = Nil /\ hHead' = Nil
    /\ UNCHANGED <<vars, next, order, known, event, allocated, walk>>

\* esp_event_loop_delete_default.  What a freed block held is forgotten.
LoopDelete(t) ==
    /\ Calls(t, "loop") /\ ready /\ evNow = Nil
    /\ ready' = FALSE
    /\ evHead' = Nil /\ evTail' = Nil /\ hHead' = Nil
    /\ Release(Members(known) \cup UNION {Owned(e) : e \in Members(order)})
    /\ order' = <<>> /\ known' = <<>>
    /\ next' = [b \in Blocks |-> Nil]
    /\ base' = [b \in Blocks |-> Nil] /\ data' = [b \in Blocks |-> Nil]
    /\ UNCHANGED <<vars, walk>>

\* Variant: registered behind the newest handler.
RegisterSecond(t, h) ==
    /\ Calls(t, "loop") /\ ready /\ h \in Blocks \ allocated
    /\ allocated' = allocated \cup {h}
    /\ IF hHead = Nil
       THEN /\ next' = [next EXCEPT ![h] = Nil] /\ hHead' = h
            /\ known' = <<h>>
       ELSE /\ next' = [next EXCEPT ![h] = next[hHead], ![hHead] = h]
            /\ known' = <<hHead, h>> \o Tail(known) /\ UNCHANGED hHead
    /\ UNCHANGED <<vars, ready, evHead, evTail, order, event, walk>>

\* esp_event_handler_register, which takes no lock; it has no counterpart.
Register(t, h) ==
    /\ Calls(t, "loop") /\ ready /\ h \in Blocks \ allocated
    /\ allocated' = allocated \cup {h}
    /\ next' = [next EXCEPT ![h] = hHead] /\ hHead' = h
    /\ known' = <<h>> \o known
    /\ UNCHANGED <<vars, ready, evHead, evTail, order, event, walk>>

\* A block of the arena that is not in bs, or Nil when none is left.
Alloc(bs) == IF Blocks \subseteq allocated \cup bs THEN {Nil}
             ELSE Blocks \ (allocated \cup bs)
\* esp_event_post: an event without the memory for its item is refused, one
\* without the memory for its base or its data goes without; then it yields, and
\* inside a critical section too.
Post(t, named, sized) ==
    /\ kind = "loop" /\ ready /\ Sleep(t)
    /\ \E e \in Alloc({}) \ {Nil} :
       \E b \in IF named THEN Alloc({e}) ELSE {Nil} :
       \E d \in IF sized THEN Alloc({e, b}) ELSE {Nil} :
         /\ allocated' = allocated \cup ({e, b, d} \ {Nil})
         /\ base' = [base EXCEPT ![e] = b] /\ data' = [data EXCEPT ![e] = d]
         /\ next' = [n \in Blocks |-> IF n = e THEN Nil
                                      ELSE IF n = evTail THEN e ELSE next[n]]
         /\ evHead' = IF evTail = Nil THEN e ELSE evHead
         /\ evTail' = e
         /\ order' = Append(order, e)
    /\ UNCHANGED <<ready, hHead, known, walk>>

\* Variant: the tail stays when the last event goes.
DispatchKeepsTail(t) ==
    /\ Calls(t, "loop") /\ ready /\ evNow = Nil /\ evHead # Nil
    /\ by' = t /\ evNow' = evHead /\ hNow' = hHead /\ rest' = known
    /\ evHead' = next[evHead] /\ UNCHANGED evTail
    /\ order' = Tail(order)
    /\ UNCHANGED <<vars, ready, hHead, next, known, event, allocated>>

\* espradio_event_loop_run_once takes the oldest event and begins the walk.
Dispatch(t) ==
    /\ Calls(t, "loop") /\ ready /\ evNow = Nil /\ evHead # Nil
    /\ by' = t /\ evNow' = evHead /\ hNow' = hHead /\ rest' = known
    /\ evHead' = next[evHead]
    /\ evTail' = IF next[evHead] = Nil THEN Nil ELSE evTail
    /\ order' = Tail(order)
    /\ UNCHANGED <<vars, ready, hHead, next, known, event, allocated>>

\* The handler at hNow, called or passed over, is done with; only now the next
\* one is looked up.
HandlerReturns(t) ==
    /\ Calls(t, "loop") /\ by = t /\ hNow # Nil
    /\ hNow' = next[hNow] /\ rest' = Tail(rest)
    /\ UNCHANGED <<vars, ready, lists, event, allocated, by, evNow>>

\* Variant: the data belongs to whoever handled the event.
DispatchedKeepsData(t) ==
    /\ Calls(t, "loop") /\ by = t /\ hNow = Nil
    /\ Release({evNow, base[evNow]}) /\ by' = None /\ evNow' = Nil
    /\ base' = [base EXCEPT ![evNow] = Nil] /\ data' = [data EXCEPT ![evNow] = Nil]
    /\ next' = [next EXCEPT ![evNow] = Nil]
    /\ UNCHANGED <<vars, ready, evHead, evTail, hHead, order, known, hNow, rest>>

\* The end of the walk.
Dispatched(t) ==
    /\ Calls(t, "loop") /\ by = t /\ hNow = Nil
    /\ Release(Owned(evNow)) /\ by' = None /\ evNow' = Nil
    /\ base' = [base EXCEPT ![evNow] = Nil] /\ data' = [data EXCEPT ![evNow] = Nil]
    /\ next' = [next EXCEPT ![evNow] = Nil]
    /\ UNCHANGED <<vars, ready, evHead, evTail, hHead, order, known, hNow, rest>>

LoopStep ==
    \/ \E t \in Tasks :
         \/ LoopCreate(t) \/ LoopDelete(t)
         \/ Dispatch(t) \/ HandlerReturns(t) \/ Dispatched(t)
         \/ \E h \in Blocks : Register(t, h)
         \/ \E named \in BOOLEAN, sized \in BOOLEAN : Post(t, named, sized)

-----------------------------------------------------------------------------
(* Properties.                                                             *)

First(s) == IF s = <<>> THEN Nil ELSE s[1]
\* The list that begins at b is s.
Chain(b, s) ==
    /\ b = First(s)
    /\ \A i \in 1..Len(s) : next[s[i]] = IF i = Len(s) THEN Nil ELSE s[i + 1]

\* The queue holds the events posted and not yet dispatched, oldest first, the
\* tail is the last of them, and a walk that handlers interrupt with yields,
\* posts and registrations calls each handler that was there when it began once,
\* and no other.
ListsIntact ==
    /\ Chain(evHead, order) /\ Chain(hHead, known) /\ Chain(hNow, rest)
    /\ evTail = (IF order = <<>> THEN Nil ELSE order[Len(order)])

Events == Members(order) \cup ({evNow} \ {Nil})
\* The arena blocks in use are those of the events queued or being dispatched,
\* of their base and data, and of the handlers, each for one of these only: none
\* is leaked, and none freed that something still refers to.
EventMemory ==
    /\ allocated = Members(known) \cup UNION {Owned(e) : e \in Events}
    /\ Members(known) \cap Events = {} /\ evNow \notin Members(order)
    /\ Members(rest) \subseteq Members(known)
    /\ \A e \in Events :
         /\ {base[e], data[e]} \cap (Events \cup Members(known)) = {}
         /\ base[e] = data[e] => base[e] = Nil
         /\ \A f \in Events \ {e} : Owned(e) \cap Owned(f) = {}
=============================================================================
