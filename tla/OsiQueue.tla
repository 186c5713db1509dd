------------------------------ MODULE OsiQueue ------------------------------
(***************************************************************************)
(* The queues the OS adapter gives the blob (osi.c), on the tasks and the  *)
(* interrupt of OsiSync.                                                   *)
(*                                                                         *)
(* Neither lock is held across a yield, so between two yields a queue call *)
(* of a goroutine is one step, and no goroutine finds a lock taken.  What  *)
(* a receiver keeps across its yields is the pointer it resolved.  A       *)
(* handler's send waits in the ISR ring of SchedPass until a scheduler     *)
(* pass delivers it, and is resolved only then.  The blob does not delete  *)
(* a queue a task waits on; it may delete one the ring holds an item for.  *)
(***************************************************************************)
EXTENDS OsiSync, Sequences

CONSTANTS
    Queues,      \* arena blocks a queue can be at
    Items,       \* what is sent
    MaxLen,      \* bound: length of a queue
    MaxLate      \* bound: items in the ISR ring

ASSUME QueueAssumption == MaxLen \in Nat \ {0} /\ MaxLate \in Nat /\ None \notin Queues

VARIABLES
    live,        \* the queues linked at s_queues_head
    len, read, write, qcount, storage,  \* of each queue
    at,          \* the queue each sleeping receiver has resolved
    late,        \* sends of handlers not yet delivered
    fifo         \* history: what was put in each queue and not taken

queue == <<live, len, read, write, qcount, storage, fifo>>
qvars == <<queue, at, late>>

Slots == 0 .. MaxLen - 1
Following(q, i) == IF i + 1 = len[q] THEN 0 ELSE i + 1
Junk == [i \in Slots |-> None]

QInit ==
    /\ live = {}
    /\ len = [q \in Queues |-> 0]
    /\ read = [q \in Queues |-> 0] /\ write = [q \in Queues |-> 0]
    /\ qcount = [q \in Queues |-> 0]
    /\ storage = [q \in Queues |-> Junk]
    /\ at = [t \in Tasks |-> None]
    /\ late = <<>>
    /\ fifo = [q \in Queues |-> <<>>]

\* Variant: the indices are those of the queue that was there before.
QueueCreateStale(t, q, n) ==
    /\ Calls(t, "queue") /\ q \notin live /\ live' = live \cup {q}
    /\ len' = [len EXCEPT ![q] = n]
    /\ qcount' = [qcount EXCEPT ![q] = 0]
    /\ fifo' = [fifo EXCEPT ![q] = <<>>]
    /\ UNCHANGED <<vars, read, write, storage, at, late>>

\* espradio_generic_queue_create; out of memory it changes nothing.
QueueCreate(t, q, n) ==
    /\ Calls(t, "queue") /\ q \notin live /\ live' = live \cup {q}
    /\ len' = [len EXCEPT ![q] = n]
    /\ read' = [read EXCEPT ![q] = 0] /\ write' = [write EXCEPT ![q] = 0]
    /\ qcount' = [qcount EXCEPT ![q] = 0]
    /\ fifo' = [fifo EXCEPT ![q] = <<>>]
    /\ UNCHANGED <<vars, storage, at, late>>

\* espradio_generic_queue_delete.  The block is free, and holds anything.
QueueDelete(t, q) ==
    /\ Calls(t, "queue") /\ q \in live /\ \A u \in Tasks : at[u] # q
    /\ live' = live \ {q}
    /\ storage' = [storage EXCEPT ![q] = Junk]
    /\ fifo' = [fifo EXCEPT ![q] = <<>>]
    /\ \E i \in Slots : /\ read' = [read EXCEPT ![q] = i]
                        /\ write' = [write EXCEPT ![q] = i]
    /\ len' = [len EXCEPT ![q] = 0] /\ qcount' = [qcount EXCEPT ![q] = 0]
    /\ UNCHANGED <<vars, at, late>>

Put(q, v) ==
    /\ storage' = [storage EXCEPT ![q][write[q]] = v]
    /\ write' = [write EXCEPT ![q] = Following(q, @)]
    /\ qcount' = [qcount EXCEPT ![q] = @ + 1]
    /\ fifo' = [fifo EXCEPT ![q] = Append(@, v)]
    /\ UNCHANGED <<live, len, read>>

\* Variant: a full queue is not noticed.
PutOrRefuseBlind(q, v) == Put(q, v)

\* espradio_queue_send resolves the queue, and has no place for an item when it
\* is full: the time to wait is ignored.
PutOrRefuse(q, v) ==
    IF q \in live /\ qcount[q] # len[q] THEN Put(q, v) ELSE UNCHANGED queue

\* To the front or to the back, the item goes to the back.
Send(t, q, v) ==
    /\ Calls(t, "queue") /\ q \in live /\ PutOrRefuse(q, v)
    /\ UNCHANGED <<vars, at, late>>

\* espradio_queue_send_from_isr copies the item to the ring.
IsrSend(q, v) ==
    /\ kind = "queue" /\ enabled /\ q \in live /\ Len(late) < MaxLate
    /\ late' = Append(late, <<q, v>>)
    /\ UNCHANGED <<vars, queue, at>>

\* schedOnce delivers it, on a goroutine of its own.
Deliver ==
    /\ late # <<>> /\ Yielded
    /\ PutOrRefuse(late[1][1], late[1][2])
    /\ late' = Tail(late) /\ UNCHANGED <<vars, at>>

\* Variant: the read index does not wrap.
TakeItemNoWrap(q) ==
    /\ qcount[q] # 0
    /\ read' = [read EXCEPT ![q] = IF @ + 1 > len[q] THEN 0 ELSE @ + 1]
    /\ qcount' = [qcount EXCEPT ![q] = @ - 1]
    /\ fifo' = [fifo EXCEPT ![q] = Tail(@)]
    /\ UNCHANGED <<live, len, write, storage>>

TakeItem(q) ==
    /\ qcount[q] # 0
    /\ read' = [read EXCEPT ![q] = Following(q, @)]
    /\ qcount' = [qcount EXCEPT ![q] = @ - 1]
    /\ fifo' = [fifo EXCEPT ![q] = Tail(@)]
    /\ UNCHANGED <<live, len, write, storage>>

\* espradio_queue_recv takes an item, or yields: once, and returns empty handed
\* whatever was sent meanwhile, or until 10 ms have gone by.  It yields inside a
\* critical section too.
Receive(t, q) ==
    /\ Calls(t, "queue") /\ q \in live
    /\ TakeItem(q) /\ UNCHANGED <<vars, at, late>>
ReceiveNothing(t, q, mode) ==
    /\ kind = "queue" /\ q \in live /\ qcount[q] = 0 /\ Sleep(t)
    /\ at' = [at EXCEPT ![t] = IF mode = "try" THEN None ELSE q]
    /\ UNCHANGED <<queue, late>>
\* Back from a yield it looks again, in the queue it resolved before; with
\* nothing there it yields again, or its time is over.
ReceiveAgain(t) ==
    /\ at[t] # None /\ Wake(t) /\ TakeItem(at[t])
    /\ at' = [at EXCEPT ![t] = None] /\ UNCHANGED late
ReceiveExpires(t) ==
    /\ at[t] # None /\ Wake(t) /\ qcount[at[t]] = 0
    /\ at' = [at EXCEPT ![t] = None] /\ UNCHANGED <<queue, late>>

QueueStep ==
    \/ \E t \in Tasks :
         \/ ReceiveAgain(t) \/ ReceiveExpires(t)
         \/ \E q \in Queues :
              \/ \E n \in 1..MaxLen : QueueCreate(t, q, n)
              \/ QueueDelete(t, q) \/ Receive(t, q)
              \/ \E v \in Items : Send(t, q, v)
              \/ \E mode \in Modes : ReceiveNothing(t, q, mode)
    \/ \E q \in Queues, v \in Items : IsrSend(q, v)
    \/ Deliver

-----------------------------------------------------------------------------
(* Properties.                                                             *)

QTypeOK ==
    /\ live \subseteq Queues /\ len \in [Queues -> 0..MaxLen]
    /\ read \in [Queues -> Slots] /\ write \in [Queues -> Slots]
    /\ qcount \in [Queues -> 0..MaxLen]
    /\ storage \in [Queues -> [Slots -> Items \cup {None}]]
    /\ at \in [Tasks -> Queues \cup {None}]
    /\ late \in Seq(Queues \X Items)
    /\ fifo \in [Queues -> Seq(Items)]

\* A receiver that sleeps keeps a pointer to a queue that is still there.
ReceiversHaveQueues ==
    \A t \in Tasks : at[t] # None => at[t] \in live /\ pc[t] = "sleep"

\* What a receiver is given is what was sent to the queue since it was created
\* and not refused, in the order it arrived, whether a task or, through the
\* ring, a handler sent it: indices, count and storage agree with that.
QueueIsFifo ==
    \A q \in live :
        /\ qcount[q] = Len(fifo[q]) /\ qcount[q] <= len[q]
        /\ \A i \in 1..qcount[q] :
             LET p == read[q] + i - 1
             IN storage[q][IF p >= len[q] THEN p - len[q] ELSE p] = fifo[q][i]
=============================================================================
