----------------------------- MODULE OsiAdapter -----------------------------
(***************************************************************************)
(* The OS adapter: the tasks, the interrupt and the synchronisation of     *)
(* OsiSync with the queues of OsiQueue and the event loop of EventLoop,    *)
(* whose waits are sleeps and wakes of OsiSync.                            *)
(***************************************************************************)
EXTENDS OsiQueue, EventLoop

allVars == <<vars, qvars, lvars>>

AInit == Init /\ QInit /\ LInit

\* A receiver is woken by its own call only.
SyncStep ==
    /\ Next /\ \A t \in Tasks : at[t] # None => pc'[t] = pc[t]
    /\ UNCHANGED <<qvars, lvars>>

ANext ==
    \/ SyncStep
    \/ QueueStep /\ UNCHANGED lvars
    \/ LoopStep /\ UNCHANGED qvars

ASpec == AInit /\ [][ANext]_allVars

-----------------------------------------------------------------------------
Bus == INSTANCE EventBus WITH
    open <- ready, pending <- order, handlers <- known,
    current <- evNow, calling <- hNow, toCall <- rest

\* The linked lists, their tail and the pointers of a dispatch that handlers
\* interrupt with yields, posts and registrations behave as one event bus: every
\* event goes once, in turn, to the handlers that were there when it was taken.
ImplementsBus == Bus!BusSpec
=============================================================================
