------------------------------- MODULE OsiSync -------------------------------
(***************************************************************************)
(* The synchronisation the OS adapter gives the blob (radio.go): recursive *)
(* mutexes, semaphores, per-task semaphores, event groups, the interrupt   *)
(* critical section, and tasks.                                            *)
(*                                                                         *)
(* Tasks are goroutines of one core: a step is what one does between two   *)
(* yields, or between two instructions an interrupt may come between.  The *)
(* only interrupt that matters here is one whose handler gives or takes a  *)
(* semaphore.  The blob is taken at the word of the API it was written     *)
(* for: it does not delete a mutex that is held, nor anything a task waits *)
(* on.  Switching goroutines leaves the CPU's interrupt mask as it is.     *)
(***************************************************************************)
EXTENDS Integers, FiniteSets

CONSTANTS
    Tasks,       \* goroutines of the blob
    Main,        \* the one that runs first; it never ends
    Mutexes,     \* slots of the mutex pool
    Sems,        \* slots of the semaphore pool
    ThreadSems,  \* slots of the per-task semaphore pool
    Groups,      \* slots of the event group pool
    Bits,        \* bits of an event group
    Kinds,       \* kinds of objects: a behaviour uses those of one of them
    MaxNest      \* bound: nesting of locks and of critical sections; counts

CONSTANT None    \* no task, no slot

ASSUME TaskAssumption == Main \in Tasks /\ None \notin Tasks
ASSUME SlotAssumption == Sems \cap ThreadSems = {} /\ None \notin Sems \cup ThreadSems
ASSUME PoolAssumption ==
    /\ Mutexes \cap (Sems \cup ThreadSems \cup Groups) = {}
    /\ Groups \cap (Sems \cup ThreadSems) = {} /\ Tasks \cap (Sems \cup ThreadSems) = {}
ASSUME NestAssumption == MaxNest \in Nat \ {0}

AllSems == Sems \cup ThreadSems

VARIABLES
    kind,        \* what this behaviour uses
    running,     \* the goroutine on the CPU
    pc, job,     \* where each task is, and what it waits for
    enabled,     \* the CPU takes interrupts
    intsOff,     \* wifiIntsOff
    saved,       \* wifiIntsSaved
    inUse,       \* slots in use, of every pool
    owner, depth,   \* of each mutex
    count,       \* of each semaphore
    seen,        \* the count a task has loaded in semTryTake
    bits,        \* of each event group
    semOf,       \* wifiThreadSemByTH
    nested,      \* history: critical sections each task has open
    breached,    \* history: a task has yielded inside one, and interrupts are
                 \* masked since; nested is then no longer kept
    holds,       \* history: locks each task has got and not given back
    balance      \* history: gives less takes of each semaphore and each task's

cpu   == <<running, pc, job>>
mask  == <<enabled, intsOff, saved>>
ints  == <<mask, nested, breached>>
mutex == <<owner, depth, holds>>
sem   == <<count, seen, balance>>
vars  == <<kind, cpu, ints, inUse, mutex, sem, bits, semOf>>

Modes == {"try", "timed", "forever"}
NoJob == [obj |-> None, mode |-> "timed", want |-> {}, all |-> FALSE,
          clear |-> FALSE]
Waiting == {"lock", "take", "wait"}
\* A task at one of these has given up the CPU.
Away == Waiting \cup {"sleep", "spawn", "new", "ended"}
Yielded == pc[running] \in Away
Turn(t) == running = t \/ Yielded
Goto(t, step) == running' = t /\ pc' = [pc EXCEPT ![t] = step]
\* A yield of t that takes place inside a critical section as well.
YieldsAnyway(t) ==
    /\ IF nested[t] > 0 THEN breached' = TRUE /\ nested' = [u \in Tasks |-> 0]
       ELSE UNCHANGED <<nested, breached>>
    /\ UNCHANGED mask
Return(t) == Goto(t, "run") /\ job' = [job EXCEPT ![t] = NoJob]
\* safeGosched before the call returns all the same.
YieldAndReturn(t) ==
    /\ Goto(t, IF intsOff = 0 THEN "sleep" ELSE "run")
    /\ job' = [job EXCEPT ![t] = NoJob]
\* The task runs blob code, and may call.
Calls(t, k) == pc[t] = "run" /\ running = t /\ kind = k
WaitedOn(o) == \E t \in Tasks : job[t].obj = o

Init ==
    /\ kind \in Kinds
    /\ running = Main
    /\ pc = [t \in Tasks |-> IF t = Main THEN "run"
                             ELSE IF kind = "task" THEN "ended" ELSE "sleep"]
    /\ job = [t \in Tasks |-> NoJob]
    /\ enabled = TRUE /\ intsOff = 0 /\ saved = TRUE
    /\ inUse = {}
    /\ owner = [m \in Mutexes |-> None] /\ depth = [m \in Mutexes |-> 0]
    /\ count = [s \in AllSems |-> 0]
    /\ seen = [t \in Tasks |-> 0]
    /\ bits = [g \in Groups |-> {}]
    /\ semOf = [t \in Tasks |-> None]
    /\ nested = [t \in Tasks |-> 0] /\ breached = FALSE
    /\ holds = [t \in Tasks |-> [m \in Mutexes |-> 0]]
    /\ balance = [o \in Sems \cup Tasks |-> 0]

-----------------------------------------------------------------------------
(* The critical section and tasks.                                         *)

\* espradio_wifi_int_disable
IntDisable(t) ==
    /\ pc[t] = "run" /\ running = t /\ intsOff < MaxNest
    /\ enabled' = FALSE
    /\ saved' = IF intsOff = 0 THEN enabled ELSE saved
    /\ intsOff' = intsOff + 1
    /\ nested' = IF breached THEN nested ELSE [nested EXCEPT ![t] = @ + 1]
    /\ UNCHANGED breached
    /\ UNCHANGED <<kind, cpu, inUse, mutex, sem, bits, semOf>>

\* espradio_wifi_int_restore, which ignores one too many.
IntRestore(t) ==
    /\ pc[t] = "run" /\ running = t
    /\ intsOff' = IF intsOff = 0 THEN 0 ELSE intsOff - 1
    /\ enabled' = IF intsOff = 1 THEN saved ELSE enabled
    /\ nested' = [nested EXCEPT ![t] = IF @ = 0 THEN 0 ELSE @ - 1]
    /\ breached' = IF intsOff' = 0 THEN FALSE ELSE breached
    /\ UNCHANGED <<kind, cpu, saved, inUse, mutex, sem, bits, semOf>>

\* espradio_task_delay and espradio_task_yield_go, which do not look at intsOff.
Sleep(t) ==
    /\ pc[t] = "run" /\ running = t /\ YieldsAnyway(t)
    /\ Goto(t, "sleep") /\ UNCHANGED job
    /\ UNCHANGED <<kind, inUse, mutex, sem, bits, semOf>>

Wake(t) ==
    /\ pc[t] = "sleep" /\ Turn(t)
    /\ Goto(t, "run") /\ UNCHANGED job
    /\ UNCHANGED <<kind, ints, inUse, mutex, sem, bits, semOf>>

\* espradio_task_create_pinned_to_core: the creator yields until the new
\* goroutine has begun.  A goroutine is kept alive by whatever still refers to
\* it, so only one that nothing refers to can come back as a new one.
TaskCreate(t, u) ==
    /\ Calls(t, "task") /\ YieldsAnyway(t)
    /\ pc[u] = "ended" /\ semOf[u] = None /\ ~WaitedOn(u)
    /\ running' = t /\ pc' = [pc EXCEPT ![t] = "spawn", ![u] = "new"]
    /\ job' = [job EXCEPT ![t].obj = u]
    /\ UNCHANGED <<kind, inUse, mutex, sem, bits, semOf>>

TaskBegins(t) ==
    /\ pc[t] = "new" /\ Turn(t) /\ Goto(t, "run") /\ UNCHANGED job
    /\ UNCHANGED <<kind, ints, inUse, mutex, sem, bits, semOf>>

TaskCreated(t) ==
    /\ pc[t] = "spawn" /\ Turn(t) /\ pc[job[t].obj] # "new" /\ Return(t)
    /\ UNCHANGED <<kind, ints, inUse, mutex, sem, bits, semOf>>

\* The goroutine's function returns.  On a scheduler.cores build unpinCore0 does
\* the work of TaskDelete first.
TaskEnds(t) ==
    /\ Calls(t, "task") /\ t # Main /\ YieldsAnyway(t)
    /\ Goto(t, "ended") /\ UNCHANGED job
    /\ UNCHANGED <<kind, inUse, mutex, sem, bits, semOf>>

\* espradio_wifi_thread_semphr_get, the first time a task calls it.
ThreadSemGet(t) ==
    /\ Calls(t, "task") /\ semOf[t] = None
    /\ \E s \in ThreadSems \ inUse :
         /\ inUse' = inUse \cup {s}
         /\ semOf' = [semOf EXCEPT ![t] = s]
         /\ count' = [count EXCEPT ![s] = 0]
    /\ balance' = [balance EXCEPT ![t] = 0]
    /\ UNCHANGED <<kind, cpu, ints, mutex, seen, bits>>

\* Variant: the map keeps the entry.
TaskDeleteKeepsEntry(t, u) ==
    /\ Calls(t, "task") /\ semOf[u] # None /\ ~WaitedOn(u)
    /\ inUse' = inUse \ {semOf[u]} /\ UNCHANGED semOf
    /\ balance' = [balance EXCEPT ![u] = 0]
    /\ UNCHANGED <<kind, cpu, ints, mutex, count, seen, bits>>

\* espradio_task_delete only gives the task's semaphore back: the goroutine
\* goes on until its function returns.
TaskDelete(t, u) ==
    /\ Calls(t, "task") /\ semOf[u] # None /\ ~WaitedOn(u)
    /\ inUse' = inUse \ {semOf[u]} /\ semOf' = [semOf EXCEPT ![u] = None]
    /\ balance' = [balance EXCEPT ![u] = 0]
    /\ UNCHANGED <<kind, cpu, ints, mutex, count, seen, bits>>

-----------------------------------------------------------------------------
(* Recursive mutexes.                                                      *)

\* espradio_recursive_mutex_create: any slot that is free.
MutexCreate(t, m) ==
    /\ Calls(t, "mutex") /\ m \notin inUse /\ inUse' = inUse \cup {m}
    /\ UNCHANGED <<kind, cpu, ints, mutex, sem, bits, semOf>>

MutexDelete(t, m) ==
    /\ Calls(t, "mutex") /\ m \in inUse /\ depth[m] = 0 /\ ~WaitedOn(m)
    /\ inUse' = inUse \ {m}
    /\ owner' = [owner EXCEPT ![m] = None] /\ depth' = [depth EXCEPT ![m] = 0]
    /\ UNCHANGED <<kind, cpu, ints, holds, sem, bits, semOf>>

Free(t, m) == depth[m] = 0 \/ owner[m] = t
Acquire(t, m) ==
    /\ Free(t, m) /\ depth[m] < MaxNest
    /\ owner' = [owner EXCEPT ![m] = t]
    /\ depth' = [depth EXCEPT ![m] = @ + 1]
    /\ holds' = [holds EXCEPT ![t][m] = @ + 1]
    /\ Return(t)
    /\ UNCHANGED <<kind, ints, inUse, sem, bits, semOf>>

\* One turn of the loop: taken; refused, because nobody else can run to release
\* it; or the task yields.
TryLock(t, m) ==
    \/ Acquire(t, m)
    \/ /\ ~Free(t, m)
       /\ IF intsOff > 0 THEN Return(t)
          ELSE Goto(t, "lock") /\ job' = [job EXCEPT ![t].obj = m]
       /\ UNCHANGED <<kind, ints, inUse, mutex, sem, bits, semOf>>

\* espradio_mutex_lock; back from the yield it gives up after 250 ms, or tries
\* again.
Lock(t, m) == Calls(t, "mutex") /\ m \in inUse /\ TryLock(t, m)
LockAgain(t) == pc[t] = "lock" /\ Turn(t) /\ TryLock(t, job[t].obj)
LockTimeout(t) ==
    /\ pc[t] = "lock" /\ Turn(t) /\ Return(t)
    /\ UNCHANGED <<kind, ints, inUse, mutex, sem, bits, semOf>>

\* Variant: whoever calls it gives the mutex back.
UnlockAnyone(t, m) ==
    /\ Calls(t, "mutex") /\ m \in inUse /\ depth[m] > 0
    /\ depth' = [depth EXCEPT ![m] = @ - 1]
    /\ owner' = [owner EXCEPT ![m] = IF depth[m] = 1 THEN None ELSE @]
    /\ holds' = [holds EXCEPT ![t][m] = IF @ = 0 THEN 0 ELSE @ - 1]
    /\ UNCHANGED <<kind, cpu, ints, inUse, sem, bits, semOf>>

\* espradio_mutex_unlock has no effect when the caller is not the owner, as
\* when its lock timed out and it went on all the same.
Unlock(t, m) ==
    /\ Calls(t, "mutex") /\ m \in inUse /\ depth[m] > 0 /\ owner[m] = t
    /\ depth' = [depth EXCEPT ![m] = @ - 1]
    /\ owner' = [owner EXCEPT ![m] = IF depth[m] = 1 THEN None ELSE @]
    /\ holds' = [holds EXCEPT ![t][m] = @ - 1]
    /\ UNCHANGED <<kind, cpu, ints, inUse, sem, bits, semOf>>

-----------------------------------------------------------------------------
(* Semaphores.  A task's own is named by the task.                         *)

Slot(o) == IF o \in Tasks THEN semOf[o] ELSE o
Given == (inUse \cap Sems) \cup {t \in Tasks : semOf[t] # None}

SemCreate(t, s, n) ==
    /\ Calls(t, "sem") /\ s \in Sems \ inUse /\ inUse' = inUse \cup {s}
    /\ count' = [count EXCEPT ![s] = n] /\ balance' = [balance EXCEPT ![s] = n]
    /\ UNCHANGED <<kind, cpu, ints, mutex, seen, bits, semOf>>

SemDelete(t, s) ==
    /\ Calls(t, "sem") /\ s \in Sems \cap inUse /\ ~WaitedOn(s)
    /\ inUse' = inUse \ {s} /\ count' = [count EXCEPT ![s] = 0]
    /\ balance' = [balance EXCEPT ![s] = 0]
    /\ UNCHANGED <<kind, cpu, ints, mutex, seen, bits, semOf>>

AddOne(o) ==
    /\ o \in Given /\ count[Slot(o)] < MaxNest
    /\ count' = [count EXCEPT ![Slot(o)] = @ + 1]
    /\ balance' = [balance EXCEPT ![o] = @ + 1]
    /\ UNCHANGED <<kind, cpu, ints, inUse, mutex, seen, bits, semOf>>

\* espradio_semphr_give, by a task or in an interrupt handler.
Give(t, o) == pc[t] = "run" /\ running = t /\ AddOne(o)
IsrGive(o) == enabled /\ AddOne(o)

\* bt_semphr_take_from_isr; a handler that finds nothing to take would have to
\* yield, and the blob does not try.
IsrTake(s) ==
    /\ enabled /\ s \in Given /\ count[s] > 0
    /\ count' = [count EXCEPT ![s] = @ - 1]
    /\ balance' = [balance EXCEPT ![s] = @ - 1]
    /\ UNCHANGED <<kind, cpu, ints, inUse, mutex, seen, bits, semOf>>

Unchanged == UNCHANGED <<kind, ints, inUse, mutex, count, balance, bits, semOf>>

\* Variant: a wait inside a critical section yields.
LoadYields(t, j) ==
    \/ /\ count[Slot(j.obj)] > 0
       /\ seen' = [seen EXCEPT ![t] = count[Slot(j.obj)]]
       /\ Goto(t, "cas") /\ job' = [job EXCEPT ![t] = j]
       /\ Unchanged
    \/ /\ count[Slot(j.obj)] = 0
       /\ \/ j.mode = "try" /\ YieldAndReturn(t)
          \/ j.mode # "try" /\ Goto(t, "take") /\ job' = [job EXCEPT ![t] = j]
       /\ seen' = [seen EXCEPT ![t] = 0] /\ Unchanged

\* semTryTake loads the count; with nothing to take the call fails, or yields
\* and comes back.
Load(t, j) ==
    \/ /\ count[Slot(j.obj)] > 0
       /\ seen' = [seen EXCEPT ![t] = count[Slot(j.obj)]]
       /\ Goto(t, "cas") /\ job' = [job EXCEPT ![t] = j]
       /\ Unchanged
    \/ /\ count[Slot(j.obj)] = 0
       /\ \/ j.mode = "try" /\ YieldAndReturn(t)
          \/ j.mode # "try" /\ intsOff > 0 /\ Return(t)
          \/ /\ j.mode # "try" /\ intsOff = 0
             /\ Goto(t, "take") /\ job' = [job EXCEPT ![t] = j]
       /\ seen' = [seen EXCEPT ![t] = 0] /\ Unchanged

Call(o, mode) == [NoJob EXCEPT !.obj = o, !.mode = mode]
\* espradio_semphr_take on a semaphore of the pool, or on the task's own.
Take(t, o, mode) ==
    /\ \/ Calls(t, "sem") /\ o \in Sems \cap inUse
       \/ Calls(t, "task") /\ o = t /\ semOf[t] # None
    /\ Load(t, Call(o, mode))
TakeAgain(t) == pc[t] = "take" /\ Turn(t) /\ Load(t, job[t])
TakeExpires(t) ==
    /\ pc[t] = "take" /\ Turn(t) /\ job[t].mode = "timed"
    /\ count[Slot(job[t].obj)] = 0
    /\ Return(t) /\ UNCHANGED seen /\ Unchanged

StoreOneLess(t) ==
    /\ count' = [count EXCEPT ![Slot(job[t].obj)] = seen[t] - 1]
    /\ balance' = [balance EXCEPT ![job[t].obj] = @ - 1]
    /\ seen' = [seen EXCEPT ![t] = 0] /\ Return(t)
    /\ UNCHANGED <<kind, ints, inUse, mutex, bits, semOf>>

\* Variant: the count is stored, whatever it is by now.
CompareAndSwapBlind(t) == pc[t] = "cas" /\ StoreOneLess(t)

\* The rest of semTryTake: one less, or from the load again when a handler has
\* given the semaphore in between.
CompareAndSwap(t) ==
    /\ pc[t] = "cas"
    /\ \/ count[Slot(job[t].obj)] = seen[t] /\ StoreOneLess(t)
       \/ count[Slot(job[t].obj)] # seen[t] /\ Load(t, job[t])

-----------------------------------------------------------------------------
(* Event groups.                                                           *)

GroupCreate(t, g) ==
    /\ Calls(t, "event") /\ g \notin inUse /\ inUse' = inUse \cup {g}
    /\ bits' = [bits EXCEPT ![g] = {}]
    /\ UNCHANGED <<kind, cpu, ints, mutex, sem, semOf>>

GroupDelete(t, g) ==
    /\ Calls(t, "event") /\ g \in inUse /\ ~WaitedOn(g)
    /\ inUse' = inUse \ {g} /\ bits' = [bits EXCEPT ![g] = {}]
    /\ UNCHANGED <<kind, cpu, ints, mutex, sem, semOf>>

SetBits(t, g, b) ==
    /\ Calls(t, "event") /\ g \in inUse
    /\ bits' = [bits EXCEPT ![g] = @ \cup b]
    /\ UNCHANGED <<kind, cpu, ints, inUse, mutex, sem, semOf>>

ClearBits(t, g, b) ==
    /\ Calls(t, "event") /\ g \in inUse
    /\ bits' = [bits EXCEPT ![g] = @ \ b]
    /\ UNCHANGED <<kind, cpu, ints, inUse, mutex, sem, semOf>>

Met(j) == IF j.all THEN j.want \subseteq bits[j.obj]
          ELSE j.want \cap bits[j.obj] # {}
\* One turn of the loop of espradio_event_group_wait_bits.
TryWait(t, j) ==
    /\ \/ /\ Met(j) /\ Return(t)
          /\ bits' = IF j.clear THEN [bits EXCEPT ![j.obj] = @ \ j.want] ELSE bits
       \/ /\ ~Met(j) /\ UNCHANGED bits
          /\ IF j.mode = "try" \/ intsOff > 0 THEN Return(t)
             ELSE Goto(t, "wait") /\ job' = [job EXCEPT ![t] = j]
    /\ UNCHANGED <<kind, ints, inUse, mutex, sem, semOf>>

Wait(t, j) == Calls(t, "event") /\ j.obj \in inUse /\ TryWait(t, j)
WaitAgain(t) == pc[t] = "wait" /\ Turn(t) /\ TryWait(t, job[t])
WaitExpires(t) ==
    /\ pc[t] = "wait" /\ Turn(t) /\ job[t].mode = "timed" /\ ~Met(job[t])
    /\ Return(t)
    /\ UNCHANGED <<kind, ints, inUse, mutex, sem, bits, semOf>>

-----------------------------------------------------------------------------

Waits == [obj : Groups, mode : Modes, want : SUBSET Bits \ {{}},
          all : BOOLEAN, clear : BOOLEAN]

Next ==
    \/ \E t \in Tasks :
         \/ IntDisable(t) \/ IntRestore(t) \/ Sleep(t) \/ Wake(t)
         \/ TaskBegins(t) \/ TaskCreated(t) \/ TaskEnds(t) \/ ThreadSemGet(t)
         \/ LockAgain(t) \/ LockTimeout(t)
         \/ TakeAgain(t) \/ TakeExpires(t) \/ CompareAndSwap(t)
         \/ WaitAgain(t) \/ WaitExpires(t)
         \/ \E u \in Tasks : TaskCreate(t, u) \/ TaskDelete(t, u)
         \/ \E m \in Mutexes :
              MutexCreate(t, m) \/ MutexDelete(t, m) \/ Lock(t, m) \/ Unlock(t, m)
         \/ \E s \in Sems : SemDelete(t, s) \/ \E n \in 0..1 : SemCreate(t, s, n)
         \/ \E o \in Sems \cup Tasks :
              Give(t, o) \/ \E mode \in Modes : Take(t, o, mode)
         \/ \E g \in Groups :
              \/ GroupCreate(t, g) \/ GroupDelete(t, g)
              \/ \E b \in SUBSET Bits \ {{}} : SetBits(t, g, b) \/ ClearBits(t, g, b)
         \/ \E j \in Waits : Wait(t, j)
    \/ \E o \in Sems \cup Tasks : IsrGive(o)
    \/ \E s \in Sems : IsrTake(s)

Spec == Init /\ [][Next]_vars

-----------------------------------------------------------------------------
(* Properties.                                                             *)

Job == [obj : AllSems \cup Tasks \cup Mutexes \cup Groups \cup {None}, mode : Modes,
        want : SUBSET Bits, all : BOOLEAN, clear : BOOLEAN]
Counts == 0 .. MaxNest

CpuType == running \in Tasks /\ pc \in [Tasks -> Away \cup {"run", "cas"}]
           /\ job \in [Tasks -> Job]
IntsType == enabled \in BOOLEAN /\ saved \in BOOLEAN /\ intsOff \in Counts
            /\ nested \in [Tasks -> Counts] /\ breached \in BOOLEAN
MutexType == owner \in [Mutexes -> Tasks \cup {None}] /\ depth \in [Mutexes -> Counts]
             /\ holds \in [Tasks -> [Mutexes -> Nat]]
SemType == count \in [AllSems -> Counts] /\ seen \in [Tasks -> Counts]
           /\ balance \in [Sems \cup Tasks -> Int]
           /\ semOf \in [Tasks -> ThreadSems \cup {None}]

TypeOK ==
    /\ kind \in Kinds /\ CpuType /\ IntsType /\ MutexType /\ SemType
    /\ inUse \subseteq Mutexes \cup AllSems \cup Groups
    /\ bits \in [Groups -> SUBSET Bits]

\* The interrupt is masked exactly while the count says so, which is as often as
\* the running task has entered a critical section and not left it.  Meanwhile no
\* other task runs, and no call of its own has put it to sleep: the waits for
\* mutexes, semaphores and event groups return instead of yielding, and only the
\* outermost restore unmasks.  Nothing is said of a section inside which the task
\* slept, created a task, posted an event, found a queue empty or ended, which
\* yield in any case, until interrupts are on again.
CriticalIsExclusive ==
    /\ \A t \in Tasks : nested[t] > 0 => running = t /\ ~Yielded
    /\ breached \/ intsOff = nested[running]
    /\ enabled = (intsOff = 0)

\* A mutex is held by one task at most and as deep as that task has locked it,
\* though a task whose lock timed out goes on and unlocks what it never got.
MutualExclusion ==
    \A m \in Mutexes :
        /\ \A t \in Tasks : holds[t][m] = IF owner[m] = t THEN depth[m] ELSE 0
        /\ depth[m] > 0 => owner[m] \in Tasks /\ m \in inUse

\* What a semaphore holds is what was given less what was taken: no give is
\* lost to a take a handler interrupts, and no task's own semaphore is another's
\* or keeps what was given to an earlier owner of its slot.
CountsKept == \A o \in Given : count[Slot(o)] = balance[o]
=============================================================================
