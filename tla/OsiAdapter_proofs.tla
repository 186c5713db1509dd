--------------------------- MODULE OsiAdapter_proofs ---------------------------
(***************************************************************************)
(* Proofs about the OS adapter: the synchronisation under the queues and   *)
(* the event loop, the queues, and the event loop, for any tasks, queues   *)
(* and blocks and any bounds.                                              *)
(***************************************************************************)
EXTENDS OsiAdapter, SequenceTheorems, TLAPS

-----------------------------------------------------------------------------
(* The synchronisation by itself: the facts of OsiSync's specification.    *)

\* Every task but the running one has given up the CPU.
Alone == \A t \in Tasks : t # running => pc[t] \in Away
Critical == /\ CriticalIsExclusive /\ saved = TRUE
            /\ breached => \A t \in Tasks : nested[t] = 0

\* What a task waits for is there as long as it waits.
LockWaits == \A t \in Tasks :
    pc[t] = "lock" => kind = "mutex" /\ job[t].obj \in Mutexes \cap inUse
TakeWaits == \A t \in Tasks :
    /\ pc[t] \in {"take", "cas"} => job[t].obj \in Given
    /\ pc[t] = "cas" => seen[t] > 0

\* Tasks have different semaphores of the pool, which are in use.
OwnSems == /\ \A t \in Tasks : semOf[t] # None => semOf[t] \in inUse
           /\ \A t, u \in Tasks : semOf[t] # None /\ semOf[t] = semOf[u] => t = u

IInv == /\ TypeOK /\ Alone /\ Critical /\ LockWaits /\ TakeWaits
        /\ MutualExclusion /\ OwnSems /\ CountsKept

-----------------------------------------------------------------------------
(* Facts about the parts of the state.                                     *)

Steps == Away \cup {"run", "cas"}

LEMMA NoJobType == NoJob \in Job
  BY DEF NoJob, Job, Modes

LEMMA JobFields ==
  ASSUME NEW j \in Job
  PROVE  /\ j.obj \in AllSems \cup Tasks \cup Mutexes \cup Groups \cup {None}
         /\ j.mode \in Modes /\ j.want \in SUBSET Bits
         /\ j.all \in BOOLEAN /\ j.clear \in BOOLEAN
  BY DEF Job

\* What a semaphore is called, and the slot it has.
LEMMA GivenSlots ==
  ASSUME TypeOK, OwnSems
  PROVE  /\ \A o \in Given : o \in Sems \cup Tasks /\ Slot(o) \in AllSems \cap inUse
         /\ \A o \in Given, p \in Given : Slot(o) = Slot(p) => o = p
  <1>1. ASSUME NEW o \in Given
        PROVE  /\ o \in Sems \cup Tasks /\ Slot(o) \in AllSems \cap inUse
               /\ \/ o \in Sems /\ o \notin Tasks /\ Slot(o) = o
                  \/ o \in Tasks /\ o \notin Sems /\ Slot(o) = semOf[o]
                     /\ semOf[o] # None /\ semOf[o] \in ThreadSems
    <2>1. CASE o \in Tasks
      <3>1. o \notin Sems
        BY <2>1, PoolAssumption
      <3>2. semOf[o] # None
        BY <2>1, <3>1 DEF Given
      <3>3. semOf[o] \in ThreadSems /\ semOf[o] \in inUse
        BY <2>1, <3>2 DEF TypeOK, SemType, OwnSems
      <3>. QED
        BY <2>1, <3>1, <3>2, <3>3 DEF Slot, AllSems
    <2>2. CASE o \notin Tasks
      BY <2>2 DEF Given, Slot, AllSems
    <2>. QED
      BY <2>1, <2>2
  <1>2. ASSUME NEW o \in Given, NEW p \in Given, Slot(o) = Slot(p) PROVE o = p
    BY <1>1, <1>2, SlotAssumption DEF OwnSems
  <1>. QED
    BY <1>1, <1>2

\* A task that has its turn and goes to a step from which it does not run has no
\* critical section open, and then none is.
LEMMA CriticalMove ==
  ASSUME TypeOK, Alone, Critical, NEW t \in Tasks, NEW s \in Steps,
         Turn(t), Goto(t, s), UNCHANGED ints,
         s \in Away => intsOff = 0 \/ nested[t] = 0
  PROVE  Alone' /\ Critical'
  <1>1. running \in Tasks /\ pc \in [Tasks -> Steps]
    BY DEF TypeOK, CpuType, Steps
  <1>2. running' = t /\ pc'[t] = s /\ \A u \in Tasks : u # t => pc'[u] = pc[u]
    BY <1>1 DEF Goto
  <1>3. Alone'
    <2>1. CASE running = t
      BY <1>2, <2>1 DEF Alone
    <2>2. CASE Yielded
      BY <1>1, <1>2, <2>2 DEF Alone, Yielded
    <2>. QED
      BY <2>1, <2>2 DEF Turn
  <1>4. \A u \in Tasks : nested[u] \in Nat
    BY NestAssumption DEF TypeOK, IntsType, Counts
  <1>5. \A u \in Tasks : u # running => nested[u] = 0
    BY <1>4 DEF Critical, CriticalIsExclusive
  <1>6. Yielded => \A u \in Tasks : nested[u] = 0
    BY <1>4 DEF Critical, CriticalIsExclusive
  <1>7. breached \/ intsOff = nested[t]
    <2>1. CASE running = t
      BY <2>1 DEF Critical, CriticalIsExclusive
    <2>2. CASE Yielded
      BY <1>1, <1>6, <2>2 DEF Critical, CriticalIsExclusive
    <2>. QED
      BY <2>1, <2>2 DEF Turn
  <1>8. \A u \in Tasks : u # t => nested[u] = 0
    BY <1>5, <1>6 DEF Turn
  <1>9. nested[t] > 0 => ~Yielded'
    <2>1. breached => nested[t] = 0
      BY DEF Critical
    <2>. QED
      BY <1>2, <1>4, <1>7, <2>1 DEF Yielded, Steps
  <1>10. CriticalIsExclusive'
    <2>1. UNCHANGED <<enabled, intsOff, saved, nested, breached>>
      BY DEF ints, mask
    <2>2. \A u \in Tasks : nested'[u] > 0 => running' = u /\ ~Yielded'
      BY <1>2, <1>4, <1>8, <1>9, <2>1
    <2>. QED
      BY <1>2, <1>7, <2>1, <2>2 DEF Critical, CriticalIsExclusive
  <1>. QED
    BY <1>3, <1>10 DEF Critical, ints, mask

LEMMA CriticalSame ==
  ASSUME Alone, Critical, UNCHANGED <<cpu, ints>>
  PROVE  Alone' /\ Critical'
  BY DEF Alone, Critical, CriticalIsExclusive, Yielded, cpu, ints, mask

\* Wherever the running task yields, its critical section counts no more.
LEMMA YieldCounts ==
  ASSUME IInv, NEW t \in Tasks, running = t, YieldsAnyway(t)
  PROVE  /\ IntsType' /\ \A u \in Tasks : nested'[u] = 0
         /\ breached' \/ intsOff' = 0
         /\ saved' = TRUE /\ enabled' = (intsOff' = 0)
  <1>1. /\ nested \in [Tasks -> Counts] /\ breached \in BOOLEAN
        /\ \A u \in Tasks : nested[u] \in Nat
    BY NestAssumption DEF IInv, TypeOK, IntsType, Counts
  <1>2. UNCHANGED <<enabled, intsOff, saved>>
    BY DEF YieldsAnyway, mask
  <1>3. CASE nested[t] > 0
    <2>1. breached' = TRUE /\ nested' = [u \in Tasks |-> 0]
      BY <1>3 DEF YieldsAnyway
    <2>. QED
      BY <1>2, <2>1, NestAssumption
         DEF IInv, Critical, CriticalIsExclusive, TypeOK, IntsType, Counts
  <1>4. CASE ~(nested[t] > 0)
    <2>1. UNCHANGED <<nested, breached>>
      BY <1>4 DEF YieldsAnyway
    <2>2. \A u \in Tasks : nested[u] = 0
      BY <1>1, <1>4 DEF IInv, Critical, CriticalIsExclusive
    <2>3. breached \/ intsOff = 0
      BY <2>2 DEF IInv, Critical, CriticalIsExclusive
    <2>. QED
      BY <1>2, <2>1, <2>2, <2>3 DEF IInv, Critical, CriticalIsExclusive, TypeOK, IntsType
  <1>. QED
    BY <1>3, <1>4

\* That is a critical state, whichever task runs next.
LEMMA YieldedCritical ==
  ASSUME IInv, NEW t \in Tasks, running = t, running' = t, YieldsAnyway(t)
  PROVE  IntsType' /\ Critical'
  <1>1. /\ IntsType' /\ \A u \in Tasks : nested'[u] = 0
        /\ breached' \/ intsOff' = 0
        /\ saved' = TRUE /\ enabled' = (intsOff' = 0)
    BY YieldCounts
  <1>2. \A u \in Tasks : ~(nested'[u] > 0)
    BY <1>1
  <1>. QED
    BY <1>1, <1>2 DEF Critical, CriticalIsExclusive

LEMMA Moved ==
  ASSUME IInv, NEW t \in Tasks, NEW s \in Steps, NEW j \in Job, Turn(t),
         Goto(t, s), job' = [job EXCEPT ![t] = j],
         UNCHANGED <<kind, ints, inUse, semOf>>,
         s \in Away => intsOff = 0 \/ nested[t] = 0,
         s = "lock" => kind = "mutex" /\ j.obj \in Mutexes \cap inUse,
         s \in {"take", "cas"} => j.obj \in Given,
         s = "cas" => seen'[t] > 0,
         \A u \in Tasks : u # t => seen'[u] = seen[u]
  PROVE  CpuType' /\ IntsType' /\ Alone' /\ Critical' /\ LockWaits' /\ TakeWaits'
  <1>1. CpuType' /\ IntsType'
    BY DEF IInv, TypeOK, CpuType, IntsType, Goto, Steps, ints, mask
  <1>2. Alone' /\ Critical'
    BY CriticalMove DEF IInv
  <1>3. /\ pc'[t] = s /\ job'[t] = j
        /\ \A u \in Tasks : u # t => pc'[u] = pc[u] /\ job'[u] = job[u]
    BY DEF IInv, TypeOK, CpuType, Goto
  <1>4. LockWaits'
    BY <1>3 DEF IInv, LockWaits
  <1>5. Given' = Given
    BY DEF Given
  <1>6. TakeWaits'
    BY <1>3, <1>5 DEF IInv, TakeWaits
  <1>. QED
    BY <1>1, <1>2, <1>4, <1>6

\* A call that returns.
LEMMA Returned ==
  ASSUME IInv, NEW t \in Tasks, Turn(t), Return(t),
         UNCHANGED <<kind, ints, inUse, semOf>>,
         \A u \in Tasks : u # t => seen'[u] = seen[u]
  PROVE  CpuType' /\ IntsType' /\ Alone' /\ Critical' /\ LockWaits' /\ TakeWaits'
  <1>1. "run" \in Steps /\ "run" \notin Away
    BY DEF Steps, Away, Waiting
  <1>2. Goto(t, "run") /\ job' = [job EXCEPT ![t] = NoJob]
    BY DEF Return
  <1>. QED
    BY <1>1, <1>2, NoJobType, Moved

\* A call that changes nothing of where tasks are, and deletes nothing that one
\* waits for.
LEMMA Stayed ==
  ASSUME IInv, UNCHANGED <<kind, cpu, ints, seen>>,
         \A m \in Mutexes \cap inUse : kind = "mutex" /\ WaitedOn(m) => m \in inUse',
         \A o \in Given : WaitedOn(o) => o \in Given'
  PROVE  CpuType' /\ IntsType' /\ Alone' /\ Critical' /\ LockWaits' /\ TakeWaits'
  <1>1. CpuType' /\ IntsType'
    BY DEF IInv, TypeOK, CpuType, IntsType, cpu, ints, mask
  <1>2. Alone' /\ Critical'
    BY CriticalSame DEF IInv
  <1>3. pc' = pc /\ job' = job /\ seen' = seen
    BY DEF cpu
  <1>4. LockWaits'
    BY <1>3 DEF IInv, LockWaits, WaitedOn
  <1>5. TakeWaits'
    BY <1>3 DEF IInv, TakeWaits, WaitedOn
  <1>. QED
    BY <1>1, <1>2, <1>4, <1>5

LEMMA MutexSame ==
  ASSUME IInv, UNCHANGED mutex, \A m \in Mutexes \cap inUse : m \in inUse'
  PROVE  MutexType' /\ MutualExclusion'
  BY DEF IInv, TypeOK, MutexType, MutualExclusion, mutex

LEMMA SemSame ==
  ASSUME IInv, UNCHANGED <<count, balance, semOf>>,
         seen' \in [Tasks -> Counts],
         \A s \in AllSems : s \in inUse' <=> s \in inUse
  PROVE  SemType' /\ OwnSems' /\ CountsKept' /\ Given' = Given
  <1>1. SemType'
    BY DEF IInv, TypeOK, SemType
  <1>2. Given' = Given
    BY DEF Given, AllSems
  <1>3. OwnSems'
    BY DEF IInv, TypeOK, SemType, OwnSems, AllSems
  <1>4. CountsKept'
    BY <1>2 DEF IInv, CountsKept, Slot
  <1>. QED
    BY <1>1, <1>2, <1>3, <1>4

\* The state besides where tasks are and critical sections.
Objects == <<inUse, mutex, sem, bits, semOf>>

LEMMA ObjectsSame ==
  ASSUME IInv, UNCHANGED Objects
  PROVE  /\ MutexType' /\ MutualExclusion' /\ SemType' /\ OwnSems' /\ CountsKept'
         /\ inUse' \subseteq Mutexes \cup AllSems \cup Groups
         /\ bits' \in [Groups -> SUBSET Bits]
  <1>1. MutexType' /\ MutualExclusion'
    BY MutexSame DEF Objects
  <1>2. SemType' /\ OwnSems' /\ CountsKept'
    BY SemSame DEF Objects, sem, IInv, TypeOK, SemType
  <1>. QED
    BY <1>1, <1>2 DEF Objects, IInv, TypeOK

\* A step of a task that changes no object.
LEMMA MovedOnly ==
  ASSUME IInv, NEW t \in Tasks, NEW s \in Steps, NEW j \in Job, Turn(t),
         Goto(t, s), job' = [job EXCEPT ![t] = j], UNCHANGED <<kind, ints, Objects>>,
         s \in Away => intsOff = 0 \/ nested[t] = 0,
         s = "lock" => kind = "mutex" /\ j.obj \in Mutexes \cap inUse,
         s \notin {"take", "cas"}
  PROVE  IInv'
  <1>1. inUse' = inUse /\ semOf' = semOf /\ seen' = seen
    BY DEF Objects, sem
  <1>2. CpuType' /\ IntsType' /\ Alone' /\ Critical' /\ LockWaits' /\ TakeWaits'
    BY <1>1, Moved
  <1>. QED
    BY <1>2, ObjectsSame DEF IInv, TypeOK

LEMMA ReturnedOnly ==
  ASSUME IInv, NEW t \in Tasks, Turn(t), Return(t), UNCHANGED <<kind, ints, Objects>>
  PROVE  IInv'
  <1>1. inUse' = inUse /\ semOf' = semOf /\ seen' = seen
    BY DEF Objects, sem
  <1>2. CpuType' /\ IntsType' /\ Alone' /\ Critical' /\ LockWaits' /\ TakeWaits'
    BY <1>1, Returned
  <1>. QED
    BY <1>2, ObjectsSame DEF IInv, TypeOK

-----------------------------------------------------------------------------
(* The critical section and tasks.                                         *)

LEMMA StepInts ==
  ASSUME IInv, NEW t \in Tasks, IntDisable(t) \/ IntRestore(t)
  PROVE  IInv'
  <1>1. /\ UNCHANGED <<kind, cpu, Objects>> /\ running = t /\ pc[t] = "run"
    BY DEF IntDisable, IntRestore, Objects
  <1>2. pc' = pc /\ job' = job /\ running' = running
    BY <1>1 DEF cpu
  <1>3. /\ ~Yielded /\ \A u \in Tasks : nested[u] \in Counts /\ intsOff \in Counts
        /\ enabled \in BOOLEAN /\ nested \in [Tasks -> Counts]
    BY <1>1 DEF Yielded, Away, Waiting, IInv, TypeOK, IntsType
  <1>4. /\ \A u \in Tasks : nested[u] > 0 => u = t
        /\ breached \/ intsOff = nested[t]
        /\ breached => nested[t] = 0 /\ \A u \in Tasks : nested[u] = 0
        /\ enabled = (intsOff = 0) /\ saved = TRUE /\ breached \in BOOLEAN
    BY <1>1 DEF IInv, Critical, CriticalIsExclusive, TypeOK, IntsType
  <1>5. Yielded' = Yielded
    BY <1>2 DEF Yielded
  <1>6. ASSUME IntDisable(t) PROVE IntsType' /\ Critical'
    <2>1. /\ nested' = (IF breached THEN nested ELSE [nested EXCEPT ![t] = @ + 1])
          /\ intsOff' = intsOff + 1 /\ breached' = breached
          /\ intsOff < MaxNest /\ enabled' = FALSE /\ saved' = TRUE
      BY <1>4, <1>6 DEF IntDisable
    <2>2. intsOff' \in Counts /\ intsOff' # 0
      BY <1>3, <2>1, NestAssumption DEF Counts
    <2>3. CASE breached
      <3>1. nested' = nested /\ breached' = TRUE
        BY <1>4, <2>1, <2>3
      <3>. QED
        BY <1>1, <1>2, <1>3, <1>4, <1>5, <2>1, <2>2, <2>3, <3>1
           DEF IntsType, Critical, CriticalIsExclusive
    <2>4. CASE ~breached
      <3>1. nested[t] = intsOff /\ nested' = [nested EXCEPT ![t] = @ + 1]
        BY <1>4, <2>1, <2>4
      <3>2. nested'[t] = intsOff' /\ \A u \in Tasks : u # t => nested'[u] = nested[u]
        BY <1>3, <2>1, <3>1
      <3>3. nested' \in [Tasks -> Counts]
        BY <1>3, <2>1, <2>2, <3>1
      <3>. QED
        BY <1>1, <1>2, <1>3, <1>4, <1>5, <2>1, <2>2, <2>4, <3>2, <3>3
           DEF IntsType, Critical, CriticalIsExclusive
    <2>. QED
      BY <2>3, <2>4
  <1>7. ASSUME IntRestore(t) PROVE IntsType' /\ Critical'
    <2>1. /\ nested' = [nested EXCEPT ![t] = IF @ = 0 THEN 0 ELSE @ - 1]
          /\ intsOff' = (IF intsOff = 0 THEN 0 ELSE intsOff - 1)
          /\ enabled' = (IF intsOff = 1 THEN TRUE ELSE enabled) /\ saved' = TRUE
          /\ breached' = (IF intsOff' = 0 THEN FALSE ELSE breached)
      BY <1>4, <1>7 DEF IntRestore
    <2>2. /\ intsOff' \in Counts
          /\ (IF nested[t] = 0 THEN 0 ELSE nested[t] - 1) \in Counts
      BY <1>3, <2>1, NestAssumption DEF Counts
    <2>3. nested' \in [Tasks -> Counts] /\ breached' \in BOOLEAN
      BY <1>3, <1>4, <2>1, <2>2
    <2>4. /\ nested'[t] = (IF nested[t] = 0 THEN 0 ELSE nested[t] - 1)
          /\ \A u \in Tasks : u # t => nested'[u] = nested[u]
      BY <1>3, <2>1
    <2>5. breached' => breached /\ \A u \in Tasks : nested'[u] = 0
      BY <1>4, <2>1, <2>4
    <2>6. breached' \/ intsOff' = nested'[t]
      <3>1. CASE breached
        BY <1>4, <2>1, <2>4, <3>1
      <3>2. CASE ~breached
        BY <1>4, <2>1, <2>4, <3>2
      <3>. QED
        BY <3>1, <3>2
    <2>7. intsOff' = 0 <=> intsOff = 0 \/ intsOff = 1
      BY <1>3, <2>1, NestAssumption DEF Counts
    <2>8. enabled <=> intsOff = 0
      BY <1>4
    <2>9. enabled' \in BOOLEAN /\ (enabled' <=> intsOff' = 0)
      BY <1>3, <2>1, <2>7, <2>8
    <2>10. enabled' = (intsOff' = 0)
      BY <2>9
    <2>11. IntsType'
      BY <2>1, <2>2, <2>3, <2>9 DEF IntsType
    <2>12. \A u \in Tasks : nested'[u] > 0 => u = t
      BY <1>4, <2>4
    <2>13. Critical'
      BY <1>1, <1>2, <1>3, <1>5, <2>1, <2>5, <2>6, <2>10, <2>12
         DEF Critical, CriticalIsExclusive
    <2>. QED
      BY <2>11, <2>13
  <1>8. IntsType' /\ Critical'
    BY <1>6, <1>7
  <1>9. seen' = seen /\ semOf' = semOf /\ inUse' = inUse
    BY <1>1 DEF Objects, sem
  <1>10. Given' = Given
    BY <1>9 DEF Given
  <1>11. Alone' /\ LockWaits' /\ TakeWaits' /\ CpuType'
    BY <1>1, <1>2, <1>9, <1>10 DEF IInv, Alone, LockWaits, TakeWaits, TypeOK, CpuType
  <1>. QED
    BY <1>1, <1>8, <1>11, ObjectsSame DEF IInv, TypeOK

\* A task that yields, with interrupts on or not.
LEMMA WentAway ==
  ASSUME IInv, NEW t \in Tasks, NEW s \in {"sleep", "ended"}, running = t,
         YieldsAnyway(t), Goto(t, s), UNCHANGED <<kind, job, Objects>>
  PROVE  IInv'
  <1>1. IntsType' /\ Critical'
    BY YieldedCritical DEF Goto
  <1>2. /\ pc \in [Tasks -> Steps] /\ job \in [Tasks -> Job] /\ s \in Steps
        /\ s \in Away /\ s \notin {"lock", "take", "cas"}
    BY DEF IInv, TypeOK, CpuType, Steps, Away, Waiting
  <1>3. /\ running' = t /\ pc' = [pc EXCEPT ![t] = s] /\ pc'[t] = s /\ job' = job
        /\ \A u \in Tasks : u # t => pc'[u] = pc[u]
    BY <1>2 DEF Goto
  <1>4. CpuType'
    BY <1>2, <1>3 DEF CpuType, Steps
  <1>5. Alone'
    BY <1>2, <1>3 DEF IInv, Alone
  <1>6. seen' = seen /\ semOf' = semOf /\ inUse' = inUse
    BY DEF Objects, sem
  <1>7. Given' = Given
    BY <1>6 DEF Given
  <1>8. LockWaits' /\ TakeWaits'
    BY <1>2, <1>3, <1>6, <1>7 DEF IInv, LockWaits, TakeWaits
  <1>. QED
    BY <1>1, <1>4, <1>5, <1>8, ObjectsSame DEF IInv, TypeOK

LEMMA StepSleep ==
  ASSUME IInv, NEW t \in Tasks, Sleep(t) \/ Wake(t) \/ TaskBegins(t) \/ TaskEnds(t)
  PROVE  IInv'
  <1>1. job[t] \in Job /\ job' = [job EXCEPT ![t] = job[t]] /\ job' = job
    BY DEF IInv, TypeOK, CpuType, Sleep, Wake, TaskBegins, TaskEnds
  <1>2. UNCHANGED <<kind, Objects>>
    BY DEF Sleep, Wake, TaskBegins, TaskEnds, Objects
  <1>3. CASE Sleep(t)
    BY <1>1, <1>2, <1>3, WentAway DEF Sleep
  <1>4. CASE Wake(t) \/ TaskBegins(t)
    <2>1. Goto(t, "run") /\ Turn(t) /\ UNCHANGED ints
      BY <1>4 DEF Wake, TaskBegins
    <2>2. "run" \notin Away /\ "run" \in Steps
      BY DEF Steps, Away, Waiting
    <2>. QED
      BY <1>1, <1>2, <2>1, <2>2, MovedOnly
  <1>5. CASE TaskEnds(t)
    BY <1>1, <1>2, <1>5, WentAway DEF TaskEnds, Calls
  <1>. QED
    BY <1>3, <1>4, <1>5

LEMMA StepTaskCreate ==
  ASSUME IInv, NEW t \in Tasks, NEW u \in Tasks, TaskCreate(t, u)
  PROVE  IInv'
  <1>1. /\ running = t /\ pc[t] = "run" /\ YieldsAnyway(t) /\ pc[u] = "ended"
        /\ running' = t /\ UNCHANGED <<kind, Objects>>
        /\ pc' = [pc EXCEPT ![t] = "spawn", ![u] = "new"]
        /\ job' = [job EXCEPT ![t].obj = u]
    BY DEF TaskCreate, Calls, Objects
  <1>2. t # u /\ pc \in [Tasks -> Steps] /\ job \in [Tasks -> Job] /\ job[t] \in Job
    BY <1>1 DEF IInv, TypeOK, CpuType, Steps
  <1>3. /\ pc'[t] = "spawn" /\ pc'[u] = "new" /\ {"spawn", "new"} \subseteq Away
        /\ \A v \in Tasks : v \notin {t, u} => pc'[v] = pc[v]
        /\ \A v \in Tasks : v # t => job'[v] = job[v]
    BY <1>1, <1>2 DEF Away, Waiting
  <1>4. CpuType'
    <2>1. pc' \in [Tasks -> Steps]
      BY <1>1, <1>2 DEF Steps, Away, Waiting
    <2>2. [job[t] EXCEPT !.obj = u] \in Job
      BY <1>2 DEF Job
    <2>3. job' \in [Tasks -> Job]
      BY <1>1, <1>2, <2>2
    <2>. QED
      BY <1>1, <2>1, <2>3 DEF CpuType, Steps
  <1>5. Alone'
    BY <1>1, <1>3 DEF IInv, Alone
  <1>6. IntsType' /\ Critical'
    BY <1>1, YieldedCritical
  <1>7. seen' = seen /\ semOf' = semOf /\ inUse' = inUse /\ kind' = kind
    BY <1>1 DEF Objects, sem
  <1>8. Given' = Given
    BY <1>7 DEF Given
  <1>9. LockWaits' /\ TakeWaits'
    BY <1>3, <1>7, <1>8 DEF IInv, LockWaits, TakeWaits
  <1>. QED
    BY <1>1, <1>4, <1>5, <1>6, <1>9, ObjectsSame DEF IInv, TypeOK

\* The semaphore a task is given is nobody else's.
LEMMA StepThreadSemGet ==
  ASSUME IInv, NEW t \in Tasks, ThreadSemGet(t)
  PROVE  IInv'
  <1>1. /\ semOf[t] = None /\ balance' = [balance EXCEPT ![t] = 0]
        /\ UNCHANGED <<kind, cpu, ints, mutex, seen, bits>>
    BY DEF ThreadSemGet
  <1>2. PICK s \in ThreadSems \ inUse :
          /\ inUse' = inUse \cup {s} /\ semOf' = [semOf EXCEPT ![t] = s]
          /\ count' = [count EXCEPT ![s] = 0]
    BY DEF ThreadSemGet
  <1>3. /\ s \in AllSems /\ s \notin Sems /\ s # None /\ s \notin inUse
    BY <1>2, SlotAssumption DEF AllSems
  <1>4. /\ semOf \in [Tasks -> ThreadSems \cup {None}] /\ count \in [AllSems -> Counts]
        /\ balance \in [Sems \cup Tasks -> Int]
    BY DEF IInv, TypeOK, SemType
  <1>5. /\ semOf'[t] = s /\ \A u \in Tasks : u # t => semOf'[u] = semOf[u]
        /\ count'[s] = 0 /\ \A r \in AllSems : r # s => count'[r] = count[r]
        /\ balance'[t] = 0 /\ \A o \in Sems \cup Tasks : o # t => balance'[o] = balance[o]
    BY <1>1, <1>2, <1>3, <1>4
  <1>6. Given' = Given \cup {t} /\ t \notin Given
    BY <1>1, <1>2, <1>3, <1>5, PoolAssumption DEF Given, AllSems
  <1>7. CpuType' /\ IntsType' /\ Alone' /\ Critical' /\ LockWaits' /\ TakeWaits'
    BY <1>1, <1>2, <1>6, Stayed
  <1>8. MutexType' /\ MutualExclusion'
    BY <1>1, <1>2, MutexSame
  <1>9. SemType'
    BY <1>1, <1>2, <1>3, <1>4, NestAssumption DEF IInv, TypeOK, SemType, Counts
  <1>10. \A u \in Tasks : semOf[u] # s
    BY <1>3 DEF IInv, OwnSems
  <1>11. OwnSems'
    BY <1>2, <1>5, <1>10 DEF IInv, OwnSems
  <1>12. CountsKept'
    <2>1. ASSUME NEW o \in Given PROVE count'[Slot(o)'] = balance'[o]
      <3>1. o # t /\ o \in Sems \cup Tasks /\ Slot(o) \in AllSems /\ Slot(o) \in inUse
        BY <1>6, <2>1, GivenSlots DEF IInv
      <3>2. Slot(o)' = Slot(o) /\ Slot(o) # s
        BY <1>3, <1>5, <3>1 DEF Slot
      <3>. QED
        BY <1>5, <2>1, <3>1, <3>2 DEF IInv, CountsKept
    <2>2. Slot(t)' = s
      BY <1>5 DEF Slot
    <2>. QED
      BY <1>5, <1>6, <2>1, <2>2 DEF CountsKept
  <1>13. inUse' \subseteq Mutexes \cup AllSems \cup Groups /\ bits' = bits /\ kind' = kind
    BY <1>1, <1>2, <1>3 DEF IInv, TypeOK
  <1>. QED
    BY <1>7, <1>8, <1>9, <1>11, <1>12, <1>13 DEF IInv, TypeOK

LEMMA StepTaskDelete ==
  ASSUME IInv, NEW t \in Tasks, NEW u \in Tasks, TaskDelete(t, u)
  PROVE  IInv'
  <1>1. /\ kind = "task" /\ semOf[u] # None /\ ~WaitedOn(u)
        /\ inUse' = inUse \ {semOf[u]} /\ semOf' = [semOf EXCEPT ![u] = None]
        /\ balance' = [balance EXCEPT ![u] = 0]
        /\ UNCHANGED <<kind, cpu, ints, mutex, count, seen, bits>>
    BY DEF TaskDelete, Calls
  <1>2. /\ semOf \in [Tasks -> ThreadSems \cup {None}]
        /\ balance \in [Sems \cup Tasks -> Int]
    BY DEF IInv, TypeOK, SemType
  <1>3. /\ semOf[u] \in ThreadSems /\ semOf'[u] = None
        /\ \A v \in Tasks : v # u => semOf'[v] = semOf[v]
        /\ \A o \in Sems \cup Tasks : o # u => balance'[o] = balance[o]
    BY <1>1, <1>2
  <1>4. Given' = Given \ {u}
    BY <1>1, <1>3, SlotAssumption, PoolAssumption DEF Given
  <1>5. CpuType' /\ IntsType' /\ Alone' /\ Critical' /\ LockWaits' /\ TakeWaits'
    <2>1. \A o \in Given : WaitedOn(o) => o \in Given'
      BY <1>1, <1>4
    <2>. QED
      BY <1>1, <2>1, Stayed
  <1>6. MutexType' /\ MutualExclusion'
    <2>1. \A m \in Mutexes \cap inUse : m \in inUse'
      BY <1>1, <1>3, PoolAssumption
    <2>. QED
      BY <1>1, <2>1, MutexSame
  <1>7. SemType'
    BY <1>1, <1>2 DEF IInv, TypeOK, SemType
  <1>8. OwnSems'
    BY <1>1, <1>3 DEF IInv, OwnSems
  <1>9. CountsKept'
    <2>1. ASSUME NEW o \in Given, o # u PROVE count'[Slot(o)'] = balance'[o]
      <3>1. o \in Sems \cup Tasks
        BY GivenSlots DEF IInv
      <3>2. Slot(o)' = Slot(o)
        BY <1>3, <2>1 DEF Slot
      <3>. QED
        BY <1>1, <1>3, <2>1, <3>1, <3>2 DEF IInv, CountsKept
    <2>. QED
      BY <1>4, <2>1 DEF CountsKept
  <1>10. inUse' \subseteq Mutexes \cup AllSems \cup Groups /\ bits' = bits /\ kind' = kind
    BY <1>1 DEF IInv, TypeOK
  <1>. QED
    BY <1>5, <1>6, <1>7, <1>8, <1>9, <1>10 DEF IInv, TypeOK

-----------------------------------------------------------------------------
(* Mutexes.                                                                *)

LEMMA StepMutexCreate ==
  ASSUME IInv, NEW t \in Tasks, NEW m \in Mutexes, MutexCreate(t, m)
  PROVE  IInv'
  <1>1. inUse' = inUse \cup {m} /\ UNCHANGED <<kind, cpu, ints, mutex, sem, bits, semOf>>
    BY DEF MutexCreate
  <1>2. seen' = seen /\ count' = count /\ balance' = balance
    BY <1>1 DEF sem
  <1>3. \A s \in AllSems : s \in inUse' <=> s \in inUse
    BY <1>1, PoolAssumption DEF AllSems
  <1>4. SemType' /\ OwnSems' /\ CountsKept' /\ Given' = Given
    BY <1>1, <1>2, <1>3, SemSame DEF IInv, TypeOK, SemType
  <1>5. CpuType' /\ IntsType' /\ Alone' /\ Critical' /\ LockWaits' /\ TakeWaits'
    BY <1>1, <1>2, <1>4, Stayed
  <1>6. MutexType' /\ MutualExclusion'
    BY <1>1, MutexSame
  <1>. QED
    BY <1>1, <1>4, <1>5, <1>6 DEF IInv, TypeOK

LEMMA StepMutexDelete ==
  ASSUME IInv, NEW t \in Tasks, NEW m \in Mutexes, MutexDelete(t, m)
  PROVE  IInv'
  <1>1. /\ inUse' = inUse \ {m} /\ depth[m] = 0 /\ ~WaitedOn(m)
        /\ owner' = [owner EXCEPT ![m] = None] /\ depth' = [depth EXCEPT ![m] = 0]
        /\ UNCHANGED <<kind, cpu, ints, holds, sem, bits, semOf>>
    BY DEF MutexDelete
  <1>2. seen' = seen /\ count' = count /\ balance' = balance
    BY <1>1 DEF sem
  <1>3. \A s \in AllSems : s \in inUse' <=> s \in inUse
    BY <1>1, PoolAssumption DEF AllSems
  <1>4. SemType' /\ OwnSems' /\ CountsKept' /\ Given' = Given
    BY <1>1, <1>2, <1>3, SemSame DEF IInv, TypeOK, SemType
  <1>5. CpuType' /\ IntsType' /\ Alone' /\ Critical' /\ LockWaits' /\ TakeWaits'
    BY <1>1, <1>2, <1>4, Stayed
  <1>6. MutexType'
    BY <1>1, NestAssumption DEF IInv, TypeOK, MutexType, Counts
  <1>7. MutualExclusion'
    BY <1>1, TaskAssumption DEF IInv, MutualExclusion, TypeOK, MutexType
  <1>. QED
    BY <1>1, <1>4, <1>5, <1>6, <1>7 DEF IInv, TypeOK

LEMMA StepTryLock ==
  ASSUME IInv, NEW t \in Tasks, NEW m \in Mutexes, Turn(t), TryLock(t, m),
         m \in inUse, kind = "mutex"
  PROVE  IInv'
  <1>1. CASE Acquire(t, m)
    <2>1. /\ Free(t, m) /\ depth[m] < MaxNest /\ Return(t)
          /\ owner' = [owner EXCEPT ![m] = t] /\ depth' = [depth EXCEPT ![m] = @ + 1]
          /\ holds' = [holds EXCEPT ![t][m] = @ + 1]
          /\ UNCHANGED <<kind, ints, inUse, sem, bits, semOf>>
      BY <1>1 DEF Acquire
    <2>2. seen' = seen /\ count' = count /\ balance' = balance
      BY <2>1 DEF sem
    <2>3. CpuType' /\ IntsType' /\ Alone' /\ Critical' /\ LockWaits' /\ TakeWaits'
      BY <2>1, <2>2, Returned
    <2>4. SemType' /\ OwnSems' /\ CountsKept'
      BY <2>1, <2>2, SemSame DEF IInv, TypeOK, SemType
    <2>5. /\ owner \in [Mutexes -> Tasks \cup {None}] /\ depth \in [Mutexes -> Counts]
          /\ holds \in [Tasks -> [Mutexes -> Nat]]
      BY DEF IInv, TypeOK, MutexType
    <2>6. depth[m] + 1 \in Counts /\ holds[t][m] + 1 \in Nat /\ depth[m] \in Nat
      BY <2>1, <2>5, NestAssumption DEF Counts
    <2>7. MutexType'
      BY <2>1, <2>5, <2>6 DEF MutexType
    <2>8. /\ owner'[m] = t /\ depth'[m] = depth[m] + 1 /\ holds'[t][m] = holds[t][m] + 1
          /\ \A n \in Mutexes : n # m => owner'[n] = owner[n] /\ depth'[n] = depth[n]
          /\ \A u \in Tasks, n \in Mutexes : u # t \/ n # m => holds'[u][n] = holds[u][n]
      BY <2>1, <2>5
    <2>9. ASSUME NEW u \in Tasks
          PROVE  holds'[u][m] = IF owner'[m] = u THEN depth'[m] ELSE 0
      <3>1. holds[u][m] = IF owner[m] = u THEN depth[m] ELSE 0
        BY DEF IInv, MutualExclusion
      <3>2. depth[m] = 0 \/ owner[m] = t
        BY <2>1 DEF Free
      <3>. QED
        BY <2>6, <2>8, <3>1, <3>2
    <2>10. MutualExclusion'
      BY <2>1, <2>6, <2>8, <2>9 DEF IInv, MutualExclusion
    <2>. QED
      BY <2>1, <2>3, <2>4, <2>7, <2>10 DEF IInv, TypeOK
  <1>2. CASE /\ ~Free(t, m) /\ UNCHANGED <<kind, ints, inUse, mutex, sem, bits, semOf>>
             /\ IF intsOff > 0 THEN Return(t)
                ELSE Goto(t, "lock") /\ job' = [job EXCEPT ![t].obj = m]
    <2>1. UNCHANGED <<kind, ints, Objects>>
      BY <1>2 DEF Objects
    <2>2. CASE intsOff > 0
      BY <1>2, <2>1, <2>2, ReturnedOnly
    <2>3. CASE ~(intsOff > 0)
      <3>1. intsOff = 0
        BY <2>3, NestAssumption DEF IInv, TypeOK, IntsType, Counts
      <3>2. "lock" \in Steps /\ job \in [Tasks -> Job]
        BY DEF Steps, Away, Waiting, IInv, TypeOK, CpuType
      <3>3. [job[t] EXCEPT !.obj = m] \in Job /\ [job[t] EXCEPT !.obj = m].obj = m
        BY <3>2 DEF Job
      <3>4. Goto(t, "lock") /\ job' = [job EXCEPT ![t] = [job[t] EXCEPT !.obj = m]]
        BY <1>2, <2>3, <3>2
      <3>. QED
        BY <2>1, <3>1, <3>2, <3>3, <3>4, MovedOnly
    <2>. QED
      BY <2>2, <2>3
  <1>. QED
    BY <1>1, <1>2 DEF TryLock

LEMMA StepLock ==
  ASSUME IInv, NEW t \in Tasks,
         \/ \E m \in Mutexes : Lock(t, m)
         \/ LockAgain(t) \/ LockTimeout(t)
  PROVE  IInv'
  <1>1. ASSUME NEW m \in Mutexes, Lock(t, m) PROVE IInv'
    BY <1>1, StepTryLock DEF Lock, Calls, Turn
  <1>2. CASE LockAgain(t)
    BY <1>2, StepTryLock DEF LockAgain, IInv, LockWaits
  <1>3. CASE LockTimeout(t)
    BY <1>3, ReturnedOnly DEF LockTimeout, Objects
  <1>. QED
    BY <1>1, <1>2, <1>3

LEMMA StepUnlock ==
  ASSUME IInv, NEW t \in Tasks, NEW m \in Mutexes, Unlock(t, m)
  PROVE  IInv'
  <1>1. /\ m \in inUse /\ depth[m] > 0 /\ owner[m] = t
        /\ depth' = [depth EXCEPT ![m] = @ - 1]
        /\ owner' = [owner EXCEPT ![m] = IF depth[m] = 1 THEN None ELSE @]
        /\ holds' = [holds EXCEPT ![t][m] = @ - 1]
        /\ UNCHANGED <<kind, cpu, ints, inUse, sem, bits, semOf>>
    BY DEF Unlock
  <1>2. seen' = seen /\ count' = count /\ balance' = balance
    BY <1>1 DEF sem
  <1>3. SemType' /\ OwnSems' /\ CountsKept' /\ Given' = Given
    BY <1>1, <1>2, SemSame DEF IInv, TypeOK, SemType
  <1>4. CpuType' /\ IntsType' /\ Alone' /\ Critical' /\ LockWaits' /\ TakeWaits'
    BY <1>1, <1>2, <1>3, Stayed
  <1>5. /\ owner \in [Mutexes -> Tasks \cup {None}] /\ depth \in [Mutexes -> Counts]
        /\ holds \in [Tasks -> [Mutexes -> Nat]] /\ holds[t][m] = depth[m]
    BY <1>1 DEF IInv, TypeOK, MutexType, MutualExclusion
  <1>6. depth[m] - 1 \in Counts /\ depth[m] - 1 \in Nat /\ depth[m] \in Nat
    BY <1>1, <1>5, NestAssumption DEF Counts
  <1>7. MutexType'
    BY <1>1, <1>5, <1>6 DEF MutexType
  <1>8. /\ owner'[m] = (IF depth[m] = 1 THEN None ELSE t)
        /\ depth'[m] = depth[m] - 1 /\ holds'[t][m] = depth[m] - 1
        /\ \A n \in Mutexes : n # m => owner'[n] = owner[n] /\ depth'[n] = depth[n]
        /\ \A u \in Tasks, n \in Mutexes : u # t \/ n # m => holds'[u][n] = holds[u][n]
    BY <1>1, <1>5
  <1>9. ASSUME NEW u \in Tasks
        PROVE  holds'[u][m] = IF owner'[m] = u THEN depth'[m] ELSE 0
    <2>1. holds[u][m] = IF owner[m] = u THEN depth[m] ELSE 0
      BY DEF IInv, MutualExclusion
    <2>2. u # None /\ t # None
      BY TaskAssumption
    <2>. QED
      BY <1>1, <1>6, <1>8, <2>1, <2>2
  <1>10. depth'[m] > 0 => owner'[m] \in Tasks
    BY <1>6, <1>8
  <1>11. MutualExclusion'
    BY <1>1, <1>8, <1>9, <1>10 DEF IInv, MutualExclusion
  <1>. QED
    BY <1>1, <1>3, <1>4, <1>7, <1>11 DEF IInv, TypeOK

LEMMA StepTaskCreated ==
  ASSUME IInv, NEW t \in Tasks, TaskCreated(t)
  PROVE  IInv'
  BY ReturnedOnly DEF TaskCreated, Objects

-----------------------------------------------------------------------------
(* Semaphores.                                                             *)

\* A semaphore's count and its balance change alike.
LEMMA CountMove ==
  ASSUME IInv, NEW o \in Given, NEW k \in Counts,
         count' = [count EXCEPT ![Slot(o)] = k],
         balance' = [balance EXCEPT ![o] = k],
         seen' \in [Tasks -> Counts], UNCHANGED <<inUse, semOf>>
  PROVE  SemType' /\ OwnSems' /\ CountsKept' /\ Given' = Given
  <1>1. /\ count \in [AllSems -> Counts] /\ balance \in [Sems \cup Tasks -> Int]
        /\ semOf \in [Tasks -> ThreadSems \cup {None}]
    BY DEF IInv, TypeOK, SemType
  <1>2. o \in Sems \cup Tasks /\ Slot(o) \in AllSems /\ k \in Int
    BY GivenSlots DEF IInv, Counts
  <1>3. SemType'
    BY <1>1, <1>2 DEF SemType
  <1>4. Given' = Given /\ OwnSems'
    BY DEF Given, OwnSems, IInv
  <1>5. ASSUME NEW p \in Given PROVE count'[Slot(p)'] = balance'[p]
    <2>1. /\ p \in Sems \cup Tasks /\ Slot(p) \in AllSems
          /\ Slot(p) = Slot(o) => p = o /\ Slot(p)' = Slot(p)
      BY GivenSlots DEF IInv, Slot
    <2>2. count[Slot(p)] = balance[p] /\ Slot(p)' = Slot(p)
      BY DEF IInv, CountsKept, Slot
    <2>. QED
      BY <1>1, <1>2, <2>1, <2>2
  <1>6. CountsKept'
    BY <1>4, <1>5 DEF CountsKept
  <1>. QED
    BY <1>3, <1>4, <1>6

\* The same, in a step that moves no task.
LEMMA CountOnly ==
  ASSUME IInv, NEW o \in Given, NEW k \in Counts,
         count' = [count EXCEPT ![Slot(o)] = k],
         balance' = [balance EXCEPT ![o] = k],
         UNCHANGED <<kind, cpu, ints, inUse, mutex, seen, bits, semOf>>
  PROVE  IInv'
  <1>1. seen' \in [Tasks -> Counts]
    BY DEF IInv, TypeOK, SemType
  <1>2. SemType' /\ OwnSems' /\ CountsKept' /\ Given' = Given
    BY <1>1, CountMove
  <1>3. CpuType' /\ IntsType' /\ Alone' /\ Critical' /\ LockWaits' /\ TakeWaits'
    BY <1>2, Stayed
  <1>4. MutexType' /\ MutualExclusion'
    BY MutexSame
  <1>. QED
    BY <1>2, <1>3, <1>4 DEF IInv, TypeOK

LEMMA CountOf ==
  ASSUME IInv, NEW o \in Given
  PROVE  /\ o \in Sems \cup Tasks /\ Slot(o) \in AllSems
         /\ count[Slot(o)] = balance[o] /\ count[Slot(o)] \in Counts
         /\ o \in Sems => Slot(o) = o
  <1>1. o \in Sems \cup Tasks /\ Slot(o) \in AllSems
    BY GivenSlots DEF IInv
  <1>2. count[Slot(o)] \in Counts
    BY <1>1 DEF IInv, TypeOK, SemType
  <1>3. o \in Sems => Slot(o) = o
    BY PoolAssumption DEF Slot, AllSems
  <1>. QED
    BY <1>1, <1>2, <1>3 DEF IInv, CountsKept

LEMMA StepGive ==
  ASSUME IInv, NEW o, AddOne(o)
  PROVE  IInv'
  <1>1. /\ o \in Given /\ count[Slot(o)] < MaxNest
        /\ count' = [count EXCEPT ![Slot(o)] = @ + 1]
        /\ balance' = [balance EXCEPT ![o] = @ + 1]
        /\ UNCHANGED <<kind, cpu, ints, inUse, mutex, seen, bits, semOf>>
    BY DEF AddOne
  <1>2. count[Slot(o)] = balance[o] /\ count[Slot(o)] \in Counts
    BY <1>1, CountOf
  <1>3. count[Slot(o)] + 1 \in Counts
    BY <1>1, <1>2, NestAssumption DEF Counts
  <1>4. /\ count' = [count EXCEPT ![Slot(o)] = count[Slot(o)] + 1]
        /\ balance' = [balance EXCEPT ![o] = count[Slot(o)] + 1]
    BY <1>1, <1>2
  <1>. QED
    BY <1>1, <1>3, <1>4, CountOnly

LEMMA StepIsrTake ==
  ASSUME IInv, NEW s \in Sems, IsrTake(s)
  PROVE  IInv'
  <1>1. /\ s \in Given /\ count[s] > 0
        /\ count' = [count EXCEPT ![s] = @ - 1]
        /\ balance' = [balance EXCEPT ![s] = @ - 1]
        /\ UNCHANGED <<kind, cpu, ints, inUse, mutex, seen, bits, semOf>>
    BY DEF IsrTake
  <1>2. count[s] = balance[s] /\ count[s] \in Counts /\ Slot(s) = s
    BY <1>1, CountOf
  <1>3. count[s] - 1 \in Counts
    BY <1>1, <1>2, NestAssumption DEF Counts
  <1>4. /\ count' = [count EXCEPT ![Slot(s)] = count[s] - 1]
        /\ balance' = [balance EXCEPT ![s] = count[s] - 1]
    BY <1>1, <1>2
  <1>. QED
    BY <1>1, <1>3, <1>4, CountOnly

LEMMA StepSemCreate ==
  ASSUME IInv, NEW t \in Tasks, NEW s \in Sems, NEW n \in 0..1, SemCreate(t, s, n)
  PROVE  IInv'
  <1>1. /\ s \notin inUse /\ inUse' = inUse \cup {s}
        /\ count' = [count EXCEPT ![s] = n] /\ balance' = [balance EXCEPT ![s] = n]
        /\ UNCHANGED <<kind, cpu, ints, mutex, seen, bits, semOf>>
    BY DEF SemCreate
  <1>2. s \in AllSems /\ s \notin Tasks /\ s \notin ThreadSems
    BY SlotAssumption, PoolAssumption DEF AllSems
  <1>3. n \in Counts /\ n \in Int
    BY NestAssumption DEF Counts
  <1>4. /\ count \in [AllSems -> Counts] /\ balance \in [Sems \cup Tasks -> Int]
        /\ semOf \in [Tasks -> ThreadSems \cup {None}]
    BY DEF IInv, TypeOK, SemType
  <1>5. Given' = Given \cup {s} /\ s \notin Given
    BY <1>1, <1>2 DEF Given
  <1>6. CpuType' /\ IntsType' /\ Alone' /\ Critical' /\ LockWaits' /\ TakeWaits'
    BY <1>1, <1>5, Stayed
  <1>7. MutexType' /\ MutualExclusion'
    BY <1>1, MutexSame
  <1>8. SemType'
    BY <1>1, <1>3, <1>4 DEF IInv, TypeOK, SemType
  <1>9. OwnSems'
    BY <1>1 DEF IInv, OwnSems
  <1>10. CountsKept'
    <2>1. ASSUME NEW o \in Given PROVE count'[Slot(o)'] = balance'[o]
      <3>1. o # s /\ o \in Sems \cup Tasks /\ Slot(o) \in AllSems /\ Slot(o) # s
        BY <1>1, <1>5, GivenSlots DEF IInv
      <3>2. Slot(o)' = Slot(o)
        BY <1>1 DEF Slot
      <3>. QED
        BY <1>1, <1>4, <3>1, <3>2 DEF IInv, CountsKept
    <2>2. Slot(s)' = s
      BY <1>2 DEF Slot
    <2>3. count'[s] = n /\ balance'[s] = n
      BY <1>1, <1>2, <1>4
    <2>. QED
      BY <1>5, <2>1, <2>2, <2>3 DEF CountsKept
  <1>11. inUse' \subseteq Mutexes \cup AllSems \cup Groups
    BY <1>1, <1>2 DEF IInv, TypeOK
  <1>. QED
    BY <1>1, <1>6, <1>7, <1>8, <1>9, <1>10, <1>11 DEF IInv, TypeOK

LEMMA StepSemDelete ==
  ASSUME IInv, NEW t \in Tasks, NEW s \in Sems, SemDelete(t, s)
  PROVE  IInv'
  <1>1. /\ s \in inUse /\ ~WaitedOn(s) /\ inUse' = inUse \ {s}
        /\ count' = [count EXCEPT ![s] = 0] /\ balance' = [balance EXCEPT ![s] = 0]
        /\ UNCHANGED <<kind, cpu, ints, mutex, seen, bits, semOf>>
    BY DEF SemDelete
  <1>2. s \in AllSems /\ s \notin Tasks /\ s \notin ThreadSems /\ s \notin Mutexes
    BY SlotAssumption, PoolAssumption DEF AllSems
  <1>3. 0 \in Counts
    BY NestAssumption DEF Counts
  <1>4. /\ count \in [AllSems -> Counts] /\ balance \in [Sems \cup Tasks -> Int]
        /\ semOf \in [Tasks -> ThreadSems \cup {None}]
    BY DEF IInv, TypeOK, SemType
  <1>5. Given' = Given \ {s} /\ s \in Given
    BY <1>1, <1>2 DEF Given
  <1>6. CpuType' /\ IntsType' /\ Alone' /\ Critical' /\ LockWaits' /\ TakeWaits'
    <2>1. /\ \A m \in Mutexes \cap inUse : m \in inUse'
          /\ \A o \in Given : WaitedOn(o) => o \in Given'
      BY <1>1, <1>2, <1>5
    <2>. QED
      BY <1>1, <2>1, Stayed
  <1>7. MutexType' /\ MutualExclusion'
    BY <1>1, <1>2, MutexSame
  <1>8. SemType'
    <2>1. count' \in [AllSems -> Counts] /\ balance' \in [Sems \cup Tasks -> Int]
      BY <1>1, <1>2, <1>3, <1>4
    <2>. QED
      BY <1>1, <2>1 DEF IInv, TypeOK, SemType
  <1>9. OwnSems'
    BY <1>1, <1>2, <1>4 DEF IInv, OwnSems
  <1>10. CountsKept'
    <2>1. ASSUME NEW o \in Given, o # s PROVE count'[Slot(o)'] = balance'[o]
      <3>1. o \in Sems \cup Tasks /\ Slot(o) \in AllSems
        BY GivenSlots DEF IInv
      <3>2. Slot(s) = s /\ Slot(o) # s /\ Slot(o)' = Slot(o)
        BY <1>1, <1>2, <1>5, <2>1, GivenSlots DEF IInv, Slot
      <3>. QED
        BY <1>1, <1>4, <2>1, <3>1, <3>2 DEF IInv, CountsKept
    <2>. QED
      BY <1>5, <2>1 DEF CountsKept
  <1>11. inUse' \subseteq Mutexes \cup AllSems \cup Groups
    BY <1>1 DEF IInv, TypeOK
  <1>. QED
    BY <1>1, <1>6, <1>7, <1>8, <1>9, <1>10, <1>11 DEF IInv, TypeOK

\* What is left of a step that neither gives nor takes.
LEMMA LoadedRest ==
  ASSUME IInv, NEW t \in Tasks, NEW k \in Counts, seen' = [seen EXCEPT ![t] = k], Unchanged
  PROVE  /\ MutexType' /\ MutualExclusion' /\ SemType' /\ OwnSems' /\ CountsKept'
         /\ UNCHANGED <<kind, ints, inUse, semOf, bits>>
         /\ \A u \in Tasks : u # t => seen'[u] = seen[u]
         /\ seen'[t] = k
  <1>1. UNCHANGED <<kind, ints, inUse, mutex, count, balance, bits, semOf>>
    BY DEF Unchanged
  <1>2. seen \in [Tasks -> Counts] /\ seen' \in [Tasks -> Counts]
    BY DEF IInv, TypeOK, SemType
  <1>3. SemType' /\ OwnSems' /\ CountsKept'
    BY <1>1, <1>2, SemSame
  <1>4. MutexType' /\ MutualExclusion'
    BY <1>1, MutexSame
  <1>. QED
    BY <1>1, <1>2, <1>3, <1>4

LEMMA StepLoad ==
  ASSUME IInv, NEW t \in Tasks, NEW j \in Job, j.obj \in Given, Turn(t), Load(t, j)
  PROVE  IInv'
  <1>1. count[Slot(j.obj)] \in Counts /\ 0 \in Counts
    BY CountOf, NestAssumption DEF Counts
  <1>2. {"take", "cas", "sleep", "run"} \subseteq Steps /\ "cas" \notin Away /\ "run" \notin Away
    BY DEF Steps, Away, Waiting
  <1>3. intsOff > 0 \/ intsOff = 0
    BY NestAssumption DEF IInv, TypeOK, IntsType, Counts
  <1>4. CASE /\ count[Slot(j.obj)] > 0 /\ seen' = [seen EXCEPT ![t] = count[Slot(j.obj)]]
             /\ Goto(t, "cas") /\ job' = [job EXCEPT ![t] = j] /\ Unchanged
    <2>1. /\ MutexType' /\ MutualExclusion' /\ SemType' /\ OwnSems' /\ CountsKept'
          /\ UNCHANGED <<kind, ints, inUse, semOf, bits>>
          /\ \A u \in Tasks : u # t => seen'[u] = seen[u]
          /\ seen'[t] > 0
      BY <1>1, <1>4, LoadedRest
    <2>2. CpuType' /\ IntsType' /\ Alone' /\ Critical' /\ LockWaits' /\ TakeWaits'
      BY <1>2, <1>4, <2>1, Moved
    <2>. QED
      BY <2>1, <2>2 DEF IInv, TypeOK
  <1>5. ASSUME seen' = [seen EXCEPT ![t] = 0], Unchanged,
               NEW s \in Steps, NEW k \in Job, Goto(t, s), job' = [job EXCEPT ![t] = k],
               s \in Away => intsOff = 0, s \notin {"lock", "cas"}, s = "take" => k = j
        PROVE  IInv'
    <2>1. /\ MutexType' /\ MutualExclusion' /\ SemType' /\ OwnSems' /\ CountsKept'
          /\ UNCHANGED <<kind, ints, inUse, semOf, bits>>
          /\ \A u \in Tasks : u # t => seen'[u] = seen[u]
      BY <1>1, <1>5, LoadedRest
    <2>2. CpuType' /\ IntsType' /\ Alone' /\ Critical' /\ LockWaits' /\ TakeWaits'
      BY <1>5, <2>1, Moved
    <2>. QED
      BY <2>1, <2>2 DEF IInv, TypeOK
  <1>6. CASE YieldAndReturn(t) /\ seen' = [seen EXCEPT ![t] = 0] /\ Unchanged
    <2>1. CASE intsOff = 0
      BY <1>2, <1>5, <1>6, <2>1, NoJobType DEF YieldAndReturn
    <2>2. CASE intsOff # 0
      BY <1>2, <1>5, <1>6, <2>2, NoJobType DEF YieldAndReturn
    <2>. QED
      BY <2>1, <2>2
  <1>7. CASE Return(t) /\ seen' = [seen EXCEPT ![t] = 0] /\ Unchanged
    BY <1>2, <1>5, <1>7, NoJobType DEF Return
  <1>8. CASE /\ intsOff = 0 /\ Goto(t, "take") /\ job' = [job EXCEPT ![t] = j]
             /\ seen' = [seen EXCEPT ![t] = 0] /\ Unchanged
    BY <1>2, <1>5, <1>8
  <1>. QED
    BY <1>4, <1>6, <1>7, <1>8 DEF Load

LEMMA StepTake ==
  ASSUME IInv, NEW t \in Tasks, NEW o \in Sems \cup Tasks, NEW mode \in Modes, Take(t, o, mode)
  PROVE  IInv'
  <1>1. Turn(t) /\ o \in Given /\ Load(t, Call(o, mode))
    BY PoolAssumption DEF Take, Turn, Calls, Given, AllSems
  <1>2. Call(o, mode) \in Job /\ Call(o, mode).obj = o
    BY DEF Call, NoJob, Job, AllSems
  <1>. QED
    BY <1>1, <1>2, StepLoad

LEMMA StepTakeAgain ==
  ASSUME IInv, NEW t \in Tasks, TakeAgain(t) \/ TakeExpires(t)
  PROVE  IInv'
  <1>1. job[t] \in Job
    BY DEF IInv, TypeOK, CpuType
  <1>2. CASE TakeAgain(t)
    BY <1>1, <1>2, StepLoad DEF TakeAgain, IInv, TakeWaits
  <1>3. CASE TakeExpires(t)
    BY <1>3, ReturnedOnly DEF TakeExpires, Unchanged, Objects, sem
  <1>. QED
    BY <1>2, <1>3

LEMMA StepCompareAndSwap ==
  ASSUME IInv, NEW t \in Tasks, CompareAndSwap(t)
  PROVE  IInv'
  <1>1. job[t] \in Job /\ pc[t] = "cas" /\ job[t].obj \in Given /\ seen[t] > 0
    BY DEF IInv, TypeOK, CpuType, TakeWaits, CompareAndSwap
  <1>2. Turn(t)
    BY <1>1 DEF IInv, Alone, Away, Waiting, Turn
  <1>3. CASE Load(t, job[t])
    BY <1>1, <1>2, <1>3, StepLoad
  <1>4. CASE count[Slot(job[t].obj)] = seen[t] /\ StoreOneLess(t)
    <2>1. /\ count' = [count EXCEPT ![Slot(job[t].obj)] = seen[t] - 1]
          /\ balance' = [balance EXCEPT ![job[t].obj] = @ - 1]
          /\ seen' = [seen EXCEPT ![t] = 0] /\ Return(t)
          /\ UNCHANGED <<kind, ints, inUse, mutex, bits, semOf>>
      BY <1>4 DEF StoreOneLess
    <2>2. count[Slot(job[t].obj)] = balance[job[t].obj] /\ seen[t] \in Counts
      BY <1>1, CountOf DEF IInv, TypeOK, SemType
    <2>3. seen[t] - 1 \in Counts /\ 0 \in Counts
      BY <1>1, <2>2, NestAssumption DEF Counts
    <2>4. balance' = [balance EXCEPT ![job[t].obj] = seen[t] - 1]
      BY <1>4, <2>1, <2>2
    <2>5. seen \in [Tasks -> Counts] /\ seen' \in [Tasks -> Counts]
      BY <2>1, <2>3 DEF IInv, TypeOK, SemType
    <2>6. SemType' /\ OwnSems' /\ CountsKept'
      BY <1>1, <2>1, <2>3, <2>4, <2>5, CountMove
    <2>7. CpuType' /\ IntsType' /\ Alone' /\ Critical' /\ LockWaits' /\ TakeWaits'
      BY <1>2, <2>1, <2>5, Returned
    <2>8. MutexType' /\ MutualExclusion'
      BY <2>1, MutexSame
    <2>. QED
      BY <2>1, <2>6, <2>7, <2>8 DEF IInv, TypeOK
  <1>. QED
    BY <1>3, <1>4 DEF CompareAndSwap

-----------------------------------------------------------------------------
(* Event groups.                                                           *)

LEMMA StepGroup ==
  ASSUME IInv, NEW t \in Tasks, NEW g \in Groups,
         GroupCreate(t, g) \/ GroupDelete(t, g)
         \/ \E b \in SUBSET Bits : SetBits(t, g, b) \/ ClearBits(t, g, b)
  PROVE  IInv'
  <1>1. /\ UNCHANGED <<kind, cpu, ints, mutex, sem, semOf>>
        /\ inUse' \in {inUse, inUse \cup {g}, inUse \ {g}}
    BY DEF GroupCreate, GroupDelete, SetBits, ClearBits
  <1>2. bits' \in [Groups -> SUBSET Bits]
    BY DEF GroupCreate, GroupDelete, SetBits, ClearBits, IInv, TypeOK
  <1>3. /\ \A m \in Mutexes \cap inUse : m \in inUse'
        /\ \A s \in AllSems : s \in inUse' <=> s \in inUse
        /\ inUse' \subseteq Mutexes \cup AllSems \cup Groups
    BY <1>1, PoolAssumption DEF AllSems, IInv, TypeOK
  <1>4. seen' = seen /\ count' = count /\ balance' = balance
    BY <1>1 DEF sem
  <1>5. SemType' /\ OwnSems' /\ CountsKept' /\ Given' = Given
    BY <1>1, <1>3, <1>4, SemSame DEF IInv, TypeOK, SemType
  <1>6. CpuType' /\ IntsType' /\ Alone' /\ Critical' /\ LockWaits' /\ TakeWaits'
    BY <1>1, <1>3, <1>4, <1>5, Stayed
  <1>7. MutexType' /\ MutualExclusion'
    BY <1>1, <1>3, MutexSame
  <1>. QED
    BY <1>1, <1>2, <1>3, <1>5, <1>6, <1>7 DEF IInv, TypeOK

LEMMA StepTryWait ==
  ASSUME IInv, NEW t \in Tasks, NEW j \in Job, Turn(t), TryWait(t, j)
  PROVE  IInv'
  <1>1. UNCHANGED <<kind, ints, inUse, mutex, sem, semOf>>
    BY DEF TryWait
  <1>2. bits' \in [Groups -> SUBSET Bits]
    BY DEF TryWait, IInv, TypeOK
  <1>3. seen' = seen /\ count' = count /\ balance' = balance
    BY <1>1 DEF sem
  <1>4. SemType' /\ OwnSems' /\ CountsKept'
    BY <1>1, <1>3, SemSame DEF IInv, TypeOK, SemType
  <1>5. MutexType' /\ MutualExclusion'
    BY <1>1, MutexSame
  <1>6. CpuType' /\ IntsType' /\ Alone' /\ Critical' /\ LockWaits' /\ TakeWaits'
    <2>1. CASE Return(t)
      BY <1>1, <1>3, <2>1, Returned
    <2>2. CASE intsOff = 0 /\ Goto(t, "wait") /\ job' = [job EXCEPT ![t] = j]
      <3>1. "wait" \in Steps
        BY DEF Steps, Away, Waiting
      <3>. QED
        BY <1>1, <1>3, <2>2, <3>1, Moved
    <2>3. intsOff > 0 \/ intsOff = 0
      BY NestAssumption DEF IInv, TypeOK, IntsType, Counts
    <2>. QED
      BY <2>1, <2>2, <2>3 DEF TryWait
  <1>. QED
    BY <1>1, <1>2, <1>4, <1>5, <1>6 DEF IInv, TypeOK

LEMMA StepWait ==
  ASSUME IInv, NEW t \in Tasks,
         (\E j \in Waits : Wait(t, j)) \/ WaitAgain(t) \/ WaitExpires(t)
  PROVE  IInv'
  <1>1. ASSUME NEW j \in Waits, Wait(t, j) PROVE IInv'
    <2>1. j \in Job
      BY DEF Waits, Job
    <2>. QED
      BY <1>1, <2>1, StepTryWait DEF Wait, Calls, Turn
  <1>2. CASE WaitAgain(t)
    BY <1>2, StepTryWait DEF WaitAgain, IInv, TypeOK, CpuType
  <1>3. CASE WaitExpires(t)
    BY <1>3, ReturnedOnly DEF WaitExpires, Objects
  <1>. QED
    BY <1>1, <1>2, <1>3

-----------------------------------------------------------------------------
(* The invariant.                                                          *)

LEMMA IInvInit == Init => IInv
  <1>. SUFFICES ASSUME Init PROVE IInv
    OBVIOUS
  <1>1. {"run", "ended", "sleep"} \subseteq Steps /\ {"ended", "sleep"} \subseteq Away
        /\ "run" \notin Away
    BY DEF Steps, Away, Waiting
  <1>2. 0 \in Counts /\ NoJob \in Job /\ Main \in Tasks
    BY NestAssumption, NoJobType, TaskAssumption DEF Counts
  <1>3. /\ running = Main /\ pc \in [Tasks -> Steps] /\ pc[Main] = "run"
        /\ \A t \in Tasks : t # Main => pc[t] \in {"ended", "sleep"}
    BY <1>1, <1>2 DEF Init
  <1>4. CpuType /\ IntsType /\ MutexType
    BY <1>2, <1>3 DEF Init, CpuType, IntsType, MutexType, Steps
  <1>5. SemType
    BY <1>2 DEF Init, SemType
  <1>6. TypeOK
    BY <1>4, <1>5 DEF Init, TypeOK
  <1>7. Alone
    BY <1>1, <1>3 DEF Alone
  <1>8. Critical
    <2>1. /\ \A t \in Tasks : nested[t] = 0
          /\ intsOff = nested[running] /\ saved = TRUE /\ enabled = TRUE /\ intsOff = 0
      BY <1>2, <1>3 DEF Init
    <2>2. enabled = (intsOff = 0)
      BY <2>1, ZenonT(20)
    <2>3. \A t \in Tasks : ~(nested[t] > 0)
      BY <2>1
    <2>. QED
      BY <2>1, <2>2, <2>3 DEF Critical, CriticalIsExclusive
  <1>9. LockWaits /\ TakeWaits
    BY <1>3 DEF LockWaits, TakeWaits
  <1>10. MutualExclusion
    BY DEF Init, MutualExclusion
  <1>11. OwnSems /\ Given = {}
    BY DEF Init, OwnSems, Given
  <1>12. CountsKept
    BY <1>11 DEF CountsKept
  <1>. QED
    BY <1>6, <1>7, <1>8, <1>9, <1>10, <1>11, <1>12 DEF IInv

LEMMA IInvStep == IInv /\ [Next]_vars => IInv'
  <1>. SUFFICES ASSUME IInv, [Next]_vars PROVE IInv'
    OBVIOUS
  <1>1. CASE UNCHANGED vars
    <2>1. UNCHANGED <<kind, cpu, ints, seen, Objects>>
      BY <1>1 DEF vars, Objects, sem
    <2>2. inUse' = inUse /\ semOf' = semOf /\ Given' = Given
      BY <2>1 DEF Objects, Given
    <2>3. CpuType' /\ IntsType' /\ Alone' /\ Critical' /\ LockWaits' /\ TakeWaits'
      BY <2>1, <2>2, Stayed
    <2>. QED
      BY <2>1, <2>3, ObjectsSame DEF IInv, TypeOK
  <1>2. ASSUME NEW t \in Tasks,
               \/ IntDisable(t) \/ IntRestore(t) \/ Sleep(t) \/ Wake(t)
               \/ TaskBegins(t) \/ TaskCreated(t) \/ TaskEnds(t) \/ ThreadSemGet(t)
               \/ LockAgain(t) \/ LockTimeout(t)
               \/ TakeAgain(t) \/ TakeExpires(t) \/ CompareAndSwap(t)
               \/ WaitAgain(t) \/ WaitExpires(t)
        PROVE  IInv'
    BY <1>2, StepInts, StepSleep, StepTaskCreated, StepThreadSemGet, StepLock,
       StepTakeAgain, StepCompareAndSwap, StepWait
  <1>3. ASSUME NEW t \in Tasks, NEW u \in Tasks, TaskCreate(t, u) \/ TaskDelete(t, u)
        PROVE  IInv'
    BY <1>3, StepTaskCreate, StepTaskDelete
  <1>4. ASSUME NEW t \in Tasks, NEW m \in Mutexes,
               MutexCreate(t, m) \/ MutexDelete(t, m) \/ Lock(t, m) \/ Unlock(t, m)
        PROVE  IInv'
    BY <1>4, StepMutexCreate, StepMutexDelete, StepLock, StepUnlock
  <1>5. ASSUME NEW t \in Tasks, NEW s \in Sems,
               SemDelete(t, s) \/ \E n \in 0..1 : SemCreate(t, s, n)
        PROVE  IInv'
    BY <1>5, StepSemDelete, StepSemCreate
  <1>6. ASSUME NEW t \in Tasks, NEW o \in Sems \cup Tasks,
               Give(t, o) \/ \E mode \in Modes : Take(t, o, mode)
        PROVE  IInv'
    BY <1>6, StepGive, StepTake DEF Give
  <1>7. ASSUME NEW t \in Tasks, NEW g \in Groups,
               \/ GroupCreate(t, g) \/ GroupDelete(t, g)
               \/ \E b \in SUBSET Bits \ {{}} : SetBits(t, g, b) \/ ClearBits(t, g, b)
        PROVE  IInv'
    BY <1>7, StepGroup
  <1>8. ASSUME NEW t \in Tasks, NEW j \in Waits, Wait(t, j) PROVE IInv'
    BY <1>8, StepWait
  <1>9. ASSUME NEW o \in Sems \cup Tasks, IsrGive(o) PROVE IInv'
    BY <1>9, StepGive DEF IsrGive
  <1>10. ASSUME NEW s \in Sems, IsrTake(s) PROVE IInv'
    BY <1>10, StepIsrTake
  <1>. QED
    BY <1>1, <1>2, <1>3, <1>4, <1>5, <1>6, <1>7, <1>8, <1>9, <1>10 DEF Next

\* The synchronisation keeps its state well-formed, for any number of tasks and
\* objects: radio.go's mutexes, semaphores, event groups and critical section.
THEOREM TypeCorrect == Spec => []TypeOK
  <1>1. IInv => TypeOK
    BY DEF IInv
  <1>. QED
    BY IInvInit, IInvStep, <1>1, PTL DEF Spec

\* The interrupt is masked exactly while wifiIntsOff says so, whoever yields, and a
\* task between espradio_wifi_int_disable and its restore is alone until it calls
\* what yields in any case: the waits that look at wifiIntsOff do not.
THEOREM Criticals == Spec => []CriticalIsExclusive
  <1>1. IInv => CriticalIsExclusive
    BY DEF IInv, Critical
  <1>. QED
    BY IInvInit, IInvStep, <1>1, PTL DEF Spec

\* espradio_mutex_lock and espradio_mutex_unlock exclude, whatever times out.
THEOREM Mutexed == Spec => []MutualExclusion
  <1>1. IInv => MutualExclusion
    BY DEF IInv
  <1>. QED
    BY IInvInit, IInvStep, <1>1, PTL DEF Spec

\* semTryTake and espradio_semphr_give lose and invent no count, with handlers
\* that give and take between any two of their instructions.
THEOREM CountsRight == Spec => []CountsKept
  <1>1. IInv => CountsKept
    BY DEF IInv
  <1>. QED
    BY IInvInit, IInvStep, <1>1, PTL DEF Spec

-----------------------------------------------------------------------------
(* The synchronisation under the queues and the event loop.                *)

LEMMA QueueStepSync ==
  ASSUME QueueStep
  PROVE  UNCHANGED vars \/ \E t \in Tasks : Sleep(t) \/ Wake(t)
  <1>1. ASSUME NEW t \in Tasks, ReceiveAgain(t) \/ ReceiveExpires(t)
        PROVE  Wake(t)
    BY <1>1 DEF ReceiveAgain, ReceiveExpires
  <1>2. ASSUME NEW t \in Tasks, NEW q \in Queues, NEW n \in 1..MaxLen, QueueCreate(t, q, n)
        PROVE  UNCHANGED vars
    BY <1>2 DEF QueueCreate
  <1>3. ASSUME NEW t \in Tasks, NEW q \in Queues, QueueDelete(t, q) \/ Receive(t, q)
        PROVE  UNCHANGED vars
    BY <1>3 DEF QueueDelete, Receive
  <1>4. ASSUME NEW t \in Tasks, NEW q \in Queues, NEW v \in Items, Send(t, q, v)
        PROVE  UNCHANGED vars
    BY <1>4 DEF Send
  <1>5. ASSUME NEW t \in Tasks, NEW q \in Queues, NEW mode \in Modes, ReceiveNothing(t, q, mode)
        PROVE  Sleep(t)
    BY <1>5 DEF ReceiveNothing
  <1>6. ASSUME NEW q \in Queues, NEW v \in Items, IsrSend(q, v) PROVE UNCHANGED vars
    BY <1>6 DEF IsrSend
  <1>7. ASSUME Deliver PROVE UNCHANGED vars
    BY <1>7 DEF Deliver
  <1>. QED
    BY <1>1, <1>2, <1>3, <1>4, <1>5, <1>6, <1>7 DEF QueueStep

LEMMA LoopStepSync ==
  ASSUME LoopStep
  PROVE  UNCHANGED vars \/ \E t \in Tasks : Sleep(t) \/ Wake(t)
  <1>1. ASSUME NEW t \in Tasks,
               LoopCreate(t) \/ LoopDelete(t) \/ Dispatch(t) \/ HandlerReturns(t)
               \/ Dispatched(t)
        PROVE  UNCHANGED vars
    BY <1>1 DEF LoopCreate, LoopDelete, Dispatch, HandlerReturns, Dispatched
  <1>2. ASSUME NEW t \in Tasks, NEW h \in Blocks, Register(t, h) PROVE UNCHANGED vars
    BY <1>2 DEF Register
  <1>3. ASSUME NEW t \in Tasks, NEW named \in BOOLEAN, NEW sized \in BOOLEAN,
               Post(t, named, sized)
        PROVE  Sleep(t)
    BY <1>3 DEF Post
  <1>. QED
    BY <1>1, <1>2, <1>3 DEF LoopStep

LEMMA AStepIsStep == [ANext]_allVars => [Next]_vars
  <1>1. CASE UNCHANGED allVars
    BY <1>1 DEF allVars
  <1>2. CASE SyncStep
    BY <1>2 DEF SyncStep
  <1>3. ASSUME NEW t \in Tasks, Sleep(t) \/ Wake(t) PROVE Next
    BY <1>3 DEF Next
  <1>4. CASE QueueStep
    BY <1>3, <1>4, QueueStepSync
  <1>5. CASE LoopStep
    BY <1>3, <1>5, LoopStepSync
  <1>. QED
    BY <1>1, <1>2, <1>4, <1>5 DEF ANext

\* The queues and the event loop use tasks and the interrupt as the blob's own
\* code may: what holds of OsiSync holds of the adapter.
THEOREM AdapterIsSync == ASpec => Spec
  <1>1. AInit => Init
    BY DEF AInit
  <1>. QED
    BY <1>1, AStepIsStep, PTL DEF ASpec, Spec

\* The same in the whole adapter, where espradio_queue_recv on an empty queue and
\* esp_event_post are what yields in any case, besides sleeping, creating a task
\* and ending.
THEOREM AdapterCriticals == ASpec => []CriticalIsExclusive
  BY AdapterIsSync, Criticals, PTL

\* The mutexes exclude in the whole adapter.
THEOREM AdapterMutexed == ASpec => []MutualExclusion
  BY AdapterIsSync, Mutexed, PTL

\* The semaphores keep count in the whole adapter.
THEOREM AdapterCounts == ASpec => []CountsKept
  BY AdapterIsSync, CountsRight, PTL

-----------------------------------------------------------------------------
(* One queue, by its length n, indices r and w, count c, storage st and the *)
(* items f it holds.                                                       *)

Place(n, i) == IF i >= n THEN i - n ELSE i
Holds(n, r, w, c, st, f) ==
    /\ n \in 1..MaxLen /\ r \in 0..(n - 1) /\ c \in 0..n /\ w = Place(n, r + c)
    /\ c = Len(f)
    /\ \A i \in 1..c : st[Place(n, r + i - 1)] = f[i]

LEMMA PutHolds ==
  ASSUME NEW n, NEW r, NEW w, NEW c, NEW f \in Seq(Items), NEW v \in Items,
         NEW st \in [Slots -> Items \cup {None}],
         Holds(n, r, w, c, st, f), c # n
  PROVE  /\ Holds(n, r, IF w + 1 = n THEN 0 ELSE w + 1, c + 1,
                  [st EXCEPT ![w] = v], Append(f, v))
         /\ w \in Slots /\ (IF w + 1 = n THEN 0 ELSE w + 1) \in Slots
         /\ c + 1 \in 0..MaxLen
  <1>1. /\ n \in 1..MaxLen /\ r \in 0..(n - 1) /\ c \in 0..n /\ w = Place(n, r + c)
        /\ c = Len(f) /\ MaxLen \in Nat
    BY QueueAssumption DEF Holds
  <1>2. n \in Int /\ r \in Int /\ c \in Int /\ n <= MaxLen /\ 1 <= n /\ 0 <= r /\ r < n
        /\ 0 <= c /\ c < n
    BY <1>1
  <1>3. w \in Int /\ 0 <= w /\ w < n
    BY <1>1, <1>2 DEF Place
  <1>4. w \in Slots /\ (IF w + 1 = n THEN 0 ELSE w + 1) \in Slots /\ c + 1 \in 0..n
        /\ c + 1 \in 0..MaxLen
    BY <1>1, <1>2, <1>3 DEF Slots
  <1>5. (IF w + 1 = n THEN 0 ELSE w + 1) = Place(n, r + (c + 1))
    BY <1>1, <1>2, <1>3 DEF Place
  <1>6. Len(Append(f, v)) = c + 1 /\ Append(f, v)[c + 1] = v
        /\ \A i \in 1..c : Append(f, v)[i] = f[i]
    BY <1>1, AppendProperties
  <1>7. ASSUME NEW i \in 1..(c + 1)
        PROVE  [st EXCEPT ![w] = v][Place(n, r + i - 1)] = Append(f, v)[i]
    <2>1. i \in Int /\ 1 <= i /\ i <= c + 1
      BY <1>2, <1>7
    <2>2. Place(n, r + i - 1) \in Int /\ 0 <= Place(n, r + i - 1) /\ Place(n, r + i - 1) < n
      BY <1>2, <2>1 DEF Place
    <2>3. Place(n, r + i - 1) \in Slots
      BY <1>1, <1>2, <2>2 DEF Slots
    <2>4. CASE i = c + 1
      <3>1. Place(n, r + i - 1) = w
        BY <1>1, <1>2, <2>4 DEF Place
      <3>. QED
        BY <1>4, <1>6, <2>4, <3>1
    <2>5. CASE i # c + 1
      <3>1. i \in 1..c
        BY <1>2, <2>1, <2>5
      <3>2. Place(n, r + i - 1) # w
        BY <1>1, <1>2, <2>1, <2>5 DEF Place
      <3>3. st[Place(n, r + i - 1)] = f[i]
        BY <3>1 DEF Holds
      <3>. QED
        BY <1>4, <1>6, <2>3, <3>1, <3>2, <3>3
    <2>. QED
      BY <2>4, <2>5
  <1>. QED
    BY <1>1, <1>4, <1>5, <1>6, <1>7 DEF Holds

LEMMA TakeHolds ==
  ASSUME NEW n, NEW r, NEW w, NEW c, NEW f \in Seq(Items),
         NEW st \in [Slots -> Items \cup {None}],
         Holds(n, r, w, c, st, f), c # 0
  PROVE  /\ Holds(n, IF r + 1 = n THEN 0 ELSE r + 1, w, c - 1, st, Tail(f))
         /\ Tail(f) \in Seq(Items) /\ (IF r + 1 = n THEN 0 ELSE r + 1) \in Slots
         /\ c - 1 \in 0..MaxLen /\ st[r] = Head(f)
  <1>. DEFINE s == IF r + 1 = n THEN 0 ELSE r + 1
  <1>1. /\ n \in 1..MaxLen /\ r \in 0..(n - 1) /\ c \in 0..n /\ w = Place(n, r + c)
        /\ c = Len(f) /\ MaxLen \in Nat
    BY QueueAssumption DEF Holds
  <1>2. n \in Int /\ r \in Int /\ c \in Int /\ n <= MaxLen /\ 1 <= n /\ 0 <= r /\ r < n
        /\ 1 <= c /\ c <= n
    BY <1>1
  <1>3. s \in Slots /\ s \in 0..(n - 1) /\ c - 1 \in 0..n /\ c - 1 \in 0..MaxLen
    BY <1>1, <1>2 DEF Slots
  <1>4. w = Place(n, s + (c - 1))
    BY <1>1, <1>2 DEF Place
  <1>5. f # <<>>
    BY <1>1, <1>2
  <1>6. /\ Tail(f) \in Seq(Items) /\ Len(Tail(f)) = c - 1 /\ Head(f) = f[1]
        /\ \A i \in 1..(c - 1) : Tail(f)[i] = f[i + 1]
    BY <1>1, <1>5, HeadTailProperties
  <1>7. ASSUME NEW i \in 1..(c - 1)
        PROVE  st[Place(n, s + i - 1)] = Tail(f)[i]
    <2>1. i \in Int /\ 1 <= i /\ i <= c - 1 /\ i + 1 \in 1..c
      BY <1>2, <1>7
    <2>2. Place(n, s + i - 1) = Place(n, r + (i + 1) - 1)
      BY <1>1, <1>2, <2>1 DEF Place
    <2>3. st[Place(n, r + (i + 1) - 1)] = f[i + 1]
      BY <2>1 DEF Holds
    <2>. QED
      BY <1>6, <1>7, <2>2, <2>3
  <1>8. st[r] = Head(f)
    <2>1. 1 \in 1..c /\ Place(n, r + 1 - 1) = r
      BY <1>1, <1>2 DEF Place
    <2>2. st[Place(n, r + 1 - 1)] = f[1]
      BY <2>1 DEF Holds
    <2>. QED
      BY <1>6, <2>1, <2>2
  <1>. QED
    BY <1>1, <1>3, <1>4, <1>6, <1>7, <1>8 DEF Holds

-----------------------------------------------------------------------------
(* The queues.                                                             *)

QueueType ==
    /\ live \subseteq Queues /\ len \in [Queues -> 0..MaxLen]
    /\ read \in [Queues -> Slots] /\ write \in [Queues -> Slots]
    /\ qcount \in [Queues -> 0..MaxLen]
    /\ storage \in [Queues -> [Slots -> Items \cup {None}]]
    /\ fifo \in [Queues -> Seq(Items)]
QueuesHold ==
    \A q \in live : Holds(len[q], read[q], write[q], qcount[q], storage[q], fifo[q])
RingType == at \in [Tasks -> Queues \cup {None}] /\ late \in Seq(Queues \X Items)
QInv == QueueType /\ RingType /\ ReceiversHaveQueues /\ QueuesHold

LEMMA QInvFifo == QInv => QTypeOK /\ QueueIsFifo
  <1>. SUFFICES ASSUME QInv PROVE QTypeOK /\ QueueIsFifo
    OBVIOUS
  <1>1. QTypeOK
    BY DEF QInv, QueueType, RingType, QTypeOK
  <1>2. ASSUME NEW q \in live
        PROVE  /\ qcount[q] = Len(fifo[q]) /\ qcount[q] <= len[q]
               /\ \A i \in 1..qcount[q] :
                    LET p == read[q] + i - 1
                    IN storage[q][IF p >= len[q] THEN p - len[q] ELSE p] = fifo[q][i]
    <2>1. Holds(len[q], read[q], write[q], qcount[q], storage[q], fifo[q])
      BY DEF QInv, QueuesHold
    <2>2. qcount[q] = Len(fifo[q]) /\ qcount[q] \in 0..len[q] /\ len[q] \in 1..MaxLen
      BY <2>1 DEF Holds
    <2>3. qcount[q] <= len[q]
      BY <2>2, QueueAssumption
    <2>. QED
      BY <2>1, <2>2, <2>3 DEF Holds, Place
  <1>. QED
    BY <1>1, <1>2 DEF QueueIsFifo

LEMMA QueuesSame ==
  ASSUME QInv, UNCHANGED queue
  PROVE  QueueType' /\ QueuesHold'
  BY DEF QInv, QueueType, QueuesHold, queue

\* A receiver that sleeps goes on sleeping, on a queue that stays.
LEMMA ReceiversSame ==
  ASSUME QInv, UNCHANGED at, \A t \in Tasks : at[t] # None => pc'[t] = pc[t],
         \A t \in Tasks : at[t] # None => at[t] \in live'
  PROVE  ReceiversHaveQueues'
  BY DEF QInv, ReceiversHaveQueues

LEMMA StepQueueCreate ==
  ASSUME QInv, NEW t \in Tasks, NEW q \in Queues, NEW n \in 1..MaxLen, QueueCreate(t, q, n)
  PROVE  QInv'
  <1>1. /\ live' = live \cup {q} /\ q \notin live /\ len' = [len EXCEPT ![q] = n]
        /\ read' = [read EXCEPT ![q] = 0] /\ write' = [write EXCEPT ![q] = 0]
        /\ qcount' = [qcount EXCEPT ![q] = 0] /\ fifo' = [fifo EXCEPT ![q] = <<>>]
        /\ UNCHANGED <<pc, storage, at, late>>
    BY DEF QueueCreate, vars, cpu
  <1>2. n \in 0..MaxLen /\ 0 \in Slots /\ 0 \in 0..MaxLen /\ <<>> \in Seq(Items)
    BY QueueAssumption DEF Slots
  <1>3. QueueType'
    BY <1>1, <1>2 DEF QInv, QueueType
  <1>4. RingType' /\ ReceiversHaveQueues'
    BY <1>1 DEF QInv, RingType, ReceiversHaveQueues
  <1>5. Holds(n, 0, 0, 0, storage[q], <<>>)
    BY QueueAssumption DEF Holds, Place
  <1>6. /\ len'[q] = n /\ read'[q] = 0 /\ write'[q] = 0 /\ qcount'[q] = 0
        /\ fifo'[q] = <<>> /\ storage' = storage
        /\ \A p \in live : /\ len'[p] = len[p] /\ read'[p] = read[p] /\ write'[p] = write[p]
                           /\ qcount'[p] = qcount[p] /\ fifo'[p] = fifo[p]
    BY <1>1 DEF QInv, QueueType
  <1>7. QueuesHold'
    BY <1>1, <1>5, <1>6 DEF QInv, QueuesHold
  <1>. QED
    BY <1>3, <1>4, <1>7 DEF QInv

LEMMA StepQueueDelete ==
  ASSUME QInv, NEW t \in Tasks, NEW q \in Queues, QueueDelete(t, q)
  PROVE  QInv'
  <1>1. /\ live' = live \ {q} /\ \A u \in Tasks : at[u] # q
        /\ storage' = [storage EXCEPT ![q] = Junk] /\ fifo' = [fifo EXCEPT ![q] = <<>>]
        /\ len' = [len EXCEPT ![q] = 0] /\ qcount' = [qcount EXCEPT ![q] = 0]
        /\ UNCHANGED <<pc, at, late>>
    BY DEF QueueDelete, vars, cpu
  <1>2. PICK i \in Slots : read' = [read EXCEPT ![q] = i] /\ write' = [write EXCEPT ![q] = i]
    BY DEF QueueDelete
  <1>3. Junk \in [Slots -> Items \cup {None}] /\ 0 \in 0..MaxLen /\ <<>> \in Seq(Items)
    BY QueueAssumption DEF Junk
  <1>4. QueueType'
    BY <1>1, <1>2, <1>3 DEF QInv, QueueType
  <1>5. RingType' /\ ReceiversHaveQueues'
    BY <1>1 DEF QInv, RingType, ReceiversHaveQueues
  <1>6. \A p \in live : p # q =>
          /\ len'[p] = len[p] /\ read'[p] = read[p] /\ write'[p] = write[p]
          /\ qcount'[p] = qcount[p] /\ fifo'[p] = fifo[p] /\ storage'[p] = storage[p]
    BY <1>1, <1>2 DEF QInv, QueueType
  <1>7. QueuesHold'
    BY <1>1, <1>6 DEF QInv, QueuesHold
  <1>. QED
    BY <1>4, <1>5, <1>7 DEF QInv

LEMMA PutKeeps ==
  ASSUME QInv, NEW q \in Queues, NEW v \in Items, PutOrRefuse(q, v)
  PROVE  QueueType' /\ QueuesHold' /\ live' = live
  <1>1. CASE UNCHANGED queue
    BY <1>1, QueuesSame DEF queue
  <1>2. CASE q \in live /\ qcount[q] # len[q] /\ Put(q, v)
    <2>1. /\ storage' = [storage EXCEPT ![q][write[q]] = v]
          /\ write' = [write EXCEPT ![q] = Following(q, @)]
          /\ qcount' = [qcount EXCEPT ![q] = @ + 1]
          /\ fifo' = [fifo EXCEPT ![q] = Append(@, v)]
          /\ UNCHANGED <<live, len, read>>
      BY <1>2 DEF Put
    <2>2. /\ storage[q] \in [Slots -> Items \cup {None}] /\ fifo[q] \in Seq(Items)
          /\ Holds(len[q], read[q], write[q], qcount[q], storage[q], fifo[q])
      BY <1>2 DEF QInv, QueueType, QueuesHold
    <2>. DEFINE w == IF write[q] + 1 = len[q] THEN 0 ELSE write[q] + 1
    <2>3. /\ Holds(len[q], read[q], w, qcount[q] + 1,
                   [storage[q] EXCEPT ![write[q]] = v], Append(fifo[q], v))
          /\ w \in Slots /\ qcount[q] + 1 \in 0..MaxLen
      BY <1>2, <2>2, PutHolds
    <2>4. Append(fifo[q], v) \in Seq(Items)
          /\ [storage[q] EXCEPT ![write[q]] = v] \in [Slots -> Items \cup {None}]
      <3>1. Append(fifo[q], v) \in Seq(Items)
        BY <2>2, AppendProperties
      <3>. DEFINE st == storage[q]
      <3>2. st \in [Slots -> Items \cup {None}]
        BY <2>2
      <3>. HIDE DEF st
      <3>3. [st EXCEPT ![write[q]] = v] \in [Slots -> Items \cup {None}]
        BY <3>2
      <3>. QED
        BY <3>1, <3>3 DEF st
    <2>5. /\ storage' = [storage EXCEPT ![q] = [storage[q] EXCEPT ![write[q]] = v]]
          /\ write' = [write EXCEPT ![q] = w]
          /\ qcount' = [qcount EXCEPT ![q] = qcount[q] + 1]
          /\ fifo' = [fifo EXCEPT ![q] = Append(fifo[q], v)]
      BY <2>1 DEF QInv, QueueType, Following
    <2>. HIDE DEF w
    <2>6. QueueType'
      BY <2>1, <2>3, <2>4, <2>5 DEF QInv, QueueType
    <2>7. /\ storage'[q] = [storage[q] EXCEPT ![write[q]] = v] /\ write'[q] = w
          /\ qcount'[q] = qcount[q] + 1 /\ fifo'[q] = Append(fifo[q], v)
          /\ \A p \in live : p # q =>
               /\ storage'[p] = storage[p] /\ write'[p] = write[p]
               /\ qcount'[p] = qcount[p] /\ fifo'[p] = fifo[p]
      BY <2>5 DEF QInv, QueueType
    <2>8. ASSUME NEW p \in live
          PROVE  Holds(len[p], read[p], write'[p], qcount'[p], storage'[p], fifo'[p])
      <3>1. CASE p = q
        BY <2>3, <2>7, <3>1
      <3>2. CASE p # q
        BY <2>7, <3>2 DEF QInv, QueuesHold
      <3>. QED
        BY <3>1, <3>2
    <2>9. QueuesHold'
      BY <2>1, <2>8 DEF QueuesHold
    <2>. QED
      BY <2>1, <2>6, <2>9
  <1>. QED
    BY <1>1, <1>2 DEF PutOrRefuse

LEMMA TakeKeeps ==
  ASSUME QInv, NEW q \in live, TakeItem(q)
  PROVE  QueueType' /\ QueuesHold' /\ live' = live
  <1>1. /\ read' = [read EXCEPT ![q] = Following(q, @)]
        /\ qcount' = [qcount EXCEPT ![q] = @ - 1] /\ qcount[q] # 0
        /\ fifo' = [fifo EXCEPT ![q] = Tail(@)]
        /\ UNCHANGED <<live, len, write, storage>>
    BY DEF TakeItem
  <1>2. /\ storage[q] \in [Slots -> Items \cup {None}] /\ fifo[q] \in Seq(Items) /\ q \in Queues
        /\ Holds(len[q], read[q], write[q], qcount[q], storage[q], fifo[q])
    BY DEF QInv, QueueType, QueuesHold
  <1>. DEFINE r == IF read[q] + 1 = len[q] THEN 0 ELSE read[q] + 1
  <1>3. /\ Holds(len[q], r, write[q], qcount[q] - 1, storage[q], Tail(fifo[q]))
        /\ r \in Slots /\ qcount[q] - 1 \in 0..MaxLen /\ Tail(fifo[q]) \in Seq(Items)
    BY <1>1, <1>2, TakeHolds
  <1>4. /\ read' = [read EXCEPT ![q] = r]
        /\ qcount' = [qcount EXCEPT ![q] = qcount[q] - 1]
        /\ fifo' = [fifo EXCEPT ![q] = Tail(fifo[q])]
    BY <1>1 DEF QInv, QueueType, Following
  <1>. HIDE DEF r
  <1>5. QueueType'
    BY <1>1, <1>3, <1>4 DEF QInv, QueueType
  <1>6. /\ read'[q] = r /\ qcount'[q] = qcount[q] - 1 /\ fifo'[q] = Tail(fifo[q])
        /\ \A p \in live : p # q =>
             read'[p] = read[p] /\ qcount'[p] = qcount[p] /\ fifo'[p] = fifo[p]
    BY <1>2, <1>4 DEF QInv, QueueType
  <1>7. ASSUME NEW p \in live
        PROVE  Holds(len[p], read'[p], write[p], qcount'[p], storage[p], fifo'[p])
    <2>1. CASE p = q
      BY <1>3, <1>6, <2>1
    <2>2. CASE p # q
      BY <1>6, <2>2 DEF QInv, QueuesHold
    <2>. QED
      BY <2>1, <2>2
  <1>8. QueuesHold'
    BY <1>1, <1>7 DEF QueuesHold
  <1>. QED
    BY <1>1, <1>5, <1>8

LEMMA StepSend ==
  ASSUME QInv, NEW t \in Tasks, NEW q \in Queues, NEW v \in Items, Send(t, q, v)
  PROVE  QInv'
  <1>1. PutOrRefuse(q, v) /\ UNCHANGED <<pc, at, late>>
    BY DEF Send, vars, cpu
  <1>2. QueueType' /\ QueuesHold' /\ live' = live
    BY <1>1, PutKeeps
  <1>. QED
    BY <1>1, <1>2 DEF QInv, RingType, ReceiversHaveQueues

LEMMA StepReceive ==
  ASSUME QInv, NEW t \in Tasks, NEW q \in Queues, Receive(t, q)
  PROVE  QInv'
  <1>1. q \in live /\ TakeItem(q) /\ UNCHANGED <<pc, at, late>>
    BY DEF Receive, vars, cpu
  <1>2. QueueType' /\ QueuesHold' /\ live' = live
    BY <1>1, TakeKeeps
  <1>. QED
    BY <1>1, <1>2 DEF QInv, RingType, ReceiversHaveQueues

LEMMA StepReceiveNothing ==
  ASSUME IInv, QInv, NEW t \in Tasks, NEW q \in Queues, NEW mode \in Modes,
         ReceiveNothing(t, q, mode)
  PROVE  QInv'
  <1>1. /\ q \in live /\ UNCHANGED <<queue, late>> /\ pc' = [pc EXCEPT ![t] = "sleep"]
        /\ at' = [at EXCEPT ![t] = IF mode = "try" THEN None ELSE q]
    BY DEF ReceiveNothing, Sleep, Goto
  <1>2. DOMAIN pc = Tasks /\ at \in [Tasks -> Queues \cup {None}]
    BY DEF IInv, TypeOK, CpuType, QInv, RingType
  <1>3. RingType'
    BY <1>1, <1>2 DEF QInv, RingType
  <1>4. QueueType' /\ QueuesHold' /\ live' = live
    BY <1>1, QueuesSame DEF queue
  <1>5. ReceiversHaveQueues'
    BY <1>1, <1>2, <1>4 DEF QInv, ReceiversHaveQueues
  <1>. QED
    BY <1>3, <1>4, <1>5 DEF QInv

\* The queue a receiver wakes to is the one it resolved.
LEMMA StepReceiveAgain ==
  ASSUME IInv, QInv, NEW t \in Tasks, ReceiveAgain(t) \/ ReceiveExpires(t)
  PROVE  QInv'
  <1>1. /\ at[t] # None /\ pc' = [pc EXCEPT ![t] = "run"]
        /\ at' = [at EXCEPT ![t] = None] /\ UNCHANGED late
        /\ UNCHANGED queue \/ TakeItem(at[t])
    BY DEF ReceiveAgain, ReceiveExpires, Wake, Goto
  <1>2. /\ DOMAIN pc = Tasks /\ at \in [Tasks -> Queues \cup {None}] /\ at[t] \in live
    BY <1>1 DEF IInv, TypeOK, CpuType, QInv, RingType, ReceiversHaveQueues
  <1>3. RingType'
    BY <1>1, <1>2 DEF QInv, RingType
  <1>4. QueueType' /\ QueuesHold' /\ live' = live
    BY <1>1, <1>2, QueuesSame, TakeKeeps DEF queue
  <1>5. ReceiversHaveQueues'
    BY <1>1, <1>2, <1>4 DEF QInv, ReceiversHaveQueues
  <1>. QED
    BY <1>3, <1>4, <1>5 DEF QInv

LEMMA StepIsrSend ==
  ASSUME QInv, NEW q \in Queues, NEW v \in Items, IsrSend(q, v)
  PROVE  QInv'
  <1>1. late' = Append(late, <<q, v>>) /\ UNCHANGED <<pc, queue, at>>
    BY DEF IsrSend, vars, cpu
  <1>2. RingType'
    BY <1>1 DEF QInv, RingType
  <1>3. QueueType' /\ QueuesHold' /\ live' = live
    BY <1>1, QueuesSame DEF queue
  <1>. QED
    BY <1>1, <1>2, <1>3 DEF QInv, ReceiversHaveQueues

LEMMA StepDeliver ==
  ASSUME QInv, Deliver
  PROVE  QInv'
  <1>1. /\ late # <<>> /\ PutOrRefuse(late[1][1], late[1][2]) /\ late' = Tail(late)
        /\ UNCHANGED <<pc, at>>
    BY DEF Deliver, vars, cpu
  <1>2. late \in Seq(Queues \X Items)
    BY DEF QInv, RingType
  <1>3. late[1] \in Queues \X Items /\ Tail(late) \in Seq(Queues \X Items)
    BY <1>1, <1>2, HeadTailProperties
  <1>4. QueueType' /\ QueuesHold' /\ live' = live
    BY <1>1, <1>3, PutKeeps
  <1>. QED
    BY <1>1, <1>3, <1>4 DEF QInv, RingType, ReceiversHaveQueues

LEMMA QInvInit == AInit => QInv
  <1>. SUFFICES ASSUME AInit PROVE QInv
    OBVIOUS
  <1>1. 0 \in Slots /\ 0 \in 0..MaxLen /\ <<>> \in Seq(Items) /\ <<>> \in Seq(Queues \X Items)
        /\ Junk \in [Slots -> Items \cup {None}]
    BY QueueAssumption DEF Slots, Junk
  <1>2. QueueType /\ RingType
    BY <1>1 DEF AInit, QInit, QueueType, RingType
  <1>. QED
    BY <1>2 DEF AInit, QInit, QInv, ReceiversHaveQueues, QueuesHold

LEMMA QInvStep == IInv /\ QInv /\ [ANext]_allVars => QInv'
  <1>. SUFFICES ASSUME IInv, QInv, [ANext]_allVars PROVE QInv'
    OBVIOUS
  <1>1. ASSUME UNCHANGED qvars, \A t \in Tasks : at[t] # None => pc'[t] = pc[t]
        PROVE  QInv'
    <2>1. UNCHANGED <<queue, at, late, live>>
      BY <1>1 DEF qvars, queue
    <2>2. ReceiversHaveQueues'
      BY <1>1, <2>1 DEF QInv, ReceiversHaveQueues
    <2>. QED
      BY <2>1, <2>2, QueuesSame DEF QInv, RingType
  <1>2. CASE UNCHANGED allVars \/ SyncStep
    BY <1>1, <1>2 DEF allVars, SyncStep, vars, cpu
  <1>3. CASE QueueStep
    BY <1>3, StepQueueCreate, StepQueueDelete, StepSend, StepReceive, StepReceiveNothing,
       StepReceiveAgain, StepIsrSend, StepDeliver DEF QueueStep
  <1>4. CASE LoopStep /\ UNCHANGED qvars
    <2>1. CASE UNCHANGED vars
      BY <1>1, <1>4, <2>1 DEF vars, cpu
    <2>2. ASSUME NEW t \in Tasks, NEW named \in BOOLEAN, NEW sized \in BOOLEAN,
                 Post(t, named, sized)
          PROVE  \A u \in Tasks : at[u] # None => pc'[u] = pc[u]
      <3>1. pc[t] = "run" /\ pc' = [pc EXCEPT ![t] = "sleep"]
        BY <2>2 DEF Post, Sleep, Goto
      <3>2. at[t] = None
        BY <3>1 DEF QInv, ReceiversHaveQueues
      <3>. QED
        BY <3>1, <3>2
    <2>3. CASE \E t \in Tasks, named \in BOOLEAN, sized \in BOOLEAN : Post(t, named, sized)
      BY <1>1, <1>4, <2>2, <2>3
    <2>. QED
      BY <1>4, <2>1, <2>3
         DEF LoopStep, LoopCreate, LoopDelete, Dispatch, HandlerReturns, Dispatched, Register
  <1>. QED
    BY <1>2, <1>3, <1>4 DEF ANext

LEMMA SyncInv == ASpec => []IInv
  <1>1. AInit => IInv
    BY IInvInit DEF AInit
  <1>2. IInv /\ [ANext]_allVars => IInv'
    BY AStepIsStep, IInvStep
  <1>. QED
    BY <1>1, <1>2, PTL DEF ASpec

\* espradio_queue_recv hands out what espradio_queue_send and its interrupt
\* variant put in and did not refuse, in that order.
THEOREM QueuesRight == ASpec => []QueueIsFifo
  <1>1. QInv => QueueIsFifo
    BY QInvFifo
  <1>. QED
    BY QInvInit, QInvStep, SyncInv, <1>1, PTL DEF ASpec

\* A goroutine asleep in espradio_queue_recv comes back to a queue that is there.
THEOREM ReceiversSafe == ASpec => []ReceiversHaveQueues
  <1>1. QInv => ReceiversHaveQueues
    BY DEF QInv
  <1>. QED
    BY QInvInit, QInvStep, SyncInv, <1>1, PTL DEF ASpec

-----------------------------------------------------------------------------
(* Linked lists: nx links the list that begins at b and holds s.           *)

Linked(nx, b, s) ==
    /\ b = First(s)
    /\ \A i \in 1..Len(s) : nx[s[i]] = IF i = Len(s) THEN Nil ELSE s[i + 1]
Last(s) == IF s = <<>> THEN Nil ELSE s[Len(s)]
Once(s) == \A i \in 1..Len(s), j \in 1..Len(s) : s[i] = s[j] => i = j

LEMMA MembersOf ==
  ASSUME NEW s \in Seq(Blocks)
  PROVE  /\ \A x : x \in Members(s) <=> \E i \in 1..Len(s) : x = s[i]
         /\ Members(s) \subseteq Blocks /\ Nil \notin Members(s)
         /\ s = <<>> <=> Members(s) = {}
  <1>1. DOMAIN s = 1..Len(s) /\ Len(s) \in Nat /\ s \in [1..Len(s) -> Blocks]
    BY LenProperties
  <1>2. s = <<>> <=> Len(s) = 0
    BY EmptySeq
  <1>3. Len(s) # 0 => 1 \in 1..Len(s)
    BY <1>1
  <1>4. Len(s) = 0 => 1..Len(s) = {}
    BY <1>1
  <1>5. Members(s) = {s[i] : i \in 1..Len(s)}
    BY <1>1 DEF Members
  <1>. QED
    BY <1>1, <1>2, <1>3, <1>4, <1>5, BlockAssumption

LEMMA LinkedFrame ==
  ASSUME NEW nx, NEW mx, NEW b, NEW s \in Seq(Blocks), Linked(nx, b, s),
         \A m \in Members(s) : mx[m] = nx[m]
  PROVE  Linked(mx, b, s)
  BY MembersOf DEF Linked

LEMMA LinkedTail ==
  ASSUME NEW nx, NEW b, NEW s \in Seq(Blocks), Linked(nx, b, s), b # Nil
  PROVE  /\ s # <<>> /\ b \in Blocks /\ Tail(s) \in Seq(Blocks)
         /\ Linked(nx, nx[b], Tail(s))
         /\ Members(s) = {b} \cup Members(Tail(s))
         /\ Once(s) => Once(Tail(s)) /\ b \notin Members(Tail(s))
         /\ Last(Tail(s)) = IF nx[b] = Nil THEN Nil ELSE Last(s)
  <1>. DEFINE z == Tail(s)
  <1>1. s # <<>> /\ b = s[1]
    BY DEF Linked, First
  <1>2. /\ z \in Seq(Blocks) /\ Len(z) = Len(s) - 1 /\ Len(s) \in Nat
        /\ \A i \in 1..Len(z) : z[i] = s[i + 1]
    BY <1>1, HeadTailProperties, LenProperties
  <1>. HIDE DEF z
  <1>3. Len(s) # 0
    BY <1>1, EmptySeq
  <1>4. 1 \in 1..Len(s) /\ Len(s) >= 1
    BY <1>2, <1>3
  <1>5. b \in Blocks
    BY <1>1, <1>4, ElementOfSeq
  <1>6. nx[b] = IF Len(s) = 1 THEN Nil ELSE s[2]
    <2>1. nx[s[1]] = IF 1 = Len(s) THEN Nil ELSE s[1 + 1]
      BY <1>4 DEF Linked
    <2>2. 1 + 1 = 2
      OBVIOUS
    <2>. QED
      BY <1>1, <2>1, <2>2
  <1>7. z = <<>> <=> Len(s) = 1
    <2>1. Len(z) = 0 <=> Len(s) = 1
      BY <1>2
    <2>2. z = <<>> <=> Len(z) = 0
      BY <1>2, EmptySeq
    <2>. QED
      BY <2>1, <2>2
  <1>8. nx[b] = First(z)
    <2>1. CASE Len(s) = 1
      BY <1>6, <1>7, <2>1 DEF First
    <2>2. CASE Len(s) # 1
      <3>1. 1 \in 1..Len(z)
        BY <1>2, <1>4, <2>2
      <3>. QED
        BY <1>2, <1>6, <1>7, <2>2, <3>1 DEF First
    <2>. QED
      BY <2>1, <2>2
  <1>9. ASSUME NEW i \in 1..Len(z)
        PROVE  nx[z[i]] = IF i = Len(z) THEN Nil ELSE z[i + 1]
    <2>1. i \in Int /\ i + 1 \in 1..Len(s) /\ (i + 1 = Len(s) <=> i = Len(z))
      BY <1>2
    <2>2. nx[s[i + 1]] = IF i + 1 = Len(s) THEN Nil ELSE s[(i + 1) + 1]
      BY <2>1 DEF Linked
    <2>3. i # Len(z) => i + 1 \in 1..Len(z)
      BY <1>2, <2>1
    <2>. QED
      BY <1>2, <2>1, <2>2, <2>3
  <1>10. Linked(nx, nx[b], z)
    BY <1>8, <1>9 DEF Linked
  <1>11. \A x : x \in Members(z) <=> \E i \in 1..Len(z) : x = s[i + 1]
    <2>1. \A x : x \in Members(z) <=> \E i \in 1..Len(z) : x = z[i]
      BY <1>2, MembersOf
    <2>. QED
      BY <1>2, <2>1
  <1>12. Members(s) = {b} \cup Members(z)
    <2>1. ASSUME NEW i \in 1..Len(s), i # 1 PROVE s[i] \in Members(z)
      <3>1. i - 1 \in 1..Len(z) /\ (i - 1) + 1 = i
        BY <1>2, <2>1
      <3>. QED
        BY <1>11, <3>1
    <2>2. ASSUME NEW i \in 1..Len(z) PROVE s[i + 1] \in Members(s)
      <3>1. i + 1 \in 1..Len(s)
        BY <1>2
      <3>. QED
        BY <3>1, MembersOf
    <2>3. Members(s) \subseteq {b} \cup Members(z)
      BY <1>1, <2>1, MembersOf
    <2>4. b \in Members(s)
      BY <1>1, <1>4, MembersOf
    <2>5. Members(z) \subseteq Members(s)
      BY <1>11, <2>2
    <2>. QED
      BY <2>3, <2>4, <2>5
  <1>13. ASSUME Once(s) PROVE Once(z) /\ b \notin Members(z)
    <2>1. ASSUME NEW i \in 1..Len(z), NEW j \in 1..Len(z), z[i] = z[j]
          PROVE  i = j
      <3>1. i + 1 \in 1..Len(s) /\ j + 1 \in 1..Len(s) /\ s[i + 1] = s[j + 1]
        BY <1>2, <2>1
      <3>2. i + 1 = j + 1
        BY <1>13, <3>1 DEF Once
      <3>. QED
        BY <3>2
    <2>2. ASSUME NEW i \in 1..Len(z) PROVE s[i + 1] # s[1]
      <3>1. i + 1 \in 1..Len(s) /\ i + 1 # 1
        BY <1>2
      <3>. QED
        BY <1>4, <1>13, <3>1 DEF Once
    <2>. QED
      BY <1>1, <1>11, <2>1, <2>2 DEF Once
  <1>14. Last(z) = IF nx[b] = Nil THEN Nil ELSE Last(s)
    <2>1. CASE Len(s) = 1
      BY <1>6, <1>7, <2>1 DEF Last
    <2>2. CASE Len(s) # 1
      <3>1. Len(z) \in 1..Len(z) /\ 2 \in 1..Len(s)
            /\ Len(z) + 1 = Len(s)
        BY <1>2, <1>4, <2>2
      <3>2. z[Len(z)] = s[Len(s)]
        BY <1>2, <3>1
      <3>3. nx[b] # Nil
        BY <1>6, <2>2, <3>1, ElementOfSeq, BlockAssumption
      <3>. QED
        BY <1>1, <1>7, <2>2, <3>2, <3>3 DEF Last
    <2>. QED
      BY <2>1, <2>2
  <1>. QED
    BY <1>1, <1>2, <1>5, <1>10, <1>12, <1>13, <1>14 DEF z

LEMMA LinkedFirst ==
  ASSUME NEW nx \in [Blocks -> Blocks \cup {Nil}], NEW b, NEW s \in Seq(Blocks),
         Linked(nx, b, s), NEW h \in Blocks \ Members(s)
  PROVE  /\ Linked([nx EXCEPT ![h] = b], h, <<h>> \o s) /\ <<h>> \o s \in Seq(Blocks)
         /\ Members(<<h>> \o s) = {h} \cup Members(s)
  <1>. DEFINE z == <<h>> \o s
  <1>1. Len(s) \in Nat /\ <<h>> \in Seq(Blocks) /\ Len(<<h>>) = 1 /\ <<h>>[1] = h
    BY LenProperties
  <1>2. /\ z \in Seq(Blocks) /\ Len(z) = Len(s) + 1
        /\ \A i \in 1..Len(z) : z[i] = IF i = 1 THEN h ELSE s[i - 1]
    <2>1. /\ z \in Seq(Blocks) /\ Len(z) = Len(<<h>>) + Len(s)
          /\ \A i \in 1 .. Len(<<h>>) + Len(s) :
               z[i] = IF i <= Len(<<h>>) THEN <<h>>[i] ELSE s[i - Len(<<h>>)]
      BY <1>1, ConcatProperties
    <2>2. Len(z) = Len(s) + 1
      BY <1>1, <2>1
    <2>3. ASSUME NEW i \in 1..Len(z) PROVE z[i] = IF i = 1 THEN h ELSE s[i - 1]
      <3>1. z[i] = IF i <= 1 THEN <<h>>[i] ELSE s[i - 1]
        BY <1>1, <2>1, <2>2
      <3>2. i <= 1 <=> i = 1
        BY <1>1, <2>2
      <3>. QED
        BY <1>1, <3>1, <3>2
    <2>. QED
      BY <2>1, <2>2, <2>3
  <1>3. z # <<>> /\ z[1] = h
    BY <1>1, <1>2, EmptySeq
  <1>. HIDE DEF z
  <1>4. Members(z) = {h} \cup Members(s)
    <2>1. ASSUME NEW i \in 1..Len(s) PROVE s[i] \in Members(z)
      <3>1. i + 1 \in 1..Len(z) /\ i + 1 # 1 /\ (i + 1) - 1 = i
        BY <1>1, <1>2
      <3>2. z[i + 1] = s[i]
        BY <1>2, <3>1
      <3>. QED
        BY <1>2, <3>1, <3>2, MembersOf
    <2>2. ASSUME NEW i \in 1..Len(z), i # 1 PROVE z[i] \in Members(s)
      <3>1. i - 1 \in 1..Len(s) /\ z[i] = s[i - 1]
        BY <1>1, <1>2, <2>2
      <3>. QED
        BY <3>1, MembersOf
    <2>3. 1 \in 1..Len(z)
      BY <1>1, <1>2
    <2>4. Members(z) \subseteq {h} \cup Members(s)
      BY <1>2, <1>3, <2>2, MembersOf
    <2>5. h \in Members(z)
      BY <1>2, <1>3, <2>3, MembersOf
    <2>6. Members(s) \subseteq Members(z)
      BY <2>1, MembersOf
    <2>. QED
      BY <2>4, <2>5, <2>6
  <1>. DEFINE mx == [nx EXCEPT ![h] = b]
  <1>5. mx[h] = b /\ \A m \in Members(s) : mx[m] = nx[m]
    BY MembersOf
  <1>. HIDE DEF mx
  <1>6. ASSUME NEW i \in 1..Len(z)
        PROVE  mx[z[i]] = IF i = Len(z) THEN Nil ELSE z[i + 1]
    <2>1. CASE i = 1
      <3>1. CASE Len(s) = 0
        <4>1. b = Nil
          BY <3>1, EmptySeq DEF Linked, First
        <4>. QED
          BY <1>2, <1>3, <1>5, <2>1, <3>1, <4>1
      <3>2. CASE Len(s) # 0
        <4>1. i # Len(z) /\ i + 1 \in 1..Len(z) /\ i + 1 # 1 /\ (i + 1) - 1 = 1
          BY <1>1, <1>2, <2>1, <3>2
        <4>2. b = s[1]
          BY <3>2, EmptySeq DEF Linked, First
        <4>. QED
          BY <1>2, <1>3, <1>5, <2>1, <4>1, <4>2
      <3>. QED
        BY <3>1, <3>2
    <2>2. CASE i # 1
      <3>1. i - 1 \in 1..Len(s) /\ z[i] = s[i - 1] /\ (i - 1 = Len(s) <=> i = Len(z))
            /\ (i - 1) + 1 = i
        BY <1>1, <1>2, <2>2
      <3>2. nx[s[i - 1]] = IF i - 1 = Len(s) THEN Nil ELSE s[i]
        BY <3>1 DEF Linked
      <3>3. i # Len(z) => i + 1 \in 1..Len(z) /\ i + 1 # 1 /\ (i + 1) - 1 = i
        BY <1>1, <1>2, <2>2
      <3>4. s[i - 1] \in Members(s)
        BY <3>1, MembersOf
      <3>. QED
        BY <1>2, <1>5, <3>1, <3>2, <3>3, <3>4
    <2>. QED
      BY <2>1, <2>2
  <1>7. Linked(mx, h, z)
    BY <1>3, <1>6 DEF Linked, First
  <1>. QED
    BY <1>2, <1>4, <1>7 DEF mx, z

LEMMA LinkedLast ==
  ASSUME NEW nx, NEW b, NEW s \in Seq(Blocks), Linked(nx, b, s), Once(s),
         NEW e \in Blocks \ Members(s), NEW mx,
         mx[e] = Nil, Last(s) # Nil => mx[Last(s)] = e,
         \A m \in Members(s) : m # Last(s) => mx[m] = nx[m]
  PROVE  /\ Linked(mx, IF Last(s) = Nil THEN e ELSE b, Append(s, e)) /\ Once(Append(s, e))
         /\ Append(s, e) \in Seq(Blocks) /\ Last(Append(s, e)) = e
         /\ Members(Append(s, e)) = Members(s) \cup {e}
  <1>. DEFINE z == Append(s, e)
  <1>1. /\ Len(s) \in Nat /\ z \in Seq(Blocks) /\ Len(z) = Len(s) + 1 /\ z[Len(s) + 1] = e
        /\ \A i \in 1..Len(s) : z[i] = s[i]
    BY AppendProperties, LenProperties
  <1>. HIDE DEF z
  <1>2. z # <<>> /\ Last(z) = e
    BY <1>1, EmptySeq DEF Last
  <1>3. \A i \in 1..Len(s) : s[i] \in Members(s) /\ i \in 1..Len(z) /\ i # Len(z) /\ s[i] # e
    BY <1>1, MembersOf
  <1>4. \A i \in 1..Len(z) : i \in 1..Len(s) \/ i = Len(s) + 1
    BY <1>1
  <1>5. Len(z) \in 1..Len(z)
    BY <1>1
  <1>6. Members(z) = Members(s) \cup {e}
    BY <1>1, <1>3, <1>4, <1>5, MembersOf
  <1>7. Once(z)
    BY <1>1, <1>3, <1>4 DEF Once
  <1>8. (s = <<>> <=> Last(s) = Nil) /\ (s = <<>> <=> Len(s) = 0)
    <2>1. s # <<>> => Len(s) \in 1..Len(s)
      BY <1>1, EmptySeq
    <2>. QED
      BY <1>1, <2>1, EmptySeq, ElementOfSeq, BlockAssumption DEF Last
  <1>9. (IF Last(s) = Nil THEN e ELSE b) = First(z)
    <2>1. CASE s = <<>>
      BY <1>1, <1>2, <1>8, <2>1 DEF First
    <2>2. CASE s # <<>>
      <3>1. 1 \in 1..Len(s)
        BY <1>1, <1>8, <2>2
      <3>. QED
        BY <1>1, <1>2, <1>8, <2>2, <3>1 DEF First, Linked
    <2>. QED
      BY <2>1, <2>2
  <1>10. ASSUME NEW i \in 1..Len(z)
         PROVE  mx[z[i]] = IF i = Len(z) THEN Nil ELSE z[i + 1]
    <2>1. CASE i = Len(s) + 1
      BY <1>1, <2>1
    <2>2. CASE i = Len(s) /\ i \in 1..Len(s)
      <3>1. s # <<>> /\ Last(s) = s[i] /\ z[i] = s[i] /\ z[i + 1] = e /\ i # Len(z)
        BY <1>1, <1>3, <1>8, <2>2 DEF Last
      <3>. QED
        BY <1>8, <3>1
    <2>3. CASE i # Len(s) /\ i \in 1..Len(s)
      <3>1. i + 1 \in 1..Len(s) /\ Len(s) \in 1..Len(s) /\ Len(s) # 0
        BY <1>1, <2>3
      <3>2. s[i] # Last(s)
        BY <1>8, <2>3, <3>1 DEF Once, Last
      <3>3. z[i] = s[i] /\ z[i + 1] = s[i + 1] /\ s[i] \in Members(s) /\ i # Len(z)
        BY <1>1, <1>3, <2>3, <3>1
      <3>4. nx[s[i]] = s[i + 1]
        BY <2>3 DEF Linked
      <3>. QED
        BY <3>2, <3>3, <3>4
    <2>. QED
      BY <1>4, <2>1, <2>2, <2>3
  <1>11. Linked(mx, IF Last(s) = Nil THEN e ELSE b, z)
    BY <1>9, <1>10 DEF Linked
  <1>. QED
    BY <1>1, <1>2, <1>6, <1>7, <1>11 DEF z

-----------------------------------------------------------------------------
(* The event loop.                                                         *)

LType ==
    /\ ready \in BOOLEAN /\ by \in Tasks \cup {None}
    /\ {evNow, hNow, evHead, evTail, hHead} \subseteq Blocks \cup {Nil}
    /\ next \in [Blocks -> Blocks \cup {Nil}]
    /\ base \in [Blocks -> Blocks \cup {Nil}] /\ data \in [Blocks -> Blocks \cup {Nil}]
    /\ allocated \subseteq Blocks
    /\ order \in Seq(Blocks) /\ known \in Seq(Blocks) /\ rest \in Seq(Blocks)
\* A walk has a goroutine and an event, or neither; without a loop there is
\* nothing.
LPhase ==
    /\ by = None <=> evNow = Nil
    /\ evNow = Nil => hNow = Nil
    /\ ~ready => order = <<>> /\ known = <<>> /\ evNow = Nil
Lists ==
    /\ Linked(next, evHead, order) /\ Linked(next, hHead, known) /\ Linked(next, hNow, rest)
    /\ evTail = Last(order) /\ Once(order)
LInv == LType /\ LPhase /\ Lists /\ EventMemory

LEMMA LInvLists == LInv => ListsIntact
  BY DEF LInv, Lists, ListsIntact, Chain, Linked, Last

LEMMA NothingThere ==
  /\ <<>> \in Seq(Blocks) /\ Members(<<>>) = {} /\ Once(<<>>) /\ Last(<<>>) = Nil
  /\ \A nx : Linked(nx, Nil, <<>>)
  <1>1. <<>> \in Seq(Blocks) /\ Len(<<>>) = 0
    BY EmptySeq
  <1>2. 1..0 = {}
    OBVIOUS
  <1>. QED
    BY <1>1, <1>2, MembersOf DEF Once, Last, Linked, First

LEMMA NilIsNothing ==
  ASSUME NEW nx, NEW s \in Seq(Blocks), Linked(nx, Nil, s)
  PROVE  s = <<>>
  <1>1. ASSUME s # <<>> PROVE FALSE
    <2>1. s[1] = Nil
      BY <1>1 DEF Linked, First
    <2>2. 1 \in 1..Len(s)
      BY <1>1, EmptySeq
    <2>. QED
      BY <2>1, <2>2, ElementOfSeq, BlockAssumption
  <1>. QED
    BY <1>1

LEMMA LastMember ==
  ASSUME NEW s \in Seq(Blocks), Last(s) # Nil
  PROVE  Last(s) \in Members(s) /\ s # <<>>
  <1>1. s # <<>>
    BY DEF Last
  <1>2. Len(s) \in 1..Len(s)
    BY <1>1, EmptySeq
  <1>. QED
    BY <1>1, <1>2, MembersOf DEF Last

\* The blocks of the arena an event takes are in use, and no handler's.
LEMMA EventBlocks ==
  ASSUME LInv
  PROVE  /\ Members(order) \subseteq allocated /\ Members(known) \subseteq allocated
         /\ Members(rest) \subseteq Members(known)
         /\ Events \subseteq allocated /\ Events \cap Members(known) = {}
         /\ \A e \in Events : Owned(e) \subseteq allocated /\ Owned(e) \cap Members(known) = {}
  <1>1. Members(order) \subseteq Blocks /\ Nil \notin Members(order) /\ Events \subseteq Blocks
    BY MembersOf DEF LInv, LType, Events
  <1>2. \A e \in Events : e \in Owned(e) /\ Owned(e) \subseteq allocated
    BY <1>1, BlockAssumption DEF LInv, EventMemory, Owned
  <1>3. Members(order) \subseteq Events
    BY DEF Events
  <1>. QED
    BY <1>1, <1>2, <1>3 DEF LInv, EventMemory, Owned

LEMMA LoopSame ==
  ASSUME LInv, UNCHANGED lvars
  PROVE  LInv'
  <1>1. UNCHANGED <<ready, evHead, evTail, hHead, next, order, known, base, data,
                    allocated, by, evNow, hNow, rest>>
    BY DEF lvars, lists, event, walk
  <1>2. Events' = Events /\ \A e : Owned(e)' = Owned(e)
    BY <1>1 DEF Events, Owned
  <1>3. EventMemory'
    BY <1>1, <1>2 DEF LInv, EventMemory
  <1>. QED
    BY <1>1, <1>3 DEF LInv, LType, LPhase, Lists

LEMMA StepLoopCreate ==
  ASSUME LInv, NEW t \in Tasks, LoopCreate(t)
  PROVE  LInv'
  <1>1. /\ ~ready /\ ready' = TRUE /\ evHead' = Nil /\ evTail' = Nil /\ hHead' = Nil
        /\ UNCHANGED <<next, order, known, base, data, allocated, by, evNow, hNow, rest>>
    BY DEF LoopCreate, event, walk
  <1>2. order = <<>> /\ known = <<>>
    BY <1>1 DEF LInv, LPhase
  <1>3. Events' = Events /\ \A e : Owned(e)' = Owned(e)
    BY <1>1 DEF Events, Owned
  <1>4. EventMemory'
    BY <1>1, <1>3 DEF LInv, EventMemory
  <1>5. Lists'
    BY <1>1, <1>2, NothingThere DEF LInv, Lists
  <1>6. LType' /\ LPhase'
    BY <1>1 DEF LInv, LType, LPhase
  <1>. QED
    BY <1>4, <1>5, <1>6 DEF LInv

LEMMA StepLoopDelete ==
  ASSUME LInv, NEW t \in Tasks, LoopDelete(t)
  PROVE  LInv'
  <1>1. /\ evNow = Nil /\ ready' = FALSE /\ evHead' = Nil /\ evTail' = Nil /\ hHead' = Nil
        /\ allocated' = allocated \ (Members(known) \cup UNION {Owned(e) : e \in Members(order)})
        /\ order' = <<>> /\ known' = <<>>
        /\ next' = [b \in Blocks |-> Nil]
        /\ base' = [b \in Blocks |-> Nil] /\ data' = [b \in Blocks |-> Nil]
        /\ UNCHANGED <<by, evNow, hNow, rest>>
    BY DEF LoopDelete, walk, Release
  <1>2. hNow = Nil /\ rest = <<>>
    BY <1>1, NilIsNothing DEF LInv, LPhase, Lists, LType
  <1>3. Events = Members(order)
    BY <1>1 DEF Events
  <1>4. allocated' = {}
    BY <1>1, <1>3 DEF LInv, EventMemory
  <1>5. Events' = {}
    BY <1>1, NothingThere DEF Events
  <1>6. EventMemory'
    BY <1>1, <1>2, <1>4, <1>5, NothingThere DEF EventMemory
  <1>7. Lists'
    BY <1>1, <1>2, NothingThere DEF Lists
  <1>8. LType' /\ LPhase'
    BY <1>1, <1>2, <1>4, NothingThere DEF LInv, LType, LPhase
  <1>. QED
    BY <1>6, <1>7, <1>8 DEF LInv

LEMMA StepRegister ==
  ASSUME LInv, NEW t \in Tasks, NEW h \in Blocks, Register(t, h)
  PROVE  LInv'
  <1>1. /\ ready /\ h \notin allocated /\ allocated' = allocated \cup {h}
        /\ next' = [next EXCEPT ![h] = hHead] /\ hHead' = h
        /\ known' = <<h>> \o known
        /\ UNCHANGED <<ready, evHead, evTail, order, base, data, by, evNow, hNow, rest>>
    BY DEF Register, event, walk
  <1>2. /\ next \in [Blocks -> Blocks \cup {Nil}] /\ order \in Seq(Blocks)
        /\ known \in Seq(Blocks) /\ rest \in Seq(Blocks) /\ hHead \in Blocks \cup {Nil}
    BY DEF LInv, LType
  <1>3. h \notin Members(order) /\ h \notin Members(known) /\ h \notin Members(rest)
        /\ h \notin Events /\ \A e \in Events : h \notin Owned(e)
    BY <1>1, EventBlocks
  <1>4. /\ Linked(next', hHead', known') /\ known' \in Seq(Blocks)
        /\ Members(known') = {h} \cup Members(known)
    BY <1>1, <1>2, <1>3, LinkedFirst DEF LInv, Lists
  <1>5. \A m \in Blocks : m # h => next'[m] = next[m]
    BY <1>1, <1>2
  <1>6. Linked(next', evHead', order') /\ Linked(next', hNow', rest')
    <2>1. /\ \A m \in Members(order) : next'[m] = next[m]
          /\ \A m \in Members(rest) : next'[m] = next[m]
      BY <1>2, <1>3, <1>5, MembersOf
    <2>. QED
      BY <1>1, <1>2, <2>1, LinkedFrame DEF LInv, Lists
  <1>7. Lists'
    BY <1>1, <1>4, <1>6 DEF LInv, Lists
  <1>8. Events' = Events /\ \A e : Owned(e)' = Owned(e)
    BY <1>1 DEF Events, Owned
  <1>9. Members(known)' = {h} \cup Members(known) /\ Members(order)' = Members(order)
        /\ Members(rest)' = Members(rest)
    BY <1>1, <1>4
  <1>10. EventMemory'
    <2>1. allocated' = Members(known)' \cup UNION {Owned(e)' : e \in Events'}
      BY <1>1, <1>8, <1>9 DEF LInv, EventMemory
    <2>2. \A e \in Events : h # base[e] /\ h # data[e]
      BY <1>3, BlockAssumption DEF Owned
    <2>3. \A e \in Events : {base'[e], data'[e]} \cap (Events' \cup Members(known)') = {}
      BY <1>1, <1>8, <1>9, <2>2 DEF LInv, EventMemory
    <2>. QED
      BY <1>1, <1>3, <1>8, <1>9, <2>1, <2>3 DEF LInv, EventMemory
  <1>11. LType'
    BY <1>1, <1>2, <1>4 DEF LInv, LType
  <1>12. LPhase'
    BY <1>1 DEF LInv, LPhase
  <1>. QED
    BY <1>7, <1>10, <1>11, <1>12 DEF LInv

\* The item, base and data of a new event are blocks nobody has.
LEMMA StepPost ==
  ASSUME LInv, NEW t \in Tasks, NEW named \in BOOLEAN, NEW sized \in BOOLEAN,
         Post(t, named, sized)
  PROVE  LInv'
  <1>1. ready /\ UNCHANGED <<ready, hHead, known, by, evNow, hNow, rest>>
    BY DEF Post, walk
  <1>2. PICK e \in Alloc({}) \ {Nil} :
        \E b \in IF named THEN Alloc({e}) ELSE {Nil} :
        \E d \in IF sized THEN Alloc({e, b}) ELSE {Nil} :
         /\ allocated' = allocated \cup ({e, b, d} \ {Nil})
         /\ base' = [base EXCEPT ![e] = b] /\ data' = [data EXCEPT ![e] = d]
         /\ next' = [n \in Blocks |-> IF n = e THEN Nil
                                      ELSE IF n = evTail THEN e ELSE next[n]]
         /\ evHead' = IF evTail = Nil THEN e ELSE evHead
         /\ evTail' = e
         /\ order' = Append(order, e)
    BY DEF Post
  <1>3. PICK b \in IF named THEN Alloc({e}) ELSE {Nil} :
        \E d \in IF sized THEN Alloc({e, b}) ELSE {Nil} :
         /\ allocated' = allocated \cup ({e, b, d} \ {Nil})
         /\ base' = [base EXCEPT ![e] = b] /\ data' = [data EXCEPT ![e] = d]
         /\ next' = [n \in Blocks |-> IF n = e THEN Nil
                                      ELSE IF n = evTail THEN e ELSE next[n]]
         /\ evHead' = IF evTail = Nil THEN e ELSE evHead
         /\ evTail' = e
         /\ order' = Append(order, e)
    BY <1>2
  <1>4. PICK d \in IF sized THEN Alloc({e, b}) ELSE {Nil} :
         /\ allocated' = allocated \cup ({e, b, d} \ {Nil})
         /\ base' = [base EXCEPT ![e] = b] /\ data' = [data EXCEPT ![e] = d]
         /\ next' = [n \in Blocks |-> IF n = e THEN Nil
                                      ELSE IF n = evTail THEN e ELSE next[n]]
         /\ evHead' = IF evTail = Nil THEN e ELSE evHead
         /\ evTail' = e
         /\ order' = Append(order, e)
    BY <1>3
  <1>5. e \in Blocks \ allocated /\ e # Nil
    BY DEF Alloc
  <1>6. b = Nil \/ (b \in Blocks \ allocated /\ b # e /\ b # Nil)
    BY BlockAssumption DEF Alloc
  <1>7. d = Nil \/ (d \in Blocks \ allocated /\ d # e /\ d # b /\ d # Nil)
    BY BlockAssumption DEF Alloc
  <1>8. /\ order \in Seq(Blocks) /\ known \in Seq(Blocks) /\ rest \in Seq(Blocks)
        /\ base \in [Blocks -> Blocks \cup {Nil}] /\ data \in [Blocks -> Blocks \cup {Nil}]
        /\ next \in [Blocks -> Blocks \cup {Nil}] /\ evTail = Last(order) /\ Once(order)
    BY DEF LInv, LType, Lists
  <1>9. /\ \A x \in {e, b, d} : x \notin Members(order) /\ x \notin Members(known)
                                /\ x \notin Members(rest) /\ x \notin Events
        /\ \A x \in {e, b, d}, f \in Events : x \notin Owned(f)
    <2>1. \A x \in {e, b, d} : x = Nil \/ x \notin allocated
      BY <1>5, <1>6, <1>7
    <2>2. /\ Nil \notin Members(order) /\ Nil \notin Members(known) /\ Nil \notin Members(rest)
          /\ Nil \notin Events /\ \A f : Nil \notin Owned(f)
      BY <1>8, MembersOf DEF Events, Owned
    <2>. QED
      BY <2>1, <2>2, EventBlocks
  <1>10. /\ \A m \in Members(order) : m # evTail => next'[m] = next[m]
         /\ \A m \in Members(known) : next'[m] = next[m]
         /\ \A m \in Members(rest) : next'[m] = next[m]
         /\ next'[e] = Nil /\ evTail # Nil => next'[evTail] = e
    <2>1. \A m \in Blocks : m # e /\ m # evTail => next'[m] = next[m]
      BY <1>4
    <2>2. next'[e] = Nil
      BY <1>4, <1>5
    <2>3. evTail # Nil => evTail \in Members(order) /\ evTail \in Blocks /\ evTail # e
      BY <1>8, <1>9, LastMember, MembersOf
    <2>4. evTail # Nil => next'[evTail] = e
      BY <1>4, <2>3
    <2>5. \A m \in Members(known) : m # evTail /\ m # e /\ m \in Blocks
      BY <1>8, <1>9, <2>3, EventBlocks, MembersOf DEF Events
    <2>. QED
      BY <1>8, <1>9, <2>1, <2>2, <2>4, <2>5, EventBlocks, MembersOf
  <1>11. /\ Linked(next', evHead', order') /\ Once(order') /\ order' \in Seq(Blocks)
         /\ evTail' = Last(order') /\ Members(order') = Members(order) \cup {e}
    <2>1. Linked(next, evHead, order)
      BY DEF LInv, Lists
    <2>2. e \in Blocks \ Members(order)
      BY <1>5, <1>9
    <2>. QED
      BY <1>4, <1>8, <1>10, <2>1, <2>2, LinkedLast
  <1>12. Linked(next', hHead', known') /\ Linked(next', hNow', rest')
    BY <1>1, <1>8, <1>10, LinkedFrame DEF LInv, Lists
  <1>13. Lists'
    BY <1>11, <1>12 DEF Lists
  <1>14. LType'
    <2>1. allocated' \subseteq Blocks /\ evTail' \in Blocks \cup {Nil}
          /\ evHead' \in Blocks \cup {Nil}
      BY <1>4, <1>5, <1>6, <1>7 DEF LInv, LType
    <2>2. next' \in [Blocks -> Blocks \cup {Nil}]
      BY <1>4, <1>5, <1>8
    <2>3. base' \in [Blocks -> Blocks \cup {Nil}] /\ data' \in [Blocks -> Blocks \cup {Nil}]
      BY <1>4, <1>5, <1>6, <1>7, <1>8
    <2>. QED
      BY <1>1, <1>11, <2>1, <2>2, <2>3 DEF LInv, LType
  <1>15. LPhase'
    BY <1>1 DEF LInv, LPhase
  <1>16. Events' = Events \cup {e}
    BY <1>1, <1>11 DEF Events
  <1>17. /\ base'[e] = b /\ data'[e] = d
         /\ \A f \in Events : base'[f] = base[f] /\ data'[f] = data[f]
    BY <1>4, <1>5, <1>8, <1>9
  <1>18. Owned(e)' = {e, b, d} \ {Nil} /\ \A f \in Events : Owned(f)' = Owned(f)
    BY <1>17 DEF Owned
  <1>19. EventMemory'
    <2>1. allocated' = Members(known)' \cup UNION {Owned(f)' : f \in Events'}
      BY <1>1, <1>4, <1>16, <1>18 DEF LInv, EventMemory
    <2>2. /\ Members(known)' \cap Events' = {} /\ evNow' \notin Members(order)'
          /\ Members(rest)' \subseteq Members(known)'
      <3>1. evNow # e
        BY <1>5, <1>9 DEF Events
      <3>. QED
        BY <1>1, <1>9, <1>11, <1>16, <3>1 DEF LInv, EventMemory
    <2>3. ASSUME NEW f \in Events
          PROVE  /\ {base'[f], data'[f]} \cap (Events' \cup Members(known)') = {}
                 /\ base'[f] = data'[f] => base'[f] = Nil
      <3>1. base[f] # e /\ data[f] # e
        BY <1>5, <1>9 DEF Owned
      <3>. QED
        BY <1>1, <1>16, <1>17, <3>1 DEF LInv, EventMemory
    <2>4. /\ {base'[e], data'[e]} \cap (Events' \cup Members(known)') = {}
          /\ base'[e] = data'[e] => base'[e] = Nil
      BY <1>1, <1>5, <1>6, <1>7, <1>9, <1>16, <1>17
    <2>5. ASSUME NEW f \in Events', NEW g \in Events' \ {f} PROVE Owned(f)' \cap Owned(g)' = {}
      <3>1. CASE f \in Events /\ g \in Events
        BY <1>18, <2>5, <3>1 DEF LInv, EventMemory
      <3>2. CASE f = e /\ g \in Events
        BY <1>9, <1>18, <3>2
      <3>3. CASE f \in Events /\ g = e
        BY <1>9, <1>18, <3>3
      <3>. QED
        BY <1>16, <2>5, <3>1, <3>2, <3>3
    <2>. QED
      BY <1>16, <2>1, <2>2, <2>3, <2>4, <2>5 DEF EventMemory
  <1>. QED
    BY <1>13, <1>14, <1>15, <1>19 DEF LInv

LEMMA StepDispatch ==
  ASSUME LInv, NEW t \in Tasks, Dispatch(t)
  PROVE  LInv'
  <1>1. /\ ready /\ evNow = Nil /\ evHead # Nil
        /\ by' = t /\ evNow' = evHead /\ hNow' = hHead /\ rest' = known
        /\ evHead' = next[evHead]
        /\ evTail' = (IF next[evHead] = Nil THEN Nil ELSE evTail)
        /\ order' = Tail(order)
        /\ UNCHANGED <<ready, hHead, next, known, base, data, allocated>>
    BY DEF Dispatch, event
  <1>2. /\ order \in Seq(Blocks) /\ Linked(next, evHead, order) /\ Once(order)
        /\ evTail = Last(order)
    BY DEF LInv, LType, Lists
  <1>3. /\ evHead \in Blocks /\ order' \in Seq(Blocks) /\ Linked(next, next[evHead], order')
        /\ Members(order) = {evHead} \cup Members(order') /\ Once(order')
        /\ evHead \notin Members(order')
        /\ Last(order') = IF next[evHead] = Nil THEN Nil ELSE Last(order)
    BY <1>1, <1>2, LinkedTail
  <1>4. Lists'
    BY <1>1, <1>2, <1>3 DEF LInv, Lists
  <1>5. LType'
    BY <1>1, <1>3 DEF LInv, LType
  <1>6. LPhase'
    BY <1>1, <1>3, TaskAssumption, BlockAssumption DEF LInv, LPhase
  <1>7. Events' = Events /\ \A e : Owned(e)' = Owned(e)
    BY <1>1, <1>3, BlockAssumption DEF Events, Owned
  <1>8. EventMemory'
    BY <1>1, <1>3, <1>7 DEF LInv, EventMemory
  <1>. QED
    BY <1>4, <1>5, <1>6, <1>8 DEF LInv

LEMMA StepHandlerReturns ==
  ASSUME LInv, NEW t \in Tasks, HandlerReturns(t)
  PROVE  LInv'
  <1>1. /\ by = t /\ hNow # Nil /\ hNow' = next[hNow] /\ rest' = Tail(rest)
        /\ UNCHANGED <<ready, evHead, evTail, hHead, next, order, known, base, data,
                       allocated, by, evNow>>
    BY DEF HandlerReturns, lists, event
  <1>2. rest \in Seq(Blocks) /\ Linked(next, hNow, rest)
    BY DEF LInv, LType, Lists
  <1>3. /\ hNow \in Blocks /\ rest' \in Seq(Blocks) /\ Linked(next, next[hNow], rest')
        /\ Members(rest) = {hNow} \cup Members(rest')
    BY <1>1, <1>2, LinkedTail
  <1>4. Lists'
    BY <1>1, <1>3 DEF LInv, Lists
  <1>5. LType' /\ LPhase'
    BY <1>1, <1>3, TaskAssumption DEF LInv, LType, LPhase
  <1>6. Events' = Events /\ \A e : Owned(e)' = Owned(e)
    BY <1>1 DEF Events, Owned
  <1>7. EventMemory'
    BY <1>1, <1>3, <1>6 DEF LInv, EventMemory
  <1>. QED
    BY <1>4, <1>5, <1>7 DEF LInv

LEMMA StepDispatched ==
  ASSUME LInv, NEW t \in Tasks, Dispatched(t)
  PROVE  LInv'
  <1>1. /\ by = t /\ hNow = Nil /\ allocated' = allocated \ Owned(evNow)
        /\ by' = None /\ evNow' = Nil
        /\ base' = [base EXCEPT ![evNow] = Nil] /\ data' = [data EXCEPT ![evNow] = Nil]
        /\ next' = [next EXCEPT ![evNow] = Nil]
        /\ UNCHANGED <<ready, evHead, evTail, hHead, order, known, hNow, rest>>
    BY DEF Dispatched, Release
  <1>2. evNow \in Blocks /\ evNow # Nil /\ evNow \in Events
    BY <1>1, TaskAssumption DEF LInv, LType, LPhase, Events
  <1>3. /\ evNow \notin Members(order) /\ evNow \notin Members(known)
        /\ evNow \notin Members(rest)
    BY <1>2 DEF LInv, EventMemory
  <1>4. /\ order \in Seq(Blocks) /\ known \in Seq(Blocks) /\ rest \in Seq(Blocks)
        /\ next \in [Blocks -> Blocks \cup {Nil}]
    BY DEF LInv, LType
  <1>5. \A m \in Blocks : m # evNow => /\ next'[m] = next[m] /\ base'[m] = base[m]
                                       /\ data'[m] = data[m]
    BY <1>1 DEF LInv, LType
  <1>6. /\ \A m \in Members(order) : next'[m] = next[m]
        /\ \A m \in Members(known) : next'[m] = next[m]
        /\ \A m \in Members(rest) : next'[m] = next[m]
    BY <1>3, <1>4, <1>5, MembersOf
  <1>7. Lists'
    BY <1>1, <1>4, <1>6, LinkedFrame DEF LInv, Lists
  <1>8. LType'
    BY <1>1, <1>2 DEF LInv, LType
  <1>9. LPhase'
    BY <1>1 DEF LInv, LPhase
  <1>10. Events' = Events \ {evNow} /\ Events \subseteq Blocks
    BY <1>1, <1>2, <1>3, <1>4, MembersOf DEF Events
  <1>11. \A e \in Events' : Owned(e)' = Owned(e) /\ base'[e] = base[e] /\ data'[e] = data[e]
    BY <1>5, <1>10 DEF Owned
  <1>12. EventMemory'
    <2>1. \A e \in Events' : Owned(e) \cap Owned(evNow) = {}
      BY <1>2, <1>10 DEF LInv, EventMemory
    <2>2. Members(known) \cap Owned(evNow) = {}
      BY <1>2, EventBlocks
    <2>3. allocated = Members(known) \cup UNION {Owned(e) : e \in Events}
      BY DEF LInv, EventMemory
    <2>4. allocated' = Members(known) \cup UNION {Owned(e) : e \in Events'}
      BY <1>1, <1>2, <1>10, <2>1, <2>2, <2>3
    <2>5. allocated' = Members(known)' \cup UNION {Owned(e)' : e \in Events'}
      BY <1>1, <1>11, <2>4
    <2>6. /\ Members(known)' \cap Events' = {} /\ evNow' \notin Members(order)'
          /\ Members(rest)' \subseteq Members(known)'
      BY <1>1, <1>4, <1>10, MembersOf DEF LInv, EventMemory
    <2>7. \A e \in Events' :
            /\ {base'[e], data'[e]} \cap (Events' \cup Members(known)') = {}
            /\ base'[e] = data'[e] => base'[e] = Nil
      BY <1>1, <1>10, <1>11 DEF LInv, EventMemory
    <2>8. \A e \in Events' : \A f \in Events' \ {e} : Owned(e)' \cap Owned(f)' = {}
      BY <1>10, <1>11 DEF LInv, EventMemory
    <2>. QED
      BY <2>5, <2>6, <2>7, <2>8 DEF EventMemory
  <1>. QED
    BY <1>7, <1>8, <1>9, <1>12 DEF LInv

LEMMA LInvInit == AInit => LInv
  <1>. SUFFICES ASSUME AInit PROVE LInv
    OBVIOUS
  <1>1. /\ ready = FALSE /\ evHead = Nil /\ evTail = Nil /\ hHead = Nil
        /\ next = [b \in Blocks |-> Nil] /\ base = [b \in Blocks |-> Nil]
        /\ data = [b \in Blocks |-> Nil] /\ allocated = {}
        /\ by = None /\ evNow = Nil /\ hNow = Nil
        /\ order = <<>> /\ known = <<>> /\ rest = <<>>
    BY DEF AInit, LInit
  <1>2. LType /\ LPhase /\ Lists
    BY <1>1, NothingThere DEF LType, LPhase, Lists
  <1>3. Events = {}
    BY <1>1, NothingThere DEF Events
  <1>4. EventMemory
    BY <1>1, <1>3, NothingThere DEF EventMemory
  <1>. QED
    BY <1>2, <1>4 DEF LInv

LEMMA LInvStep == LInv /\ [ANext]_allVars => LInv'
  <1>. SUFFICES ASSUME LInv, [ANext]_allVars PROVE LInv'
    OBVIOUS
  <1>1. CASE UNCHANGED lvars
    BY <1>1, LoopSame
  <1>2. CASE LoopStep
    BY <1>2, StepLoopCreate, StepLoopDelete, StepDispatch, StepHandlerReturns,
       StepDispatched, StepRegister, StepPost DEF LoopStep
  <1>. QED
    BY <1>1, <1>2 DEF ANext, SyncStep, allVars

\* esp_event_post, esp_event_handler_register and espradio_event_loop_run_once
\* keep both lists whole, whatever a handler does while it is called.
THEOREM ListsWhole == ASpec => []ListsIntact
  BY LInvInit, LInvStep, LInvLists, PTL DEF ASpec

\* Every block of an event is freed when it has been dispatched and none before.
THEOREM MemoryRight == ASpec => []EventMemory
  <1>1. LInv => EventMemory
    BY DEF LInv
  <1>. QED
    BY LInvInit, LInvStep, <1>1, PTL DEF ASpec

-----------------------------------------------------------------------------
(* The event loop implements the bus of EventBus.                          *)

BusStep == [Bus!BusNext]_Bus!bus

LEMMA FrontIsFirst == \A s \in Seq(Blocks) : Bus!Front(s) = First(s)
  BY DEF Bus!Front, First

\* A block that is free belongs to no event and is no handler.
LEMMA FreeIsFresh ==
  ASSUME LInv, NEW b \in Blocks \ allocated
  PROVE  b \notin Bus!InUse
  <1>1. b \notin Members(order) /\ b \notin Members(known) /\ b \notin Events
    BY EventBlocks
  <1>2. b # evNow
    BY <1>1, BlockAssumption DEF Events
  <1>. QED
    BY <1>1, <1>2 DEF Bus!InUse, Members

LEMMA BusByDispatch ==
  ASSUME LInv, NEW t \in Tasks, Dispatch(t)
  PROVE  BusStep
  <1>1. /\ ready /\ evNow = Nil /\ evHead # Nil
        /\ evNow' = evHead /\ hNow' = hHead /\ rest' = known
        /\ order' = Tail(order) /\ UNCHANGED <<ready, known>>
    BY DEF Dispatch
  <1>2. order # <<>> /\ evHead = Head(order) /\ hHead = Bus!Front(known)
    BY <1>1, FrontIsFirst, EmptySeq DEF LInv, LType, Lists, Linked, First
  <1>. QED
    BY <1>1, <1>2 DEF BusStep, Bus!BusNext, Bus!Dispatch

LEMMA BusByHandler ==
  ASSUME LInv, LInv', NEW t \in Tasks, HandlerReturns(t)
  PROVE  BusStep
  <1>1. /\ by = t /\ hNow # Nil /\ rest' = Tail(rest)
        /\ UNCHANGED <<ready, order, known, evNow>>
    BY DEF HandlerReturns, lists
  <1>2. evNow # Nil /\ rest # <<>>
    BY <1>1, TaskAssumption DEF LInv, LPhase, Lists, Linked, First
  <1>3. hNow' = Bus!Front(rest')
    BY FrontIsFirst DEF LInv, LType, Lists, Linked
  <1>4. hNow' = Bus!Front(Tail(rest))
    BY <1>1, <1>3
  <1>. QED
    BY <1>1, <1>2, <1>4 DEF BusStep, Bus!BusNext, Bus!HandlerReturns

LEMMA BusByEnd ==
  ASSUME LInv, NEW t \in Tasks, Dispatched(t)
  PROVE  BusStep
  <1>1. /\ by = t /\ hNow = Nil /\ evNow' = Nil
        /\ UNCHANGED <<ready, order, known, hNow, rest>>
    BY DEF Dispatched
  <1>2. evNow # Nil /\ rest = <<>>
    BY <1>1, TaskAssumption, NilIsNothing DEF LInv, LType, LPhase, Lists
  <1>. QED
    BY <1>1, <1>2 DEF BusStep, Bus!BusNext, Bus!Dispatched

LEMMA BusByPost ==
  ASSUME LInv, NEW t \in Tasks, NEW named \in BOOLEAN, NEW sized \in BOOLEAN,
         Post(t, named, sized)
  PROVE  BusStep
  <1>1. ready /\ UNCHANGED <<ready, known, evNow, hNow, rest>>
    BY DEF Post, walk
  <1>2. PICK e \in Alloc({}) \ {Nil} : order' = Append(order, e)
    BY DEF Post
  <1>3. e \in Blocks \ allocated
    BY <1>2 DEF Alloc
  <1>4. e \notin Bus!InUse
    BY <1>3, FreeIsFresh
  <1>5. Bus!Post(e)
    BY <1>1, <1>2, <1>4 DEF Bus!Post
  <1>. QED
    BY <1>3, <1>5 DEF BusStep, Bus!BusNext

LEMMA BusByRest ==
  ASSUME LInv, NEW t \in Tasks,
         LoopCreate(t) \/ LoopDelete(t) \/ \E h \in Blocks : Register(t, h)
  PROVE  BusStep
  <1>1. CASE LoopCreate(t)
    <2>1. /\ ~ready /\ ready' = TRUE
          /\ UNCHANGED <<order, known, evNow, hNow, rest>>
      BY <1>1 DEF LoopCreate, walk
    <2>. QED
      BY <2>1 DEF BusStep, Bus!BusNext, Bus!Open
  <1>2. CASE LoopDelete(t)
    <2>1. /\ ready /\ evNow = Nil /\ ready' = FALSE
          /\ order' = <<>> /\ known' = <<>> /\ UNCHANGED <<evNow, hNow, rest>>
      BY <1>2 DEF LoopDelete, walk
    <2>. QED
      BY <2>1 DEF BusStep, Bus!BusNext, Bus!Close
  <1>3. ASSUME NEW h \in Blocks, Register(t, h) PROVE BusStep
    <2>1. /\ ready /\ h \in Blocks \ allocated /\ known' = <<h>> \o known
          /\ UNCHANGED <<ready, order, evNow, hNow, rest>>
      BY <1>3 DEF Register, walk
    <2>2. Bus!Register(h)
      BY <2>1, FreeIsFresh DEF Bus!Register
    <2>. QED
      BY <2>2 DEF BusStep, Bus!BusNext
  <1>. QED
    BY <1>1, <1>2, <1>3

LEMMA BusSteps == LInv /\ LInv' /\ [ANext]_allVars => BusStep
  <1>. SUFFICES ASSUME LInv, LInv', [ANext]_allVars PROVE BusStep
    OBVIOUS
  <1>1. CASE UNCHANGED lvars
    BY <1>1 DEF lvars, lists, walk, BusStep, Bus!bus
  <1>2. CASE LoopStep
    BY <1>2, BusByDispatch, BusByHandler, BusByEnd, BusByPost, BusByRest
    DEF LoopStep
  <1>. QED
    BY <1>1, <1>2 DEF ANext, SyncStep, allVars

\* What esp_event_post queues and esp_event_handler_register links is dispatched
\* as EventBus says, for any number of events, handlers and blocks, whatever a
\* handler does while it is called.
THEOREM LoopImplementsBus == ASpec => ImplementsBus
  <1>1. AInit => Bus!BusInit
    BY DEF AInit, LInit, Bus!BusInit
  <1>2. ASpec => []LInv
    BY LInvInit, LInvStep, PTL DEF ASpec
  <1>3. ASpec => [][Bus!BusNext]_Bus!bus
    BY <1>2, BusSteps, PTL DEF ASpec, BusStep
  <1>. QED
    BY <1>1, <1>3, PTL DEF ASpec, ImplementsBus, Bus!BusSpec
=============================================================================
