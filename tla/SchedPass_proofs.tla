--------------------------- MODULE SchedPass_proofs ---------------------------
(***************************************************************************)
(* Proofs about SchedPass, for every ring size, queue length, number of    *)
(* events and set of goroutines that pump the scheduler.                   *)
(***************************************************************************)
EXTENDS SchedPass, SequenceTheorems, TLAPS

\* One pass at a time, and the line stays masked around the blob ISR it calls.
Exclusion ==
    /\ \A g, h \in Callers : InPass(g) /\ InPass(h) => g = h
    /\ \A g \in Callers : InPass(g) => schedInProgress
    /\ \A g \in Callers :
         pc[g] \in {"call", "isr"} => ~lineOn /\ ~InBody("hw")
    /\ InBody("soft") => \E g \in Callers : pc[g] = "isr"
    /\ \A g \in Callers : pc[g] = "isr" => InBody("soft")
    /\ inISR <=> (InBody("soft") \/ InBody("hw"))

\* An entry under construction is the one past the last published, and free;
\* the entry a drain step has sent is still counted.
RingSteps ==
    /\ RingIntact
    /\ \A c \in Contexts :
         isr[c] \in {"write", "publish"} => slot[c] = head /\ Succ(head) # tail
    /\ \A c \in Contexts : isr[c] = "publish" => ring[head] = accepted + 1
    /\ \A g \in Callers : pc[g] = "advance" => tail # head

-----------------------------------------------------------------------------
(* Facts about the ring's index arithmetic.                                *)

LEMMA SuccInRange ==
    ASSUME NEW i \in 0 .. RingSize - 1
    PROVE  Succ(i) \in 0 .. RingSize - 1
  BY RingAssumption DEF Succ

-----------------------------------------------------------------------------
(* The type invariant.                                                     *)

LEMMA TypeInit == Init => TypeOK
  <1>1. [i \in 0 .. RingSize - 1 |-> 0] \in [0 .. RingSize - 1 -> Nat]
    OBVIOUS
  <1>2. 0 \in 0 .. RingSize - 1
    BY RingAssumption
  <1>3. <<>> \in Seq(Nat)
    OBVIOUS
  <1>. SUFFICES ASSUME Init PROVE TypeOK
    OBVIOUS
  <1>4. /\ pc \in [Callers -> {"idle", "begin"} \cup PassSteps]
        /\ isr \in [Contexts -> {"off", "run", "write", "publish"}]
        /\ slot \in [Contexts -> 0 .. RingSize - 1]
    BY <1>2 DEF Init
  <1>5. /\ ring \in [0 .. RingSize - 1 -> Nat] /\ queue \in Seq(Nat)
        /\ head \in 0 .. RingSize - 1 /\ tail \in 0 .. RingSize - 1
    BY <1>1, <1>2, <1>3 DEF Init
  <1>. QED
    BY <1>4, <1>5 DEF Init, TypeOK

LEMMA TypeStep == TypeOK /\ [Next]_vars => TypeOK'
  <1>. SUFFICES ASSUME TypeOK, [Next]_vars PROVE TypeOK'
    OBVIOUS
  <1>. USE DEF TypeOK, PassSteps, Contexts, Goto, vars, config, line, wake, cpu,
               body, ringVars, counts
  <1>1. CASE Env
    <2>1. CASE BlobReceive
      <3>1. queue' \in Seq(Nat)
        BY <2>1 DEF BlobReceive
      <3>. QED
        BY <2>1, <3>1 DEF BlobReceive
    <2>2. CASE MacEvent
      BY <2>2 DEF MacEvent
    <2>3. CASE Tick \/ UnmaskIntervalOver
      BY <2>3 DEF Tick, UnmaskIntervalOver
    <2>4. CASE BlobYield \/ BlobIntsOn
      BY <2>4 DEF BlobYield, BlobIntsOn
    <2>. QED
      BY <1>1, <2>1, <2>2, <2>3, <2>4 DEF Env
  <1>2. CASE Hw
    BY <1>2 DEF Hw, HwEnter, HwReturn, HwMaskAndKick
  <1>3. ASSUME NEW c \in Contexts, Post(c) PROVE TypeOK'
    <2>1. CASE PostFull(c)
      BY <2>1 DEF PostFull
    <2>2. CASE PostRead(c)
      BY <2>2 DEF PostRead
    <2>3. CASE PostWrite(c)
      <3>1. ring' \in [0 .. RingSize - 1 -> Nat]
        BY <2>3 DEF PostWrite
      <3>. QED
        BY <2>3, <3>1 DEF PostWrite
    <2>4. CASE PostPublish(c)
      <3>1. head' \in 0 .. RingSize - 1
        BY <2>4, SuccInRange DEF PostPublish
      <3>. QED
        BY <2>4, <3>1 DEF PostPublish
    <2>. QED
      BY <1>3, <2>1, <2>2, <2>3, <2>4 DEF Post
  <1>4. CASE WakeByKick \/ WakeByTick
    BY <1>4 DEF WakeByKick, WakeByTick
  <1>5. ASSUME NEW g \in Callers, Pump(g) \/ PassStep(g) PROVE TypeOK'
    <2>1. CASE Pump(g)
      BY <2>1 DEF Pump
    <2>7. CASE Skip(g)
      BY <2>7 DEF Skip
    <2>8. CASE Begin(g)
      BY <2>8 DEF Begin
    <2>9. CASE Finish(g)
      BY <2>9 DEF Finish
    <2>10. CASE DrainDone(g)
      BY <2>10 DEF DrainDone
    <2>11. CASE Work(g)
      BY <2>11 DEF Work
    <2>2. CASE Mask(g)
      BY <2>2 DEF Mask
    <2>3. CASE SoftEnter(g) \/ SoftReturn(g)
      BY <2>3 DEF SoftEnter, SoftReturn
    <2>4. CASE DrainSend(g)
      <3>1. ring[tail] \in Nat
        OBVIOUS
      <3>2. queue' \in Seq(Nat) /\ sent' \in Nat /\ sendFail' \in Nat
        <4>1. Append(queue, ring[tail]) \in Seq(Nat)
          BY <3>1
        <4>2. \/ /\ queue' = Append(queue, ring[tail])
                 /\ sent' = sent + 1 /\ sendFail' = sendFail
              \/ sendFail' = sendFail + 1 /\ queue' = queue /\ sent' = sent
          BY <2>4 DEF DrainSend
        <4>3. queue \in Seq(Nat) /\ sent \in Nat /\ sendFail \in Nat
          OBVIOUS
        <4>4. queue' \in Seq(Nat)
          BY <4>1, <4>2, <4>3, Zenon
        <4>5. sent' \in Nat /\ sendFail' \in Nat
          BY ONLY <4>2, <4>3
        <4>. QED
          BY ONLY <4>4, <4>5
      <3>3. pc' \in [Callers -> {"idle", "begin"} \cup PassSteps]
        BY <2>4 DEF DrainSend
      <3>. QED
        BY <2>4, <3>2, <3>3 DEF DrainSend
    <2>5. CASE DrainAdvance(g)
      <3>1. tail' \in 0 .. RingSize - 1
        BY <2>5, SuccInRange DEF DrainAdvance
      <3>. QED
        BY <2>5, <3>1 DEF DrainAdvance
    <2>6. CASE Unmask(g)
      <3>1. lineOn' \in BOOLEAN /\ recent' \in BOOLEAN
            /\ suppressed' \in BOOLEAN
        BY <2>6 DEF Unmask
      <3>. QED
        BY <2>6, <3>1 DEF Unmask
    <2>. QED
      BY <1>5, <2>1, <2>2, <2>3, <2>4, <2>5, <2>6, <2>7, <2>8, <2>9,
         <2>10, <2>11
      DEF PassStep
  <1>6. CASE UNCHANGED vars
    BY <1>6
  <1>. QED
    BY <1>1, <1>2, <1>3, <1>4, <1>5, <1>6 DEF Next

\* Every variable keeps its type whatever the interrupts and goroutines do: the
\* ring indices of isr.c never leave the ring, its counters never go negative.
THEOREM TypeCorrect == SafeSpec => []TypeOK
  BY TypeInit, TypeStep, PTL DEF SafeSpec

-----------------------------------------------------------------------------
(* The blob ISR is not reentered.                                          *)

LEMMA ExclusionInit == Init => Exclusion
  BY DEF Init, Exclusion, InPass, PassSteps, InBody, Contexts

LEMMA ExclusionStep == TypeOK /\ Exclusion /\ [Next]_vars => Exclusion'
  <1>. SUFFICES ASSUME TypeOK, Exclusion, [Next]_vars PROVE Exclusion'
    OBVIOUS
  <1>. USE DEF TypeOK, Exclusion, InPass, PassSteps, InBody, Contexts, vars,
               config, line, wake, cpu, body, ringVars, counts
  <1>1. CASE Env
    <2>1. CASE BlobIntsOn
      BY <2>1 DEF BlobIntsOn, BlobRuns, Yielded, NoYield
    <2>. QED
      BY <1>1, <2>1
      DEF Env, MacEvent, Tick, UnmaskIntervalOver, BlobYield, BlobReceive
  <1>2. CASE Hw
    <2>1. CASE HwEnter
      BY <2>1 DEF HwEnter
    <2>2. CASE HwReturn
      BY <2>2 DEF HwReturn
    <2>3. CASE HwMaskAndKick
      BY <2>3 DEF HwMaskAndKick
    <2>. QED
      BY <1>2, <2>1, <2>2, <2>3 DEF Hw
  <1>3. ASSUME NEW c \in Contexts, Post(c) PROVE Exclusion'
    <2>1. /\ UNCHANGED <<pc, lineOn, inISR, schedInProgress>>
          /\ \A d \in Contexts : InBody(d)' <=> InBody(d)
      BY <1>3 DEF Post, PostFull, PostRead, PostWrite, PostPublish
    <2>. QED
      BY <2>1
  <1>4. CASE WakeByKick \/ WakeByTick
    BY <1>4 DEF WakeByKick, WakeByTick, At, Goto
  <1>5. ASSUME NEW g \in Callers, Pump(g) PROVE Exclusion'
    BY <1>5 DEF Pump, At, Goto
  <1>6. ASSUME NEW g \in Callers, PassStep(g) PROVE Exclusion'
    <2>. USE DEF At, Goto
    <2>1. CASE Begin(g)
      BY <2>1 DEF Begin
    <2>2. CASE Skip(g)
      BY <2>2 DEF Skip
    <2>3. CASE Mask(g)
      BY <2>3 DEF Mask
    <2>4. CASE SoftEnter(g)
      BY <2>4 DEF SoftEnter
    <2>5. CASE SoftReturn(g)
      BY <2>5 DEF SoftReturn
    <2>6. CASE DrainSend(g)
      BY <2>6 DEF DrainSend
    <2>7. CASE DrainAdvance(g)
      BY <2>7 DEF DrainAdvance
    <2>8. CASE DrainDone(g)
      BY <2>8 DEF DrainDone
    <2>11. CASE Work(g)
      BY <2>11 DEF Work
    <2>9. CASE Unmask(g)
      BY <2>9 DEF Unmask
    <2>10. CASE Finish(g)
      BY <2>10 DEF Finish
    <2>. QED
      BY <1>6, <2>1, <2>2, <2>3, <2>4, <2>5, <2>6, <2>7, <2>8, <2>9, <2>10,
         <2>11
      DEF PassStep
  <1>7. CASE UNCHANGED vars
    BY <1>7
  <1>. QED
    BY <1>1, <1>2, <1>3, <1>4, <1>5, <1>6, <1>7 DEF Next

\* The pass and the hardware handler never run the blob ISR at once, and
\* _is_from_isr answers truly, on both kinds of target.
THEOREM ISRNotReentered == SafeSpec => []NoReentrantISR
  <1>1. Exclusion => NoReentrantISR
    BY DEF Exclusion, NoReentrantISR, InBody, Contexts
  <1>. QED
    BY <1>1, TypeCorrect, ExclusionInit, ExclusionStep, PTL DEF SafeSpec

-----------------------------------------------------------------------------
(* The ring loses and repeats nothing.                                     *)

\* The k-th entry lies in the ring, and the head's slot is not an entry.
LEMMA SlotRange ==
    ASSUME TypeOK, NEW k \in 0 .. RingSize - 1
    PROVE  /\ Slot(k) \in 0 .. RingSize - 1
           /\ k < Count => Slot(k) # head
           /\ Slot(k) = head => k = Count
  BY RingAssumption DEF TypeOK, Slot, Count

LEMMA CountRange ==
    ASSUME TypeOK
    PROVE  /\ Count \in 0 .. RingSize - 1
           /\ tail # head <=> Count > 0
           /\ Slot(0) = tail /\ Slot(Count) = head
  BY RingAssumption DEF TypeOK, Slot, Count

\* Publishing adds one entry and moves none.
LEMMA PublishShape ==
    ASSUME TypeOK, Succ(head) # tail, head' = Succ(head), tail' = tail
    PROVE  /\ Count' = Count + 1
           /\ \A k \in 0 .. RingSize - 1 : Slot(k)' = Slot(k)
  BY RingAssumption DEF TypeOK, Slot, Count, Succ

\* Advancing the tail removes the oldest entry and renumbers the rest.
LEMMA AdvanceShape ==
    ASSUME TypeOK, tail # head, tail' = Succ(tail), head' = head
    PROVE  /\ Count' = Count - 1
           /\ \A k \in 0 .. RingSize - 1 :
                k + 1 < RingSize => Slot(k)' = Slot(k + 1)
  BY RingAssumption DEF TypeOK, Slot, Count, Succ

LEMMA RingInit == Init => RingSteps
  BY RingAssumption DEF Init, RingSteps, RingIntact, Count, Slot, Contexts

LEMMA RingStep ==
    TypeOK /\ TypeOK' /\ Exclusion /\ RingSteps /\ [Next]_vars => RingSteps'
  <1>. SUFFICES ASSUME TypeOK, TypeOK', Exclusion, RingSteps, [Next]_vars
               PROVE  RingSteps'
    OBVIOUS
  <1>. USE DEF vars, config, line, wake, cpu, body, ringVars, counts, Contexts
  <1>0. accepted = handled + Count /\ handled \in Nat /\ Count \in Nat
    <2>1. accepted = handled + Count
      BY DEF RingSteps, RingIntact
    <2>2. handled \in Nat
      BY DEF TypeOK
    <2>3. Count \in Nat
      BY CountRange, RingAssumption
    <2>. QED
      BY <2>1, <2>2, <2>3
  \* Most steps touch neither the ring nor the places that use it.
  <1>1. ASSUME UNCHANGED <<head, tail, ring, accepted, handled, slot>>,
               \A c \in Contexts :
                 isr'[c] \in {"write", "publish"} => isr'[c] = isr[c],
               \A g \in Callers : pc'[g] = "advance" => tail # head
        PROVE  RingSteps'
    BY <1>1 DEF RingSteps, RingIntact, Count, Slot
  <1>2. CASE Env
    BY <1>1, <1>2
    DEF RingSteps, Env, MacEvent, Tick, UnmaskIntervalOver, BlobYield,
        BlobIntsOn, BlobReceive
  <1>3. CASE Hw
    BY <1>1, <1>3
    DEF RingSteps, TypeOK, Hw, HwEnter, HwReturn, HwMaskAndKick
  <1>4. ASSUME NEW c \in Contexts, Post(c) PROVE RingSteps'
    \* By Exclusion the other context is not inside the ISR.
    <2>1. \A d \in Contexts : d # c => isr[d] = "off"
      <3>1. isr[c] # "off"
        BY <1>4 DEF Post, PostFull, PostRead, PostWrite, PostPublish
      <3>. QED
        BY <3>1 DEF Exclusion, InBody
    <2>2. CASE PostFull(c)
      BY <1>1, <2>2 DEF PostFull, RingSteps
    <2>3. CASE PostRead(c)
      <3>1. RingIntact'
        BY <2>3 DEF PostRead, RingSteps, RingIntact, Count, Slot
      <3>2. \A d \in Contexts : isr'[d] \in {"write", "publish"} =>
               d = c /\ isr'[d] = "write" /\ slot'[d] = head
        BY <2>1, <2>3 DEF PostRead, TypeOK
      <3>. QED
        BY <2>3, <3>1, <3>2 DEF PostRead, RingSteps
    <2>4. CASE PostWrite(c)
      <3>1. slot[c] = head /\ Succ(head) # tail
        BY <2>4 DEF PostWrite, RingSteps
      <3>2. /\ ring' = [ring EXCEPT ![head] = accepted + 1]
            /\ ring'[head] = accepted + 1
            /\ \A k \in 0 .. RingSize - 1 : k < Count =>
                 ring'[Slot(k)] = ring[Slot(k)]
        BY <2>4, <3>1, SlotRange DEF PostWrite, TypeOK
      <3>3. RingIntact'
        BY <2>4, <3>2 DEF PostWrite, RingSteps, RingIntact, Count, Slot
      <3>4. \A d \in Contexts : isr'[d] \in {"write", "publish"} => d = c
        BY <2>1, <2>4 DEF PostWrite, TypeOK
      <3>. QED
        BY <2>4, <3>1, <3>2, <3>3, <3>4 DEF PostWrite, RingSteps
    <2>5. CASE PostPublish(c)
      <3>1. /\ head' = Succ(head) /\ Succ(head) # tail
            /\ ring[head] = accepted + 1
        BY <2>5 DEF PostPublish, RingSteps
      <3>2. /\ Count' = Count + 1
            /\ \A k \in 0 .. RingSize - 1 : Slot(k)' = Slot(k)
        BY <2>5, <3>1, PublishShape DEF PostPublish
      <3>3. accepted' = handled' + Count'
        <4>1. accepted' = accepted + 1 /\ handled' = handled
          BY <2>5 DEF PostPublish
        <4>. QED
          BY ONLY <1>0, <3>2, <4>1
      <3>4. ASSUME NEW k \in 0 .. RingSize - 1, k < Count'
            PROVE  ring'[Slot(k)'] = handled' + k + 1
        <4>1. CASE k < Count
          BY <2>5, <3>2, <4>1 DEF PostPublish, RingSteps, RingIntact
        <4>2. CASE k = Count
          BY <2>5, <3>1, <3>2, <4>2, CountRange
          DEF PostPublish, RingSteps, RingIntact, TypeOK
        <4>. QED
          BY <3>2, <3>4, <4>1, <4>2, CountRange
      <3>5. RingIntact'
        BY <3>3, <3>4 DEF RingIntact
      <3>6. \A d \in Contexts : isr'[d] \notin {"write", "publish"}
        BY <2>1, <2>5 DEF PostPublish, TypeOK
      <3>7. tail' # head'
        BY <2>5, <3>1 DEF PostPublish
      <3>. QED
        BY <3>5, <3>6, <3>7 DEF RingSteps
    <2>. QED
      BY <1>4, <2>2, <2>3, <2>4, <2>5 DEF Post
  <1>5. CASE WakeByKick \/ WakeByTick
    BY <1>1, <1>5
    DEF RingSteps, WakeByKick, WakeByTick, Goto, At, TypeOK
  <1>6. ASSUME NEW g \in Callers, Pump(g) PROVE RingSteps'
    BY <1>1, <1>6 DEF RingSteps, Pump, Goto, TypeOK
  <1>7. ASSUME NEW g \in Callers, PassStep(g) PROVE RingSteps'
    <2>. USE DEF Goto
    <2>1. CASE Begin(g) \/ Skip(g) \/ Mask(g)
      BY <1>1, <2>1 DEF RingSteps, TypeOK, Begin, Skip, Mask
    <2>2. CASE SoftEnter(g) \/ SoftReturn(g)
      BY <1>1, <2>2 DEF RingSteps, TypeOK, SoftEnter, SoftReturn
    <2>3. CASE DrainSend(g)
      BY <1>1, <2>3 DEF RingSteps, TypeOK, DrainSend
    <2>4. CASE DrainAdvance(g)
      <3>1. tail # head /\ tail' = Succ(tail) /\ head' = head
        BY <2>4 DEF DrainAdvance, RingSteps, At
      <3>2. /\ Count' = Count - 1
            /\ \A k \in 0 .. RingSize - 1 :
                 k + 1 < RingSize => Slot(k)' = Slot(k + 1)
        BY <3>1, AdvanceShape
      <3>3. accepted' = handled' + Count'
        <4>1. accepted' = accepted /\ handled' = handled + 1
          BY <2>4 DEF DrainAdvance
        <4>. QED
          BY ONLY <1>0, <3>2, <4>1
      <3>4. ASSUME NEW k \in 0 .. RingSize - 1, k < Count'
            PROVE  ring'[Slot(k)'] = handled' + k + 1
        <4>1. k + 1 \in 0 .. RingSize - 1 /\ k + 1 < Count
          BY <3>2, <3>4, CountRange, RingAssumption
        <4>2. Slot(k)' = Slot(k + 1)
          BY <3>2, <4>1, RingAssumption
        <4>5. ring' = ring /\ handled' = handled + 1
          BY <2>4 DEF DrainAdvance
        <4>3. ring[Slot(k + 1)] = handled + (k + 1) + 1
          BY <4>1 DEF RingSteps, RingIntact
        <4>4. handled + (k + 1) + 1 = (handled + 1) + k + 1
          BY <1>0, RingAssumption
        <4>. QED
          BY <4>2, <4>3, <4>4, <4>5, Zenon
      <3>5. RingIntact'
        BY <3>3, <3>4 DEF RingIntact
      \* The drain runs in a pass; a pass at this step is not in the ISR, and
      \* no goroutine steps while the hardware handler runs.
      <3>6. \A c \in Contexts : isr[c] = "off"
        BY <2>4 DEF DrainAdvance, At, Exclusion, InBody, InPass, PassSteps, TypeOK
      <3>7. \A h \in Callers : pc'[h] # "advance"
        BY <2>4
        DEF DrainAdvance, At, Exclusion, InPass, PassSteps, TypeOK
      <3>. QED
        BY <2>4, <3>5, <3>6, <3>7 DEF DrainAdvance, RingSteps
    <2>5. CASE DrainDone(g) \/ Work(g)
      BY <1>1, <2>5 DEF RingSteps, TypeOK, DrainDone, Work
    <2>6. CASE Unmask(g) \/ Finish(g)
      BY <1>1, <2>6 DEF RingSteps, TypeOK, Unmask, Finish
    <2>. QED
      BY <1>7, <2>1, <2>2, <2>3, <2>4, <2>5, <2>6 DEF PassStep
  <1>8. CASE UNCHANGED vars
    BY <1>1, <1>8 DEF RingSteps
  <1>. QED
    BY <1>2, <1>3, <1>4, <1>5, <1>6, <1>7, <1>8 DEF Next

\* What the blob ISR published is what the passes take, in order, for a ring of
\* any size, with posts from the pass and from the hardware handler.
THEOREM RingLosesNothing == SafeSpec => []RingIntact
  <1>1. RingSteps => RingIntact
    BY DEF RingSteps
  <1>. QED
    BY <1>1, TypeCorrect, ExclusionInit, ExclusionStep, RingInit, RingStep, PTL
    DEF SafeSpec

-----------------------------------------------------------------------------
(* No event disappears uncounted.                                          *)

\* EventsAccounted, with Unposted written out.
Accounts ==
    /\ produced = pending + drops + accepted + (IF Posting THEN 1 ELSE 0)
    /\ sent + sendFail = handled + (IF Taken THEN 1 ELSE 0)

LEMMA AccountsInit == Init => Accounts
  <1>. SUFFICES ASSUME Init PROVE Accounts
    OBVIOUS
  <1>1. ~Posting /\ ~Taken
    BY DEF Init, Posting, Taken, Contexts
  <1>. QED
    BY <1>1 DEF Init, Accounts

\* A post is under way in one context at most: who posts decides Posting.
LEMMA PosterDecides ==
    ASSUME TypeOK, Exclusion, NEW c \in Contexts, InBody(c)
    PROVE  Posting <=> isr[c] \in {"write", "publish"}
  BY DEF Exclusion, InBody, Contexts, Posting, TypeOK

\* One pass at a time: whoever is in it decides Taken.
LEMMA DrainerDecides ==
    ASSUME TypeOK, Exclusion, NEW g \in Callers, InPass(g)
    PROVE  Taken <=> pc[g] = "advance"
  BY DEF Exclusion, InPass, PassSteps, Taken

LEMMA AccountsStep ==
    TypeOK /\ TypeOK' /\ Exclusion /\ Exclusion' /\ Accounts /\ [Next]_vars
        => Accounts'
  <1>. SUFFICES ASSUME TypeOK, TypeOK', Exclusion, Exclusion', Accounts,
                       [Next]_vars
               PROVE  Accounts'
    OBVIOUS
  <1>. USE DEF vars, config, line, wake, cpu, body, ringVars, counts
  <1>0. /\ produced \in Nat /\ pending \in Nat /\ drops \in Nat
        /\ accepted \in Nat /\ sent \in Nat /\ sendFail \in Nat
        /\ handled \in Nat
    BY DEF TypeOK
  \* Most steps leave the counters and the two terms as they are.
  <1>1. ASSUME UNCHANGED <<produced, pending, drops, accepted, sent, sendFail,
                           handled>>,
               Posting' = Posting, Taken' = Taken
        PROVE  Accounts'
    BY <1>1 DEF Accounts
  <1>2. ASSUME UNCHANGED isr PROVE Posting' = Posting
    BY <1>2 DEF Posting
  <1>3. ASSUME UNCHANGED pc PROVE Taken' = Taken
    BY <1>3 DEF Taken
  <1>4. CASE Env
    <2>1. CASE MacEvent
      <3>1. Posting' = Posting /\ Taken' = Taken
        BY <1>2, <1>3, <2>1 DEF MacEvent
      <3>. QED
        BY <1>0, <2>1, <3>1 DEF MacEvent, Accounts
    <2>2. CASE Tick \/ UnmaskIntervalOver \/ BlobYield \/ BlobIntsOn
               \/ BlobReceive
      BY <1>1, <1>2, <1>3, <2>2
      DEF Tick, UnmaskIntervalOver, BlobYield, BlobIntsOn, BlobReceive
    <2>. QED
      BY <1>4, <2>1, <2>2 DEF Env
  <1>5. CASE Hw
    <2>1. Posting' = Posting
      BY <1>5 DEF Hw, HwEnter, HwReturn, HwMaskAndKick, Posting, TypeOK,
                  Contexts, InBody
    <2>2. UNCHANGED <<produced, pending, drops, accepted, sent, sendFail,
                      handled, pc>>
      BY <1>5 DEF Hw, HwEnter, HwReturn, HwMaskAndKick
    <2>. QED
      BY <1>1, <1>3, <2>1, <2>2
  <1>6. ASSUME NEW c \in Contexts, Post(c) PROVE Accounts'
    <2>1. InBody(c) /\ InBody(c)'
      BY <1>6 DEF Post, PostFull, PostRead, PostWrite, PostPublish, InBody,
                  TypeOK
    <2>2. /\ Posting <=> isr[c] \in {"write", "publish"}
          /\ Posting' <=> isr'[c] \in {"write", "publish"}
      <3>1. Posting <=> isr[c] \in {"write", "publish"}
        BY <2>1, PosterDecides
      <3>2. \A d \in Contexts : d # c => isr'[d] = "off"
        BY <2>1 DEF Exclusion, InBody, Contexts
      <3>3. Posting' <=> isr'[c] \in {"write", "publish"}
        BY <3>2 DEF Posting
      <3>. QED
        BY <3>1, <3>3
    <2>3. Taken' = Taken /\ UNCHANGED <<produced, sent, sendFail, handled>>
      BY <1>3, <1>6 DEF Post, PostFull, PostRead, PostWrite, PostPublish
    <2>4. CASE PostFull(c)
      <3>1. /\ pending' = pending - 1 /\ drops' = drops + 1
            /\ accepted' = accepted /\ ~Posting /\ ~Posting'
        BY <2>2, <2>4 DEF PostFull
      <3>. QED
        BY <1>0, <2>3, <3>1 DEF Accounts
    <2>5. CASE PostRead(c)
      <3>1. /\ pending' = pending - 1 /\ drops' = drops
            /\ accepted' = accepted /\ ~Posting /\ Posting'
        BY <2>2, <2>5 DEF PostRead, TypeOK
      <3>. QED
        BY <1>0, <2>3, <3>1 DEF Accounts
    <2>6. CASE PostWrite(c)
      <3>1. /\ UNCHANGED <<pending, drops, accepted>> /\ Posting /\ Posting'
        BY <2>2, <2>6 DEF PostWrite, TypeOK
      <3>. QED
        BY <1>0, <2>3, <3>1 DEF Accounts
    <2>7. CASE PostPublish(c)
      <3>1. /\ pending' = pending /\ drops' = drops
            /\ accepted' = accepted + 1 /\ Posting /\ ~Posting'
        BY <2>2, <2>7 DEF PostPublish, TypeOK
      <3>. QED
        BY <1>0, <2>3, <3>1 DEF Accounts
    <2>. QED
      BY <1>6, <2>4, <2>5, <2>6, <2>7 DEF Post
  <1>7. CASE WakeByKick \/ WakeByTick
    <2>1. Taken' = Taken
      BY <1>7 DEF WakeByKick, WakeByTick, Goto, At, Taken, TypeOK
    <2>. QED
      BY <1>1, <1>2, <1>7, <2>1 DEF WakeByKick, WakeByTick
  <1>8. ASSUME NEW g \in Callers, Pump(g) PROVE Accounts'
    <2>1. Taken' = Taken
      BY <1>8 DEF Pump, Goto, At, Taken, TypeOK
    <2>. QED
      BY <1>1, <1>2, <1>8, <2>1 DEF Pump
  <1>9. ASSUME NEW g \in Callers, PassStep(g) PROVE Accounts'
    <2>1. CASE Begin(g) \/ Skip(g) \/ Mask(g)
      <3>1. Taken' = Taken
        BY <2>1 DEF Begin, Skip, Mask, Goto, At, Taken, TypeOK
      <3>. QED
        BY <1>1, <1>2, <2>1, <3>1 DEF Begin, Skip, Mask
    <2>2. CASE SoftEnter(g) \/ SoftReturn(g)
      <3>1. Taken' = Taken
        BY <2>2 DEF SoftEnter, SoftReturn, Goto, At, Taken, TypeOK
      <3>2. Posting' = Posting
        <4>1. CASE SoftEnter(g)
          <5>1. isr["soft"] = "off"
            BY <4>1 DEF SoftEnter, At, Exclusion, InBody, InPass, PassSteps
          <5>. QED
            BY <4>1, <5>1 DEF SoftEnter, Posting, TypeOK, Contexts
        <4>2. CASE SoftReturn(g)
          BY <4>2 DEF SoftReturn, Posting, TypeOK, Contexts
        <4>. QED
          BY <2>2, <4>1, <4>2
      <3>. QED
        BY <1>1, <2>2, <3>1, <3>2 DEF SoftEnter, SoftReturn
    <2>3. CASE DrainSend(g)
      <3>1. ~Taken
        BY <2>3, DrainerDecides DEF DrainSend, At, InPass, PassSteps
      <3>2. Taken'
        BY <2>3 DEF DrainSend, Goto, Taken, TypeOK
      <3>3. /\ UNCHANGED <<produced, pending, drops, accepted, handled>>
            /\ sent' + sendFail' = sent + sendFail + 1
        BY <1>0, <2>3 DEF DrainSend
      <3>4. Posting' = Posting
        BY <1>2, <2>3 DEF DrainSend
      <3>. QED
        BY <1>0, <3>1, <3>2, <3>3, <3>4 DEF Accounts
    <2>4. CASE DrainAdvance(g)
      <3>1. Taken
        BY <2>4 DEF DrainAdvance, At, Taken
      <3>2. ~Taken'
        BY <2>4
        DEF DrainAdvance, At, Goto, Exclusion, InPass, PassSteps, Taken, TypeOK
      <3>3. Posting' = Posting
        BY <1>2, <2>4 DEF DrainAdvance
      <3>4. /\ UNCHANGED <<produced, pending, drops, accepted, sent, sendFail>>
            /\ handled' = handled + 1
        BY <2>4 DEF DrainAdvance
      <3>. QED
        BY <1>0, <3>1, <3>2, <3>3, <3>4 DEF Accounts
    <2>5. CASE DrainDone(g) \/ Work(g)
      <3>1. Taken' = Taken
        BY <2>5 DEF DrainDone, Work, Goto, At, Taken, TypeOK
      <3>. QED
        BY <1>1, <1>2, <2>5, <3>1 DEF DrainDone, Work
    <2>6. CASE Unmask(g) \/ Finish(g)
      <3>1. Taken' = Taken
        BY <2>6 DEF Unmask, Finish, Goto, At, Taken, TypeOK
      <3>. QED
        BY <1>1, <1>2, <2>6, <3>1 DEF Unmask, Finish
    <2>. QED
      BY <1>9, <2>1, <2>2, <2>3, <2>4, <2>5, <2>6 DEF PassStep
  <1>10. CASE UNCHANGED vars
    BY <1>1, <1>2, <1>3, <1>10
  <1>. QED
    BY <1>4, <1>5, <1>6, <1>7, <1>8, <1>9, <1>10 DEF Next

\* Every event the MAC raised is in one place, for any number of events: still
\* asserted, dropped at the ring and counted, half posted, in the ring, or
\* handed over with the outcome counted.
THEOREM NothingUncounted == SafeSpec => []EventsAccounted
  <1>1. TypeOK /\ Accounts => EventsAccounted
    BY DEF Accounts, EventsAccounted, Unposted, TypeOK
  <1>. QED
    BY <1>1, TypeCorrect, ExclusionInit, ExclusionStep, AccountsInit,
       AccountsStep, PTL
    DEF SafeSpec

-----------------------------------------------------------------------------
(* The blob queue is in the order of the posts.                            *)

\* The last item a drain step may have sent.
Sent == handled + (IF Taken THEN 1 ELSE 0)
Ordered ==
    /\ \A i, j \in 1 .. Len(queue) : i < j => queue[i] < queue[j]
    /\ \A i \in 1 .. Len(queue) : queue[i] <= Sent

LEMMA OrderedStep ==
    TypeOK /\ TypeOK' /\ Exclusion /\ RingSteps /\ Ordered /\ [Next]_vars
        => Ordered'
  <1>. SUFFICES ASSUME TypeOK, TypeOK', Exclusion, RingSteps, Ordered,
                       [Next]_vars
               PROVE  Ordered'
    OBVIOUS
  <1>. USE DEF vars, config, line, wake, cpu, body, ringVars, counts
  <1>1. ASSUME UNCHANGED <<queue, handled>>, Taken' = Taken PROVE Ordered'
    BY <1>1 DEF Ordered, Sent
  <1>2. ASSUME UNCHANGED pc PROVE Taken' = Taken
    BY <1>2 DEF Taken
  <1>3. CASE Env
    <2>1. CASE BlobReceive
      <3>1. queue \in Seq(Nat) /\ queue # <<>> /\ queue' = Tail(queue)
        BY <2>1 DEF BlobReceive, TypeOK
      <3>2. /\ Len(queue') = Len(queue) - 1 /\ Len(queue) \in Nat
            /\ \A i \in 1 .. Len(queue') : queue'[i] = queue[i + 1]
        BY <3>1
      <3>3. UNCHANGED handled /\ Taken' = Taken
        BY <1>2, <2>1 DEF BlobReceive
      <3>4. \A i \in 1 .. Len(queue') : i + 1 \in 1 .. Len(queue)
        BY <3>2
      <3>. QED
        BY <3>2, <3>3, <3>4 DEF Ordered, Sent
    <2>2. CASE MacEvent \/ Tick \/ UnmaskIntervalOver \/ BlobYield
               \/ BlobIntsOn
      BY <1>1, <1>2, <2>2
      DEF MacEvent, Tick, UnmaskIntervalOver, BlobYield, BlobIntsOn
    <2>. QED
      BY <1>3, <2>1, <2>2 DEF Env
  <1>4. CASE Hw
    BY <1>1, <1>2, <1>4 DEF Hw, HwEnter, HwReturn, HwMaskAndKick
  <1>5. ASSUME NEW c \in Contexts, Post(c) PROVE Ordered'
    BY <1>1, <1>2, <1>5 DEF Post, PostFull, PostRead, PostWrite, PostPublish
  <1>6. CASE WakeByKick \/ WakeByTick
    <2>1. Taken' = Taken
      BY <1>6 DEF WakeByKick, WakeByTick, Goto, At, Taken, TypeOK
    <2>. QED
      BY <1>1, <1>6, <2>1 DEF WakeByKick, WakeByTick
  <1>7. ASSUME NEW g \in Callers, Pump(g) PROVE Ordered'
    <2>1. Taken' = Taken
      BY <1>7 DEF Pump, Goto, At, Taken, TypeOK
    <2>. QED
      BY <1>1, <1>7, <2>1 DEF Pump
  <1>8. ASSUME NEW g \in Callers, PassStep(g) PROVE Ordered'
    <2>1. CASE DrainSend(g)
      <3>1. ~Taken /\ Taken' /\ UNCHANGED handled
        <4>1. ~Taken
          BY <2>1, DrainerDecides DEF DrainSend, At, InPass, PassSteps
        <4>. QED
          BY <2>1, <4>1 DEF DrainSend, Goto, Taken, TypeOK
      <3>2. ring[tail] = handled + 1
        <4>1. Count > 0 /\ Slot(0) = tail
          BY <2>1, CountRange DEF DrainSend
        <4>2. ring[Slot(0)] = handled + 0 + 1
          BY <4>1, RingAssumption DEF RingSteps, RingIntact
        <4>3. ring[tail] = handled + 0 + 1 /\ handled \in Nat
          BY <4>1, <4>2 DEF TypeOK
        <4>. QED
          BY ONLY <4>3
      <3>3. Sent = handled /\ Sent' = handled + 1 /\ handled \in Nat
        BY <3>1 DEF Sent, TypeOK
      <3>4. CASE UNCHANGED queue
        <4>0. queue \in Seq(Nat)
          BY DEF TypeOK
        <4>1. \A i \in 1 .. Len(queue) : queue[i] \in Nat
          BY <4>0
        <4>. QED
          BY <3>3, <3>4, <4>1 DEF Ordered
      <3>5. CASE queue' = Append(queue, ring[tail])
        <4>1. queue \in Seq(Nat) /\ ring[tail] \in Nat
          BY DEF TypeOK
        <4>2. /\ Len(queue') = Len(queue) + 1 /\ Len(queue) \in Nat
              /\ \A i \in 1 .. Len(queue) :
                   queue'[i] = queue[i] /\ queue[i] \in Nat
              /\ queue'[Len(queue) + 1] = handled + 1
          BY <3>2, <3>5, <4>1
        <4>. QED
          BY <3>3, <4>2 DEF Ordered
      <3>. QED
        BY <2>1, <3>4, <3>5 DEF DrainSend
    <2>2. CASE DrainAdvance(g)
      <3>1. Taken /\ ~Taken'
        BY <2>2
        DEF DrainAdvance, At, Goto, Exclusion, InPass, PassSteps, Taken, TypeOK
      <3>2. Sent' = Sent /\ UNCHANGED queue
        BY <2>2, <3>1 DEF DrainAdvance, Sent, TypeOK
      <3>. QED
        BY <3>2 DEF Ordered
    <2>3. CASE Begin(g) \/ Skip(g) \/ Mask(g)
      <3>1. Taken' = Taken
        BY <2>3 DEF Begin, Skip, Mask, Goto, At, Taken, TypeOK
      <3>. QED
        BY <1>1, <2>3, <3>1 DEF Begin, Skip, Mask
    <2>4. CASE SoftEnter(g) \/ SoftReturn(g)
      <3>1. Taken' = Taken
        BY <2>4 DEF SoftEnter, SoftReturn, Goto, At, Taken, TypeOK
      <3>. QED
        BY <1>1, <2>4, <3>1 DEF SoftEnter, SoftReturn
    <2>5. CASE DrainDone(g) \/ Work(g)
      <3>1. Taken' = Taken
        BY <2>5 DEF DrainDone, Work, Goto, At, Taken, TypeOK
      <3>. QED
        BY <1>1, <2>5, <3>1 DEF DrainDone, Work
    <2>6. CASE Unmask(g) \/ Finish(g)
      <3>1. Taken' = Taken
        BY <2>6 DEF Unmask, Finish, Goto, At, Taken, TypeOK
      <3>. QED
        BY <1>1, <2>6, <3>1 DEF Unmask, Finish
    <2>. QED
      BY <1>8, <2>1, <2>2, <2>3, <2>4, <2>5, <2>6 DEF PassStep
  <1>9. CASE UNCHANGED vars
    BY <1>1, <1>2, <1>9
  <1>. QED
    BY <1>3, <1>4, <1>5, <1>6, <1>7, <1>8, <1>9 DEF Next

\* For any ring and queue length the blob's queue holds the ISR's items in the
\* order of the posts, none twice, whatever interrupts post during the drain.
THEOREM QueueKeepsOrder == SafeSpec => []QueueInOrder
  <1>1. Init => Ordered
    BY DEF Init, Ordered
  <1>2. Ordered => QueueInOrder
    BY DEF Ordered, QueueInOrder, Sent
  <1>. QED
    BY <1>1, <1>2, TypeCorrect, ExclusionInit, ExclusionStep, RingInit,
       RingStep, OrderedStep, PTL
    DEF SafeSpec

-----------------------------------------------------------------------------
(* No event is stranded on a masked line.                                  *)

\* While nobody is about to run a pass, a masked line is one that a handler
\* masked, and kicked for, or one whose unmask was rate limited; and that is
\* settled before the pass gives up the guard.
Awake ==
    /\ ~schedInProgress /\ ~lineOn /\ (\A g \in Callers : pc[g] # "begin")
         => kick \/ suppressed
    /\ \A g \in Callers : pc[g] = "finish" => lineOn \/ kick \/ suppressed

LEMMA AwakeStep == TypeOK /\ Exclusion /\ Awake /\ [Next]_vars => Awake'
  <1>. SUFFICES ASSUME TypeOK, Exclusion, Awake, [Next]_vars PROVE Awake'
    OBVIOUS
  <1>. USE DEF vars, config, line, wake, cpu, body, ringVars, counts, Goto
  <1>1. CASE Env
    BY <1>1
    DEF Awake, Env, MacEvent, Tick, UnmaskIntervalOver, BlobYield, BlobIntsOn,
        BlobReceive
  <1>2. CASE Hw
    BY <1>2 DEF Awake, Hw, HwEnter, HwReturn, HwMaskAndKick
  <1>3. ASSUME NEW c \in Contexts, Post(c) PROVE Awake'
    BY <1>3 DEF Awake, Post, PostFull, PostRead, PostWrite, PostPublish
  <1>4. CASE WakeByKick \/ WakeByTick
    <2>1. \A h \in Callers : pc[h] # "finish"
      BY <1>4 DEF WakeByKick, WakeByTick, At, Yielded, NoYield
    <2>2. pc' = [pc EXCEPT ![Ticker] = "begin"] /\ Ticker \in Callers
      BY <1>4 DEF WakeByKick, WakeByTick, Callers
    <2>. QED
      BY <2>1, <2>2 DEF Awake, TypeOK
  <1>5. ASSUME NEW g \in Callers, Pump(g) PROVE Awake'
    BY <1>5 DEF Awake, Pump, TypeOK
  <1>6. ASSUME NEW g \in Callers, PassStep(g) PROVE Awake'
    \* A goroutine in a pass leaves no other at its last step.
    <2>1. \A h \in Callers : InPass(g) /\ pc[h] = "finish" => h = g
      BY DEF Exclusion, InPass, PassSteps
    <2>2. InPass(g) => schedInProgress
      BY DEF Exclusion
    <2>. USE DEF InPass, PassSteps, At, TypeOK
    <2>3. CASE Begin(g)
      BY <2>3 DEF Begin, Awake
    <2>4. CASE Skip(g)
      BY <2>4 DEF Skip, Awake
    <2>5. CASE Mask(g)
      BY <2>1, <2>2, <2>5 DEF Mask, Awake
    <2>6. CASE SoftEnter(g) \/ SoftReturn(g)
      BY <2>1, <2>2, <2>6 DEF SoftEnter, SoftReturn, Awake
    <2>7. CASE DrainSend(g) \/ DrainAdvance(g) \/ DrainDone(g)
      BY <2>1, <2>2, <2>7 DEF DrainSend, DrainAdvance, DrainDone, Awake
    <2>8. CASE Work(g)
      BY <2>1, <2>2, <2>8 DEF Work, Awake
    <2>9. CASE Unmask(g)
      BY <2>1, <2>2, <2>9 DEF Unmask, Awake
    <2>10. CASE Finish(g)
      BY <2>1, <2>10 DEF Finish, Awake
    <2>. QED
      BY <1>6, <2>3, <2>4, <2>5, <2>6, <2>7, <2>8, <2>9, <2>10 DEF PassStep
  <1>7. CASE UNCHANGED vars
    BY <1>7 DEF Awake
  <1>. QED
    BY <1>1, <1>2, <1>3, <1>4, <1>5, <1>6, <1>7 DEF Next

\* On each target and with either policy, an event behind a masked line has a
\* pass on its way, a kick, or a rate-limited unmask that a tick ends.
THEOREM LineNotStranded == SafeSpec => []NotStranded
  <1>1. Init => Awake
    BY DEF Init, Awake
  <1>2. Awake => NotStranded
    BY DEF Awake, NotStranded
  <1>. QED
    BY <1>1, <1>2, TypeCorrect, ExclusionInit, ExclusionStep, AwakeStep, PTL
    DEF SafeSpec

-----------------------------------------------------------------------------
(* The interrupt path implements the pipe of EventPipe.                    *)

\* The items numbered n + 1 .. m.
Numbered(n, m) == [k \in 1 .. m - n |-> n + k]
\* In transit are the items posted and not sent.
InTransitIs ==
    /\ Sent \in Nat /\ accepted \in Nat /\ Sent <= accepted
    /\ InTransit = Numbered(Sent, accepted)

LEMMA NumberedFacts ==
    ASSUME NEW n \in Nat, NEW m \in Nat, n <= m
    PROVE  /\ Numbered(n, m) \in Seq(Nat) /\ Len(Numbered(n, m)) = m - n
           /\ Append(Numbered(n, m), m + 1) = Numbered(n, m + 1)
           /\ n < m => /\ Numbered(n, m) # <<>> /\ Head(Numbered(n, m)) = n + 1
                       /\ Tail(Numbered(n, m)) = Numbered(n + 1, m)
  <1>1. Numbered(n, m) \in Seq(Nat) /\ Len(Numbered(n, m)) = m - n
    BY DEF Numbered
  <1>2. Append(Numbered(n, m), m + 1) = Numbered(n, m + 1)
    BY <1>1 DEF Numbered
  <1>3. ASSUME n < m PROVE /\ Numbered(n, m) # <<>> /\ Head(Numbered(n, m)) = n + 1
                           /\ Tail(Numbered(n, m)) = Numbered(n + 1, m)
    <2>1. Numbered(n, m) # <<>> /\ Head(Numbered(n, m)) = n + 1
      BY <1>1, <1>3 DEF Numbered
    <2>2. \A k \in 1 .. m - (n + 1) : Numbered(n, m)[k + 1] = n + 1 + k
      BY <1>3 DEF Numbered
    <2>3. /\ Tail(Numbered(n, m)) \in Seq(Nat)
          /\ Len(Tail(Numbered(n, m))) = m - (n + 1)
          /\ \A k \in 1 .. m - (n + 1) :
               Tail(Numbered(n, m))[k] = Numbered(n, m)[k + 1]
      BY <1>1, <1>3
    <2>4. /\ Numbered(n + 1, m) \in Seq(Nat) /\ Len(Numbered(n + 1, m)) = m - (n + 1)
          /\ \A k \in 1 .. m - (n + 1) : Numbered(n + 1, m)[k] = n + 1 + k
      BY <1>3 DEF Numbered
    <2>. QED
      BY <2>1, <2>2, <2>3, <2>4, SeqEqual
  <1>. QED
    BY <1>1, <1>2, <1>3

LEMMA TransitNumbered == TypeOK /\ RingSteps => InTransitIs
  <1>. SUFFICES ASSUME TypeOK, RingSteps PROVE InTransitIs
    OBVIOUS
  <1>. DEFINE n == IF Taken THEN 1 ELSE 0
  <1>1. /\ n \in {0, 1} /\ n <= Count /\ Count \in 0 .. RingSize - 1
        /\ handled \in Nat /\ accepted = handled + Count
    <2>1. Taken => tail # head
      BY DEF RingSteps, Taken
    <2>. QED
      BY <2>1, CountRange, RingAssumption DEF RingSteps, RingIntact, TypeOK
  <1>2. Sent = handled + n /\ InTransit = [k \in 1 .. Count - n |-> ring[Slot(k - 1 + n)]]
    BY DEF Sent, InTransit
  <1>3. \A k \in 1 .. Count - n : ring[Slot(k - 1 + n)] = Sent + k
    <2>. SUFFICES ASSUME NEW k \in 1 .. Count - n
                  PROVE  ring[Slot(k - 1 + n)] = Sent + k
      OBVIOUS
    <2>1. k - 1 + n \in 0 .. RingSize - 1 /\ k - 1 + n < Count
      BY <1>1, RingAssumption
    <2>2. ring[Slot(k - 1 + n)] = handled + (k - 1 + n) + 1
      BY <2>1 DEF RingSteps, RingIntact
    <2>. QED
      BY <1>1, <1>2, <2>2
  <1>4. Count - n = accepted - Sent
    BY <1>1, <1>2
  <1>. QED
    BY <1>1, <1>2, <1>3, <1>4 DEF InTransitIs, Numbered

LEMMA FullRing ==
    ASSUME TypeOK
    PROVE  Succ(head) = tail <=> Count = RingSize - 1
  BY RingAssumption DEF TypeOK, Count, Succ

LEMMA TransitLength ==
    ASSUME TypeOK, RingSteps, InTransitIs
    PROVE  /\ Len(InTransit) <= Count /\ Count <= Len(InTransit) + 1
           /\ Len(InTransit) \in Nat /\ Count \in Nat
  <1>1. Len(InTransit) = accepted - Sent
    BY NumberedFacts DEF InTransitIs
  <1>2. accepted = handled + Count /\ Count \in Nat /\ handled \in Nat
    BY CountRange, RingAssumption DEF RingSteps, RingIntact, TypeOK
  <1>3. handled <= Sent /\ Sent <= handled + 1
    BY <1>2 DEF Sent
  <1>. QED
    BY <1>1, <1>2, <1>3 DEF InTransitIs

LEMMA PipeInits == Init => Pipe!PipeInit
  <1>. SUFFICES ASSUME Init PROVE Pipe!PipeInit
    OBVIOUS
  <1>1. ~Posting /\ ~Taken /\ Count = 0
    BY DEF Init, Posting, Taken, Contexts, Count
  <1>2. Unposted = 0 /\ InTransit = <<>>
    BY <1>1 DEF Init, Unposted, InTransit
  <1>. QED
    BY <1>2 DEF Init, Pipe!PipeInit

\* Steps that neither post nor send leave the pipe alone.
LEMMA PipeStutters ==
    ASSUME InTransitIs, InTransitIs', Sent' = Sent, Unposted' = Unposted,
           UNCHANGED <<accepted, queue, drops, sendFail>>
    PROVE  UNCHANGED Pipe!pipe
  BY DEF InTransitIs, Numbered, Pipe!pipe

PipeStep == [Pipe!PipeNext]_Pipe!pipe

LEMMA PipeByPost ==
    ASSUME TypeOK, TypeOK', Exclusion, RingSteps, InTransitIs, InTransitIs',
           NEW c \in Contexts, Post(c)
    PROVE  PipeStep
  <1>. USE DEF vars, config, line, wake, cpu, body, ringVars, counts
  <1>0. pending \in Nat /\ accepted \in Nat /\ drops \in Nat
    BY DEF TypeOK
  <1>1. InBody(c)
    BY DEF Post, PostFull, PostRead, PostWrite, PostPublish, InBody
  <1>2. /\ Posting <=> isr[c] \in {"write", "publish"}
        /\ Posting' <=> isr'[c] \in {"write", "publish"}
    <2>1. Posting <=> isr[c] \in {"write", "publish"}
      BY <1>1, PosterDecides
    <2>2. \A d \in Contexts : d # c => isr[d] = "off"
      BY <1>1 DEF Exclusion, InBody, Contexts
    <2>3. \A d \in Contexts : d # c => isr'[d] = isr[d]
      BY DEF TypeOK, Post, PostFull, PostRead, PostWrite, PostPublish
    <2>. QED
      BY <2>1, <2>2, <2>3 DEF Posting
  <1>3. UNCHANGED <<queue, sendFail, handled, pc>>
    BY DEF Post, PostFull, PostRead, PostWrite, PostPublish
  <1>4. Sent' = Sent
    BY <1>3 DEF Sent, Taken
  <1>5. CASE PostFull(c)
    <2>1. /\ Unposted = pending /\ Unposted' = pending - 1 /\ pending > 0
          /\ drops' = drops + 1 /\ accepted' = accepted
      BY <1>0, <1>2, <1>5 DEF PostFull, Unposted
    <2>2. Succ(head) = tail
      BY <1>5 DEF PostFull
    <2>4. Len(InTransit) + 1 >= RingSize - 1
      BY <2>2, FullRing, TransitLength, RingAssumption
    <2>5. InTransit' = InTransit
      BY <1>4, <2>1 DEF InTransitIs
    <2>. QED
      BY <1>3, <2>1, <2>4, <2>5 DEF PipeStep, Pipe!PipeNext, Pipe!Lose
  <1>6. CASE PostRead(c) \/ PostWrite(c)
    <2>1. UNCHANGED <<accepted, drops>>
      BY <1>6 DEF PostRead, PostWrite
    <2>2. CASE PostRead(c)
      <3>1. pending' = pending - 1 /\ ~Posting /\ Posting'
        BY <1>2, <2>2 DEF PostRead, TypeOK
      <3>2. Unposted' = Unposted
        BY <1>0, <3>1 DEF Unposted
      <3>. QED
        BY <1>3, <1>4, <2>1, <3>2, PipeStutters DEF PipeStep
    <2>3. CASE PostWrite(c)
      <3>1. pending' = pending /\ Posting /\ Posting'
        BY <1>2, <2>3 DEF PostWrite, TypeOK
      <3>2. Unposted' = Unposted
        BY <3>1 DEF Unposted
      <3>. QED
        BY <1>3, <1>4, <2>1, <3>2, PipeStutters DEF PipeStep
    <2>. QED
      BY <1>6, <2>2, <2>3
  <1>7. CASE PostPublish(c)
    <2>1. /\ Unposted = pending + 1 /\ Unposted' = pending
          /\ accepted' = accepted + 1 /\ drops' = drops
      BY <1>0, <1>2, <1>7 DEF PostPublish, Unposted, TypeOK
    <2>2. Succ(head) # tail
      BY <1>7 DEF PostPublish, RingSteps
    <2>4. Len(InTransit) < RingSize - 1
      BY <2>2, FullRing, TransitLength, CountRange, RingAssumption
    <2>5. InTransit' = Append(InTransit, accepted + 1)
      BY <1>4, <2>1, NumberedFacts DEF InTransitIs
    <2>. QED
      BY <1>0, <1>3, <2>1, <2>4, <2>5 DEF PipeStep, Pipe!PipeNext, Pipe!Post
  <1>. QED
    BY <1>5, <1>6, <1>7 DEF Post

LEMMA PipeByPass ==
    ASSUME TypeOK, TypeOK', Exclusion, RingSteps, InTransitIs, InTransitIs',
           NEW g \in Callers, PassStep(g)
    PROVE  PipeStep
  <1>. USE DEF vars, config, line, wake, cpu, body, ringVars, counts
  <1>1. UNCHANGED <<pending, accepted, drops>>
    BY DEF PassStep, Begin, Skip, Mask, SoftEnter, SoftReturn, DrainSend,
           DrainAdvance, DrainDone, Work, Unmask, Finish
  <1>2. Posting' = Posting
    <2>1. CASE SoftEnter(g)
      <3>1. isr["soft"] = "off"
        BY <2>1 DEF SoftEnter, At, Exclusion, InBody, InPass, PassSteps
      <3>. QED
        BY <2>1, <3>1 DEF SoftEnter, Posting, TypeOK, Contexts
    <2>2. CASE SoftReturn(g)
      BY <2>2 DEF SoftReturn, Posting, TypeOK, Contexts
    <2>3. CASE UNCHANGED isr
      BY <2>3 DEF Posting
    <2>. QED
      BY <2>1, <2>2, <2>3 DEF PassStep, Begin, Skip, Mask, DrainSend,
         DrainAdvance, DrainDone, Work, Unmask, Finish
  <1>3. Unposted' = Unposted
    BY <1>1, <1>2 DEF Unposted
  <1>4. CASE DrainSend(g)
    <2>1. ~Taken
      BY <1>4, DrainerDecides DEF DrainSend, At, InPass, PassSteps
    <2>2. Taken'
      BY <1>4 DEF DrainSend, Goto, Taken, TypeOK
    <2>3. Sent = handled /\ Sent' = handled + 1 /\ handled \in Nat
      BY <1>4, <2>1, <2>2 DEF DrainSend, Sent, TypeOK
    <2>4. Sent < accepted
      BY <1>1, <2>3 DEF InTransitIs
    <2>5. /\ InTransit # <<>> /\ Head(InTransit) = Sent + 1
          /\ InTransit' = Tail(InTransit)
      BY <1>1, <2>3, <2>4, NumberedFacts DEF InTransitIs
    <2>6. ring[tail] = Sent + 1
      <3>1. tail # head
        BY <1>4 DEF DrainSend
      <3>2. Count > 0 /\ Slot(0) = tail /\ 0 \in 0 .. RingSize - 1
        BY <3>1, CountRange, RingAssumption
      <3>3. ring[Slot(0)] = handled + 0 + 1
        BY <3>2 DEF RingSteps, RingIntact
      <3>. QED
        BY <2>3, <3>2, <3>3
    <2>7. \/ /\ Len(queue) < QueueCap /\ queue' = Append(queue, Head(InTransit))
             /\ sendFail' = sendFail
          \/ /\ Len(queue) = QueueCap /\ sendFail' = sendFail + 1
             /\ queue' = queue
      BY <1>4, <2>5, <2>6 DEF DrainSend
    <2>. QED
      BY <1>1, <1>3, <2>5, <2>7 DEF PipeStep, Pipe!PipeNext, Pipe!HandOver
  <1>5. CASE DrainAdvance(g)
    <2>1. Taken
      BY <1>5 DEF DrainAdvance, At, Taken
    <2>2. ~Taken'
      BY <1>5
      DEF DrainAdvance, At, Goto, Exclusion, InPass, PassSteps, Taken, TypeOK
    <2>3. Sent' = Sent /\ UNCHANGED <<queue, sendFail>>
      BY <1>5, <2>1, <2>2 DEF DrainAdvance, Sent, TypeOK
    <2>. QED
      BY <1>1, <1>3, <2>3, PipeStutters DEF PipeStep
  <1>6. CASE ~DrainSend(g) /\ ~DrainAdvance(g)
    <2>1. UNCHANGED <<queue, sendFail, handled>>
      BY <1>6 DEF PassStep, Begin, Skip, Mask, SoftEnter, SoftReturn, DrainDone,
                  Work, Unmask, Finish
    <2>2. pc[g] # "advance" /\ \E step \in {"idle", "begin"} \cup PassSteps :
             step # "advance" /\ pc' = [pc EXCEPT ![g] = step]
      BY <1>6 DEF PassStep, Begin, Skip, Mask, SoftEnter, SoftReturn, DrainDone,
                  Work, Unmask, Finish, At, Goto, PassSteps
    <2>3. Taken' = Taken
      BY <2>2 DEF Taken, TypeOK
    <2>. QED
      BY <1>1, <1>3, <2>1, <2>3, PipeStutters DEF PipeStep, Sent
  <1>. QED
    BY <1>4, <1>5, <1>6

LEMMA PipeSteps ==
    TypeOK /\ TypeOK' /\ Exclusion /\ RingSteps /\ InTransitIs /\ InTransitIs'
      /\ [Next]_vars => PipeStep
  <1>. SUFFICES ASSUME TypeOK, TypeOK', Exclusion, RingSteps, InTransitIs,
                       InTransitIs', [Next]_vars
               PROVE  PipeStep
    OBVIOUS
  <1>. USE DEF vars, config, line, wake, cpu, body, ringVars, counts
  <1>1. ASSUME Taken' = Taken, Posting' = Posting,
               UNCHANGED <<pending, accepted, handled, queue, drops, sendFail>>
        PROVE  PipeStep
    <2>1. Sent' = Sent /\ Unposted' = Unposted
      BY <1>1 DEF Sent, Unposted
    <2>. QED
      BY <1>1, <2>1, PipeStutters DEF PipeStep
  <1>2. ASSUME UNCHANGED isr PROVE Posting' = Posting
    BY <1>2 DEF Posting
  <1>3. ASSUME UNCHANGED pc PROVE Taken' = Taken
    BY <1>3 DEF Taken
  <1>4. CASE MacEvent
    <2>1. /\ pending' = pending + 1 /\ pending \in Nat
          /\ UNCHANGED <<accepted, handled, queue, drops, sendFail>>
          /\ Posting' = Posting /\ Taken' = Taken
      BY <1>2, <1>3, <1>4 DEF MacEvent, TypeOK
    <2>2. Unposted' = Unposted + 1 /\ Sent' = Sent
      BY <2>1 DEF Unposted, Sent
    <2>3. InTransit' = InTransit
      BY <2>1, <2>2 DEF InTransitIs
    <2>. QED
      BY <2>1, <2>2, <2>3 DEF PipeStep, Pipe!PipeNext, Pipe!Raise
  <1>5. CASE BlobReceive
    <2>1. /\ queue # <<>> /\ queue' = Tail(queue)
          /\ UNCHANGED <<pending, accepted, handled, drops, sendFail>>
          /\ Posting' = Posting /\ Taken' = Taken
      BY <1>2, <1>3, <1>5 DEF BlobReceive
    <2>2. Unposted' = Unposted /\ Sent' = Sent
      BY <2>1 DEF Unposted, Sent
    <2>3. InTransit' = InTransit
      BY <2>1, <2>2 DEF InTransitIs
    <2>. QED
      BY <2>1, <2>2, <2>3 DEF PipeStep, Pipe!PipeNext, Pipe!Receive
  <1>6. CASE Tick \/ UnmaskIntervalOver \/ BlobYield \/ BlobIntsOn
    BY <1>1, <1>2, <1>3, <1>6
    DEF Tick, UnmaskIntervalOver, BlobYield, BlobIntsOn
  <1>7. CASE Hw
    <2>1. Posting' = Posting
      BY <1>7 DEF Hw, HwEnter, HwReturn, HwMaskAndKick, Posting, TypeOK,
                  Contexts, InBody
    <2>. QED
      BY <1>1, <1>3, <1>7, <2>1 DEF Hw, HwEnter, HwReturn, HwMaskAndKick
  <1>8. CASE WakeByKick \/ WakeByTick
    <2>1. Taken' = Taken
      BY <1>8 DEF WakeByKick, WakeByTick, Goto, At, Taken, TypeOK
    <2>. QED
      BY <1>1, <1>2, <1>8, <2>1 DEF WakeByKick, WakeByTick
  <1>9. ASSUME NEW g \in Callers, Pump(g) PROVE PipeStep
    <2>1. Taken' = Taken
      BY <1>9 DEF Pump, Goto, At, Taken, TypeOK
    <2>. QED
      BY <1>1, <1>2, <1>9, <2>1 DEF Pump
  <1>10. CASE UNCHANGED vars
    BY <1>1, <1>2, <1>3, <1>10
  <1>. QED
    BY <1>4, <1>5, <1>6, <1>7, <1>8, <1>9, <1>10, PipeByPost, PipeByPass
    DEF Next, Env

\* For any ring and queue length the steps of the blob's ISR, the handlers and
\* the drain are those of one pipe: what is posted arrives in order and once, and
\* is lost only, and counted, at a full ring or a full queue.
THEOREM PassImplementsPipe == SafeSpec => ImplementsPipe
  <1>. USE DEF SafeSpec
  <1>1. SafeSpec => [](TypeOK /\ Exclusion /\ RingSteps)
    BY TypeCorrect, ExclusionInit, ExclusionStep, RingInit, RingStep, PTL
  <1>2. SafeSpec => []InTransitIs
    BY <1>1, TransitNumbered, PTL
  <1>3. SafeSpec => [][Pipe!PipeNext]_Pipe!pipe
    BY <1>1, <1>2, PipeSteps, PTL DEF PipeStep
  <1>. QED
    BY <1>3, PipeInits, PTL DEF ImplementsPipe, Pipe!PipeSpec
=============================================================================
