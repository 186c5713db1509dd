------------------------------ MODULE Timers_proofs ------------------------------
(***************************************************************************)
(* Proofs about the timer services, for any timers, any budgets and any    *)
(* delays: both do what the calls ask, the walk over the esp_timers leaves *)
(* the list only if a timer was deleted in its own callback, and one pass  *)
(* serves every timer that was due when it began.                          *)
(***************************************************************************)
EXTENDS Timers, SequenceTheorems, FiniteSetTheorems, TLAPS

-----------------------------------------------------------------------------
(* The inductive invariants.  The first four give every variable its       *)
(* shape; each of the others answers one question.                         *)

Slot == [ptimer : EtsTimers, run : Runs]
OneEach(sl) == \A i, j \in DOMAIN sl : sl[i].ptimer = sl[j].ptimer => i = j
Table(sl) == sl \in Seq(Slot) /\ OneEach(sl)
\* What a table holds of a timer: one run, or none.
RunsOf(sl, t) == {sl[i].run : i \in {j \in DOMAIN sl : sl[j].ptimer = t}}

Quiet(r) == r.active => r.left > 0
Positive(r) == r.active /\ r.periodic => r.interval > 0

\* What is repeated has an interval, so it is not due again in the same pass.
TableOK ==
    /\ Table(slots) /\ Len(slots) <= Slots
    /\ \A t \in EtsTimers : \A r \in RunsOf(slots, t) : Positive(r)

ListOK ==
    /\ list \in Seq(EspTimers) /\ IsInjective(list) /\ ToSet(list) = live
    /\ tm \in [EspTimers -> Runs] /\ inline \subseteq EspTimers
    /\ \A h \in EspTimers : Positive(tm[h])

\* A service begins with its counters reset; a callback is within the budget.
PassOK ==
    /\ at \in Steps /\ round \in 0 .. DrainCap - 1 /\ fired \in 0 .. Budget
    /\ timer \in EtsTimers \cup EspTimers \cup {None}
    /\ at \in {"idle", "ets", "esp"} => fired = 0 /\ timer = None
    /\ at = "idle" => round = 0
    /\ at \in {"etsCall", "espCall"} => fired < Budget

HistoryOK ==
    /\ client \in Clients /\ func \in [EtsTimers -> BOOLEAN]
    /\ expire \in [EtsTimers -> Runs]
    /\ \A t \in EtsTimers : Quiet(expire[t]) /\ Positive(expire[t])
    /\ asked \in [EtsTimers \cup EspTimers -> Modes]
    /\ refused \subseteq EtsTimers /\ muddled \subseteq EspTimers
    /\ overdue \subseteq EtsTimers \cup EspTimers
    /\ wild \in BOOLEAN /\ freedOwn \in BOOLEAN
    /\ busy \in BOOLEAN /\ crowded \in BOOLEAN

Shape == TableOK /\ ListOK /\ PassOK /\ HistoryOK

\* The walk is at a timer of the list.  Only a timer deleted in its own
\* callback can be freed while the code will still use it.
WalkInv ==
    /\ wild => freedOwn
    /\ at \in {"ets", "etsScan", "esp"} => ~wild
    /\ at = "espWalk" => /\ timer \in EspTimers \cup {None}
                         /\ wild <=> timer \notin live \cup {None}
    /\ at = "espCall" => timer \in EspTimers /\ (timer \in live \/ freedOwn)
    /\ \A h \in inline : h \in live \/ freedOwn

\* A timer that has been set up and did not find the table full has a slot,
\* and that does what is asked of it.
EtsDoes(t) ==
    /\ func[t] => RunsOf(slots, t) # {}
    /\ \/ expire[t].active
       \/ IF RunsOf(slots, t) = {} THEN asked[t] = "off"
          ELSE \A r \in RunsOf(slots, t) : Mode(r) = asked[t]
EtsInv == \A t \in EtsTimers \ refused : EtsDoes(t)

\* What has been asked of a timer is what it will be once its callback, if it
\* is under way, has returned.
Called(h) == at = "espCall" /\ timer = h
EspDoes(h) ==
    /\ h \in inline => asked[h] = "off"
    /\ h \notin inline /\ Called(h) =>
         asked[h] = IF tm[h].active /\ tm[h].periodic THEN "periodic" ELSE "off"
    /\ h \notin inline /\ ~Called(h) => Mode(tm[h]) = asked[h]
EspInv == \A h \in live \ muddled : EspDoes(h)

OverdueEts == overdue \cap EtsTimers
OverdueEsp == overdue \cap EspTimers
DueEts == {t \in EtsTimers : \E r \in RunsOf(slots, t) : Due(r)}
DueEsp == {h \in live : Due(tm[h]) /\ ~Called(h)}
Before(s, g, h) == \E i, j \in 1 .. Len(s) : i < j /\ s[i] = g /\ s[j] = h
\* Callbacks made in this pass by the service it is in.
Calls == round * Budget + fired
           + (IF at \in {"etsCall", "espCall"} THEN 1 ELSE 0)
Room(S, n, limit) ==
    S = {} \/ (IsFiniteSet(S) /\ Cardinality(S) + n <= limit)

Calm == ~busy /\ ~wild
EtsPart == {"ets", "etsScan", "etsCall"}
EspPart == {"esp", "espWalk", "espCall"}
\* While no timer becomes due, the overdue timers are those that are due, but
\* for the one called back; ...
OverdueInv ==
    Calm =>
       /\ at = "idle" => OverdueEts = {} /\ (OverdueEsp = {} \/ crowded)
       /\ at # "idle" => OverdueEts = DueEts /\ OverdueEsp = DueEsp
       /\ at \in EspPart => OverdueEts = {}
\* ... the walk has them ahead of it; ...
AheadInv ==
    Calm =>
       /\ at = "espWalk" => \A h \in OverdueEsp : timer = h \/ Before(list, timer, h)
       /\ at = "espCall" /\ timer \in live =>
             \A h \in OverdueEsp : Before(list, timer, h)
\* ... and the pass has callbacks enough left for all of them.
RoomInv ==
    Calm =>
       /\ at \in EtsPart => Room(OverdueEts, Calls, Slots)
       /\ at \in EtsPart /\ ~crowded => Room(OverdueEsp, 0, Budget * DrainCap)
       /\ at \in EspPart /\ ~crowded => Room(OverdueEsp, Calls, Budget * DrainCap)

-----------------------------------------------------------------------------
(* Sequences without an element, and with one more in front.               *)

LEMMA Members ==
  ASSUME NEW S, NEW s \in Seq(S)
  PROVE  \A c : c \in ToSet(s) <=> \E i \in 1 .. Len(s) : s[i] = c
  BY DEF ToSet

LEMMA RemoveAtShape ==
  ASSUME NEW S, NEW s \in Seq(S), NEW k \in 1 .. Len(s)
  PROVE  /\ RemoveAt(s, k) \in Seq(S) /\ Len(RemoveAt(s, k)) = Len(s) - 1
         /\ \A i \in 1 .. Len(s) - 1 :
               RemoveAt(s, k)[i] = IF i < k THEN s[i] ELSE s[i + 1]
  <1>. DEFINE front == SubSeq(s, 1, k - 1)
              back == SubSeq(s, k + 1, Len(s))
              rest == RemoveAt(s, k)
  <1>0. Len(s) \in Nat /\ k \in Nat /\ \A i \in 1 .. Len(s) : s[i] \in S
    OBVIOUS
  <1>1. /\ front \in Seq(S) /\ Len(front) = k - 1
        /\ \A i \in 1 .. k - 1 : front[i] = s[i]
    BY <1>0, SubSeqProperties
  <1>2. /\ back \in Seq(S) /\ Len(back) = Len(s) - k
        /\ \A i \in 1 .. Len(s) - k : back[i] = s[k + i]
    BY <1>0, SubSeqProperties
  <1>3. rest = front \o back
    BY DEF RemoveAt
  <1>. HIDE DEF front, back, rest
  <1>4. /\ rest \in Seq(S) /\ Len(rest) = Len(front) + Len(back)
        /\ \A i \in 1 .. Len(front) + Len(back) : rest[i] =
              IF i <= Len(front) THEN front[i] ELSE back[i - Len(front)]
    BY <1>1, <1>2, <1>3, ConcatProperties
  <1>5. Len(front) + Len(back) = Len(s) - 1
    BY <1>0, <1>1, <1>2
  <1>6. /\ rest \in Seq(S) /\ Len(rest) = Len(s) - 1
        /\ \A i \in 1 .. Len(s) - 1 :
             rest[i] = IF i <= k - 1 THEN front[i] ELSE back[i - (k - 1)]
    BY <1>1, <1>4, <1>5
  <1>7. ASSUME NEW i \in 1 .. Len(s) - 1
        PROVE  rest[i] = IF i < k THEN s[i] ELSE s[i + 1]
    <2>1. CASE i < k
      BY <1>0, <1>1, <1>6, <2>1
    <2>2. CASE i >= k
      <3>1. i - (k - 1) \in 1 .. Len(s) - k /\ k + (i - (k - 1)) = i + 1
        BY <1>0, <2>2
      <3>. QED
        BY <1>0, <1>2, <1>6, <2>2, <3>1
    <2>. QED
      BY <1>0, <2>1, <2>2
  <1>. QED
    BY <1>6, <1>7 DEF rest

\* Where the elements of what is left were, in the same order.
LEMMA RemoveAtMoves ==
  ASSUME NEW S, NEW s \in Seq(S), NEW k \in 1 .. Len(s),
         NEW i \in 1 .. Len(s), i # k
  PROVE  /\ (IF i < k THEN i ELSE i - 1) \in 1 .. Len(RemoveAt(s, k))
         /\ RemoveAt(s, k)[IF i < k THEN i ELSE i - 1] = s[i]
  <1>1. /\ Len(RemoveAt(s, k)) = Len(s) - 1
        /\ \A j \in 1 .. Len(s) - 1 :
               RemoveAt(s, k)[j] = IF j < k THEN s[j] ELSE s[j + 1]
    BY RemoveAtShape
  <1>2. CASE i < k
    BY <1>1, <1>2
  <1>3. CASE i > k
    <2>1. i - 1 \in 1 .. Len(s) - 1 /\ ~(i - 1 < k) /\ (i - 1) + 1 = i
      BY <1>3
    <2>. QED
      BY <1>1, <1>3, <2>1
  <1>. QED
    BY <1>2, <1>3

LEMMA RemoveAtFacts ==
  ASSUME NEW S, NEW s \in Seq(S), IsInjective(s), NEW k \in 1 .. Len(s)
  PROVE  /\ RemoveAt(s, k) \in Seq(S) /\ IsInjective(RemoveAt(s, k))
         /\ ToSet(RemoveAt(s, k)) = ToSet(s) \ {s[k]}
  <1>. DEFINE rest == RemoveAt(s, k)
  <1>1. \A m, n \in 1 .. Len(s) : s[m] = s[n] => m = n
    BY DEF IsInjective
  <1>0. k \in Nat
    OBVIOUS
  <1>2. /\ rest \in Seq(S) /\ Len(rest) = Len(s) - 1 /\ Len(s) \in Nat
        /\ \A i \in 1 .. Len(s) - 1 : rest[i] = IF i < k THEN s[i] ELSE s[i + 1]
    BY RemoveAtShape
  <1>3. \A i \in 1 .. Len(s) : i # k => \E j \in 1 .. Len(rest) : rest[j] = s[i]
    BY RemoveAtMoves
  <1>. HIDE DEF rest
  <1>4. IsInjective(rest)
    <2>. SUFFICES ASSUME NEW i \in 1 .. Len(rest), NEW j \in 1 .. Len(rest),
                         rest[i] = rest[j]
                  PROVE  i = j
      BY <1>2 DEF IsInjective
    <2>1. /\ i \in 1 .. Len(s) /\ i + 1 \in 1 .. Len(s) /\ i \in 1 .. Len(s) - 1
          /\ j \in 1 .. Len(s) /\ j + 1 \in 1 .. Len(s) /\ j \in 1 .. Len(s) - 1
      BY <1>2
    <2>2. CASE i < k /\ j < k
      BY <1>1, <1>2, <2>1, <2>2
    <2>3. CASE i < k /\ j >= k
      BY <1>0, <1>1, <1>2, <2>1, <2>3
    <2>4. CASE i >= k /\ j < k
      BY <1>0, <1>1, <1>2, <2>1, <2>4
    <2>5. CASE i >= k /\ j >= k
      BY <1>0, <1>1, <1>2, <2>1, <2>5
    <2>. QED
      BY <1>0, <2>1, <2>2, <2>3, <2>4, <2>5
  <1>5. ASSUME NEW i \in 1 .. Len(rest) PROVE rest[i] \in ToSet(s) \ {s[k]}
    <2>1. i \in 1 .. Len(s) /\ i + 1 \in 1 .. Len(s) /\ i \in 1 .. Len(s) - 1
      BY <1>2
    <2>2. CASE i < k
      BY <1>0, <1>1, <1>2, <2>1, <2>2, Members
    <2>3. CASE i >= k
      BY <1>0, <1>1, <1>2, <2>1, <2>3, Members
    <2>. QED
      BY <1>0, <2>1, <2>2, <2>3
  <1>6. \A c : c \in ToSet(rest) <=> \E i \in 1 .. Len(rest) : rest[i] = c
    BY <1>2, Members
  <1>7. \A c : c \in ToSet(s) <=> \E i \in 1 .. Len(s) : s[i] = c
    BY Members
  <1>8. ToSet(rest) = ToSet(s) \ {s[k]}
    BY <1>3, <1>5, <1>6, <1>7
  <1>. QED
    BY <1>2, <1>4, <1>8 DEF rest

\* In a sequence without repetitions the first occurrence is the only one.
LEMMA RemoveFirstIsRemoveAt ==
  ASSUME NEW S, NEW s \in Seq(S), IsInjective(s), NEW k \in 1 .. Len(s)
  PROVE  RemoveFirst(s, s[k]) = RemoveAt(s, k)
  <1>. DEFINE I == {i \in 1 .. Len(s) : s[i] = s[k]}
  <1>1. I = {k}
    BY DEF IsInjective
  <1>2. Min(I) = k
    <2>1. k \in I /\ \A j \in I : k <= j
      BY <1>1
    <2>. QED
      BY <1>1, <2>1 DEF Min
  <1>. QED
    BY <1>1, <1>2 DEF RemoveFirst, SelectInSeq

LEMMA RemoveFirstFacts ==
  ASSUME NEW S, NEW s \in Seq(S), IsInjective(s), NEW c \in ToSet(s)
  PROVE  /\ RemoveFirst(s, c) \in Seq(S) /\ IsInjective(RemoveFirst(s, c))
         /\ ToSet(RemoveFirst(s, c)) = ToSet(s) \ {c}
  <1>1. PICK k \in 1 .. Len(s) : s[k] = c
    BY Members
  <1>2. RemoveFirst(s, c) = RemoveAt(s, k)
    BY <1>1, RemoveFirstIsRemoveAt
  <1>. QED
    BY <1>1, <1>2, RemoveAtFacts

LEMMA PushShape ==
  ASSUME NEW S, NEW s \in Seq(S), NEW b \in S
  PROVE  /\ <<b>> \o s \in Seq(S) /\ Len(<<b>> \o s) = Len(s) + 1 /\ Len(s) \in Nat
         /\ (<<b>> \o s)[1] = b
         /\ \A i \in 1 .. Len(s) : (<<b>> \o s)[i + 1] = s[i]
  OBVIOUS

LEMMA PushFacts ==
  ASSUME NEW S, NEW s \in Seq(S), IsInjective(s), NEW b \in S, b \notin ToSet(s)
  PROVE  /\ <<b>> \o s \in Seq(S) /\ IsInjective(<<b>> \o s)
         /\ ToSet(<<b>> \o s) = ToSet(s) \cup {b}
  <1>. DEFINE more == <<b>> \o s
  <1>1. /\ more \in Seq(S) /\ Len(more) = Len(s) + 1 /\ Len(s) \in Nat
        /\ more[1] = b /\ \A i \in 1 .. Len(s) : more[i + 1] = s[i]
    BY PushShape
  <1>. HIDE DEF more
  <1>2. ASSUME NEW i \in 1 .. Len(more), i # 1
        PROVE  i - 1 \in 1 .. Len(s) /\ more[i] = s[i - 1]
    <2>1. i - 1 \in 1 .. Len(s) /\ (i - 1) + 1 = i
      BY <1>1, <1>2
    <2>. QED
      BY <1>1, <2>1
  <1>3. \A m, n \in 1 .. Len(s) : s[m] = s[n] => m = n
    BY DEF IsInjective
  <1>4. \A i \in 1 .. Len(s) : s[i] # b
    BY Members
  <1>5. IsInjective(more)
    <2>. SUFFICES ASSUME NEW i \in 1 .. Len(more), NEW j \in 1 .. Len(more),
                         more[i] = more[j]
                  PROVE  i = j
      BY <1>1 DEF IsInjective
    <2>1. CASE i = 1 \/ j = 1
      BY <1>1, <1>2, <1>4, <2>1
    <2>2. CASE i # 1 /\ j # 1
      <3>1. i - 1 = j - 1
        BY <1>2, <1>3, <2>2
      <3>. QED
        BY <3>1
    <2>. QED
      BY <2>1, <2>2
  <1>6. ToSet(more) = ToSet(s) \cup {b}
    <2>1. ASSUME NEW i \in 1 .. Len(more) PROVE more[i] \in ToSet(s) \cup {b}
      BY <1>1, <1>2, Members
    <2>2. ASSUME NEW i \in 1 .. Len(s) PROVE s[i] \in ToSet(more)
      <3>1. i + 1 \in 1 .. Len(more)
        BY <1>1
      <3>. QED
        BY <1>1, <3>1, Members
    <2>3. b \in ToSet(more)
      <3>1. 1 \in 1 .. Len(more)
        BY <1>1
      <3>. QED
        BY <1>1, <3>1, Members
    <2>. QED
      BY <1>1, <2>1, <2>2, <2>3, Members
  <1>. QED
    BY <1>1, <1>5, <1>6 DEF more

-----------------------------------------------------------------------------
(* The order of a list: what a walk still has ahead of it.                 *)

LEMMA BeforeRemoved ==
  ASSUME NEW S, NEW s \in Seq(S), IsInjective(s), NEW c \in ToSet(s),
         NEW g \in S \ {c}, NEW h \in S \ {c}, Before(s, g, h)
  PROVE  Before(RemoveFirst(s, c), g, h)
  <1>1. PICK k \in 1 .. Len(s) : s[k] = c
    BY Members
  <1>2. RemoveFirst(s, c) = RemoveAt(s, k)
    BY <1>1, RemoveFirstIsRemoveAt
  <1>3. PICK i, j \in 1 .. Len(s) : i < j /\ s[i] = g /\ s[j] = h
    BY DEF Before
  <1>4. i # k /\ j # k
    BY <1>1, <1>3
  <1>. DEFINE p == IF i < k THEN i ELSE i - 1
              q == IF j < k THEN j ELSE j - 1
              rest == RemoveAt(s, k)
  <1>5. p \in 1 .. Len(rest) /\ rest[p] = s[i]
    BY <1>4, RemoveAtMoves
  <1>6. q \in 1 .. Len(rest) /\ rest[q] = s[j]
    BY <1>4, RemoveAtMoves
  <1>7. p < q
    BY <1>3, <1>4
  <1>. HIDE DEF p, q, rest
  <1>8. \E m, n \in 1 .. Len(rest) : m < n /\ rest[m] = g /\ rest[n] = h
    BY <1>3, <1>5, <1>6, <1>7
  <1>. QED
    BY <1>2, <1>8 DEF Before, rest

LEMMA BeforePushed ==
  ASSUME NEW S, NEW s \in Seq(S), NEW b \in S, NEW g, NEW h, Before(s, g, h)
  PROVE  Before(<<b>> \o s, g, h)
  <1>. DEFINE more == <<b>> \o s
  <1>1. /\ Len(more) = Len(s) + 1 /\ Len(s) \in Nat
        /\ \A i \in 1 .. Len(s) : more[i + 1] = s[i]
    BY PushShape
  <1>. HIDE DEF more
  <1>2. PICK i, j \in 1 .. Len(s) : i < j /\ s[i] = g /\ s[j] = h
    BY DEF Before
  <1>3. /\ i + 1 \in 1 .. Len(more) /\ j + 1 \in 1 .. Len(more) /\ i + 1 < j + 1
        /\ more[i + 1] = g /\ more[j + 1] = h
    BY <1>1, <1>2
  <1>4. \E m, n \in 1 .. Len(more) : m < n /\ more[m] = g /\ more[n] = h
    BY <1>3
  <1>. QED
    BY <1>4 DEF Before, more

LEMMA PushedBefore ==
  ASSUME NEW S, NEW s \in Seq(S), NEW b \in S, NEW h \in ToSet(s)
  PROVE  Before(<<b>> \o s, b, h)
  <1>. DEFINE more == <<b>> \o s
  <1>1. /\ Len(more) = Len(s) + 1 /\ Len(s) \in Nat /\ more[1] = b
        /\ \A i \in 1 .. Len(s) : more[i + 1] = s[i]
    BY PushShape
  <1>. HIDE DEF more
  <1>2. PICK j \in 1 .. Len(s) : s[j] = h
    BY Members
  <1>3. /\ 1 \in 1 .. Len(more) /\ j + 1 \in 1 .. Len(more) /\ 1 < j + 1
        /\ more[1] = b /\ more[j + 1] = h
    BY <1>1, <1>2
  <1>4. \E m, n \in 1 .. Len(more) : m < n /\ more[m] = b /\ more[n] = h
    BY <1>3
  <1>. QED
    BY <1>4 DEF Before, more

LEMMA HeadFirst ==
  ASSUME NEW S, NEW s \in Seq(S), s # <<>>
  PROVE  /\ Head(s) \in ToSet(s)
         /\ \A h \in ToSet(s) : Head(s) = h \/ Before(s, Head(s), h)
  <1>1. Len(s) \in Nat /\ Len(s) >= 1 /\ Head(s) = s[1] /\ 1 \in 1 .. Len(s)
    <2>1. Len(s) # 0
      BY EmptySeq
    <2>. QED
      BY <2>1
  <1>2. ASSUME NEW h \in ToSet(s), s[1] # h PROVE Before(s, s[1], h)
    <2>1. PICK j \in 1 .. Len(s) : s[j] = h
      BY Members
    <2>2. 1 < j
      BY <1>1, <1>2, <2>1
    <2>. QED
      BY <1>1, <2>1, <2>2 DEF Before
  <1>. QED
    BY <1>1, <1>2, Members

LEMMA SuccessorIn ==
  ASSUME list \in Seq(EspTimers), NEW g \in ToSet(list)
  PROVE  NextOf(g) \in ToSet(list) \cup {None}
  <1>. DEFINE i == CHOOSE j \in DOMAIN list : list[j] = g
  <1>1. DOMAIN list = 1 .. Len(list) /\ Len(list) \in Nat
    OBVIOUS
  <1>2. \E j \in DOMAIN list : list[j] = g
    BY <1>1, Members
  <1>3. i \in DOMAIN list
    BY <1>2
  <1>4. NextOf(g) = IF i = Len(list) THEN None ELSE list[i + 1]
    BY DEF NextOf
  <1>. HIDE DEF i
  <1>5. i # Len(list) => i + 1 \in 1 .. Len(list)
    BY <1>1, <1>3
  <1>. QED
    BY <1>1, <1>4, <1>5, Members

\* What comes after g is the successor of g, or comes after that.
LEMMA SuccessorAhead ==
  ASSUME list \in Seq(EspTimers), IsInjective(list), NEW g, NEW h, Before(list, g, h)
  PROVE  /\ NextOf(g) \in ToSet(list)
         /\ NextOf(g) = h \/ Before(list, NextOf(g), h)
  <1>. DEFINE c == CHOOSE j \in DOMAIN list : list[j] = g
  <1>1. DOMAIN list = 1 .. Len(list) /\ Len(list) \in Nat
    OBVIOUS
  <1>2. PICK i, j \in 1 .. Len(list) : i < j /\ list[i] = g /\ list[j] = h
    BY DEF Before
  <1>3. c \in DOMAIN list /\ list[c] = g
    BY <1>1, <1>2
  <1>4. c = i
    BY <1>1, <1>2, <1>3 DEF IsInjective
  <1>5. NextOf(g) = IF c = Len(list) THEN None ELSE list[c + 1]
    BY DEF NextOf
  <1>. HIDE DEF c
  <1>6. NextOf(g) = list[i + 1] /\ i + 1 \in 1 .. Len(list)
    <2>0. i < j /\ i \in 1 .. Len(list) /\ j \in 1 .. Len(list) /\ Len(list) \in Nat
      BY <1>1, <1>2
    <2>1. i # Len(list) /\ i + 1 \in 1 .. Len(list)
      BY ONLY <2>0
    <2>. QED
      BY <1>4, <1>5, <2>1
  <1>7. NextOf(g) \in ToSet(list)
    BY <1>6, Members
  <1>8. NextOf(g) = h \/ Before(list, NextOf(g), h)
    <2>1. CASE i + 1 = j
      BY <1>2, <1>6, <2>1
    <2>2. CASE i + 1 < j
      BY <1>2, <1>6, <2>2 DEF Before
    <2>. QED
      BY <1>1, <1>2, <2>1, <2>2
  <1>. QED
    BY <1>7, <1>8

-----------------------------------------------------------------------------
(* The table of ets timers: the runs it holds of a timer, none or one.     *)

\* The table with what f makes of each slot's run.
WithRuns(sl, f) == [i \in DOMAIN sl |-> [sl[i] EXCEPT !.run = f[i]]]

LEMMA TableTypes ==
  ASSUME NEW sl, Table(sl)
  PROVE  /\ DOMAIN sl = 1 .. Len(sl) /\ Len(sl) \in Nat
         /\ \A i \in DOMAIN sl : /\ sl[i] \in Slot /\ sl[i].ptimer \in EtsTimers
                                 /\ sl[i].run \in Runs
  <1>1. /\ sl \in Seq(Slot) /\ DOMAIN sl = 1 .. Len(sl) /\ Len(sl) \in Nat
        /\ \A i \in DOMAIN sl : sl[i] \in Slot
    BY DEF Table
  <1>2. \A s \in Slot : s.ptimer \in EtsTimers /\ s.run \in Runs
    BY DEF Slot
  <1>. QED
    BY <1>1, <1>2

LEMMA InRunsOf ==
  ASSUME NEW sl, NEW t
  PROVE  \A r : r \in RunsOf(sl, t) <=>
                   \E i \in DOMAIN sl : sl[i].ptimer = t /\ sl[i].run = r
  BY DEF RunsOf

LEMMA OneRun ==
  ASSUME NEW sl, Table(sl), NEW i \in DOMAIN sl
  PROVE  RunsOf(sl, sl[i].ptimer) = {sl[i].run}
  <1>1. \A j \in DOMAIN sl : sl[j].ptimer = sl[i].ptimer => j = i
    BY DEF Table, OneEach
  <1>2. \A r : r \in RunsOf(sl, sl[i].ptimer) <=> r = sl[i].run
    BY <1>1, InRunsOf
  <1>. QED
    BY <1>2

LEMMA WithRunsTable ==
  ASSUME NEW sl, Table(sl), NEW f \in [DOMAIN sl -> Runs]
  PROVE  Table(WithRuns(sl, f))
  <1>. DEFINE new == WithRuns(sl, f)
  <1>1. /\ DOMAIN sl = 1 .. Len(sl) /\ Len(sl) \in Nat
        /\ \A i \in DOMAIN sl : sl[i] \in Slot
    BY TableTypes
  <1>2. /\ DOMAIN new = DOMAIN sl
        /\ \A i \in DOMAIN sl : new[i] = [sl[i] EXCEPT !.run = f[i]]
    BY DEF WithRuns
  <1>3. \A i \in DOMAIN sl : new[i] \in Slot /\ new[i].ptimer = sl[i].ptimer
    BY <1>1, <1>2 DEF Slot
  <1>4. new = [i \in 1 .. Len(sl) |-> [sl[i] EXCEPT !.run = f[i]]]
    BY <1>1 DEF WithRuns
  <1>5. new \in Seq(Slot)
    <2>1. \A i \in 1 .. Len(sl) : [sl[i] EXCEPT !.run = f[i]] \in Slot
      BY <1>1, <1>2, <1>3
    <2>. QED
      BY <1>1, <1>4, <2>1, IsASeq
  <1>. HIDE DEF new
  <1>6. OneEach(new)
    BY <1>2, <1>3 DEF Table, OneEach
  <1>. QED
    BY <1>5, <1>6 DEF Table, new

LEMMA WithRunsShape ==
  ASSUME NEW sl, Table(sl), NEW f \in [DOMAIN sl -> Runs]
  PROVE  /\ DOMAIN WithRuns(sl, f) = DOMAIN sl /\ Len(WithRuns(sl, f)) = Len(sl)
         /\ \A i \in DOMAIN sl : /\ WithRuns(sl, f)[i].ptimer = sl[i].ptimer
                                 /\ WithRuns(sl, f)[i].run = f[i]
  <1>1. /\ DOMAIN sl = 1 .. Len(sl) /\ Len(sl) \in Nat
        /\ \A i \in DOMAIN sl : sl[i] \in Slot
    BY TableTypes
  <1>2. DOMAIN WithRuns(sl, f) = DOMAIN sl
    BY DEF WithRuns
  <1>3. Len(WithRuns(sl, f)) = Len(sl)
    BY <1>1, <1>2, LenProperties, WithRunsTable DEF Table
  <1>. QED
    BY <1>1, <1>2, <1>3 DEF WithRuns, Slot

LEMMA RemovedTable ==
  ASSUME NEW sl, Table(sl), NEW k \in DOMAIN sl
  PROVE  Table(RemoveAt(sl, k))
  <1>. DEFINE rest == RemoveAt(sl, k)
  <1>1. DOMAIN sl = 1 .. Len(sl) /\ Len(sl) \in Nat /\ k \in Nat /\ sl \in Seq(Slot)
    BY TableTypes DEF Table
  <1>2. /\ rest \in Seq(Slot) /\ Len(rest) = Len(sl) - 1
        /\ \A i \in 1 .. Len(sl) - 1 : rest[i] = IF i < k THEN sl[i] ELSE sl[i + 1]
    BY <1>1, RemoveAtShape
  <1>. HIDE DEF rest
  <1>3. DOMAIN rest = 1 .. Len(sl) - 1
    BY <1>2
  <1>4. \A m, n \in 1 .. Len(sl) : sl[m].ptimer = sl[n].ptimer => m = n
    BY <1>1 DEF Table, OneEach
  <1>5. ASSUME NEW i \in 1 .. Len(sl) - 1, NEW j \in 1 .. Len(sl) - 1,
               rest[i].ptimer = rest[j].ptimer
        PROVE  i = j
    <2>1. /\ i \in 1 .. Len(sl) /\ i + 1 \in 1 .. Len(sl)
          /\ j \in 1 .. Len(sl) /\ j + 1 \in 1 .. Len(sl)
      BY <1>1
    <2>2. CASE i < k /\ j < k
      BY <1>2, <1>4, <1>5, <2>1, <2>2
    <2>3. CASE i < k /\ j >= k
      BY <1>1, <1>2, <1>4, <1>5, <2>1, <2>3
    <2>4. CASE i >= k /\ j < k
      BY <1>1, <1>2, <1>4, <1>5, <2>1, <2>4
    <2>5. CASE i >= k /\ j >= k
      BY <1>1, <1>2, <1>4, <1>5, <2>1, <2>5
    <2>. QED
      BY <1>1, <2>1, <2>2, <2>3, <2>4, <2>5
  <1>. QED
    BY <1>2, <1>3, <1>5 DEF Table, OneEach, rest

LEMMA RemovedRuns ==
  ASSUME NEW sl, Table(sl), NEW k \in DOMAIN sl, NEW t
  PROVE  RunsOf(RemoveAt(sl, k), t) =
            IF sl[k].ptimer = t THEN {} ELSE RunsOf(sl, t)
  <1>. DEFINE rest == RemoveAt(sl, k)
  <1>1. DOMAIN sl = 1 .. Len(sl) /\ Len(sl) \in Nat /\ k \in Nat /\ sl \in Seq(Slot)
    BY TableTypes DEF Table
  <1>2. /\ rest \in Seq(Slot) /\ Len(rest) = Len(sl) - 1
        /\ \A i \in 1 .. Len(sl) - 1 : rest[i] = IF i < k THEN sl[i] ELSE sl[i + 1]
    BY <1>1, RemoveAtShape
  <1>3. \A i \in 1 .. Len(sl) : i # k => \E j \in 1 .. Len(rest) : rest[j] = sl[i]
    BY <1>1, RemoveAtMoves
  <1>. HIDE DEF rest
  <1>4. DOMAIN rest = 1 .. Len(rest)
    BY <1>2
  <1>5. ASSUME NEW i \in DOMAIN rest
        PROVE  \E j \in DOMAIN sl \ {k} : rest[i] = sl[j]
    <2>1. i \in 1 .. Len(sl) - 1 /\ i \in 1 .. Len(sl) /\ i + 1 \in 1 .. Len(sl)
      BY <1>1, <1>2, <1>4
    <2>2. CASE i < k
      BY <1>1, <1>2, <2>1, <2>2
    <2>3. CASE i >= k
      BY <1>1, <1>2, <2>1, <2>3
    <2>. QED
      BY <1>1, <2>1, <2>2, <2>3
  <1>6. \A i, j \in DOMAIN sl : sl[i].ptimer = sl[j].ptimer => i = j
    BY DEF Table, OneEach
  <1>7. \A r : r \in RunsOf(rest, t) <=>
                 \E i \in DOMAIN rest : rest[i].ptimer = t /\ rest[i].run = r
    BY InRunsOf
  <1>8. \A r : r \in RunsOf(sl, t) <=>
                 \E i \in DOMAIN sl : sl[i].ptimer = t /\ sl[i].run = r
    BY InRunsOf
  <1>9. CASE sl[k].ptimer = t
    <2>1. \A j \in DOMAIN sl \ {k} : sl[j].ptimer # t
      BY <1>6, <1>9
    <2>2. \A r : r \notin RunsOf(rest, t)
      BY <1>5, <1>7, <2>1
    <2>. QED
      BY <1>9, <2>2 DEF rest
  <1>10. CASE sl[k].ptimer # t
    <2>1. \A r : r \in RunsOf(rest, t) => r \in RunsOf(sl, t)
      BY <1>5, <1>7, <1>8
    <2>2. \A r : r \in RunsOf(sl, t) => r \in RunsOf(rest, t)
      BY <1>1, <1>3, <1>4, <1>7, <1>8, <1>10
    <2>. QED
      BY <1>10, <2>1, <2>2 DEF rest
  <1>. QED
    BY <1>9, <1>10

LEMMA AppendedTable ==
  ASSUME NEW sl, Table(sl), NEW s \in Slot, RunsOf(sl, s.ptimer) = {}
  PROVE  Table(Append(sl, s))
  <1>. DEFINE new == Append(sl, s)
  <1>1. DOMAIN sl = 1 .. Len(sl) /\ Len(sl) \in Nat /\ sl \in Seq(Slot)
    BY TableTypes DEF Table
  <1>2. /\ new \in Seq(Slot) /\ Len(new) = Len(sl) + 1 /\ new[Len(sl) + 1] = s
        /\ \A i \in 1 .. Len(sl) : new[i] = sl[i]
    BY <1>1
  <1>3. \A i \in DOMAIN sl : sl[i].ptimer # s.ptimer
    BY InRunsOf
  <1>4. \A i, j \in DOMAIN sl : sl[i].ptimer = sl[j].ptimer => i = j
    BY DEF Table, OneEach
  <1>. HIDE DEF new
  <1>5. DOMAIN new = DOMAIN sl \cup {Len(sl) + 1}
    BY <1>1, <1>2
  <1>6. OneEach(new)
    BY <1>1, <1>2, <1>3, <1>4, <1>5 DEF OneEach
  <1>. QED
    BY <1>2, <1>6 DEF Table, new

LEMMA AppendedRuns ==
  ASSUME NEW sl, Table(sl), NEW s \in Slot, RunsOf(sl, s.ptimer) = {}, NEW t
  PROVE  RunsOf(Append(sl, s), t) =
            IF s.ptimer = t THEN {s.run} ELSE RunsOf(sl, t)
  <1>. DEFINE new == Append(sl, s)
  <1>1. DOMAIN sl = 1 .. Len(sl) /\ Len(sl) \in Nat /\ sl \in Seq(Slot)
    BY TableTypes DEF Table
  <1>2. /\ new \in Seq(Slot) /\ Len(new) = Len(sl) + 1 /\ new[Len(sl) + 1] = s
        /\ \A i \in 1 .. Len(sl) : new[i] = sl[i]
    BY <1>1
  <1>3. \A i \in DOMAIN sl : sl[i].ptimer # s.ptimer
    BY InRunsOf
  <1>. HIDE DEF new
  <1>4. DOMAIN new = DOMAIN sl \cup {Len(sl) + 1}
    BY <1>1, <1>2
  <1>5. \A r : r \in RunsOf(new, t) <=>
                 \E i \in DOMAIN new : new[i].ptimer = t /\ new[i].run = r
    BY InRunsOf
  <1>6. \A r : r \in RunsOf(sl, t) <=>
                 \E i \in DOMAIN sl : sl[i].ptimer = t /\ sl[i].run = r
    BY InRunsOf
  <1>7. \A i \in DOMAIN sl : new[i] = sl[i]
    BY <1>1, <1>2
  <1>8. CASE s.ptimer = t
    <2>1. \A r : r \in RunsOf(new, t) <=> r = s.run
      BY <1>2, <1>3, <1>4, <1>5, <1>7, <1>8
    <2>. QED
      BY <1>8, <2>1 DEF new
  <1>9. CASE s.ptimer # t
    <2>1. \A r : r \in RunsOf(new, t) <=> r \in RunsOf(sl, t)
      BY <1>2, <1>4, <1>5, <1>6, <1>7, <1>9
    <2>. QED
      BY <1>9, <2>1 DEF new
  <1>. QED
    BY <1>8, <1>9

-----------------------------------------------------------------------------
(* What the operations make of a timer's run, and of the table.            *)

LEMMA Bounds ==
  /\ Slots \in Nat \ {0} /\ Budget \in Nat \ {0} /\ DrainCap \in Nat \ {0}
  /\ MaxDelay \in Nat \ {0} /\ 0 \in Delays /\ 1 \in Delays /\ Delays \subseteq Nat
  /\ EtsTimers \cap EspTimers = {} /\ None \notin EtsTimers \cup EspTimers
  BY BoundAssumption, TimerAssumption, NoneAssumption DEF Delays

LEMMA IdleRun ==
  /\ Idle \in Runs /\ ~Idle.active /\ ~Due(Idle) /\ Positive(Idle) /\ Quiet(Idle)
  /\ Mode(Idle) = "off"
  BY Bounds DEF Idle, Runs, Due, Positive, Quiet, Mode

LEMMA ArmedRun ==
  ASSUME NEW d \in Delays, NEW repeat \in BOOLEAN
  PROVE  /\ Armed(d, repeat) \in Runs
         /\ Armed(d, repeat).active /\ Armed(d, repeat).periodic = repeat
         /\ Armed(d, repeat).interval = d /\ Armed(d, repeat).left = d
  BY DEF Armed, Runs

LEMMA ArmedAhead ==
  ASSUME NEW d \in Delays, NEW repeat \in BOOLEAN, d > 0
  PROVE  /\ ~Due(Armed(d, repeat)) /\ Positive(Armed(d, repeat))
         /\ Quiet(Armed(d, repeat)) /\ Mode(Armed(d, repeat)) = Kind(repeat)
  BY ArmedRun, Bounds DEF Due, Positive, Quiet, Mode

LEMMA ArmedOnce ==
  ASSUME NEW d \in Delays
  PROVE  Positive(Armed(d, FALSE)) /\ Mode(Armed(d, FALSE)) = "once"
  BY ArmedRun DEF Positive, Mode, Kind

LEMMA LaterRun ==
  ASSUME NEW r \in Runs
  PROVE  /\ Later(r) \in Runs /\ Mode(Later(r)) = Mode(r)
         /\ Later(r).active = r.active /\ Later(r).periodic = r.periodic
         /\ Positive(r) => Positive(Later(r))
  <1>1. /\ r.active \in BOOLEAN /\ r.periodic \in BOOLEAN
        /\ r.interval \in Delays /\ r.left \in Delays
        /\ r = [active |-> r.active, periodic |-> r.periodic,
                interval |-> r.interval, left |-> r.left]
    BY DEF Runs
  <1>2. CASE r.active /\ r.left > 0
    <2>1. Later(r) = [active |-> r.active, periodic |-> r.periodic,
                      interval |-> r.interval, left |-> r.left - 1]
      BY <1>1, <1>2 DEF Later
    <2>2. r.left - 1 \in Delays
      BY <1>1, <1>2, Bounds DEF Delays
    <2>. QED
      BY <1>1, <2>1, <2>2 DEF Runs, Mode, Positive
  <1>3. CASE ~(r.active /\ r.left > 0)
    BY <1>3 DEF Later
  <1>. QED
    BY <1>2, <1>3

LEMMA IndexView == \A t : Index(t) = {} <=> RunsOf(slots, t) = {}
  BY DEF Index, Used, RunsOf

LEMMA EtsDueView == EtsDue = DueEts
  BY DEF EtsDue, DueEts, Index, Used, RunsOf

LEMMA WithRunsRuns ==
  ASSUME NEW sl, Table(sl), NEW f \in [DOMAIN sl -> Runs], NEW t
  PROVE  RunsOf(WithRuns(sl, f), t) = {f[i] : i \in {j \in DOMAIN sl : sl[j].ptimer = t}}
  BY WithRunsShape DEF RunsOf

LEMMA SetRunIs ==
  ASSUME Table(slots), NEW t, NEW r \in Runs, SetRun(t, r)
  PROVE  slots' = WithRuns(slots, [i \in DOMAIN slots |->
                     IF slots[i].ptimer = t THEN r ELSE slots[i].run])
  <1>1. \A i \in DOMAIN slots : [slots[i] EXCEPT !.run = slots[i].run] = slots[i]
    BY TableTypes DEF Slot
  <1>. QED
    BY <1>1 DEF SetRun, Used, WithRuns

\* Setting a run changes nothing of the other timers.
LEMMA SetRunFacts ==
  ASSUME TableOK, NEW t \in EtsTimers, NEW r \in Runs, Positive(r), SetRun(t, r)
  PROVE  /\ TableOK'
         /\ RunsOf(slots', t) = IF RunsOf(slots, t) = {} THEN {} ELSE {r}
         /\ \A u : u # t => RunsOf(slots', u) = RunsOf(slots, u)
  <1>. DEFINE f == [i \in DOMAIN slots |->
                      IF slots[i].ptimer = t THEN r ELSE slots[i].run]
  <1>1. Table(slots) /\ Len(slots) <= Slots
    BY DEF TableOK
  <1>2. f \in [DOMAIN slots -> Runs]
    BY <1>1, TableTypes
  <1>3. slots' = WithRuns(slots, f)
    BY <1>1, SetRunIs
  <1>4. \A i \in DOMAIN slots :
           f[i] = IF slots[i].ptimer = t THEN r ELSE slots[i].run
    OBVIOUS
  <1>. HIDE DEF f
  <1>5. Table(slots') /\ Len(slots') <= Slots
    BY <1>1, <1>2, <1>3, WithRunsTable, WithRunsShape
  <1>6. \A u : RunsOf(slots', u) = {f[i] : i \in {j \in DOMAIN slots : slots[j].ptimer = u}}
    BY <1>1, <1>2, <1>3, WithRunsRuns
  <1>7. RunsOf(slots', t) = IF RunsOf(slots, t) = {} THEN {} ELSE {r}
    <2>1. \A q : q \in RunsOf(slots', t) <=>
                   q = r /\ \E i \in DOMAIN slots : slots[i].ptimer = t
      BY <1>4, <1>6
    <2>2. RunsOf(slots, t) = {} <=> ~ \E i \in DOMAIN slots : slots[i].ptimer = t
      BY DEF RunsOf
    <2>. QED
      BY <2>1, <2>2
  <1>8. \A u : u # t => RunsOf(slots', u) = RunsOf(slots, u)
    BY <1>4, <1>6 DEF RunsOf
  <1>9. \A u \in EtsTimers : \A q \in RunsOf(slots', u) : Positive(q)
    BY <1>7, <1>8 DEF TableOK
  <1>. QED
    BY <1>5, <1>7, <1>8, <1>9 DEF TableOK

-----------------------------------------------------------------------------
(* The calls about an ets timer: which variables they leave alone, and     *)
(* what they make of the table.                                            *)

LEMMA EtsCallFrame ==
  ASSUME NEW t \in EtsTimers, EtsCall(t)
  PROVE  /\ UNCHANGED <<client, list, live, tm, inline, at, round, fired, timer,
                        wild, muddled, freedOwn, busy, crowded>>
         /\ BlobRuns
  BY DEF EtsCall, SetFn, Disarm, Done, ArmNow, Arm, BlobWritesExpire, esp, pass,
         history, served, excuse

LEMMA EtsCallHistory ==
  ASSUME HistoryOK, NEW t \in EtsTimers, EtsCall(t)
  PROVE  /\ HistoryOK'
         /\ \A u \in EtsTimers \ {t} : /\ func'[u] = func[u] /\ expire'[u] = expire[u]
                                       /\ u \in refused' <=> u \in refused
         /\ \A u \in EtsTimers \cup EspTimers : u # t => asked'[u] = asked[u]
  <1>. USE DEF HistoryOK, Ask, Serve, Modes
  <1>0. UNCHANGED <<client, wild, muddled, freedOwn, busy, crowded>>
    BY EtsCallFrame
  <1>1. CASE SetFn(t)
    BY <1>0, <1>1, IdleRun DEF SetFn
  <1>2. CASE Disarm(t)
    BY <1>0, <1>2 DEF Disarm
  <1>3. CASE Done(t)
    BY <1>0, <1>3 DEF Done
  <1>4. ASSUME NEW repeat \in BOOLEAN, ArmNow(t, repeat)
        PROVE  /\ HistoryOK'
               /\ \A u \in EtsTimers \ {t} :
                      /\ func'[u] = func[u] /\ expire'[u] = expire[u]
                      /\ u \in refused' <=> u \in refused
               /\ \A u \in EtsTimers \cup EspTimers : u # t => asked'[u] = asked[u]
    BY <1>0, <1>4 DEF ArmNow
  <1>5. ASSUME NEW repeat \in BOOLEAN, NEW d \in Delays, Arm(t, d, repeat)
        PROVE  /\ HistoryOK'
               /\ \A u \in EtsTimers \ {t} :
                      /\ func'[u] = func[u] /\ expire'[u] = expire[u]
                      /\ u \in refused' <=> u \in refused
               /\ \A u \in EtsTimers \cup EspTimers : u # t => asked'[u] = asked[u]
    BY <1>0, <1>5 DEF Arm, Kind
  <1>6. ASSUME NEW repeat \in BOOLEAN, NEW d \in Delays,
               BlobWritesExpire(t, d, repeat)
        PROVE  /\ HistoryOK'
               /\ \A u \in EtsTimers \ {t} :
                      /\ func'[u] = func[u] /\ expire'[u] = expire[u]
                      /\ u \in refused' <=> u \in refused
               /\ \A u \in EtsTimers \cup EspTimers : u # t => asked'[u] = asked[u]
    <2>1. /\ Armed(d, repeat) \in Runs
          /\ Quiet(Armed(d, repeat)) /\ Positive(Armed(d, repeat))
      BY <1>6, ArmedRun, ArmedAhead DEF BlobWritesExpire
    <2>2. /\ expire' = [expire EXCEPT ![t] = Armed(d, repeat)]
          /\ UNCHANGED <<func, asked, refused, overdue>>
      BY <1>6 DEF BlobWritesExpire, history, served, excuse
    <2>. QED
      BY <1>0, <2>1, <2>2
  <1>. QED
    BY <1>1, <1>2, <1>3, <1>4, <1>5, <1>6 DEF EtsCall

\* The slot of a timer that is done is given back; those behind move down.
LEMMA DoneFacts ==
  ASSUME TableOK, NEW t \in EtsTimers, Done(t)
  PROVE  /\ TableOK' /\ RunsOf(slots', t) = {}
         /\ \A u : u # t => RunsOf(slots', u) = RunsOf(slots, u)
  <1>t. Table(slots) /\ Len(slots) <= Slots
    BY DEF TableOK
  <1>1. CASE Index(t) = {}
    <2>1. slots' = slots /\ RunsOf(slots', t) = {}
      BY <1>1, IndexView DEF Done
    <2>. QED
      BY <2>1 DEF TableOK
  <1>2. CASE Index(t) # {}
    <2>1. PICK k \in DOMAIN slots : slots[k].ptimer = t
      BY <1>2 DEF Index, Used
    <2>2. Index(t) = {k}
      BY <1>t, <2>1 DEF Index, Used, Table, OneEach
    <2>3. DOMAIN slots = 1 .. Len(slots) /\ Len(slots) \in Nat /\ k \in Nat
      BY <1>t, TableTypes
    <2>4. Min(Index(t)) = k
      <3>1. k \in Index(t) /\ \A j \in Index(t) : k <= j
        BY <2>2, <2>3
      <3>. QED
        BY <2>2, <3>1 DEF Min
    <2>5. slots' = RemoveAt(slots, k)
      BY <1>2, <2>4 DEF Done
    <2>6. Table(slots')
      BY <1>t, <2>5, RemovedTable
    <2>7. \A u : RunsOf(slots', u) = IF u = t THEN {} ELSE RunsOf(slots, u)
      BY <1>t, <2>1, <2>5, RemovedRuns
    <2>8. Len(slots') <= Slots
      <3>1. slots \in Seq(Slot) /\ k \in 1 .. Len(slots)
        BY <1>t, <2>3 DEF Table
      <3>2. Len(slots') = Len(slots) - 1
        BY <2>5, <3>1, RemoveAtShape
      <3>. QED
        BY <1>t, <2>3, <3>2, Bounds
    <2>9. TableOK'
      BY <2>6, <2>7, <2>8 DEF TableOK
    <2>. QED
      BY <2>7, <2>9
  <1>. QED
    BY <1>1, <1>2

\* Only the slot of the timer called about is set, taken or given back.
LEMMA EtsCallTable ==
  ASSUME TableOK, NEW t \in EtsTimers, EtsCall(t)
  PROVE  /\ TableOK'
         /\ \A u : u # t => RunsOf(slots', u) = RunsOf(slots, u)
         /\ \/ UNCHANGED <<slots, overdue>>
            \/ /\ overdue' = overdue \ {t}
               /\ \A r \in RunsOf(slots', t) : ~Due(r)
  <1>. DEFINE Goal == /\ TableOK'
                      /\ \A u : u # t => RunsOf(slots', u) = RunsOf(slots, u)
                      /\ \/ UNCHANGED <<slots, overdue>>
                         \/ /\ overdue' = overdue \ {t}
                            /\ \A r \in RunsOf(slots', t) : ~Due(r)
  <1>0. ASSUME NEW r \in Runs, Positive(r), ~Due(r), SetRun(t, r), Serve(t)
        PROVE  Goal
    <2>1. /\ TableOK'
          /\ RunsOf(slots', t) = IF RunsOf(slots, t) = {} THEN {} ELSE {r}
          /\ \A u : u # t => RunsOf(slots', u) = RunsOf(slots, u)
      BY <1>0, SetRunFacts
    <2>. QED
      BY <1>0, <2>1 DEF Serve
  <1>t. Table(slots) /\ Len(slots) <= Slots
    BY DEF TableOK
  <1>1. CASE SetFn(t)
    <2>s. Serve(t)
      BY <1>1 DEF SetFn
    <2>1. CASE Index(t) # {}
      BY <1>0, <1>1, <2>1, IdleRun DEF SetFn
    <2>2. CASE Index(t) = {} /\ Len(slots) < Slots /\ slots' # slots
      <3>. DEFINE s == [ptimer |-> t, run |-> Idle]
      <3>1. s \in Slot /\ s.ptimer = t /\ s.run = Idle
        BY IdleRun DEF Slot
      <3>2. slots' = Append(slots, s) /\ RunsOf(slots, s.ptimer) = {}
        BY <1>1, <2>2, <3>1, IndexView DEF SetFn
      <3>. HIDE DEF s
      <3>3. Table(slots')
        BY <1>t, <3>1, <3>2, AppendedTable
      <3>4. \A u : RunsOf(slots', u) = IF u = t THEN {Idle} ELSE RunsOf(slots, u)
        BY <1>t, <3>1, <3>2, AppendedRuns
      <3>5. Len(slots') <= Slots
        BY <1>t, <2>2, <3>2, TableTypes, Bounds DEF Table
      <3>6. TableOK'
        BY <3>3, <3>4, <3>5, IdleRun DEF TableOK
      <3>. QED
        BY <2>s, <3>4, <3>6, IdleRun DEF Serve
    <2>3. CASE Index(t) = {} /\ slots' = slots
      <3>1. RunsOf(slots', t) = {}
        BY <2>3, IndexView
      <3>. QED
        BY <2>s, <2>3, <3>1 DEF Serve, TableOK
    <2>. QED
      BY <1>1, <2>1, <2>2, <2>3, <1>t, TableTypes, Bounds DEF SetFn
  <1>2. CASE Disarm(t)
    BY <1>0, <1>2, IdleRun DEF Disarm
  <1>3. CASE Done(t)
    <2>1. /\ TableOK' /\ RunsOf(slots', t) = {}
          /\ \A u : u # t => RunsOf(slots', u) = RunsOf(slots, u)
      BY <1>3, DoneFacts
    <2>. QED
      BY <1>3, <2>1 DEF Done, Serve
  <1>4. ASSUME NEW repeat \in BOOLEAN, ArmNow(t, repeat) PROVE Goal
    <2>1. CASE repeat
      <3>1. SetRun(t, Armed(1, TRUE)) /\ Serve(t)
        BY <1>4, <2>1 DEF ArmNow
      <3>2. Armed(1, TRUE) \in Runs /\ Positive(Armed(1, TRUE)) /\ ~Due(Armed(1, TRUE))
        BY Bounds DEF Armed, Runs, Due, Positive
      <3>. QED
        BY <1>0, <3>1, <3>2
    <2>2. CASE ~repeat
      BY <1>0, <1>4, <2>2, IdleRun DEF ArmNow
    <2>. QED
      BY <2>1, <2>2
  <1>5. ASSUME NEW repeat \in BOOLEAN, NEW d \in Delays, Arm(t, d, repeat) PROVE Goal
    <2>1. SetRun(t, Armed(d, repeat)) /\ Serve(t) /\ d > 0
      BY <1>5 DEF Arm
    <2>2. /\ Armed(d, repeat) \in Runs /\ Positive(Armed(d, repeat))
          /\ ~Due(Armed(d, repeat))
      BY <2>1, ArmedRun, ArmedAhead
    <2>. QED
      BY <1>0, <2>1, <2>2
  <1>6. ASSUME NEW repeat \in BOOLEAN, NEW d \in Delays,
               BlobWritesExpire(t, d, repeat)
        PROVE  Goal
    <2>1. UNCHANGED <<slots, overdue>>
      BY <1>6 DEF BlobWritesExpire, served, excuse
    <2>2. TableOK' /\ \A u : RunsOf(slots', u) = RunsOf(slots, u)
      BY <2>1 DEF TableOK
    <2>. QED
      BY <2>1, <2>2
  <1>. QED
    BY <1>1, <1>2, <1>3, <1>4, <1>5, <1>6 DEF EtsCall

-----------------------------------------------------------------------------
(* The same for the calls about an esp_timer.                              *)

LEMMA EspCallFrame ==
  ASSUME NEW h \in EspTimers, EspCall(h)
  PROVE  /\ UNCHANGED <<client, slots, func, expire, at, round, fired, timer, refused>>
         /\ BlobRuns
  BY DEF EspCall, Create, StartNow, InlineReturn, Stop, Delete, Restart, Start,
         ets, pass, history, served, excuse

LEMMA EspCallHistory ==
  ASSUME HistoryOK, NEW h \in EspTimers, EspCall(h)
  PROVE  /\ HistoryOK'
         /\ \A u \in EtsTimers \cup EspTimers : u # h => asked'[u] = asked[u]
         /\ \A g \in EspTimers : g # h => (g \in muddled' <=> g \in muddled)
         /\ (busy => busy') /\ (freedOwn => freedOwn') /\ ~wild /\ crowded' = crowded
         /\ overdue' = overdue \ {h} \/ (Create(h) /\ overdue' = overdue)
  <1>. DEFINE Goal == /\ HistoryOK'
                      /\ \A u \in EtsTimers \cup EspTimers : u # h => asked'[u] = asked[u]
                      /\ \A g \in EspTimers : g # h => (g \in muddled' <=> g \in muddled)
                      /\ (busy => busy') /\ (freedOwn => freedOwn') /\ ~wild /\ crowded' = crowded
                      /\ \/ overdue' = overdue \ {h}
                         \/ (Create(h) /\ overdue' = overdue)
  <1>. USE DEF HistoryOK, Ask, Serve, excuse, served
  <1>0. UNCHANGED <<client, func, expire, refused>> /\ ~wild
    BY EspCallFrame DEF BlobRuns
  <1>m. {"off", "once", "periodic"} \subseteq Modes /\ asked[h] \in Modes
    BY DEF Modes
  <1>1. CASE Create(h)
    BY <1>0, <1>1, <1>m DEF Create
  <1>2. CASE StartNow(h)
    BY <1>0, <1>2, <1>m DEF StartNow
  <1>3. CASE InlineReturn(h)
    BY <1>0, <1>3, <1>m DEF InlineReturn, history
  <1>4. CASE Stop(h)
    BY <1>0, <1>4, <1>m DEF Stop
  <1>5. CASE Delete(h)
    BY <1>0, <1>5, <1>m DEF Delete
  <1>6. ASSUME NEW d \in Delays, Restart(h, d) PROVE Goal
    BY <1>0, <1>6, <1>m DEF Restart
  <1>7. ASSUME NEW d \in Delays, NEW repeat \in BOOLEAN, Start(h, d, repeat)
        PROVE  Goal
    BY <1>0, <1>7, <1>m DEF Start, Kind
  <1>. QED
    BY <1>1, <1>2, <1>3, <1>4, <1>5, <1>6, <1>7 DEF EspCall

\* A record that is set in tm.
LEMMA SetTimer ==
  ASSUME ListOK, NEW h \in EspTimers, NEW r \in Runs, Positive(r),
         tm' = [tm EXCEPT ![h] = r]
  PROVE  /\ tm' \in [EspTimers -> Runs] /\ tm'[h] = r
         /\ \A g \in EspTimers : Positive(tm'[g])
         /\ \A g \in EspTimers : g # h => tm'[g] = tm[g]
  BY DEF ListOK

\* The list is as it was, or has the timer in front, or no longer.  Either time
\* is up for some timer, or the one called about is not due.
Relinked(h) ==
    \/ list' = list /\ live' = live /\ h \in live
    \/ list' = <<h>> \o list /\ h \notin live /\ live' = live \cup {h}
    \/ list' = RemoveFirst(list, h) /\ h \in live /\ live' = live \ {h}
    \/ list' = list /\ live' = live /\ wild'

LEMMA EspCallRelinks ==
  ASSUME NEW h \in EspTimers, EspCall(h)
  PROVE  Relinked(h)
  <1>1. CASE InlineReturn(h)
    BY <1>1 DEF InlineReturn, Relinked
  <1>2. CASE Create(h)
    BY <1>2 DEF Create, Relinked
  <1>3. CASE Delete(h)
    BY <1>3 DEF Delete, Relinked
  <1>. QED
    BY <1>1, <1>2, <1>3 DEF EspCall, StartNow, Stop, Restart, Start, Relinked

LEMMA RelinkedList ==
  ASSUME ListOK, NEW h \in EspTimers, Relinked(h)
  PROVE  /\ list' \in Seq(EspTimers) /\ IsInjective(list') /\ ToSet(list') = live'
         /\ \A g : g # h => (g \in live' <=> g \in live)
  <1>1. /\ list \in Seq(EspTimers) /\ IsInjective(list) /\ ToSet(list) = live
    BY DEF ListOK
  <1>2. CASE list' = <<h>> \o list /\ h \notin live /\ live' = live \cup {h}
    BY <1>1, <1>2, PushFacts
  <1>3. CASE list' = RemoveFirst(list, h) /\ h \in live /\ live' = live \ {h}
    BY <1>1, <1>3, RemoveFirstFacts
  <1>. QED
    BY <1>1, <1>2, <1>3 DEF Relinked

LEMMA EspCallTimers ==
  ASSUME ListOK, NEW h \in EspTimers, EspCall(h)
  PROVE  /\ tm' \in [EspTimers -> Runs] /\ inline' \subseteq EspTimers
         /\ \A g \in EspTimers : Positive(tm'[g])
         /\ \A g \in EspTimers : g # h =>
               tm'[g] = tm[g] /\ (g \in inline' <=> g \in inline)
         /\ busy' \/ wild' \/ ~Due(tm'[h]) \/ h \notin live'
  <1>. DEFINE Goal ==
         /\ tm' \in [EspTimers -> Runs] /\ inline' \subseteq EspTimers
         /\ \A g \in EspTimers : Positive(tm'[g])
         /\ \A g \in EspTimers : g # h =>
               tm'[g] = tm[g] /\ (g \in inline' <=> g \in inline)
         /\ busy' \/ wild' \/ ~Due(tm'[h]) \/ h \notin live'
  <1>i. inline \subseteq EspTimers
    BY DEF ListOK
  <1>0. ASSUME NEW r \in Runs, Positive(r), tm' = [tm EXCEPT ![h] = r],
               inline' \subseteq EspTimers,
               \A g \in EspTimers : g # h => (g \in inline' <=> g \in inline),
               busy' \/ ~Due(r) \/ h \notin live'
        PROVE  Goal
    BY <1>0, SetTimer
  <1>1. CASE Create(h)
    BY <1>0, <1>1, <1>i, IdleRun DEF Create
  <1>2. CASE StartNow(h)
    <2>1. Armed(0, FALSE) \in Runs /\ Positive(Armed(0, FALSE))
      BY Bounds DEF Armed, Runs, Positive
    <2>. QED
      BY <1>0, <1>2, <1>i, <2>1 DEF StartNow
  <1>3. CASE InlineReturn(h)
    <2>1. CASE h \in live
      BY <1>0, <1>3, <1>i, <2>1, IdleRun DEF InlineReturn
    <2>2. CASE h \notin live
      BY <1>3, <1>i, <2>2 DEF InlineReturn, ListOK
    <2>. QED
      BY <2>1, <2>2
  <1>4. CASE Stop(h)
    <2>. DEFINE r == [Idle EXCEPT !.periodic = tm[h].periodic]
    <2>1. tm[h] \in Runs
      BY DEF ListOK
    <2>2. r \in Runs /\ Positive(r) /\ ~Due(r)
      BY <2>1, Bounds DEF Idle, Runs, Positive, Due
    <2>3. tm' = [tm EXCEPT ![h] = r] /\ UNCHANGED inline
      BY <1>4 DEF Stop
    <2>. HIDE DEF r
    <2>. QED
      BY <1>0, <1>i, <2>2, <2>3
  <1>5. CASE Delete(h)
    BY <1>0, <1>5, <1>i, IdleRun DEF Delete
  <1>6. ASSUME NEW d \in Delays, Restart(h, d) PROVE Goal
    <2>1. tm' = [tm EXCEPT ![h] = Armed(d, FALSE)] /\ UNCHANGED inline
          /\ busy' = (busy \/ d = 0)
      BY <1>6 DEF Restart
    <2>2. Armed(d, FALSE) \in Runs /\ Positive(Armed(d, FALSE))
      BY DEF Armed, Runs, Positive
    <2>3. d = 0 \/ ~Due(Armed(d, FALSE))
      BY DEF Armed, Due
    <2>. QED
      BY <1>0, <1>i, <2>1, <2>2, <2>3
  <1>7. ASSUME NEW d \in Delays, NEW repeat \in BOOLEAN, Start(h, d, repeat)
        PROVE  Goal
    <2>1. tm' = [tm EXCEPT ![h] = Armed(d, repeat)] /\ UNCHANGED inline /\ d > 0
      BY <1>7 DEF Start
    <2>2. /\ Armed(d, repeat) \in Runs /\ Positive(Armed(d, repeat))
          /\ ~Due(Armed(d, repeat))
      BY <2>1, ArmedRun, ArmedAhead
    <2>. QED
      BY <1>0, <1>i, <2>1, <2>2
  <1>. QED
    BY <1>1, <1>2, <1>3, <1>4, <1>5, <1>6, <1>7 DEF EspCall

LEMMA EspCallList ==
  ASSUME ListOK, NEW h \in EspTimers, EspCall(h)
  PROVE  ListOK'
  BY EspCallRelinks, RelinkedList, EspCallTimers DEF ListOK

-----------------------------------------------------------------------------
(* The steps of the pass, and time.                                        *)

LEMMA AdoptFacts ==
  ASSUME TableOK, HistoryOK, Adopt
  PROVE  /\ TableOK'
         /\ \A t \in EtsTimers : RunsOf(slots', t) =
               {IF ~r.active /\ func[t] /\ expire[t].active THEN expire[t] ELSE r :
                  r \in RunsOf(slots, t)}
  <1>. DEFINE f == [i \in DOMAIN slots |->
                      IF ~slots[i].run.active /\ func[slots[i].ptimer]
                           /\ expire[slots[i].ptimer].active
                      THEN expire[slots[i].ptimer] ELSE slots[i].run]
  <1>1. Table(slots) /\ Len(slots) <= Slots
    BY DEF TableOK
  <1>2. \A i \in DOMAIN slots : /\ slots[i] \in Slot /\ slots[i].ptimer \in EtsTimers
                                /\ slots[i].run \in Runs
    BY <1>1, TableTypes
  <1>3. f \in [DOMAIN slots -> Runs]
    BY <1>2 DEF HistoryOK
  <1>4. slots' = WithRuns(slots, f)
    <2>1. \A i \in DOMAIN slots : [slots[i] EXCEPT !.run = slots[i].run] = slots[i]
      BY <1>2 DEF Slot
    <2>. QED
      BY <2>1 DEF Adopt, Used, WithRuns
  <1>5. \A i \in DOMAIN slots : \A t : slots[i].ptimer = t =>
           f[i] = IF ~slots[i].run.active /\ func[t] /\ expire[t].active
                  THEN expire[t] ELSE slots[i].run
    OBVIOUS
  <1>. HIDE DEF f
  <1>6. Table(slots') /\ Len(slots') <= Slots
    BY <1>1, <1>3, <1>4, WithRunsTable, WithRunsShape
  <1>7. \A t : RunsOf(slots', t) = {f[i] : i \in {j \in DOMAIN slots : slots[j].ptimer = t}}
    BY <1>1, <1>3, <1>4, WithRunsRuns
  <1>8. ASSUME NEW t \in EtsTimers
        PROVE  RunsOf(slots', t) =
               {IF ~r.active /\ func[t] /\ expire[t].active THEN expire[t] ELSE r :
                  r \in RunsOf(slots, t)}
    <2>1. \A i \in {j \in DOMAIN slots : slots[j].ptimer = t} :
             f[i] = IF ~slots[i].run.active /\ func[t] /\ expire[t].active
                    THEN expire[t] ELSE slots[i].run
      BY <1>5
    <2>2. RunsOf(slots', t) =
             {IF ~slots[i].run.active /\ func[t] /\ expire[t].active
              THEN expire[t] ELSE slots[i].run :
                i \in {j \in DOMAIN slots : slots[j].ptimer = t}}
      BY <1>7, <2>1
    <2>. QED
      BY <2>2 DEF RunsOf
  <1>9. \A t \in EtsTimers : \A q \in RunsOf(slots', t) : Positive(q)
    BY <1>8 DEF TableOK, HistoryOK
  <1>. QED
    BY <1>6, <1>8, <1>9 DEF TableOK

LEMMA TickTable ==
  ASSUME TableOK, Tick
  PROVE  /\ TableOK'
         /\ \A t : RunsOf(slots', t) = {Later(r) : r \in RunsOf(slots, t)}
  <1>. DEFINE f == [i \in DOMAIN slots |-> Later(slots[i].run)]
  <1>1. Table(slots) /\ Len(slots) <= Slots
    BY DEF TableOK
  <1>2. \A i \in DOMAIN slots : slots[i] \in Slot /\ slots[i].run \in Runs
    BY <1>1, TableTypes
  <1>3. f \in [DOMAIN slots -> Runs]
    BY <1>2, LaterRun
  <1>4. slots' = WithRuns(slots, f)
    BY DEF Tick, Used, WithRuns
  <1>5. \A i \in DOMAIN slots : f[i] = Later(slots[i].run)
    OBVIOUS
  <1>. HIDE DEF f
  <1>6. Table(slots') /\ Len(slots') <= Slots
    BY <1>1, <1>3, <1>4, WithRunsTable, WithRunsShape
  <1>7. \A t : RunsOf(slots', t) = {f[i] : i \in {j \in DOMAIN slots : slots[j].ptimer = t}}
    BY <1>1, <1>3, <1>4, WithRunsRuns
  <1>8. \A t : RunsOf(slots', t) = {Later(r) : r \in RunsOf(slots, t)}
    <2>. SUFFICES ASSUME NEW t
                  PROVE  RunsOf(slots', t) = {Later(r) : r \in RunsOf(slots, t)}
      OBVIOUS
    <2>1. \A q : q \in RunsOf(slots', t) <=>
             \E i \in DOMAIN slots : slots[i].ptimer = t /\ q = Later(slots[i].run)
      BY <1>5, <1>7
    <2>2. \A r : r \in RunsOf(slots, t) <=>
             \E i \in DOMAIN slots : slots[i].ptimer = t /\ slots[i].run = r
      BY InRunsOf
    <2>3. \A q : q \in {Later(r) : r \in RunsOf(slots, t)} <=>
             \E i \in DOMAIN slots : slots[i].ptimer = t /\ q = Later(slots[i].run)
      BY <2>2
    <2>. QED
      BY <2>1, <2>3
  <1>9. ASSUME NEW t \in EtsTimers, NEW q \in RunsOf(slots', t) PROVE Positive(q)
    <2>1. PICK r \in RunsOf(slots, t) : q = Later(r)
      BY <1>8
    <2>2. r \in Runs /\ Positive(r)
      BY <1>2, <2>1 DEF TableOK, RunsOf
    <2>. QED
      BY <2>1, <2>2, LaterRun
  <1>. QED
    BY <1>6, <1>8, <1>9 DEF TableOK

\* Every non-empty set of natural numbers has a least element.
LEMMA Least ==
  ASSUME NEW T \in SUBSET Nat, T # {}
  PROVE  \E i \in T : \A j \in T : i <= j
  <1>1. PICK i \in T : \A j \in T : ~ (<<j, i>> \in OpToRel(<, Nat))
    BY WFMin, NatLessThanWellFounded
  <1>2. \A j \in T : ~ (j < i)
    BY <1>1 DEF OpToRel
  <1>. QED
    BY <1>2

\* What a timer's run r becomes when it fires.
Fired(r) == IF r.periodic THEN [r EXCEPT !.left = r.interval] ELSE Idle

LEMMA FiredRun ==
  ASSUME NEW r \in Runs, Positive(r), Due(r)
  PROVE  /\ Fired(r) \in Runs /\ Positive(Fired(r)) /\ ~Due(Fired(r))
         /\ Mode(Fired(r)) = IF r.periodic THEN Mode(r) ELSE "off"
  <1>1. /\ r.active \in BOOLEAN /\ r.periodic \in BOOLEAN
        /\ r.interval \in Delays /\ r.left \in Delays
        /\ r = [active |-> r.active, periodic |-> r.periodic,
                interval |-> r.interval, left |-> r.left]
    BY DEF Runs
  <1>2. CASE r.periodic
    <2>1. Fired(r) = [active |-> r.active, periodic |-> r.periodic,
                      interval |-> r.interval, left |-> r.interval]
      BY <1>1, <1>2 DEF Fired
    <2>2. r.interval > 0 /\ r.active
      BY <1>2 DEF Positive, Due
    <2>. QED
      BY <1>1, <1>2, <2>1, <2>2, Bounds DEF Runs, Positive, Due, Mode
  <1>3. CASE ~r.periodic
    BY <1>3, IdleRun DEF Fired
  <1>. QED
    BY <1>2, <1>3

LEMMA EtsFireFacts ==
  ASSUME TableOK, EtsFire
  PROVE  \E t \in DueEts : \E r \in Runs :
            /\ RunsOf(slots, t) = {r} /\ Due(r) /\ Positive(r)
            /\ SetRun(t, Fired(r)) /\ timer' = t /\ Serve(t)
            /\ Ask(t, IF r.periodic THEN asked[t] ELSE "off")
  <1>. DEFINE D == {i \in Used : Due(slots[i].run)}
              First(i) == /\ Due(slots[i].run)
                          /\ \A j \in 1 .. i - 1 : ~Due(slots[j].run)
              k == CHOOSE i \in Used : First(i)
              t == slots[k].ptimer
              r == slots[k].run
  <1>1. Table(slots) /\ DOMAIN slots = 1 .. Len(slots) /\ Len(slots) \in Nat
    BY TableTypes DEF TableOK
  <1>2. D \in SUBSET Nat /\ D # {}
    <2>1. PICK t1 \in EtsTimers : \E i \in Index(t1) : Due(slots[i].run)
      BY DEF EtsFire, EtsDue
    <2>2. \E i \in Used : Due(slots[i].run)
      BY <2>1 DEF Index
    <2>3. Used \subseteq Nat
      BY <1>1 DEF Used
    <2>. QED
      BY <2>2, <2>3
  <1>3. \E i \in Used : First(i)
    <2>1. PICK i \in D : \A j \in D : i <= j
      BY <1>2, Least
    <2>2. \A j \in 1 .. i - 1 : j \in Used /\ ~(i <= j)
      BY <1>1, <2>1 DEF Used
    <2>. QED
      BY <2>1, <2>2
  <1>4. k \in Used /\ First(k)
    BY <1>3
  <1>5. /\ SetRun(t, IF r.periodic THEN [r EXCEPT !.left = r.interval] ELSE Idle)
        /\ Ask(t, IF r.periodic THEN asked[t] ELSE "off") /\ Serve(t) /\ timer' = t
    BY DEF EtsFire
  <1>. HIDE DEF k
  <1>6. t \in EtsTimers /\ r \in Runs /\ Due(r)
    BY <1>1, <1>4, TableTypes DEF Used
  <1>7. RunsOf(slots, t) = {r}
    BY <1>1, <1>4, OneRun DEF Used
  <1>8. t \in DueEts /\ Positive(r)
    BY <1>6, <1>7 DEF DueEts, TableOK
  <1>. QED
    BY <1>5, <1>6, <1>7, <1>8 DEF Fired

LEMMA EtsFireTable ==
  ASSUME TableOK, EtsFire
  PROVE  TableOK'
  <1>1. PICK t \in DueEts, r \in Runs :
            RunsOf(slots, t) = {r} /\ Due(r) /\ Positive(r) /\ SetRun(t, Fired(r))
    BY EtsFireFacts
  <1>2. t \in EtsTimers
    BY DEF DueEts
  <1>3. Fired(r) \in Runs /\ Positive(Fired(r))
    BY <1>1, FiredRun
  <1>. QED
    BY <1>1, <1>2, <1>3, SetRunFacts

\* What EspReturn makes of the timer it has called back.
Returned(r) == IF r.active /\ r.periodic THEN Armed(r.interval, TRUE) ELSE Idle

LEMMA ReturnedRun ==
  ASSUME NEW r \in Runs, Positive(r)
  PROVE  /\ Returned(r) \in Runs /\ Positive(Returned(r)) /\ ~Due(Returned(r))
         /\ Mode(Returned(r)) = IF r.active /\ r.periodic THEN "periodic" ELSE "off"
  <1>1. r.interval \in Delays
    BY DEF Runs
  <1>2. CASE r.active /\ r.periodic
    BY <1>1, <1>2, Bounds DEF Returned, Armed, Runs, Positive, Due, Mode, Kind
  <1>3. CASE ~(r.active /\ r.periodic)
    BY <1>3, IdleRun DEF Returned
  <1>. QED
    BY <1>2, <1>3

LEMMA EspReturnList ==
  ASSUME ListOK, EspReturn, timer \in live
  PROVE  /\ ListOK' /\ tm'[timer] = Returned(tm[timer])
         /\ \A g \in EspTimers : g # timer => tm'[g] = tm[g]
         /\ UNCHANGED <<list, live, inline>>
  <1>1. timer \in EspTimers /\ tm \in [EspTimers -> Runs] /\ ToSet(list) = live
    BY Members DEF ListOK
  <1>2. tm[timer] \in Runs /\ Positive(tm[timer])
    BY <1>1 DEF ListOK
  <1>3. tm' = [tm EXCEPT ![timer] = Returned(tm[timer])] /\ UNCHANGED <<list, live, inline>>
    BY <1>1 DEF EspReturn, Returned
  <1>4. Returned(tm[timer]) \in Runs /\ Positive(Returned(tm[timer]))
    BY <1>2, ReturnedRun
  <1>. HIDE DEF Returned
  <1>5. /\ tm' \in [EspTimers -> Runs] /\ tm'[timer] = Returned(tm[timer])
        /\ \A g \in EspTimers : Positive(tm'[g])
        /\ \A g \in EspTimers : g # timer => tm'[g] = tm[g]
    BY <1>1, <1>3, <1>4, SetTimer
  <1>. QED
    BY <1>3, <1>5 DEF ListOK

LEMMA TickList ==
  ASSUME ListOK, Tick
  PROVE  /\ ListOK' /\ UNCHANGED <<list, live, inline>>
         /\ \A g \in EspTimers : tm'[g] = Later(tm[g])
  <1>1. /\ tm' = [h \in EspTimers |-> Later(tm[h])] /\ UNCHANGED <<list, live, inline>>
    BY DEF Tick
  <1>2. \A h \in EspTimers : Later(tm[h]) \in Runs /\ Positive(Later(tm[h]))
    BY LaterRun DEF ListOK
  <1>. QED
    BY <1>1, <1>2 DEF ListOK

-----------------------------------------------------------------------------
(* Type correctness.                                                       *)

LEMMA ShapeTypes == Shape => TypeOK
  BY DEF Shape, TableOK, ListOK, PassOK, HistoryOK, TypeOK, Table, OneEach, Slot, Used

LEMMA ListLive == ListOK => live \subseteq EspTimers
  BY Members DEF ListOK

LEMMA ShapeInit == Init => Shape
  <1>. SUFFICES ASSUME Init PROVE Shape
    OBVIOUS
  <1>1. TableOK
    BY Bounds DEF Init, TableOK, Table, OneEach, RunsOf
  <1>2. ListOK
    <2>1. /\ list = <<>> /\ live = {} /\ inline = {} /\ tm = [h \in EspTimers |-> Idle]
      BY DEF Init
    <2>2. list \in Seq(EspTimers) /\ IsInjective(list) /\ ToSet(list) = {}
      BY <2>1 DEF IsInjective, ToSet
    <2>. QED
      BY <2>1, <2>2, IdleRun DEF ListOK
  <1>3. PassOK
    BY Bounds DEF Init, PassOK, Steps
  <1>4. HistoryOK
    BY IdleRun DEF Init, HistoryOK, Modes
  <1>. QED
    BY <1>1, <1>2, <1>3, <1>4 DEF Shape

LEMMA SameTable == TableOK /\ UNCHANGED slots => TableOK'
  BY DEF TableOK

LEMMA SameList == ListOK /\ UNCHANGED esp => ListOK'
  BY DEF ListOK, esp

\* A step of the pass that leaves the timers alone.
LEMMA PassCounters ==
  ASSUME TableOK, PassOK, ListOK, PassStep
  PROVE  PassOK'
  <1>. USE Bounds DEF PassOK, Steps
  <1>1. CASE BeginPass
    BY <1>1 DEF BeginPass, Goto
  <1>2. CASE Adopt
    BY <1>2 DEF Adopt, Goto
  <1>3. CASE EtsFire
    <2>1. timer' \in EtsTimers
      BY <1>3, EtsFireFacts DEF DueEts
    <2>. QED
      BY <1>3, <2>1 DEF EtsFire, Goto
  <1>4. CASE EtsReturn
    BY <1>4 DEF EtsReturn, Goto
  <1>5. CASE EtsRound
    BY <1>5 DEF EtsRound, NextRound, Goto
  <1>6. CASE Walk
    <2>1. timer' \in EspTimers \cup {None}
      BY <1>6, HeadFirst, ListLive DEF Walk, Reach, ListOK
    <2>. QED
      BY <1>6, <2>1 DEF Walk, Goto
  <1>7. CASE EspSkip
    <2>1. timer' \in EspTimers \cup {None}
      BY <1>7, SuccessorIn, ListLive DEF EspSkip, Reach, ListOK
    <2>. QED
      BY <1>7, <2>1 DEF EspSkip
  <1>8. CASE EspFire
    BY <1>8 DEF EspFire, Goto
  <1>9. CASE EspReturn
    <2>1. timer' \in EtsTimers \cup EspTimers \cup {None}
      BY <1>9, SuccessorIn, ListLive DEF EspReturn, Reach, ListOK
    <2>. QED
      BY <1>9, <2>1 DEF EspReturn, Goto
  <1>10. CASE EspRound
    BY <1>10 DEF EspRound, NextRound, Goto
  <1>. QED
    BY <1>1, <1>2, <1>3, <1>4, <1>5, <1>6, <1>7, <1>8, <1>9, <1>10 DEF PassStep

LEMMA PassTables ==
  ASSUME TableOK, ListOK, HistoryOK, PassStep
  PROVE  TableOK' /\ ListOK'
  <1>1. CASE Adopt
    <2>1. UNCHANGED esp
      BY <1>1 DEF Adopt
    <2>. QED
      BY <1>1, <2>1, AdoptFacts, SameList
  <1>2. CASE EtsFire
    <2>1. UNCHANGED esp
      BY <1>2 DEF EtsFire
    <2>. QED
      BY <1>2, <2>1, EtsFireTable, SameList
  <1>3. CASE EspReturn
    <2>1. UNCHANGED slots
      BY <1>3 DEF EspReturn, ets
    <2>2. CASE timer \in live
      BY <1>3, <2>1, <2>2, EspReturnList, SameTable
    <2>3. CASE timer \notin live
      <3>1. UNCHANGED esp
        BY <1>3, <2>3 DEF EspReturn, esp
      <3>. QED
        BY <2>1, <3>1, SameList, SameTable
    <2>. QED
      BY <2>2, <2>3
  <1>4. CASE UNCHANGED <<slots, esp>>
    BY <1>4, SameTable, SameList
  <1>. QED
    BY <1>1, <1>2, <1>3, <1>4
    DEF PassStep, BeginPass, EtsReturn, EtsRound, Walk, EspSkip, EspFire, EspRound, ets

LEMMA PassHistory ==
  ASSUME TableOK, ListOK, HistoryOK, PassStep
  PROVE  HistoryOK'
  <1>. USE DEF HistoryOK
  <1>1. CASE BeginPass
    <2>1. EtsDue \cup EspDue \subseteq EtsTimers \cup EspTimers
      BY ListLive DEF EtsDue, EspDue, ListOK
    <2>2. /\ UNCHANGED <<client, func, expire, wild, asked, refused, muddled, freedOwn>>
          /\ overdue' = EtsDue \cup EspDue /\ busy' = FALSE
      BY <1>1 DEF BeginPass, ets, history
    <2>3. crowded' \in BOOLEAN
      <3>1. crowded' = (Cardinality(EspDue) > Budget * DrainCap)
        BY <1>1 DEF BeginPass
      <3>. QED
        BY ONLY <3>1
    <2>. QED
      BY <2>1, <2>2, <2>3
  <1>2. CASE EtsFire
    <2>1. PICK t \in DueEts, r \in Runs :
             Serve(t) /\ Ask(t, IF r.periodic THEN asked[t] ELSE "off")
      BY <1>2, EtsFireFacts
    <2>2. t \in EtsTimers
      BY DEF DueEts
    <2>3. UNCHANGED <<client, func, expire, wild, refused, muddled, freedOwn, busy,
                      crowded>>
      BY <1>2 DEF EtsFire, excuse
    <2>4. asked' \in [EtsTimers \cup EspTimers -> Modes]
      <3>1. (IF r.periodic THEN asked[t] ELSE "off") \in Modes
        BY <2>2 DEF Modes
      <3>. QED
        BY <2>1, <2>2, <3>1 DEF Ask
    <2>5. overdue' \subseteq EtsTimers \cup EspTimers
      BY <2>1 DEF Serve
    <2>. QED
      BY <2>3, <2>4, <2>5
  <1>3. CASE EspFire
    <2>1. timer \in EspTimers
      BY <1>3, ListLive DEF EspFire
    <2>. QED
      BY <1>3, <2>1 DEF EspFire, ets, esp, Serve, Ask, Modes, excuse
  <1>4. CASE /\ UNCHANGED <<client, func, expire, asked, refused, muddled, freedOwn,
                            overdue, busy, crowded>>
             /\ wild' \in BOOLEAN
    BY <1>4
  <1>. QED
    BY <1>1, <1>2, <1>3, <1>4
    DEF PassStep, Adopt, EtsReturn, EtsRound, Walk, EspSkip, EspReturn, EspRound,
        Reach, ets, history, served, excuse

LEMMA TickFrame ==
  ASSUME Tick
  PROVE  /\ UNCHANGED <<client, func, expire, list, live, inline, at, round, fired,
                        timer, wild, asked, refused, muddled, freedOwn, overdue, crowded>>
         /\ BlobRuns /\ busy'
  BY DEF Tick, pass, history

LEMMA ShapeStep == Shape /\ [Next]_vars => Shape'
  <1>. SUFFICES ASSUME Shape, [Next]_vars PROVE Shape'
    OBVIOUS
  <1>. USE DEF Shape
  <1>1. ASSUME NEW t \in EtsTimers, EtsCall(t) PROVE Shape'
    <2>1. UNCHANGED <<list, live, tm, inline, at, round, fired, timer>>
      BY <1>1, EtsCallFrame
    <2>2. ListOK' /\ PassOK'
      BY <2>1 DEF ListOK, PassOK
    <2>. QED
      BY <1>1, <2>2, EtsCallTable, EtsCallHistory
  <1>2. ASSUME NEW h \in EspTimers, EspCall(h) PROVE Shape'
    <2>1. UNCHANGED <<slots, at, round, fired, timer>>
      BY <1>2, EspCallFrame
    <2>2. TableOK' /\ PassOK'
      BY <2>1 DEF TableOK, PassOK
    <2>. QED
      BY <1>2, <2>2, EspCallList, EspCallHistory
  <1>3. CASE Tick
    <2>1. PassOK' /\ HistoryOK'
      BY <1>3, TickFrame DEF PassOK, HistoryOK
    <2>. QED
      BY <1>3, <2>1, TickTable, TickList
  <1>4. CASE PassStep
    BY <1>4, PassTables, PassCounters, PassHistory
  <1>5. CASE UNCHANGED vars
    BY <1>5 DEF vars, ets, esp, pass, history, served, excuse,
                TableOK, ListOK, PassOK, HistoryOK
  <1>. QED
    BY <1>1, <1>2, <1>3, <1>4, <1>5 DEF Next

\* Every variable of the timer services keeps its type, the table never holds
\* more slots than it has nor a timer twice, and s_timer_list holds exactly the
\* timers created and not deleted, each once.
THEOREM TimersTypeCorrect == Spec => []TypeOK
  <1>1. Spec => []Shape
    BY ShapeInit, ShapeStep, PTL DEF Spec
  <1>. QED
    BY <1>1, ShapeTypes, PTL

-----------------------------------------------------------------------------
(* The walk over the list stays in it.                                     *)

LEMMA WalkInit == Init => WalkInv
  BY DEF Init, WalkInv

\* A call frees a timer in use only from that timer's own callback.
LEMMA EspCallUse ==
  ASSUME ListOK, HistoryOK, WalkInv, NEW h \in EspTimers, EspCall(h)
  PROVE  /\ wild' => freedOwn'
         /\ at = "espCall" => timer \in live' \/ freedOwn'
         /\ \A g \in inline' : g \in live' \/ freedOwn'
  <1>. DEFINE Goal == /\ wild' => freedOwn'
                      /\ at = "espCall" => timer \in live' \/ freedOwn'
                      /\ \A g \in inline' : g \in live' \/ freedOwn'
  <1>0. /\ ~wild /\ \A g \in inline : g \in live \/ freedOwn
        /\ at = "espCall" => timer \in live \/ freedOwn
    BY EspCallFrame DEF BlobRuns, WalkInv
  <1>1. CASE Delete(h)
    <2>1. live' = live \ {h} /\ freedOwn' = (freedOwn \/ InOwnCallback(h))
          /\ UNCHANGED <<inline, wild>>
      BY <1>1 DEF Delete
    <2>2. h \in inline => freedOwn'
      BY <2>1 DEF InOwnCallback
    <2>3. at = "espCall" /\ timer = h => freedOwn'
      BY <2>1 DEF InOwnCallback
    <2>. QED
      BY <1>0, <2>1, <2>2, <2>3
  <1>2. CASE InlineReturn(h)
    BY <1>0, <1>2 DEF InlineReturn, history
  <1>3. CASE StartNow(h)
    BY <1>0, <1>3 DEF StartNow
  <1>4. CASE Create(h)
    BY <1>0, <1>4 DEF Create
  <1>5. CASE UNCHANGED <<live, inline, wild, freedOwn>>
    BY <1>0, <1>5
  <1>. QED
    BY <1>1, <1>2, <1>3, <1>4, <1>5 DEF EspCall, Stop, Restart, Start

LEMMA WalkStep == Shape /\ WalkInv /\ [Next]_vars => WalkInv'
  <1>. SUFFICES ASSUME Shape, WalkInv, [Next]_vars PROVE WalkInv'
    OBVIOUS
  <1>. USE DEF Shape
  <1>l. live \subseteq EspTimers /\ ToSet(list) = live /\ list \in Seq(EspTimers)
    BY ListLive DEF ListOK
  <1>1. ASSUME NEW t \in EtsTimers, EtsCall(t) PROVE WalkInv'
    BY <1>1, EtsCallFrame DEF WalkInv
  <1>2. ASSUME NEW h \in EspTimers, EspCall(h) PROVE WalkInv'
    <2>1. at' = at /\ timer' = timer /\ at \in {"idle", "etsCall", "espCall"}
      BY <1>2, EspCallFrame DEF BlobRuns
    <2>. QED
      BY <1>2, <2>1, EspCallUse DEF WalkInv
  <1>3. CASE Tick
    BY <1>3, TickFrame DEF WalkInv
  <1>4. CASE PassStep
    <2>1. CASE BeginPass
      BY <2>1 DEF BeginPass, Goto, WalkInv, esp, history
    <2>2. CASE Adopt
      BY <2>2 DEF Adopt, Goto, WalkInv, esp, history
    <2>3. CASE EtsFire
      BY <2>3 DEF EtsFire, Goto, WalkInv, esp
    <2>4. CASE EtsReturn
      BY <2>4 DEF EtsReturn, Goto, WalkInv, esp, history
    <2>5. CASE EtsRound
      BY <2>5 DEF EtsRound, NextRound, Goto, WalkInv, esp, history
    <2>6. CASE Walk
      <3>1. timer' \in live \cup {None}
        BY <1>l, <2>6, HeadFirst DEF Walk, Reach
      <3>. QED
        BY <1>l, <2>6, <3>1 DEF Walk, Reach, Goto, WalkInv, esp, history
    <2>7. CASE EspSkip
      <3>1. timer' \in live \cup {None}
        BY <1>l, <2>7, SuccessorIn DEF EspSkip, Reach
      <3>. QED
        BY <1>l, <2>7, <3>1 DEF EspSkip, Reach, WalkInv, esp, history
    <2>8. CASE EspFire
      BY <1>l, <2>8 DEF EspFire, Goto, WalkInv, esp
    <2>9. CASE EspReturn
      <3>1. CASE timer \in live
        <4>1. timer' \in live \cup {None}
          BY <1>l, <2>9, <3>1, SuccessorIn DEF EspReturn, Reach
        <4>. QED
          BY <1>l, <2>9, <3>1, <4>1 DEF EspReturn, Reach, Goto, WalkInv, history
      <3>2. CASE timer \notin live
        <4>1. timer # None
          BY <2>9, Bounds DEF EspReturn, WalkInv
        <4>. QED
          BY <2>9, <3>2, <4>1 DEF EspReturn, Goto, WalkInv, history
      <3>. QED
        BY <3>1, <3>2
    <2>10. CASE EspRound
      BY <2>10 DEF EspRound, NextRound, Goto, WalkInv, esp, history
    <2>. QED
      BY <1>4, <2>1, <2>2, <2>3, <2>4, <2>5, <2>6, <2>7, <2>8, <2>9, <2>10 DEF PassStep
  <1>5. CASE UNCHANGED vars
    BY <1>5 DEF vars, esp, pass, history, WalkInv
  <1>. QED
    BY <1>1, <1>2, <1>3, <1>4, <1>5 DEF Next

\* espradio_esp_timer_poll_due follows `next` of a timer after its callback has
\* run: whatever callbacks create, stop and delete meanwhile, it reads a freed
\* timer only if one was deleted in its own callback.
THEOREM TimersWalkStaysInList == Spec => []WalkStaysInList
  <1>1. Shape /\ WalkInv /\ [Next]_vars => Shape' /\ WalkInv'
    BY ShapeStep, WalkStep
  <1>2. Spec => [](Shape /\ WalkInv)
    BY <1>1, ShapeInit, WalkInit, PTL DEF Spec
  <1>3. WalkInv => WalkStaysInList
    BY DEF WalkInv, WalkStaysInList
  <1>. QED
    BY <1>2, <1>3, PTL

-----------------------------------------------------------------------------
(* The table does what the calls about each ets timer ask.                 *)

LEMMA EtsInit == Init => EtsInv
  BY IdleRun DEF Init, EtsInv, EtsDoes, RunsOf

\* Nothing that EtsDoes speaks of has changed for t.
LEMMA EtsSame ==
  ASSUME NEW t, EtsDoes(t), RunsOf(slots', t) = RunsOf(slots, t),
         func'[t] = func[t], expire'[t] = expire[t], asked'[t] = asked[t]
  PROVE  EtsDoes(t)'
  BY DEF EtsDoes

\* A call leaves its own timer as it asks.
LEMMA EtsCallDoes ==
  ASSUME TableOK, HistoryOK, EtsInv, NEW t \in EtsTimers, EtsCall(t), t \notin refused'
  PROVE  EtsDoes(t)'
  <1>t. Table(slots)
    BY DEF TableOK
  <1>f. func \in [EtsTimers -> BOOLEAN] /\ expire \in [EtsTimers -> Runs]
        /\ asked \in [EtsTimers \cup EspTimers -> Modes]
    BY DEF HistoryOK
  <1>0. ASSUME NEW r \in Runs, Positive(r), SetRun(t, r), RunsOf(slots, t) # {},
               asked' = [asked EXCEPT ![t] = Mode(r)]
        PROVE  EtsDoes(t)'
    <2>1. RunsOf(slots', t) = {r}
      BY <1>0, SetRunFacts
    <2>2. asked'[t] = Mode(r)
      BY <1>0, <1>f
    <2>. QED
      BY <2>1, <2>2 DEF EtsDoes
  <1>k. t \notin refused /\ func[t] => RunsOf(slots, t) # {}
    BY DEF EtsInv, EtsDoes
  <1>1. CASE SetFn(t)
    <2>1. asked' = [asked EXCEPT ![t] = "off"]
      BY <1>1 DEF SetFn, Ask
    <2>2. CASE Index(t) # {} /\ SetRun(t, Idle)
      <3>1. RunsOf(slots, t) # {}
        BY <2>2, IndexView
      <3>. QED
        BY <1>0, <1>1, <2>1, <2>2, <3>1, IdleRun DEF SetFn
    <2>3. CASE Index(t) = {} /\ slots' = Append(slots, [ptimer |-> t, run |-> Idle])
      <3>. DEFINE s == [ptimer |-> t, run |-> Idle]
      <3>1. s \in Slot /\ s.ptimer = t /\ s.run = Idle
        BY IdleRun DEF Slot
      <3>2. RunsOf(slots, s.ptimer) = {} /\ slots' = Append(slots, s)
        BY <2>3, <3>1, IndexView
      <3>. HIDE DEF s
      <3>3. RunsOf(slots', t) = {Idle}
        BY <1>t, <3>1, <3>2, AppendedRuns
      <3>4. asked'[t] = "off"
        BY <1>f, <2>1
      <3>. QED
        BY <3>3, <3>4, IdleRun DEF EtsDoes
    <2>4. CASE refused' = refused \cup {t}
      BY <2>4
    <2>. QED
      BY <1>1, <2>2, <2>3, <2>4 DEF SetFn
  <1>2. CASE Disarm(t)
    <2>1. /\ SetRun(t, Idle) /\ asked' = [asked EXCEPT ![t] = "off"]
          /\ func' = func /\ refused' = refused
      BY <1>2 DEF Disarm, Ask
    <2>2. RunsOf(slots', t) = IF RunsOf(slots, t) = {} THEN {} ELSE {Idle}
      BY <2>1, SetRunFacts, IdleRun
    <2>3. asked'[t] = "off"
      BY <1>f, <2>1
    <2>. QED
      BY <1>k, <2>1, <2>2, <2>3, IdleRun DEF EtsDoes
  <1>3. CASE Done(t)
    <2>1. ~func'[t] /\ asked'[t] = "off"
      BY <1>3, <1>f DEF Done, Ask
    <2>2. RunsOf(slots', t) = {}
      BY <1>3, DoneFacts
    <2>. QED
      BY <2>1, <2>2 DEF EtsDoes
  <1>4. ASSUME NEW repeat \in BOOLEAN, ArmNow(t, repeat) PROVE EtsDoes(t)'
    <2>0. func[t] /\ func' = func /\ refused' = refused
      BY <1>4 DEF ArmNow
    <2>1. RunsOf(slots, t) # {}
      BY <1>k, <2>0
    <2>2. CASE repeat
      <3>1. SetRun(t, Armed(1, TRUE)) /\ asked' = [asked EXCEPT ![t] = "periodic"]
        BY <1>4, <2>2 DEF ArmNow, Ask
      <3>2. /\ Armed(1, TRUE) \in Runs /\ Positive(Armed(1, TRUE))
            /\ Mode(Armed(1, TRUE)) = "periodic"
        BY Bounds DEF Armed, Runs, Positive, Mode, Kind
      <3>. QED
        BY <1>0, <2>0, <2>1, <3>1, <3>2
    <2>3. CASE ~repeat
      <3>1. SetRun(t, Idle) /\ asked' = [asked EXCEPT ![t] = "off"]
        BY <1>4, <2>3 DEF ArmNow, Ask
      <3>. QED
        BY <1>0, <2>0, <2>1, <3>1, IdleRun
    <2>. QED
      BY <2>2, <2>3
  <1>5. ASSUME NEW repeat \in BOOLEAN, NEW d \in Delays, Arm(t, d, repeat)
        PROVE  EtsDoes(t)'
    <2>0. /\ func[t] /\ func' = func /\ refused' = refused /\ d > 0
          /\ SetRun(t, Armed(d, repeat)) /\ asked' = [asked EXCEPT ![t] = Kind(repeat)]
      BY <1>5 DEF Arm, Ask
    <2>1. RunsOf(slots, t) # {}
      BY <1>k, <2>0
    <2>2. /\ Armed(d, repeat) \in Runs /\ Positive(Armed(d, repeat))
          /\ Mode(Armed(d, repeat)) = Kind(repeat)
      BY <2>0, ArmedRun, ArmedAhead
    <2>. QED
      BY <1>0, <2>0, <2>1, <2>2
  <1>6. ASSUME NEW repeat \in BOOLEAN, NEW d \in Delays,
               BlobWritesExpire(t, d, repeat)
        PROVE  EtsDoes(t)'
    <2>1. /\ func' = func /\ func[t] /\ slots' = slots /\ refused' = refused
          /\ expire' = [expire EXCEPT ![t] = Armed(d, repeat)]
      BY <1>6 DEF BlobWritesExpire, history
    <2>2. expire'[t].active
      BY <1>f, <2>1, ArmedRun
    <2>. QED
      BY <1>k, <2>1, <2>2 DEF EtsDoes
  <1>. QED
    BY <1>1, <1>2, <1>3, <1>4, <1>5, <1>6 DEF EtsCall

LEMMA EtsStep == Shape /\ EtsInv /\ [Next]_vars => EtsInv'
  <1>. SUFFICES ASSUME Shape, EtsInv, [Next]_vars PROVE EtsInv'
    OBVIOUS
  <1>. USE DEF Shape
  <1>r. \A u \in EtsTimers : \A r \in RunsOf(slots, u) : r \in Runs /\ Positive(r)
    BY TableTypes DEF TableOK, RunsOf
  <1>d. \A u \in EtsTimers \ refused : EtsDoes(u)
    BY DEF EtsInv
  <1>1. ASSUME NEW t \in EtsTimers, EtsCall(t) PROVE EtsInv'
    <2>. SUFFICES ASSUME NEW u \in EtsTimers, u \notin refused' PROVE EtsDoes(u)'
      BY DEF EtsInv
    <2>1. CASE u = t
      BY <1>1, <2>1, EtsCallDoes
    <2>2. CASE u # t
      BY <1>1, <1>d, <2>2, EtsCallTable, EtsCallHistory, EtsSame
    <2>. QED
      BY <2>1, <2>2
  <1>2. ASSUME NEW h \in EspTimers, EspCall(h) PROVE EtsInv'
    <2>1. UNCHANGED <<slots, func, expire, refused>>
      BY <1>2, EspCallFrame
    <2>2. \A u \in EtsTimers : asked'[u] = asked[u]
      BY <1>2, EspCallHistory, Bounds
    <2>. QED
      BY <1>d, <2>1, <2>2, EtsSame DEF EtsInv
  <1>3. CASE Tick
    <2>. SUFFICES ASSUME NEW u \in EtsTimers, u \notin refused PROVE EtsDoes(u)'
      BY <1>3, TickFrame DEF EtsInv
    <2>1. RunsOf(slots', u) = {Later(r) : r \in RunsOf(slots, u)}
      BY <1>3, TickTable
    <2>2. \A r \in RunsOf(slots, u) : Mode(Later(r)) = Mode(r)
      BY <1>r, LaterRun
    <2>3. EtsDoes(u) /\ UNCHANGED <<func, expire, asked>>
      BY <1>3, <1>d, TickFrame
    <2>. QED
      BY <2>1, <2>2, <2>3 DEF EtsDoes
  <1>4. CASE Adopt
    <2>. SUFFICES ASSUME NEW u \in EtsTimers, u \notin refused PROVE EtsDoes(u)'
      BY <1>4 DEF EtsInv, Adopt, history
    <2>1. RunsOf(slots', u) =
             {IF ~r.active /\ func[u] /\ expire[u].active THEN expire[u] ELSE r :
                r \in RunsOf(slots, u)}
      BY <1>4, AdoptFacts
    <2>2. EtsDoes(u) /\ UNCHANGED <<func, expire, asked>>
      BY <1>4, <1>d DEF Adopt, history
    <2>3. CASE expire[u].active
      BY <2>1, <2>2, <2>3 DEF EtsDoes
    <2>4. CASE ~expire[u].active
      <3>1. RunsOf(slots', u) = RunsOf(slots, u)
        BY <2>1, <2>4
      <3>. QED
        BY <2>2, <3>1 DEF EtsDoes
    <2>. QED
      BY <2>3, <2>4
  <1>5. CASE EtsFire
    <2>. SUFFICES ASSUME NEW u \in EtsTimers, u \notin refused PROVE EtsDoes(u)'
      BY <1>5 DEF EtsInv, EtsFire
    <2>1. PICK t \in DueEts, r \in Runs :
             /\ RunsOf(slots, t) = {r} /\ Due(r) /\ Positive(r)
             /\ SetRun(t, Fired(r))
             /\ Ask(t, IF r.periodic THEN asked[t] ELSE "off")
      BY <1>5, EtsFireFacts
    <2>2. t \in EtsTimers
      BY DEF DueEts
    <2>3. /\ Fired(r) \in Runs /\ Positive(Fired(r))
          /\ Mode(Fired(r)) = IF r.periodic THEN Mode(r) ELSE "off"
      BY <2>1, FiredRun
    <2>4. /\ RunsOf(slots', t) = {Fired(r)}
          /\ \A v : v # t => RunsOf(slots', v) = RunsOf(slots, v)
      BY <2>1, <2>2, <2>3, SetRunFacts
    <2>5. EtsDoes(u) /\ UNCHANGED <<func, expire>>
      BY <1>5, <1>d DEF EtsFire
    <2>6. asked' = [asked EXCEPT ![t] = IF r.periodic THEN asked[t] ELSE "off"]
      BY <2>1 DEF Ask
    <2>7. asked \in [EtsTimers \cup EspTimers -> Modes]
      BY DEF HistoryOK
    <2>8. CASE u # t
      <3>1. asked'[u] = asked[u]
        BY <2>6, <2>7, <2>8
      <3>. QED
        BY <2>4, <2>5, <2>8, <3>1, EtsSame
    <2>9. CASE u = t /\ ~expire[t].active
      <3>1. Mode(r) = asked[t]
        BY <2>1, <2>5, <2>9 DEF EtsDoes
      <3>2. asked'[t] = Mode(Fired(r))
        BY <2>2, <2>3, <2>6, <2>7, <3>1
      <3>. QED
        BY <2>4, <2>9, <3>2 DEF EtsDoes
    <2>10. CASE u = t /\ expire[t].active
      BY <2>4, <2>5, <2>10 DEF EtsDoes
    <2>. QED
      BY <2>8, <2>9, <2>10
  <1>6. CASE EspFire
    <2>1. timer \in EspTimers /\ UNCHANGED <<slots, func, expire, refused>>
      BY <1>6, ListLive DEF EspFire, ets
    <2>2. asked' = [asked EXCEPT ![timer] =
                      IF tm[timer].periodic THEN asked[timer] ELSE "off"]
      BY <1>6 DEF EspFire, Ask
    <2>3. \A u \in EtsTimers : asked'[u] = asked[u]
      BY <2>1, <2>2, Bounds DEF HistoryOK
    <2>. QED
      BY <1>d, <2>1, <2>3, EtsSame DEF EtsInv
  <1>7. CASE UNCHANGED <<slots, func, expire, asked, refused>>
    BY <1>7, <1>d, EtsSame DEF EtsInv
  <1>. QED
    BY <1>1, <1>2, <1>3, <1>4, <1>5, <1>6, <1>7
    DEF Next, PassStep, BeginPass, EtsReturn, EtsRound, Walk, EspSkip, EspReturn,
        EspRound, vars, ets, history

LEMMA EtsInvKept == EtsInv => EtsKept
  <1>. SUFFICES ASSUME EtsInv, NEW t \in EtsTimers \ refused, ~expire[t].active
                PROVE  IF Index(t) = {} THEN asked[t] = "off"
                       ELSE \A i \in Index(t) : Mode(slots[i].run) = asked[t]
    BY DEF EtsKept
  <1>1. IF RunsOf(slots, t) = {} THEN asked[t] = "off"
        ELSE \A r \in RunsOf(slots, t) : Mode(r) = asked[t]
    BY DEF EtsInv, EtsDoes
  <1>2. \A i \in Index(t) : slots[i].run \in RunsOf(slots, t)
    BY DEF Index, Used, RunsOf
  <1>. QED
    BY <1>1, <1>2, IndexView

-----------------------------------------------------------------------------
(* The esp_timers do what the calls about them ask.                        *)

LEMMA EspInit == Init => EspInv
  BY DEF Init, EspInv

LEMMA EspSame ==
  ASSUME NEW g, EspDoes(g), tm'[g] = tm[g], asked'[g] = asked[g],
         g \in inline' <=> g \in inline, Called(g)' <=> Called(g)
  PROVE  EspDoes(g)'
  BY DEF EspDoes

LEMMA EspCallDoes ==
  ASSUME ListOK, HistoryOK, EspInv, NEW h \in EspTimers, EspCall(h),
         h \in live', h \notin muddled'
  PROVE  EspDoes(h)'
  <1>a. asked \in [EtsTimers \cup EspTimers -> Modes] /\ tm \in [EspTimers -> Runs]
        /\ h \in EtsTimers \cup EspTimers /\ muddled \subseteq EspTimers
    BY DEF ListOK, HistoryOK
  <1>c. Called(h)' <=> Called(h)
    BY EspCallFrame DEF Called
  \* A timer that nothing arms, asked for nothing.
  <1>0. ASSUME NEW r, tm'[h] = r, asked'[h] = "off", ~r.active
        PROVE  EspDoes(h)'
    BY <1>0 DEF EspDoes, Mode
  <1>1. CASE Create(h)
    <2>1. tm'[h] = Idle /\ asked'[h] = "off"
      BY <1>1, <1>a DEF Create, Ask
    <2>. QED
      BY <1>0, <2>1, IdleRun
  <1>2. CASE StartNow(h)
    <2>1. h \in inline' /\ asked'[h] = "off"
      BY <1>2, <1>a DEF StartNow, Ask
    <2>. QED
      BY <2>1 DEF EspDoes
  <1>3. CASE InlineReturn(h)
    <2>1. /\ h \in live /\ h \notin muddled /\ h \in inline /\ asked' = asked
          /\ tm'[h] = Idle
      BY <1>3, <1>a DEF InlineReturn, history
    <2>2. asked[h] = "off"
      BY <2>1 DEF EspInv, EspDoes
    <2>. QED
      BY <1>0, <2>1, <2>2, IdleRun
  <1>4. CASE Stop(h)
    <2>1. /\ tm'[h] = [Idle EXCEPT !.periodic = tm[h].periodic]
          /\ asked'[h] = "off"
      BY <1>4, <1>a DEF Stop, Ask
    <2>2. ~tm'[h].active
      BY <2>1 DEF Idle
    <2>. QED
      BY <1>0, <2>1, <2>2
  <1>5. CASE Delete(h)
    BY <1>5 DEF Delete
  <1>6. ASSUME NEW d \in Delays, Restart(h, d) PROVE EspDoes(h)'
    <2>1. /\ tm'[h] = Armed(d, FALSE) /\ tm[h].active /\ h \in live
          /\ asked'[h] = IF asked[h] = "off" THEN "once" ELSE asked[h]
          /\ inline' = inline
          /\ muddled' = IF WillClear(h, FALSE) \/ asked[h] = "periodic"
                          THEN muddled \cup {h} ELSE muddled \ {h}
      BY <1>6, <1>a DEF Restart, Ask
    <2>2. ~WillClear(h, FALSE) /\ asked[h] # "periodic"
      BY <2>1
    <2>3. h \notin inline /\ ~Called(h)
      BY <2>2 DEF WillClear, Called
    <2>4. asked[h] \in Modes
      BY <1>a
    <2>5. asked'[h] = "once"
      BY <2>1, <2>2, <2>4 DEF Modes
    <2>6. Mode(tm'[h]) = "once"
      BY <2>1, ArmedOnce
    <2>. QED
      BY <1>c, <2>1, <2>3, <2>5, <2>6 DEF EspDoes
  <1>7. ASSUME NEW d \in Delays, NEW repeat \in BOOLEAN, Start(h, d, repeat)
        PROVE  EspDoes(h)'
    <2>1. /\ tm'[h] = Armed(d, repeat) /\ d > 0 /\ inline' = inline
          /\ asked'[h] = Kind(repeat)
          /\ muddled' = IF WillClear(h, repeat) THEN muddled \cup {h}
                                              ELSE muddled \ {h}
      BY <1>7, <1>a DEF Start, Ask
    <2>2. ~WillClear(h, repeat)
      BY <2>1
    <2>3. h \notin inline /\ (Called(h) => repeat)
      BY <2>2 DEF WillClear, Called
    <2>4. Mode(tm'[h]) = asked'[h]
      BY <2>1, ArmedAhead
    <2>5. repeat => tm'[h].active /\ tm'[h].periodic /\ asked'[h] = "periodic"
      <3>1. tm'[h] = [active |-> TRUE, periodic |-> repeat, interval |-> d, left |-> d]
        BY <2>1 DEF Armed
      <3>2. ASSUME repeat
            PROVE  tm'[h].active /\ tm'[h].periodic /\ asked'[h] = "periodic"
        BY <2>1, <3>1, <3>2 DEF Kind
      <3>. QED
        BY <3>2
    <2>. QED
      BY <1>c, <2>1, <2>3, <2>4, <2>5 DEF EspDoes
  <1>. QED
    BY <1>1, <1>2, <1>3, <1>4, <1>5, <1>6, <1>7 DEF EspCall

LEMMA EspStep == Shape /\ EspInv /\ [Next]_vars => EspInv'
  <1>. SUFFICES ASSUME Shape, EspInv, [Next]_vars PROVE EspInv'
    OBVIOUS
  <1>. USE DEF Shape
  <1>l. /\ live \subseteq EspTimers /\ \A g \in EspTimers : tm[g] \in Runs /\ Positive(tm[g])
    BY ListLive DEF ListOK
  <1>d. \A g \in live \ muddled : EspDoes(g)
    BY DEF EspInv
  <1>a. asked \in [EtsTimers \cup EspTimers -> Modes]
    BY DEF HistoryOK
  <1>1. ASSUME NEW t \in EtsTimers, EtsCall(t) PROVE EspInv'
    <2>1. UNCHANGED <<live, tm, inline, at, timer, muddled>>
      BY <1>1, EtsCallFrame
    <2>2. \A g \in EspTimers : asked'[g] = asked[g]
      BY <1>1, EtsCallHistory, Bounds
    <2>3. \A g : Called(g)' <=> Called(g)
      BY <2>1 DEF Called
    <2>. QED
      BY <1>l, <1>d, <2>1, <2>2, <2>3, EspSame DEF EspInv
  <1>2. ASSUME NEW h \in EspTimers, EspCall(h) PROVE EspInv'
    <2>. SUFFICES ASSUME NEW g \in live', g \notin muddled' PROVE EspDoes(g)'
      BY DEF EspInv
    <2>0. g \in EspTimers /\ \A u : u # h => (u \in live' <=> u \in live)
      BY <1>2, <1>l, EspCallRelinks, RelinkedList, Members
    <2>1. CASE g = h
      BY <1>2, <2>1, EspCallDoes
    <2>2. CASE g # h
      <3>1. /\ tm'[g] = tm[g] /\ (g \in inline' <=> g \in inline)
            /\ asked'[g] = asked[g] /\ g \in live \ muddled
        BY <1>2, <2>0, <2>2, EspCallTimers, EspCallHistory
      <3>2. Called(g)' <=> Called(g)
        BY <1>2, EspCallFrame DEF Called
      <3>. QED
        BY <1>d, <3>1, <3>2, EspSame
    <2>. QED
      BY <2>1, <2>2
  <1>3. CASE Tick
    <2>. SUFFICES ASSUME NEW g \in live \ muddled PROVE EspDoes(g)'
      BY <1>3, TickFrame DEF EspInv
    <2>1. tm'[g] = Later(tm[g])
      BY <1>3, <1>l, TickList
    <2>2. /\ Mode(Later(tm[g])) = Mode(tm[g]) /\ Later(tm[g]).active = tm[g].active
          /\ Later(tm[g]).periodic = tm[g].periodic
      BY <1>l, LaterRun
    <2>3. EspDoes(g) /\ UNCHANGED <<inline, at, timer, asked>>
      BY <1>3, <1>d, TickFrame
    <2>4. Called(g)' <=> Called(g)
      BY <2>3 DEF Called
    <2>. QED
      BY <2>1, <2>2, <2>3, <2>4 DEF EspDoes
  <1>4. CASE EtsFire
    <2>1. PICK t \in DueEts, r \in Runs :
             Ask(t, IF r.periodic THEN asked[t] ELSE "off")
      BY <1>4, EtsFireFacts
    <2>2. t \in EtsTimers
      BY DEF DueEts
    <2>3. \A g \in EspTimers : asked'[g] = asked[g]
      BY <1>a, <2>1, <2>2, Bounds DEF Ask
    <2>4. UNCHANGED <<live, tm, inline, muddled>> /\ \A g : ~Called(g) /\ ~Called(g)'
      BY <1>4 DEF EtsFire, esp, Goto, Called
    <2>. QED
      BY <1>l, <1>d, <2>3, <2>4, EspSame DEF EspInv
  <1>5. CASE EspFire
    <2>1. /\ UNCHANGED <<live, tm, inline, muddled>> /\ timer \in EspTimers
          /\ at' = "espCall" /\ timer' = timer /\ at = "espWalk" /\ Due(tm[timer])
      BY <1>5, <1>l DEF EspFire, esp, Goto
    <2>2. asked' = [asked EXCEPT ![timer] =
                      IF tm[timer].periodic THEN asked[timer] ELSE "off"]
      BY <1>5 DEF EspFire, Ask
    <2>. SUFFICES ASSUME NEW g \in live \ muddled PROVE EspDoes(g)'
      BY <2>1 DEF EspInv
    <2>3. EspDoes(g) /\ ~Called(g) /\ g \in EspTimers
      BY <1>l, <1>d, <2>1 DEF Called
    <2>4. CASE g # timer
      <3>1. asked'[g] = asked[g] /\ ~Called(g)'
        BY <1>a, <2>1, <2>2, <2>3, <2>4 DEF Called
      <3>. QED
        BY <2>1, <2>3, <3>1, EspSame
    <2>5. CASE g = timer
      <3>1. asked'[g] = IF tm[g].periodic THEN asked[g] ELSE "off"
        BY <1>a, <2>1, <2>2, <2>3, <2>5
      <3>2. tm[g].active /\ Called(g)'
        BY <2>1, <2>5 DEF Due, Called
      <3>3. g \notin inline => Mode(tm[g]) = asked[g]
        BY <2>3 DEF EspDoes
      <3>4. g \in inline => asked[g] = "off"
        BY <2>3 DEF EspDoes
      <3>5. CASE g \in inline
        BY <2>1, <3>1, <3>4, <3>5 DEF EspDoes
      <3>6. CASE g \notin inline
        <4>1. tm[g].periodic => asked[g] = "periodic"
          BY <3>2, <3>3, <3>6 DEF Mode, Kind
        <4>2. asked'[g] = IF tm'[g].active /\ tm'[g].periodic THEN "periodic" ELSE "off"
          BY <2>1, <3>1, <3>2, <4>1
        <4>. QED
          BY <2>1, <3>2, <3>6, <4>2 DEF EspDoes
      <3>. QED
        BY <3>5, <3>6
    <2>. QED
      BY <2>4, <2>5
  <1>6. CASE EspReturn
    <2>1. /\ UNCHANGED <<live, inline, asked, muddled>> /\ \A g : ~Called(g)'
          /\ at = "espCall"
      BY <1>6 DEF EspReturn, history, Goto, Called
    <2>. SUFFICES ASSUME NEW g \in live \ muddled PROVE EspDoes(g)'
      BY <2>1 DEF EspInv
    <2>2. CASE g # timer
      <3>1. tm'[g] = tm[g]
        <4>1. CASE timer \in live
          BY <1>6, <1>l, <2>2, <4>1, EspReturnList
        <4>2. CASE timer \notin live
          BY <1>6, <4>2 DEF EspReturn
        <4>. QED
          BY <4>1, <4>2
      <3>2. ~Called(g)
        BY <2>2 DEF Called
      <3>. QED
        BY <1>d, <2>1, <3>1, <3>2, EspSame
    <2>3. CASE g = timer
      <3>1. tm'[g] = Returned(tm[g])
        BY <1>6, <2>3, EspReturnList
      <3>2. Mode(tm'[g]) = IF tm[g].active /\ tm[g].periodic THEN "periodic" ELSE "off"
        BY <1>l, <3>1, ReturnedRun
      <3>3. Called(g) /\ EspDoes(g)
        BY <1>d, <2>1, <2>3 DEF Called
      <3>. QED
        BY <2>1, <3>2, <3>3 DEF EspDoes
    <2>. QED
      BY <2>2, <2>3
  <1>7. CASE /\ UNCHANGED <<live, tm, inline, asked, muddled>>
             /\ \A g : Called(g)' <=> Called(g)
    BY <1>7, <1>d, EspSame DEF EspInv
  <1>8. CASE BeginPass \/ Adopt \/ EtsReturn \/ EtsRound \/ Walk \/ EspSkip \/ EspRound
    <2>1. UNCHANGED <<live, tm, inline, asked, muddled>>
      BY <1>8 DEF BeginPass, Adopt, EtsReturn, EtsRound, Walk, EspSkip, EspRound, esp, history
    <2>2. at # "espCall" /\ at' # "espCall"
      BY <1>8 DEF BeginPass, Adopt, EtsReturn, EtsRound, Walk, EspSkip, EspRound,
                  NextRound, Goto
    <2>. QED
      BY <1>7, <2>1, <2>2 DEF Called
  <1>9. CASE UNCHANGED vars
    BY <1>7, <1>9 DEF vars, esp, pass, history, Called
  <1>. QED
    BY <1>1, <1>2, <1>3, <1>4, <1>5, <1>6, <1>8, <1>9 DEF Next, PassStep

LEMMA EspInvKept == EspInv => EspKept
  BY DEF EspInv, EspDoes, EspKept, InOwnCallback, Called

\* Each ets timer with a slot, and each esp_timer outside its callback, fires
\* once, again and again or not at all just as the last call about it asked,
\* whatever callbacks do to other timers while a poll is under way.
THEOREM TimersDoWhatIsAsked == Spec => []TimersKept
  <1>1. Shape /\ EtsInv /\ EspInv /\ [Next]_vars => Shape' /\ EtsInv' /\ EspInv'
    BY ShapeStep, EtsStep, EspStep
  <1>2. Spec => [](Shape /\ EtsInv /\ EspInv)
    BY <1>1, ShapeInit, EtsInit, EspInit, PTL DEF Spec
  <1>3. EtsInv /\ EspInv => TimersKept
    BY EtsInvKept, EspInvKept DEF TimersKept
  <1>. QED
    BY <1>2, <1>3, PTL

-----------------------------------------------------------------------------
(* No timer is called back that was not armed.                             *)

LEMMA StrayByEts ==
  ASSUME Shape, EtsInv, EtsFire, NEW t, timer' = t
  PROVE  t \in EtsTimers /\ (asked[t] # "off" \/ Excused(t))
  <1>1. PICK u \in DueEts, r \in Runs :
           RunsOf(slots, u) = {r} /\ Due(r) /\ timer' = u
    BY EtsFireFacts DEF Shape
  <1>2. t = u /\ u \in EtsTimers
    BY <1>1 DEF DueEts
  <1>3. ASSUME u \notin refused, ~expire[u].active PROVE asked[u] # "off"
    <2>1. Mode(r) = asked[u]
      BY <1>1, <1>2, <1>3 DEF EtsInv, EtsDoes
    <2>. QED
      BY <1>1, <2>1 DEF Mode, Kind, Due
  <1>. QED
    BY <1>2, <1>3 DEF Excused

LEMMA StrayByEsp ==
  ASSUME Shape, EspInv, EspFire, NEW t, timer' = t
  PROVE  t \in EspTimers /\ (asked[t] # "off" \/ Excused(t))
  <1>1. at = "espWalk" /\ t = timer /\ t \in live /\ Due(tm[t])
    BY DEF EspFire
  <1>2. t \in EspTimers \ EtsTimers
    BY <1>1, ListLive, Bounds DEF Shape
  <1>3. ASSUME t \notin muddled, t \notin inline PROVE asked[t] # "off"
    <2>1. Mode(tm[t]) = asked[t]
      BY <1>1, <1>3 DEF EspInv, EspDoes, Called
    <2>. QED
      BY <1>1, <2>1 DEF Mode, Kind, Due
  <1>. QED
    BY <1>2, <1>3 DEF Excused

LEMMA StrayStep ==
  ASSUME Shape, EtsInv, EspInv, [Next]_vars, NEW t, Calling(t)
  PROVE  asked[t] # "off" \/ Excused(t)
  <1>1. CASE EtsFire
    BY <1>1, StrayByEts DEF Calling
  <1>2. CASE EspFire
    BY <1>2, StrayByEsp DEF Calling
  <1>3. CASE PassStep /\ ~EtsFire /\ ~EspFire
    BY <1>3 DEF Calling, PassStep, BeginPass, Adopt, EtsReturn, EtsRound, Walk, EspSkip,
                EspReturn, EspRound, NextRound, Goto
  <1>4. CASE Tick \/ (\E u \in EtsTimers : EtsCall(u)) \/ (\E h \in EspTimers : EspCall(h))
    <2>1. at' = at
      BY <1>4, EtsCallFrame, EspCallFrame DEF Tick, pass
    <2>. QED
      BY <2>1 DEF Calling
  <1>5. CASE UNCHANGED vars
    BY <1>5 DEF Calling, vars, pass
  <1>. QED
    BY <1>1, <1>2, <1>3, <1>4, <1>5 DEF Next

\* espradio_timer_poll_due and espradio_esp_timer_poll_due call no timer back
\* that was disarmed, stopped or done with, nor a one-shot a second time.
THEOREM TimersNoStray == Spec => NoStrayCallback
  <1>1. Shape /\ EtsInv /\ EspInv /\ [Next]_vars => Shape' /\ EtsInv' /\ EspInv'
    BY ShapeStep, EtsStep, EspStep
  <1>2. Spec => [](Shape /\ EtsInv /\ EspInv)
    BY <1>1, ShapeInit, EtsInit, EspInit, PTL DEF Spec
  <1>3. Shape /\ EtsInv /\ EspInv /\ [Next]_vars =>
          [\A t \in EtsTimers \cup EspTimers :
             Calling(t) => asked[t] # "off" \/ Excused(t)]_vars
    BY StrayStep
  <1>. QED
    BY <1>2, <1>3, PTL DEF Spec, NoStrayCallback

-----------------------------------------------------------------------------
(* Room for the timers that are due: sets and counts.                      *)

LEMMA RoomShrinks ==
  ASSUME NEW S, NEW n \in Nat, NEW limit \in Nat, Room(S, n, limit), NEW T \in SUBSET S
  PROVE  Room(T, n, limit)
  <1>1. CASE S = {}
    BY <1>1 DEF Room
  <1>2. CASE IsFiniteSet(S) /\ Cardinality(S) + n <= limit
    <2>1. IsFiniteSet(T) /\ Cardinality(T) <= Cardinality(S)
      BY <1>2, FS_Subset
    <2>2. Cardinality(T) \in Nat /\ Cardinality(S) \in Nat
      BY <1>2, <2>1, FS_CardinalityType
    <2>3. Cardinality(T) + n <= limit
      BY <1>2, <2>1, <2>2
    <2>. QED
      BY <2>1, <2>3 DEF Room
  <1>. QED
    BY <1>1, <1>2 DEF Room

\* One timer less, one callback more.
LEMMA RoomForOne ==
  ASSUME NEW S, NEW n \in Nat, NEW limit \in Nat, Room(S, n, limit), NEW x \in S
  PROVE  Room(S \ {x}, n + 1, limit)
  <1>1. IsFiniteSet(S) /\ Cardinality(S) + n <= limit
    BY DEF Room
  <1>2. IsFiniteSet(S \ {x}) /\ Cardinality(S \ {x}) = Cardinality(S) - 1
    BY <1>1, FS_RemoveElement
  <1>3. Cardinality(S) \in Nat
    BY <1>1, FS_CardinalityType
  <1>4. Cardinality(S \ {x}) + (n + 1) <= limit
    BY <1>1, <1>2, <1>3
  <1>. QED
    BY <1>2, <1>4 DEF Room

LEMMA RoomUsedUp ==
  ASSUME NEW S, NEW n \in Nat, NEW limit \in Nat, Room(S, n, limit), limit <= n
  PROVE  S = {}
  <1>1. CASE IsFiniteSet(S) /\ Cardinality(S) + n <= limit
    <2>1. Cardinality(S) \in Nat
      BY <1>1, FS_CardinalityType
    <2>2. Cardinality(S) = 0
      BY <1>1, <2>1
    <2>. QED
      BY <1>1, <2>2, FS_EmptySet
  <1>. QED
    BY <1>1 DEF Room

LEMMA Product ==
  ASSUME NEW m \in Nat, NEW n \in Nat
  PROVE  m * n \in Nat /\ (m + 1) * n = m * n + n /\ m * n = n * m
  OBVIOUS

LEMMA CallsTypes ==
  PassOK => /\ Calls \in Nat /\ round * Budget \in Nat /\ Budget * DrainCap \in Nat
            /\ round \in Nat /\ fired \in Nat /\ Budget \in Nat /\ Slots \in Nat
  <1>. SUFFICES ASSUME PassOK
                PROVE  /\ Calls \in Nat /\ round * Budget \in Nat
                       /\ Budget * DrainCap \in Nat /\ round \in Nat
                       /\ fired \in Nat /\ Budget \in Nat /\ Slots \in Nat
    OBVIOUS
  <1>1. /\ round \in Nat /\ fired \in Nat /\ Budget \in Nat /\ Slots \in Nat
        /\ DrainCap \in Nat
    BY Bounds DEF PassOK
  <1>2. round * Budget \in Nat /\ Budget * DrainCap \in Nat
    BY <1>1, Product
  <1>. QED
    BY <1>1, <1>2 DEF Calls

\* When a round has used up its budget the next one goes on counting.
LEMMA RoundCalls ==
  ASSUME PassOK, fired = Budget, at \notin {"etsCall", "espCall"},
         at' \notin {"etsCall", "espCall"}, fired' = 0, round' = round + 1
  PROVE  Calls' = Calls
  <1>1. /\ round \in Nat /\ Budget \in Nat
    BY CallsTypes
  <1>2. (round + 1) * Budget = round * Budget + Budget /\ round * Budget \in Nat
    BY <1>1, Product
  <1>3. Calls = round * Budget + Budget
    BY <1>1, <1>2 DEF Calls
  <1>4. Calls' = (round + 1) * Budget
    <2>1. (round + 1) * Budget \in Nat
      BY <1>1, <1>2
    <2>. QED
      BY <1>1, <2>1 DEF Calls
  <1>. QED
    BY <1>2, <1>3, <1>4

LEMMA LastRoundCalls ==
  ASSUME PassOK, fired = Budget, at \notin {"etsCall", "espCall"}, round + 1 = DrainCap
  PROVE  Calls = Budget * DrainCap
  <1>1. /\ round \in Nat /\ Budget \in Nat /\ DrainCap \in Nat
    BY CallsTypes, Bounds
  <1>2. (round + 1) * Budget = round * Budget + Budget /\ round * Budget \in Nat
    BY <1>1, Product
  <1>3. Calls = round * Budget + Budget
    BY <1>1, <1>2 DEF Calls
  <1>4. DrainCap * Budget = Budget * DrainCap
    BY <1>1, Product
  <1>. QED
    BY <1>2, <1>3, <1>4

\* A table holds no more due timers than it has slots.
LEMMA DueEtsFew ==
  ASSUME TableOK
  PROVE  IsFiniteSet(DueEts) /\ Cardinality(DueEts) <= Slots
  <1>1. Table(slots) /\ Len(slots) <= Slots /\ DOMAIN slots = 1 .. Len(slots)
        /\ Len(slots) \in Nat
    BY TableTypes DEF TableOK
  <1>. DEFINE D == {i \in 1 .. Len(slots) : Due(slots[i].run)}
              f == [i \in D |-> slots[i].ptimer]
  <1>2. IsFiniteSet(1 .. Len(slots)) /\ Cardinality(1 .. Len(slots)) = Len(slots)
    <2>1. \A n \in Nat : IsFiniteSet(1 .. n) /\ Cardinality(1 .. n) = n
      <3>1. \A n \in Nat : /\ IsFiniteSet(1 .. n)
                            /\ Cardinality(1 .. n) = IF 1 > n THEN 0 ELSE n - 1 + 1
        BY FS_Interval
      <3>. QED
        BY <3>1
    <2>. QED
      BY <1>1, <2>1
  <1>3. IsFiniteSet(D) /\ Cardinality(D) <= Len(slots)
    BY <1>2, FS_Subset
  <1>4. f \in Surjection(D, DueEts)
    <2>1. ASSUME NEW i \in D PROVE f[i] \in DueEts
      <3>1. slots[i].ptimer \in EtsTimers /\ slots[i].run \in RunsOf(slots, slots[i].ptimer)
        BY <1>1, TableTypes DEF RunsOf
      <3>. QED
        BY <3>1 DEF DueEts
    <2>2. ASSUME NEW t \in DueEts PROVE \E i \in D : f[i] = t
      <3>1. PICK r \in RunsOf(slots, t) : Due(r)
        BY DEF DueEts
      <3>2. PICK i \in DOMAIN slots : slots[i].ptimer = t /\ slots[i].run = r
        BY InRunsOf
      <3>. QED
        BY <1>1, <3>1, <3>2
    <2>. QED
      BY <2>1, <2>2 DEF Surjection
  <1>. HIDE DEF D, f
  <1>5. IsFiniteSet(DueEts) /\ Cardinality(DueEts) <= Cardinality(D)
    BY <1>3, <1>4, FS_Surjection
  <1>6. Cardinality(DueEts) \in Nat /\ Cardinality(D) \in Nat
    BY <1>3, <1>5, FS_CardinalityType
  <1>. QED
    BY <1>1, <1>3, <1>5, <1>6, Bounds

LEMMA LiveFinite ==
  ASSUME ListOK
  PROVE  IsFiniteSet(live)
  <1>1. Len(list) \in Nat /\ list \in [1 .. Len(list) -> live]
        /\ \A h \in live : \E i \in 1 .. Len(list) : list[i] = h
    <2>1. list \in Seq(EspTimers) /\ ToSet(list) = live
      BY DEF ListOK
    <2>2. \A c : c \in live <=> \E i \in 1 .. Len(list) : list[i] = c
      BY <2>1, Members
    <2>3. Len(list) \in Nat /\ list = [i \in 1 .. Len(list) |-> list[i]]
      BY <2>1
    <2>. QED
      BY <2>2, <2>3
  <1>2. list \in Surjection(1 .. Len(list), live)
    BY <1>1 DEF Surjection
  <1>3. IsFiniteSet(1 .. Len(list))
    BY <1>1, FS_Interval
  <1>. QED
    BY <1>2, <1>3, FS_Surjection

-----------------------------------------------------------------------------
(* One pass serves every timer that was due.                               *)

LEMMA DueInit == Init => OverdueInv /\ AheadInv /\ RoomInv
  BY DEF Init, OverdueInv, AheadInv, RoomInv, OverdueEts, OverdueEsp, EtsPart, EspPart

\* A step within a part of the pass, in which nothing becomes overdue.
LEMMA StaysServed ==
  ASSUME PassOK, PassOK', OverdueInv, RoomInv, Calm' => Calm,
         at' = at, Calls' = Calls, crowded' = crowded,
         OverdueEts' \subseteq OverdueEts, OverdueEsp' \subseteq OverdueEsp,
         Calm' /\ at # "idle" => OverdueEts' = DueEts' /\ OverdueEsp' = DueEsp'
  PROVE  OverdueInv' /\ RoomInv'
  <1>1. OverdueInv'
    BY DEF OverdueInv, EspPart
  <1>2. ASSUME Calm', at \in EtsPart PROVE Room(OverdueEts', Calls', Slots)
    BY <1>2, CallsTypes, RoomShrinks DEF RoomInv
  <1>3. ASSUME Calm', at \in EtsPart, ~crowded
        PROVE  Room(OverdueEsp', 0, Budget * DrainCap)
    BY <1>3, CallsTypes, RoomShrinks DEF RoomInv
  <1>4. ASSUME Calm', at \in EspPart, ~crowded
        PROVE  Room(OverdueEsp', Calls', Budget * DrainCap)
    BY <1>4, CallsTypes, RoomShrinks DEF RoomInv
  <1>5. RoomInv'
    BY <1>2, <1>3, <1>4 DEF RoomInv
  <1>. QED
    BY <1>1, <1>5

LEMMA DueEtsCall ==
  ASSUME Shape, OverdueInv, AheadInv, RoomInv, NEW t \in EtsTimers, EtsCall(t)
  PROVE  OverdueInv' /\ AheadInv' /\ RoomInv'
  <1>. USE DEF Shape
  <1>1. /\ UNCHANGED <<list, live, tm, at, round, fired, timer, wild, busy, crowded>>
        /\ PassOK' /\ PassOK
    BY EtsCallFrame DEF PassOK
  <1>2. /\ Calls' = Calls /\ (Calm' <=> Calm) /\ DueEsp' = DueEsp
    BY <1>1 DEF Calls, Calm, DueEsp, Called
  <1>3. /\ \A u : u # t => RunsOf(slots', u) = RunsOf(slots, u)
        /\ \/ UNCHANGED <<slots, overdue>>
           \/ overdue' = overdue \ {t} /\ \A r \in RunsOf(slots', t) : ~Due(r)
    BY EtsCallTable
  <1>4. OverdueEsp' = OverdueEsp
    BY <1>3, Bounds DEF OverdueEsp
  <1>5. OverdueEts' \subseteq OverdueEts /\ (OverdueEts = DueEts => OverdueEts' = DueEts')
    <2>1. CASE UNCHANGED <<slots, overdue>>
      BY <2>1 DEF OverdueEts, DueEts
    <2>2. CASE overdue' = overdue \ {t} /\ \A r \in RunsOf(slots', t) : ~Due(r)
      <3>1. OverdueEts' = OverdueEts \ {t}
        BY <2>2 DEF OverdueEts
      <3>2. DueEts' = DueEts \ {t}
        BY <1>3, <2>2 DEF DueEts
      <3>. QED
        BY <3>1, <3>2
    <2>. QED
      BY <1>3, <2>1, <2>2
  <1>6. OverdueInv' /\ RoomInv'
    <2>1. Calm' /\ at # "idle" => OverdueEts' = DueEts' /\ OverdueEsp' = DueEsp'
      BY <1>2, <1>4, <1>5 DEF OverdueInv
    <2>. QED
      BY <1>1, <1>2, <1>4, <1>5, <2>1, StaysServed
  <1>7. AheadInv'
    BY <1>1, <1>2, <1>4 DEF AheadInv
  <1>. QED
    BY <1>6, <1>7

LEMMA DueEspCall ==
  ASSUME Shape, OverdueInv, AheadInv, RoomInv, NEW h \in EspTimers, EspCall(h)
  PROVE  OverdueInv' /\ AheadInv' /\ RoomInv'
  <1>. USE DEF Shape
  <1>1. /\ UNCHANGED <<slots, at, round, fired, timer>> /\ PassOK' /\ PassOK
        /\ at \in {"idle", "etsCall", "espCall"}
    BY EspCallFrame DEF PassOK, BlobRuns
  <1>2. /\ (busy => busy') /\ ~wild /\ crowded' = crowded
        /\ overdue' = overdue \ {h} \/ (Create(h) /\ overdue' = overdue)
    BY EspCallHistory
  <1>3. /\ Calls' = Calls /\ (Calm' => Calm) /\ DueEts' = DueEts
    BY <1>1, <1>2 DEF Calls, Calm, DueEts
  <1>4. OverdueEts' = OverdueEts /\ OverdueEsp' \subseteq OverdueEsp
        /\ (h \notin overdue \/ overdue' = overdue \ {h} \/ Create(h))
    BY <1>2, Bounds DEF OverdueEts, OverdueEsp
  <1>5. /\ live \subseteq EspTimers /\ ToSet(list) = live /\ list \in Seq(EspTimers)
        /\ IsInjective(list) /\ tm \in [EspTimers -> Runs]
    BY ListLive DEF ListOK
  <1>6. /\ \A g : g # h => (g \in live' <=> g \in live)
        /\ \A g \in EspTimers : g # h => tm'[g] = tm[g]
        /\ busy' \/ wild' \/ ~Due(tm'[h]) \/ h \notin live'
    BY EspCallRelinks, RelinkedList, EspCallTimers
  <1>7. \A g : Called(g)' <=> Called(g)
    BY <1>1 DEF Called
  <1>8. ASSUME Calm', at # "idle" PROVE OverdueEsp' = DueEsp' /\ h \notin OverdueEsp'
    <2>1. DueEsp' = DueEsp \ {h}
      <3>1. h \notin DueEsp'
        BY <1>6, <1>8 DEF DueEsp, Calm
      <3>2. ASSUME NEW g, g # h PROVE g \in DueEsp' <=> g \in DueEsp
        BY <1>5, <1>6, <1>7, <3>2 DEF DueEsp
      <3>. QED
        BY <3>1, <3>2
    <2>2. OverdueEsp = DueEsp
      BY <1>3, <1>8 DEF OverdueInv
    <2>3. CASE overdue' = overdue \ {h}
      <3>1. OverdueEsp' = OverdueEsp \ {h}
        BY <2>3 DEF OverdueEsp
      <3>. QED
        BY <2>1, <2>2, <3>1
    <2>4. CASE Create(h) /\ overdue' = overdue
      <3>1. h \notin DueEsp
        BY <2>4 DEF Create, DueEsp
      <3>2. OverdueEsp' = OverdueEsp
        BY <2>4 DEF OverdueEsp
      <3>. QED
        BY <2>1, <2>2, <3>1, <3>2
    <2>. QED
      BY <1>2, <2>3, <2>4
  <1>9. OverdueInv' /\ RoomInv'
    <2>1. Calm' /\ at # "idle" => OverdueEts' = DueEts' /\ OverdueEsp' = DueEsp'
      BY <1>3, <1>4, <1>8 DEF OverdueInv
    <2>. QED
      BY <1>1, <1>2, <1>3, <1>4, <2>1, StaysServed
  <1>10. ASSUME Calm', at = "espCall", timer \in live', NEW g \in OverdueEsp'
         PROVE  Before(list', timer, g)
    <2>1. g \in OverdueEsp /\ g # h /\ g \in live /\ g \in EspTimers
      <3>1. OverdueEsp = DueEsp
        BY <1>3, <1>10 DEF OverdueInv
      <3>2. h \notin OverdueEsp'
        BY <1>8, <1>10
      <3>. QED
        BY <1>4, <1>5, <1>10, <3>1, <3>2 DEF DueEsp
    <2>2. timer \in live => Before(list, timer, g)
      BY <1>3, <1>10, <2>1 DEF AheadInv
    <2>3. CASE list' = list /\ live' = live
      BY <1>10, <2>2, <2>3
    <2>4. CASE list' = <<h>> \o list /\ h \notin live /\ live' = live \cup {h}
      <3>1. CASE timer = h
        BY <1>5, <2>1, <2>4, <3>1, PushedBefore
      <3>2. CASE timer # h
        BY <1>5, <1>10, <2>2, <2>4, <3>2, BeforePushed
      <3>. QED
        BY <3>1, <3>2
    <2>5. CASE list' = RemoveFirst(list, h) /\ h \in live /\ live' = live \ {h}
      <3>1. timer \in EspTimers \ {h} /\ Before(list, timer, g)
        BY <1>5, <1>10, <2>2, <2>5
      <3>. QED
        BY <1>5, <2>1, <2>5, <3>1, BeforeRemoved
    <2>. QED
      BY EspCallRelinks, <2>3, <2>4, <2>5 DEF Relinked
  <1>11. AheadInv'
    BY <1>1, <1>10 DEF AheadInv
  <1>. QED
    BY <1>9, <1>11

LEMMA DueBegins ==
  ASSUME Shape, Shape', BeginPass
  PROVE  OverdueInv' /\ AheadInv' /\ RoomInv'
  <1>. USE DEF Shape
  <1>1. /\ UNCHANGED <<slots, list, live, tm, fired>> /\ at' = "ets" /\ at = "idle"
        /\ overdue' = EtsDue \cup EspDue /\ round' = 0 /\ fired = 0
        /\ crowded' = (Cardinality(EspDue) > Budget * DrainCap)
    BY DEF BeginPass, ets, esp, Goto, PassOK
  <1>2. live \subseteq EspTimers /\ ToSet(list) = live
    BY ListLive DEF ListOK
  <1>3. EtsDue = DueEts' /\ EspDue = DueEsp'
    <2>1. DueEts' = DueEts /\ EtsDue = DueEts
      BY <1>1, EtsDueView DEF DueEts
    <2>2. DueEsp' = {h \in live : Due(tm[h])}
      BY <1>1 DEF DueEsp, Called
    <2>. QED
      BY <1>2, <2>1, <2>2 DEF EspDue
  <1>4. OverdueEts' = EtsDue /\ OverdueEsp' = EspDue
    <2>1. EtsDue \subseteq EtsTimers /\ EspDue \subseteq EspTimers
      BY <1>2 DEF EtsDue, EspDue
    <2>. QED
      BY <1>1, <2>1, Bounds DEF OverdueEts, OverdueEsp
  <1>5. OverdueInv' /\ AheadInv'
    BY <1>1, <1>3, <1>4 DEF OverdueInv, AheadInv, EspPart
  <1>6. Calls' = 0
    BY <1>1, Bounds DEF Calls
  <1>7. Room(EtsDue, 0, Slots)
    <2>1. IsFiniteSet(EtsDue) /\ Cardinality(EtsDue) <= Slots
      BY EtsDueView, DueEtsFew
    <2>2. Cardinality(EtsDue) + 0 <= Slots
      BY <2>1, FS_CardinalityType, Bounds
    <2>. QED
      BY <2>1, <2>2 DEF Room
  <1>8. ASSUME ~crowded' PROVE Room(EspDue, 0, Budget * DrainCap)
    <2>1. IsFiniteSet(EspDue)
      BY <1>2, LiveFinite, FS_Subset DEF EspDue
    <2>2. Cardinality(EspDue) \in Nat /\ Budget * DrainCap \in Nat
      BY <2>1, FS_CardinalityType, CallsTypes
    <2>3. ~(Cardinality(EspDue) > Budget * DrainCap)
      BY ONLY <1>1, <1>8, Zenon
    <2>4. \A c, m \in Nat : ~(c > m) => c + 0 <= m
      OBVIOUS
    <2>5. Cardinality(EspDue) + 0 <= Budget * DrainCap
      BY ONLY <2>2, <2>3, <2>4, Zenon
    <2>. QED
      BY <2>1, <2>5 DEF Room
  <1>9. RoomInv'
    BY <1>1, <1>4, <1>6, <1>7, <1>8 DEF RoomInv, EspPart
  <1>. QED
    BY <1>5, <1>9

LEMMA DueAdopt ==
  ASSUME Shape, Shape', OverdueInv, AheadInv, RoomInv, Adopt
  PROVE  OverdueInv' /\ AheadInv' /\ RoomInv'
  <1>. USE DEF Shape
  <1>1. /\ UNCHANGED <<list, live, tm, round, fired, timer, wild, overdue, busy, crowded>>
        /\ at' = "etsScan" /\ at = "ets"
    BY DEF Adopt, esp, history, served, excuse, Goto
  <1>2. DueEts' = DueEts
    <2>. SUFFICES ASSUME NEW t \in EtsTimers
                  PROVE  (\E r \in RunsOf(slots', t) : Due(r))
                           <=> \E r \in RunsOf(slots, t) : Due(r)
      BY DEF DueEts
    <2>1. RunsOf(slots', t) =
             {IF ~r.active /\ func[t] /\ expire[t].active THEN expire[t] ELSE r :
                r \in RunsOf(slots, t)}
      BY AdoptFacts
    <2>2. ~Due(expire[t])
      BY DEF HistoryOK, Quiet, Due
    <2>3. \A r : Due(r) => r.active
      BY DEF Due
    <2>. QED
      BY <2>1, <2>2, <2>3
  <1>3. /\ OverdueEts' = OverdueEts /\ OverdueEsp' = OverdueEsp /\ DueEsp' = DueEsp
        /\ Calls' = Calls /\ (Calm' <=> Calm)
    BY <1>1 DEF OverdueEts, OverdueEsp, DueEsp, Called, Calls, Calm
  <1>. QED
    BY <1>1, <1>2, <1>3 DEF OverdueInv, AheadInv, RoomInv, EtsPart, EspPart

LEMMA DueEtsFire ==
  ASSUME Shape, Shape', OverdueInv, AheadInv, RoomInv, EtsFire
  PROVE  OverdueInv' /\ AheadInv' /\ RoomInv'
  <1>. USE DEF Shape
  <1>1. /\ UNCHANGED <<list, live, tm, round, fired, wild, busy, crowded>>
        /\ at' = "etsCall" /\ at = "etsScan"
    BY DEF EtsFire, esp, excuse, Goto
  <1>2. PICK t \in DueEts, r \in Runs :
           /\ RunsOf(slots, t) = {r} /\ Due(r) /\ Positive(r)
           /\ SetRun(t, Fired(r)) /\ Serve(t)
    BY EtsFireFacts
  <1>3. t \in EtsTimers
    BY DEF DueEts
  <1>4. Fired(r) \in Runs /\ Positive(Fired(r)) /\ ~Due(Fired(r))
    BY <1>2, FiredRun
  <1>5. /\ RunsOf(slots', t) = {Fired(r)}
        /\ \A u : u # t => RunsOf(slots', u) = RunsOf(slots, u)
    BY <1>2, <1>3, <1>4, SetRunFacts
  <1>6. DueEts' = DueEts \ {t}
    BY <1>4, <1>5 DEF DueEts
  <1>7. OverdueEts' = OverdueEts \ {t} /\ OverdueEsp' = OverdueEsp
    BY <1>2, <1>3, Bounds DEF Serve, OverdueEts, OverdueEsp
  <1>8. DueEsp' = DueEsp /\ (Calm' <=> Calm)
    BY <1>1 DEF DueEsp, Called, Calm
  <1>9. Calls' = Calls + 1 /\ Calls \in Nat /\ Slots \in Nat
    <2>1. Calls = round * Budget + fired /\ Calls' = round * Budget + fired + 1
      BY <1>1, CallsTypes DEF Calls
    <2>. QED
      BY <2>1, CallsTypes
  <1>10. ASSUME Calm PROVE Room(OverdueEts', Calls', Slots)
    <2>1. t \in OverdueEts /\ Room(OverdueEts, Calls, Slots)
      BY <1>1, <1>10 DEF OverdueInv, RoomInv, EtsPart
    <2>. QED
      BY <1>7, <1>9, <2>1, RoomForOne
  <1>11. OverdueInv' /\ AheadInv'
    BY <1>1, <1>6, <1>7, <1>8 DEF OverdueInv, AheadInv, EspPart
  <1>12. RoomInv'
    BY <1>1, <1>7, <1>8, <1>10 DEF RoomInv, EtsPart, EspPart
  <1>. QED
    BY <1>11, <1>12

LEMMA DueEtsReturn ==
  ASSUME Shape, Shape', OverdueInv, AheadInv, RoomInv, EtsReturn
  PROVE  OverdueInv' /\ AheadInv' /\ RoomInv'
  <1>1. /\ UNCHANGED <<slots, list, live, tm, round, wild, overdue, busy, crowded>>
        /\ at' = "etsScan" /\ at = "etsCall" /\ fired' = fired + 1
    BY DEF EtsReturn, ets, esp, history, served, excuse, Goto
  <1>2. Calls' = Calls
    BY <1>1, CallsTypes DEF Calls, Shape
  <1>3. /\ OverdueEts' = OverdueEts /\ OverdueEsp' = OverdueEsp
        /\ DueEts' = DueEts /\ DueEsp' = DueEsp /\ (Calm' <=> Calm)
    BY <1>1 DEF OverdueEts, OverdueEsp, DueEts, DueEsp, Called, Calm
  <1>. QED
    BY <1>1, <1>2, <1>3 DEF OverdueInv, AheadInv, RoomInv, EtsPart, EspPart

LEMMA DueEtsRound ==
  ASSUME Shape, Shape', OverdueInv, AheadInv, RoomInv, EtsRound
  PROVE  OverdueInv' /\ AheadInv' /\ RoomInv'
  <1>. USE DEF Shape
  <1>1. /\ UNCHANGED <<slots, list, live, tm, wild, overdue, busy, crowded>>
        /\ at' \in {"ets", "esp"} /\ at = "etsScan" /\ fired' = 0
        /\ fired = Budget \/ EtsDue = {}
        /\ at' = "ets" => round' = round + 1
        /\ at' = "esp" => round' = 0 /\ (fired = 0 \/ round + 1 = DrainCap)
    BY DEF EtsRound, NextRound, ets, esp, history, served, excuse, Goto
  <1>2. /\ OverdueEts' = OverdueEts /\ OverdueEsp' = OverdueEsp
        /\ DueEts' = DueEts /\ DueEsp' = DueEsp /\ (Calm' <=> Calm)
    BY <1>1 DEF OverdueEts, OverdueEsp, DueEts, DueEsp, Called, Calm
  <1>3. ASSUME Calm PROVE /\ OverdueEts = {} \/ fired = Budget
                          /\ OverdueEts = DueEts /\ OverdueEsp = DueEsp
                          /\ Room(OverdueEts, Calls, Slots)
                          /\ ~crowded => Room(OverdueEsp, 0, Budget * DrainCap)
    BY <1>1, <1>3, EtsDueView DEF OverdueInv, RoomInv, EtsPart
  <1>4. ASSUME Calm, at' = "ets" PROVE Room(OverdueEts', Calls', Slots)
    <2>1. CASE OverdueEts = {}
      BY <1>2, <2>1 DEF Room
    <2>2. CASE fired = Budget
      <3>1. Calls' = Calls
        BY <1>1, <1>4, <2>2, RoundCalls
      <3>. QED
        BY <1>2, <1>3, <1>4, <3>1
    <2>. QED
      BY <1>3, <1>4, <2>1, <2>2
  <1>5. ASSUME Calm, at' = "esp" PROVE OverdueEts = {} /\ Calls' = 0
    <2>1. Calls' = 0
      BY <1>1, <1>5, Bounds DEF Calls
    <2>2. CASE fired = Budget
      <3>1. round + 1 = DrainCap
        BY <1>1, <1>5, <2>2, Bounds
      <3>2. Calls = Budget * DrainCap
        BY <1>1, <2>2, <3>1, LastRoundCalls
      <3>3. OverdueEts = {}
        BY <1>3, <1>5, <3>2, RoomUsedUp, CallsTypes, PassAssumption
      <3>. QED
        BY <2>1, <3>3
    <2>. QED
      BY <1>3, <1>5, <2>1, <2>2
  <1>6. OverdueInv' /\ AheadInv'
    BY <1>1, <1>2, <1>3, <1>5 DEF OverdueInv, AheadInv, EspPart
  <1>7. RoomInv'
    BY <1>1, <1>2, <1>3, <1>4, <1>5 DEF RoomInv, EtsPart, EspPart
  <1>. QED
    BY <1>6, <1>7

LEMMA DueWalk ==
  ASSUME Shape, Shape', WalkInv, OverdueInv, AheadInv, RoomInv, Walk \/ EspSkip
  PROVE  OverdueInv' /\ AheadInv' /\ RoomInv'
  <1>. USE DEF Shape
  <1>1. /\ UNCHANGED <<slots, list, live, tm, round, fired, overdue, busy, crowded>>
        /\ at' = "espWalk" /\ at \in {"esp", "espWalk"} /\ ~wild
    BY Bounds DEF Walk, EspSkip, ets, esp, history, served, excuse, Goto, WalkInv
  <1>2. /\ OverdueEts' = OverdueEts /\ OverdueEsp' = OverdueEsp
        /\ DueEts' = DueEts /\ Calls' = Calls /\ (Calm' => Calm)
    BY <1>1 DEF OverdueEts, OverdueEsp, DueEts, Calls, Calm
  <1>3. DueEsp' = DueEsp
    BY <1>1 DEF DueEsp, Called
  <1>l. list \in Seq(EspTimers) /\ IsInjective(list) /\ ToSet(list) = live
    BY DEF ListOK
  <1>4. ASSUME Calm, NEW h \in OverdueEsp
        PROVE  timer' = h \/ Before(list', timer', h)
    <2>1. h \in live /\ h \in DueEsp /\ list' = list
      BY <1>1, <1>4 DEF OverdueInv, DueEsp
    <2>2. CASE Walk
      <3>1. list # <<>> /\ timer' = Head(list)
        BY <1>l, <2>1, <2>2, Members DEF Walk, Reach
      <3>. QED
        BY <1>l, <2>1, <3>1, HeadFirst
    <2>3. CASE EspSkip
      <3>1. timer' = NextOf(timer) /\ at = "espWalk" /\ h # timer
        BY <2>1, <2>3 DEF EspSkip, Reach, DueEsp
      <3>2. Before(list, timer, h)
        BY <1>4, <3>1 DEF AheadInv
      <3>. QED
        BY <1>l, <2>1, <3>1, <3>2, SuccessorAhead
    <2>. QED
      BY <2>2, <2>3
  <1>5. OverdueInv' /\ AheadInv'
    BY <1>1, <1>2, <1>3, <1>4 DEF OverdueInv, AheadInv, EspPart
  <1>6. RoomInv'
    BY <1>1, <1>2 DEF RoomInv, EtsPart, EspPart
  <1>. QED
    BY <1>5, <1>6

LEMMA DueEspFire ==
  ASSUME Shape, Shape', OverdueInv, AheadInv, RoomInv, EspFire
  PROVE  OverdueInv' /\ AheadInv' /\ RoomInv'
  <1>. USE DEF Shape
  <1>1. /\ UNCHANGED <<slots, list, live, tm, round, fired, timer, wild, busy, crowded>>
        /\ at' = "espCall" /\ at = "espWalk" /\ timer \in live /\ Due(tm[timer])
        /\ overdue' = overdue \ {timer}
    BY DEF EspFire, ets, esp, excuse, Goto, Serve
  <1>2. timer \in EspTimers
    BY <1>1, ListLive
  <1>3. /\ OverdueEts' = OverdueEts /\ OverdueEsp' = OverdueEsp \ {timer}
        /\ DueEts' = DueEts /\ (Calm' <=> Calm)
    BY <1>1, <1>2, Bounds DEF OverdueEts, OverdueEsp, DueEts, Calm
  <1>4. DueEsp' = DueEsp \ {timer} /\ timer \in DueEsp
    BY <1>1 DEF DueEsp, Called
  <1>5. Calls' = Calls + 1 /\ Calls \in Nat /\ Budget * DrainCap \in Nat
    <2>1. Calls = round * Budget + fired /\ Calls' = round * Budget + fired + 1
      BY <1>1, CallsTypes DEF Calls
    <2>. QED
      BY <2>1, CallsTypes
  <1>6. ASSUME Calm, ~crowded PROVE Room(OverdueEsp', Calls', Budget * DrainCap)
    <2>1. timer \in OverdueEsp /\ Room(OverdueEsp, Calls, Budget * DrainCap)
      BY <1>1, <1>4, <1>6 DEF OverdueInv, RoomInv, EspPart
    <2>. QED
      BY <1>3, <1>5, <2>1, RoomForOne
  <1>7. OverdueInv' /\ AheadInv'
    BY <1>1, <1>3, <1>4 DEF OverdueInv, AheadInv, EspPart
  <1>8. RoomInv'
    BY <1>1, <1>3, <1>6 DEF RoomInv, EtsPart, EspPart
  <1>. QED
    BY <1>7, <1>8

LEMMA DueEspReturn ==
  ASSUME Shape, Shape', WalkInv, OverdueInv, AheadInv, RoomInv, EspReturn
  PROVE  OverdueInv' /\ AheadInv' /\ RoomInv'
  <1>. USE DEF Shape
  <1>1. /\ UNCHANGED <<slots, list, live, round, overdue, busy, crowded>> /\ ~wild
        /\ at' = "espWalk" /\ at = "espCall" /\ fired' = fired + 1
    BY DEF EspReturn, ets, history, served, excuse, Goto
  <1>2. CASE timer \notin live
    <2>1. ~Calm'
      BY <1>2 DEF EspReturn, Calm
    <2>. QED
      BY <2>1 DEF OverdueInv, AheadInv, RoomInv
  <1>3. CASE timer \in live
    <2>1. timer' = NextOf(timer) /\ timer \in EspTimers /\ live \subseteq EspTimers
      BY <1>3, ListLive DEF EspReturn, Reach
    <2>2. /\ OverdueEts' = OverdueEts /\ OverdueEsp' = OverdueEsp
          /\ DueEts' = DueEts /\ (Calm' => Calm)
      BY <1>1 DEF OverdueEts, OverdueEsp, DueEts, Calm
    <2>3. DueEsp' = DueEsp
      <3>1. ~Due(tm'[timer])
        BY <1>3, <2>1, EspReturnList, ReturnedRun DEF ListOK
      <3>2. \A h \in live : h # timer => tm'[h] = tm[h]
        BY <1>3, <2>1, EspReturnList
      <3>. QED
        BY <1>1, <3>1, <3>2 DEF DueEsp, Called
    <2>4. Calls' = Calls
      BY <1>1, CallsTypes DEF Calls
    <2>5. list \in Seq(EspTimers) /\ IsInjective(list)
      BY DEF ListOK
    <2>6. ASSUME Calm, NEW h \in OverdueEsp
          PROVE  timer' = h \/ Before(list', timer', h)
      <3>1. Before(list, timer, h)
        BY <1>1, <1>3, <2>6 DEF AheadInv
      <3>. QED
        BY <1>1, <2>1, <2>5, <3>1, SuccessorAhead
    <2>7. OverdueInv' /\ AheadInv'
      BY <1>1, <2>2, <2>3, <2>6 DEF OverdueInv, AheadInv, EspPart
    <2>8. RoomInv'
      BY <1>1, <2>2, <2>4 DEF RoomInv, EtsPart, EspPart
    <2>. QED
      BY <2>7, <2>8
  <1>. QED
    BY <1>2, <1>3

LEMMA DueEspRound ==
  ASSUME Shape, Shape', OverdueInv, AheadInv, RoomInv, EspRound
  PROVE  OverdueInv' /\ AheadInv' /\ RoomInv'
  <1>. USE DEF Shape
  <1>1. /\ UNCHANGED <<slots, list, live, tm, wild, overdue, busy, crowded>>
        /\ at' \in {"esp", "idle"} /\ at = "espWalk" /\ fired' = 0
        /\ fired = Budget \/ timer = None
        /\ at' = "esp" => round' = round + 1
        /\ at' = "idle" => fired = 0 \/ round + 1 = DrainCap
    BY DEF EspRound, NextRound, ets, esp, history, served, excuse, Goto
  <1>2. /\ OverdueEts' = OverdueEts /\ OverdueEsp' = OverdueEsp
        /\ DueEts' = DueEts /\ DueEsp' = DueEsp /\ (Calm' <=> Calm)
    BY <1>1 DEF OverdueEts, OverdueEsp, DueEts, DueEsp, Called, Calm
  <1>3. ASSUME Calm PROVE /\ OverdueEts = {} /\ OverdueEts = DueEts
                          /\ OverdueEsp = DueEsp
                          /\ ~crowded => Room(OverdueEsp, Calls, Budget * DrainCap)
    BY <1>1, <1>3 DEF OverdueInv, RoomInv, EspPart
  <1>4. ASSUME Calm, timer = None PROVE OverdueEsp = {}
    <2>. SUFFICES ASSUME NEW h \in OverdueEsp PROVE FALSE
      OBVIOUS
    <2>1. timer = h \/ Before(list, timer, h)
      BY <1>1, <1>4 DEF AheadInv
    <2>2. h # None
      BY Bounds DEF OverdueEsp
    <2>3. list \in Seq(EspTimers)
      BY DEF ListOK
    <2>4. timer \in EspTimers
      BY <1>4, <2>1, <2>2, <2>3 DEF Before
    <2>. QED
      BY <1>4, <2>4, Bounds
  <1>5. ASSUME Calm, at' = "esp", ~crowded
        PROVE  Room(OverdueEsp', Calls', Budget * DrainCap)
    <2>1. CASE timer = None
      BY <1>2, <1>4, <1>5, <2>1 DEF Room
    <2>2. CASE fired = Budget
      <3>1. Calls' = Calls
        BY <1>1, <1>5, <2>2, RoundCalls
      <3>. QED
        BY <1>2, <1>3, <1>5, <3>1
    <2>. QED
      BY <1>1, <2>1, <2>2
  <1>6. ASSUME Calm, at' = "idle", ~crowded PROVE OverdueEsp = {}
    <2>1. CASE timer = None
      BY <1>4, <1>6, <2>1
    <2>2. CASE fired = Budget
      <3>1. round + 1 = DrainCap
        BY <1>1, <1>6, <2>2, Bounds
      <3>2. Calls = Budget * DrainCap
        BY <1>1, <2>2, <3>1, LastRoundCalls
      <3>. QED
        BY <1>3, <1>6, <3>2, RoomUsedUp, CallsTypes
    <2>. QED
      BY <1>1, <2>1, <2>2
  <1>7. OverdueInv' /\ AheadInv'
    BY <1>1, <1>2, <1>3, <1>6 DEF OverdueInv, AheadInv, EspPart
  <1>8. RoomInv'
    BY <1>1, <1>2, <1>5 DEF RoomInv, EtsPart, EspPart
  <1>. QED
    BY <1>7, <1>8

LEMMA DueStep ==
    Shape /\ Shape' /\ WalkInv /\ OverdueInv /\ AheadInv /\ RoomInv /\ [Next]_vars
      => OverdueInv' /\ AheadInv' /\ RoomInv'
  <1>. SUFFICES ASSUME Shape, Shape', WalkInv, OverdueInv, AheadInv, RoomInv, [Next]_vars
                PROVE  OverdueInv' /\ AheadInv' /\ RoomInv'
    OBVIOUS
  <1>1. ASSUME NEW t \in EtsTimers, EtsCall(t) PROVE OverdueInv' /\ AheadInv' /\ RoomInv'
    BY <1>1, DueEtsCall
  <1>2. ASSUME NEW h \in EspTimers, EspCall(h) PROVE OverdueInv' /\ AheadInv' /\ RoomInv'
    BY <1>2, DueEspCall
  <1>3. CASE Tick
    BY <1>3, TickFrame DEF OverdueInv, AheadInv, RoomInv, Calm
  <1>4. CASE PassStep
    BY <1>4, DueBegins, DueAdopt, DueEtsFire, DueEtsReturn, DueEtsRound, DueWalk,
       DueEspFire, DueEspReturn, DueEspRound DEF PassStep
  <1>5. CASE UNCHANGED vars
    BY <1>5 DEF vars, ets, esp, pass, served, excuse, OverdueInv, AheadInv, RoomInv,
       OverdueEts, OverdueEsp, DueEts, DueEsp, Called, Calls, Calm
  <1>. QED
    BY <1>1, <1>2, <1>3, <1>4, <1>5 DEF Next

\* drainCap polls of timerFirePerRound callbacks each serve every ets timer that
\* was due when schedOnce began, however full the table; and every esp_timer, up
\* to as many as that allows, though callbacks rearrange the list on the way.
THEOREM TimersPassServesDue == Spec => []PassServesDue
  <1>. DEFINE Inv == Shape /\ WalkInv /\ OverdueInv /\ AheadInv /\ RoomInv
  <1>1. Init => Inv
    BY ShapeInit, WalkInit, DueInit
  <1>2. Inv /\ [Next]_vars => Inv'
    BY ShapeStep, WalkStep, DueStep
  <1>3. Inv => PassServesDue
    BY DEF Shape, HistoryOK, OverdueInv, Calm, OverdueEts, OverdueEsp, PassServesDue
  <1>. HIDE DEF Inv
  <1>. QED
    BY <1>1, <1>2, <1>3, PTL DEF Spec

=============================================================================
