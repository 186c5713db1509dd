----------------------------- MODULE Arena_proofs -----------------------------
(***************************************************************************)
(* Proofs about the arena allocator, for any pool and any requests.  They  *)
(* look at a pool as a set of blocks, each with its size, that tile the    *)
(* units: a call splits a block, or joins some.                            *)
(***************************************************************************)
EXTENDS Arena, SequenceTheorems, WellFoundedInduction, TLAPS

LEMMA CapNat == Cap \in Nat /\ Cap >= 2 /\ 0 \in Units
  <1>1. Pad \in Int
    BY PoolAssumption DEF Pad, ALIGN
  <1>2. Cap \in Int
    BY <1>1, PoolAssumption DEF Cap, ALIGN
  <1>. QED
    BY <1>2, PoolAssumption DEF MIN_BLOCK, Units

-----------------------------------------------------------------------------
(* Sets of blocks that tile the pool, size[b] units from b.                *)

End(size, b) == b + size[b]
Tiles(B, size) ==
    /\ B \subseteq Units /\ size \in [Units -> 0 .. Cap]
    /\ 0 \in B
    /\ \A b \in B : size[b] > 0 /\ End(size, b) \in B \cup {Cap}
    /\ \A b, c \in B : b < c => End(size, b) <= c
    /\ \A u \in Units : \E b \in B : b <= u /\ u < End(size, b)

LEMMA TilesTypes ==
  ASSUME NEW B, NEW size, Tiles(B, size), NEW c \in B
  PROVE  /\ Cap \in Nat /\ c \in Nat /\ c \in Units
         /\ size[c] \in Nat /\ size[c] > 0
         /\ End(size, c) \in Nat /\ c < End(size, c) /\ End(size, c) <= Cap
         /\ End(size, c) = c + size[c]
  <1>1. Cap \in Nat
    BY CapNat
  <1>2. c \in Units /\ c \in 0 .. Cap - 1
    BY DEF Tiles, Units
  <1>3. size[c] \in 0 .. Cap /\ size[c] > 0
    BY <1>2 DEF Tiles
  <1>4. End(size, c) \in Units \cup {Cap}
    BY DEF Tiles
  <1>. QED
    BY <1>1, <1>2, <1>3, <1>4 DEF End, Units

LEMMA TilesAgree ==
  ASSUME NEW B, NEW size, NEW other \in [Units -> 0 .. Cap], Tiles(B, size),
         \A b \in B : other[b] = size[b]
  PROVE  Tiles(B, other)
  BY DEF Tiles, End

\* A block is cut in two: the second part begins a block of its own.
LEMMA SplitFresh ==
  ASSUME NEW B, NEW size, Tiles(B, size), NEW b \in B, NEW rem \in Nat \ {0},
         NEW need \in Nat \ {0}, rem + need = size[b]
  PROVE  b + rem \in Units \ B
  <1>0. \A c \in B : /\ c \in Nat /\ size[c] \in Nat
                     /\ End(size, c) \in Nat /\ c < End(size, c)
    BY TilesTypes
  <1>1. /\ End(size, b) \in Nat /\ End(size, b) <= Cap /\ End(size, b) = b + size[b]
        /\ b + rem \in Nat /\ b + rem < End(size, b) /\ Cap \in Nat /\ b \in Nat
        /\ size[b] \in Nat
    BY TilesTypes
  <1>o. \A d, e \in B : d < e => End(size, d) <= e
    BY DEF Tiles
  <1>2. b + rem \in Units \ B
    <2>1. b + rem \notin B
      BY <1>0, <1>1, <1>o
    <2>. QED
      BY <1>1, <2>1 DEF Units
  <1>. QED
    BY <1>2

LEMMA SplitTiles ==
  ASSUME NEW B, NEW size, Tiles(B, size), NEW b \in B, NEW rem \in Nat \ {0},
         NEW need \in Nat \ {0}, rem + need = size[b], NEW new, new = b + rem,
         NEW other \in [Units -> 0 .. Cap], other[b] = rem, other[new] = need,
         \A c \in B \ {b} : other[c] = size[c]
  PROVE  Tiles(B \cup {new}, other)
  <1>0. \A c \in B : /\ c \in Nat /\ size[c] \in Nat
                     /\ End(size, c) \in Nat /\ c < End(size, c)
    BY TilesTypes
  <1>1. /\ End(size, b) \in Nat /\ End(size, b) <= Cap /\ End(size, b) = b + size[b]
        /\ new \in Nat /\ new < End(size, b) /\ Cap \in Nat /\ b \in Nat
        /\ size[b] \in Nat
    BY TilesTypes
  <1>o. \A d, e \in B : d < e => End(size, d) <= e
    BY DEF Tiles
  <1>2. new \in Units \ B
    BY SplitFresh
  <1>3. /\ End(other, b) = new /\ End(other, new) = End(size, b)
        /\ \A c \in B \ {b} : End(other, c) = End(size, c)
    BY <1>0, <1>1 DEF End
  <1>4. \A u \in Units : \E c \in B \cup {new} : c <= u /\ u < End(other, c)
    <2>. SUFFICES ASSUME NEW u \in Units
                  PROVE  \E c \in B \cup {new} : c <= u /\ u < End(other, c)
      OBVIOUS
    <2>1. PICK c \in B : c <= u /\ u < End(size, c)
      BY DEF Tiles
    <2>2. u \in Int
      BY DEF Units
    <2>3. CASE c = b
      <3>1. CASE u < new
        BY <1>3, <2>1, <2>3, <3>1
      <3>2. CASE new <= u
        BY <1>3, <2>1, <2>3, <3>2
      <3>. QED
        BY <1>1, <2>2, <3>1, <3>2
    <2>4. CASE c # b
      BY <1>3, <2>1, <2>4
    <2>. QED
      BY <2>3, <2>4
  <1>5. \A c, d \in B \cup {new} : c < d => End(other, c) <= d
    <2>1. ASSUME NEW c \in B, NEW d \in B, c < d PROVE End(other, c) <= d
      BY <1>0, <1>1, <1>3, <1>o, <2>1
    <2>2. ASSUME NEW c \in B, c < new PROVE End(other, c) <= new
      BY <1>0, <1>1, <1>3, <1>o, <2>2
    <2>3. ASSUME NEW d \in B, new < d PROVE End(other, new) <= d
      BY <1>0, <1>1, <1>3, <1>o, <2>3
    <2>. QED
      BY <1>0, <1>1, <2>1, <2>2, <2>3
  <1>6. \A c \in B \cup {new} :
            other[c] > 0 /\ End(other, c) \in B \cup {new} \cup {Cap}
    <2>1. \A c \in B : size[c] > 0 /\ End(size, c) \in B \cup {Cap}
      BY DEF Tiles
    <2>2. End(other, b) = new /\ End(other, new) \in B \cup {Cap}
      BY <1>3, <2>1
    <2>3. other[b] > 0 /\ other[new] > 0
      OBVIOUS
    <2>4. ASSUME NEW c \in B \ {b}
          PROVE  other[c] > 0 /\ End(other, c) \in B \cup {Cap}
      BY <1>3, <2>1
    <2>. QED
      BY <2>2, <2>3, <2>4
  <1>. QED
    BY <1>2, <1>4, <1>5, <1>6 DEF Tiles

\* Two neighbours become one.
LEMMA JoinTiles ==
  ASSUME NEW B, NEW size, Tiles(B, size), NEW b \in B, NEW c \in B, End(size, b) = c,
         NEW other \in [Units -> 0 .. Cap], other[b] = size[b] + size[c],
         \A d \in B \ {b, c} : other[d] = size[d]
  PROVE  Tiles(B \ {c}, other)
  <1>0. \A d \in B : /\ d \in Nat /\ size[d] \in Nat /\ size[d] > 0
                     /\ End(size, d) \in Nat /\ d < End(size, d)
    BY TilesTypes
  <1>1. /\ b < c /\ End(size, c) <= Cap /\ Cap \in Nat /\ b \in Units
        /\ End(size, b) = b + size[b] /\ End(size, c) = c + size[c]
        /\ size[b] \in Nat /\ size[b] > 0 /\ size[c] \in Nat
    BY TilesTypes
  <1>o. \A d, e \in B : d < e => End(size, d) <= e
    BY DEF Tiles
  <1>2. /\ other[b] = size[b] + size[c] /\ End(other, b) = End(size, c)
        /\ \A d \in B \ {b, c} : other[d] = size[d] /\ End(other, d) = End(size, d)
    BY <1>0, <1>1 DEF End
  <1>4. \A u \in Units : \E d \in B \ {c} : d <= u /\ u < End(other, d)
    <2>. SUFFICES ASSUME NEW u \in Units
                  PROVE  \E d \in B \ {c} : d <= u /\ u < End(other, d)
      OBVIOUS
    <2>1. PICK d \in B : d <= u /\ u < End(size, d)
      BY DEF Tiles
    <2>2. u \in Int
      BY DEF Units
    <2>3. CASE d \in {b, c}
      BY <1>0, <1>1, <1>2, <2>1, <2>2, <2>3
    <2>4. CASE d \notin {b, c}
      BY <1>2, <2>1, <2>4
    <2>. QED
      BY <2>3, <2>4
  <1>5. \A d, e \in B \ {c} : d < e => End(other, d) <= e
    <2>. SUFFICES ASSUME NEW d \in B \ {c}, NEW e \in B \ {c}, d < e
                  PROVE  End(other, d) <= e
      OBVIOUS
    <2>1. CASE d = b
      <3>1. c <= e /\ c # e
        BY <1>0, <1>1, <1>o, <2>1
      <3>. QED
        BY <1>0, <1>1, <1>2, <1>o, <2>1, <3>1
    <2>2. CASE d # b
      BY <1>2, <1>o, <2>2
    <2>. QED
      BY <2>1, <2>2
  <1>6. \A d \in B \ {c} : other[d] > 0 /\ End(other, d) \in (B \ {c}) \cup {Cap}
    <2>1. \A d \in B : End(size, d) \in B \cup {Cap}
      BY DEF Tiles
    <2>2. other[b] > 0 /\ End(other, b) \in (B \ {c}) \cup {Cap}
      <3>1. other[b] > 0
        <4>1. size[b] \in Nat /\ size[b] > 0 /\ size[c] \in Nat /\ other[b] = size[b] + size[c]
          BY <1>1, <1>2
        <4>. QED
          BY <4>1
      <3>2. End(size, c) \in B \cup {Cap} /\ End(size, c) # c
        BY <1>0, <2>1
      <3>. QED
        BY <1>2, <3>1, <3>2
    <2>3. ASSUME NEW d \in B \ {b, c}
          PROVE  other[d] > 0 /\ End(other, d) \in (B \ {c}) \cup {Cap}
      <3>1. other[d] > 0 /\ End(other, d) = End(size, d)
        BY <1>0, <1>2
      <3>2. End(size, d) # c
        <4>1. CASE d < b
          BY <1>0, <1>1, <1>o, <4>1
        <4>2. CASE d > b
          BY <1>0, <1>1, <1>o, <4>2
        <4>. QED
          BY <1>0, <4>1, <4>2
      <3>. QED
        BY <1>1, <2>1, <3>1, <3>2
    <2>. QED
      BY <2>2, <2>3
  <1>7. 0 \in B \ {c}
    BY <1>0, <1>1 DEF Tiles
  <1>. QED
    BY <1>4, <1>5, <1>6, <1>7 DEF Tiles

LEMMA JoinSizes ==
  ASSUME NEW B, NEW size, Tiles(B, size), NEW b \in B, NEW c \in B, End(size, b) = c
  PROVE  \E other \in [Units -> 0 .. Cap] :
            /\ other[b] = size[b] + size[c]
            /\ \A d \in B \ {b, c} : other[d] = size[d]
  <1>. DEFINE other == [size EXCEPT ![b] = size[b] + size[c]]
  <1>1. /\ End(size, c) <= Cap /\ Cap \in Nat /\ b \in Nat /\ b \in Units
        /\ End(size, b) = b + size[b] /\ End(size, c) = c + size[c]
        /\ size[b] \in Nat /\ size[c] \in Nat
    BY TilesTypes
  <1>2. size[b] + size[c] \in 0 .. Cap
    BY <1>1
  <1>3. size \in [Units -> 0 .. Cap]
    BY DEF Tiles
  <1>4. other \in [Units -> 0 .. Cap] /\ other[b] = size[b] + size[c]
        /\ \A d \in B \ {b, c} : other[d] = size[d]
    BY <1>1, <1>2, <1>3 DEF Tiles
  <1>. QED
    BY <1>4

\* What lies before a block is a block that ends there.
LEMMA BlockBefore ==
  ASSUME NEW B, NEW size, Tiles(B, size), NEW b \in B, b # 0
  PROVE  \E c \in B : c < b /\ End(size, c) = b /\ b - 1 = LastUnit(c, size[c])
  <1>0. \A d \in B : /\ d \in Nat /\ size[d] \in Nat /\ d < End(size, d)
                     /\ End(size, d) \in Nat /\ End(size, d) = d + size[d]
    BY TilesTypes
  <1>1. Cap \in Nat /\ b \in Nat /\ b > 0 /\ b - 1 \in Units
    BY TilesTypes DEF Units
  <1>2. PICK c \in B : c <= b - 1 /\ b - 1 < End(size, c)
    BY <1>1 DEF Tiles
  <1>3. c < b => End(size, c) <= b
    BY DEF Tiles
  <1>4. c < b /\ End(size, c) = b
    BY <1>0, <1>1, <1>2, <1>3
  <1>5. b - 1 = LastUnit(c, size[c])
    BY <1>0, <1>4 DEF LastUnit
  <1>. QED
    BY <1>4, <1>5
-----------------------------------------------------------------------------
(* The free list.                                                          *)

LEMMA InSet ==
  ASSUME NEW S, NEW list \in Seq(S)
  PROVE  /\ ToSet(list) \subseteq S
         /\ \A c : c \in ToSet(list) <=> \E i \in 1..Len(list) : list[i] = c
  BY DEF ToSet

LEMMA RemoveAtFacts ==
  ASSUME NEW S, NEW list \in Seq(S), IsInjective(list), NEW k \in 1..Len(list)
  PROVE  /\ RemoveAt(list, k) \in Seq(S) /\ IsInjective(RemoveAt(list, k))
         /\ ToSet(RemoveAt(list, k)) = ToSet(list) \ {list[k]}
  <1>. DEFINE front == SubSeq(list, 1, k - 1)
              back == SubSeq(list, k + 1, Len(list))
              rest == RemoveAt(list, k)
  <1>0. Len(list) \in Nat /\ k \in Nat
        /\ \A i \in 1..Len(list) : list[i] \in S
    OBVIOUS
  <1>1. /\ front \in Seq(S) /\ Len(front) = k - 1
        /\ \A i \in 1 .. k - 1 : front[i] = list[i]
    BY <1>0, SubSeqProperties
  <1>2. /\ back \in Seq(S) /\ Len(back) = Len(list) - k
        /\ \A i \in 1 .. Len(list) - k : back[i] = list[k + i]
    BY <1>0, SubSeqProperties
  <1>3. /\ rest \in Seq(S) /\ Len(rest) = Len(list) - 1
        /\ \A i \in 1 .. Len(list) - 1 :
              rest[i] = IF i < k THEN list[i] ELSE list[i + 1]
    <2>1. rest = front \o back
      BY DEF RemoveAt
    <2>. HIDE DEF front, back, rest
    <2>2. /\ rest \in Seq(S) /\ Len(rest) = Len(list) - 1
          /\ \A i \in 1 .. Len(list) - 1 :
               rest[i] = IF i <= k - 1 THEN front[i] ELSE back[i - (k - 1)]
      <3>1. /\ rest \in Seq(S) /\ Len(rest) = Len(front) + Len(back)
            /\ \A i \in 1 .. Len(front) + Len(back) : rest[i] =
                  IF i <= Len(front) THEN front[i] ELSE back[i - Len(front)]
        BY <1>1, <1>2, <2>1, ConcatProperties
      <3>2. Len(front) + Len(back) = Len(list) - 1
        BY <1>0, <1>1, <1>2
      <3>. QED
        BY <1>1, <3>1, <3>2
    <2>3. ASSUME NEW i \in 1 .. Len(list) - 1
          PROVE  rest[i] = IF i < k THEN list[i] ELSE list[i + 1]
      <3>1. CASE i < k
        BY <1>0, <1>1, <2>2, <3>1
      <3>2. CASE i >= k
        <4>1. i - (k - 1) \in 1 .. Len(list) - k /\ k + (i - (k - 1)) = i + 1
          BY <1>0, <3>2
        <4>. QED
          BY <1>0, <1>2, <2>2, <3>2, <4>1
      <3>. QED
        BY <1>0, <3>1, <3>2
    <2>. QED
      BY <2>2, <2>3
  <1>. HIDE DEF rest
  <1>4. IsInjective(rest)
    <2>. SUFFICES ASSUME NEW i \in DOMAIN rest, NEW j \in DOMAIN rest, rest[i] = rest[j]
                  PROVE  i = j
      BY DEF IsInjective
    <2>1. i \in 1 .. Len(list) - 1 /\ j \in 1 .. Len(list) - 1
      BY <1>3
    <2>2. \A m, n \in 1..Len(list) : list[m] = list[n] => m = n
      BY DEF IsInjective
    <2>. QED
      BY <1>0, <1>3, <2>1, <2>2
  <1>5. ToSet(rest) = ToSet(list) \ {list[k]}
    <2>1. ASSUME NEW i \in 1 .. Len(rest) PROVE rest[i] \in ToSet(list) \ {list[k]}
      <3>1. \A m, n \in 1..Len(list) : list[m] = list[n] => m = n
        BY DEF IsInjective
      <3>. QED
        BY <1>0, <1>3, <2>1, <3>1, InSet
    <2>2. ASSUME NEW i \in 1 .. Len(list), i # k PROVE list[i] \in ToSet(rest)
      <3>1. CASE i < k
        <4>1. i \in 1 .. Len(rest) /\ rest[i] = list[i]
          BY <1>0, <1>3, <3>1
        <4>. QED
          BY <1>3, <4>1, InSet
      <3>2. CASE i > k
        <4>1. i - 1 \in 1 .. Len(rest) /\ rest[i - 1] = list[i]
          BY <1>0, <1>3, <3>2
        <4>. QED
          BY <1>3, <4>1, InSet
      <3>. QED
        BY <1>0, <2>2, <3>1, <3>2
    <2>. QED
      BY <1>3, <2>1, <2>2, InSet
  <1>. QED
    BY <1>3, <1>4, <1>5 DEF rest

\* Every non-empty set of natural numbers has a least element.
LEMMA Least ==
  ASSUME NEW T \in SUBSET Nat, T # {}
  PROVE  \E i \in T : \A j \in T : i <= j
  <1>1. PICK i \in T : \A j \in T : ~ (<<j, i>> \in OpToRel(<, Nat))
    BY WFMin, NatLessThanWellFounded
  <1>2. \A j \in T : ~ (j < i)
    BY <1>1 DEF OpToRel
  <1>. QED
    BY <1>2

LEMMA RemoveFirstFacts ==
  ASSUME NEW S, NEW list \in Seq(S), IsInjective(list), NEW c
  PROVE  /\ RemoveFirst(list, c) \in Seq(S) /\ IsInjective(RemoveFirst(list, c))
         /\ ToSet(RemoveFirst(list, c)) = ToSet(list) \ {c}
  <1>1. CASE \E i \in 1..Len(list) : list[i] = c
    <2>. DEFINE I == {i \in 1..Len(list) : list[i] = c}
                k == Min(I)
    <2>1. k \in I
      <3>1. I \in SUBSET Nat /\ I # {}
        BY <1>1
      <3>2. \E i \in I : \A j \in I : i <= j
        BY <3>1, Least
      <3>. QED
        BY <3>2 DEF Min
    <2>2. RemoveFirst(list, c) = RemoveAt(list, k)
      BY <1>1 DEF RemoveFirst, SelectInSeq
    <2>. QED
      <3>1. k \in 1..Len(list) /\ list[k] = c
        BY <2>1
      <3>. HIDE DEF k
      <3>2. /\ RemoveAt(list, k) \in Seq(S) /\ IsInjective(RemoveAt(list, k))
            /\ ToSet(RemoveAt(list, k)) = ToSet(list) \ {c}
        BY <3>1, RemoveAtFacts
      <3>. QED
        BY <2>2, <3>2
  <1>2. CASE ~(\E i \in 1..Len(list) : list[i] = c)
    BY <1>2, InSet DEF RemoveFirst
  <1>. QED
    BY <1>1, <1>2

\* A block that is not on the list goes to the front of it.
LEMMA PushFacts ==
  ASSUME NEW S, NEW list \in Seq(S), IsInjective(list), NEW b \in S, b \notin ToSet(list)
  PROVE  /\ <<b>> \o list \in Seq(S) /\ IsInjective(<<b>> \o list)
         /\ ToSet(<<b>> \o list) = ToSet(list) \cup {b}
  <1>. DEFINE more == <<b>> \o list
  <1>1. /\ more \in Seq(S) /\ Len(more) = Len(list) + 1 /\ Len(list) \in Nat
        /\ more[1] = b /\ \A i \in 1..Len(list) : more[i + 1] = list[i]
    OBVIOUS
  <1>2. \A i \in 1..Len(more) : more[i] = IF i = 1 THEN b ELSE list[i - 1]
    OBVIOUS
  <1>. HIDE DEF more
  <1>3. \A i \in 1..Len(list) : list[i] # b
    BY InSet
  <1>4. \A m, n \in 1..Len(list) : list[m] = list[n] => m = n
    BY DEF IsInjective
  <1>5. IsInjective(more)
    <2>. SUFFICES ASSUME NEW i \in 1..Len(more), NEW j \in 1..Len(more), more[i] = more[j]
                  PROVE  i = j
      BY <1>1 DEF IsInjective
    <2>1. CASE i = 1 \/ j = 1
      <3>1. ASSUME NEW m \in 1..Len(more), m # 1 PROVE more[m] # b
        BY <1>1, <1>2, <1>3, <3>1
      <3>. QED
        BY <1>1, <2>1, <3>1
    <2>2. CASE i # 1 /\ j # 1
      <3>1. i - 1 \in 1..Len(list) /\ j - 1 \in 1..Len(list)
        BY <1>1, <2>2
      <3>2. list[i - 1] = list[j - 1]
        BY <1>2, <2>2
      <3>3. i - 1 = j - 1
        BY <1>4, <3>1, <3>2
      <3>. QED
        BY <3>3
    <2>. QED
      BY <2>1, <2>2
  <1>6. ToSet(more) = ToSet(list) \cup {b}
    <2>1. ASSUME NEW i \in 1..Len(more) PROVE more[i] \in ToSet(list) \cup {b}
      BY <1>1, <1>2, InSet
    <2>2. ASSUME NEW i \in 1..Len(list) PROVE list[i] \in ToSet(more)
      <3>1. i + 1 \in 1..Len(more)
        BY <1>1
      <3>. QED
        BY <1>1, <3>1, InSet
    <2>3. b \in ToSet(more)
      <3>1. 1 \in 1..Len(more)
        BY <1>1
      <3>. QED
        BY <1>1, <3>1, InSet
    <2>. QED
      BY <1>1, <2>1, <2>2, <2>3, InSet
  <1>. QED
    BY <1>1, <1>5, <1>6 DEF more

-----------------------------------------------------------------------------
(* A pool, and the blocks P of it that are handed out.                     *)

Tags == [size : 0 .. Cap, used : BOOLEAN]
Pools == [hdr : [Units -> Tags], ftr : [Units -> Tags], free : Seq(Units)]
Sizes(s) == [a \in Units |-> s.hdr[a].size]
Free(s) == ToSet(s.free)

Shape(s, P) ==
    /\ s \in Pools /\ P \subseteq Units
    /\ Tiles(P \cup Free(s), Sizes(s))
    /\ \A b \in P \cup Free(s) :
          /\ Sizes(s)[b] >= MIN_BLOCK
          /\ s.ftr[LastUnit(b, Sizes(s)[b])] = s.hdr[b]
          /\ s.hdr[b].used <=> b \in P
    /\ P \cap Free(s) = {} /\ IsInjective(s.free)
    /\ \A b \in Free(s) : End(Sizes(s), b) \notin Free(s)

LEMMA PoolTypes ==
  ASSUME NEW s \in Pools
  PROVE  /\ s.hdr \in [Units -> Tags] /\ s.ftr \in [Units -> Tags]
         /\ s.free \in Seq(Units) /\ Free(s) \subseteq Units
         /\ Sizes(s) \in [Units -> 0 .. Cap]
         /\ \A a \in Units : Sizes(s)[a] = s.hdr[a].size
  BY InSet DEF Pools, Free, Sizes, Tags

\* Where the tags of a block are.
LEMMA TagFacts ==
  ASSUME NEW n \in 0 .. Cap
  PROVE  /\ FreeTag(n) \in Tags /\ FreeTag(n).size = n /\ ~FreeTag(n).used
         /\ UsedTag(n) \in Tags /\ UsedTag(n).size = n /\ UsedTag(n).used
  BY DEF FreeTag, UsedTag, Tags

LEMMA MarkFacts ==
  ASSUME NEW s \in Pools, NEW b \in Units, NEW tag \in Tags, tag.size > 0,
         b + tag.size <= Cap
  PROVE  /\ Mark(s, b, tag) \in Pools /\ Mark(s, b, tag).free = s.free
         /\ Mark(s, b, tag).hdr[b] = tag
         /\ Mark(s, b, tag).ftr[LastUnit(b, tag.size)] = tag
         /\ \A a \in Units : a # b => Mark(s, b, tag).hdr[a] = s.hdr[a]
         /\ \A a \in Units : a # LastUnit(b, tag.size) => Mark(s, b, tag).ftr[a] = s.ftr[a]
  <1>1. Cap \in Nat /\ b \in Nat /\ tag.size \in Nat /\ LastUnit(b, tag.size) \in Units
    BY CapNat DEF Units, LastUnit, Tags
  <1>. QED
    BY <1>1 DEF Mark, Pools

LEMMA MarkFreeFacts ==
  ASSUME NEW s \in Pools, NEW b \in Units, NEW n \in Nat, n > 0, b + n <= Cap
  PROVE  /\ Mark(s, b, FreeTag(n)) \in Pools /\ Mark(s, b, FreeTag(n)).free = s.free
         /\ Mark(s, b, FreeTag(n)).hdr[b] = FreeTag(n)
         /\ Mark(s, b, FreeTag(n)).ftr[LastUnit(b, n)] = FreeTag(n)
         /\ \A a \in Units : a # b => Mark(s, b, FreeTag(n)).hdr[a] = s.hdr[a]
         /\ \A a \in Units : a # LastUnit(b, n) => Mark(s, b, FreeTag(n)).ftr[a] = s.ftr[a]
  <1>1. n \in 0 .. Cap
    BY CapNat DEF Units
  <1>2. FreeTag(n) \in Tags /\ FreeTag(n).size = n
    BY <1>1, TagFacts
  <1>. QED
    BY <1>2, MarkFacts

LEMMA GrantFacts ==
  ASSUME NEW s \in Pools, NEW b \in Units, NEW n \in Nat, n > 0, b + n <= Cap
  PROVE  /\ Grant(s, b, n) \in Pools /\ Grant(s, b, n).free = s.free
         /\ Grant(s, b, n).hdr[b] = UsedTag(n)
         /\ Grant(s, b, n).ftr[LastUnit(b, n)] = UsedTag(n)
         /\ \A a \in Units : ~Inside(a, b, n) => /\ Grant(s, b, n).hdr[a] = s.hdr[a]
                                                /\ Grant(s, b, n).ftr[a] = s.ftr[a]
  <1>. DEFINE h == [a \in Units |-> IF Inside(a, b, n) THEN Data ELSE s.hdr[a]]
              f == [a \in Units |-> IF Inside(a, b, n) THEN Data ELSE s.ftr[a]]
              r == [s EXCEPT !.hdr = h, !.ftr = f]
  <1>1. Cap \in Nat /\ b \in Nat /\ LastUnit(b, n) \in Units /\ Inside(b, b, n)
        /\ 0 \in 0 .. Cap /\ n \in 0 .. Cap
        /\ Inside(LastUnit(b, n), b, n)
    BY CapNat DEF Units, LastUnit, Inside
  <1>2. Data \in Tags
    BY <1>1, TagFacts DEF Data
  <1>3. r \in Pools
    BY <1>2, PoolTypes DEF Pools
  <1>4. Grant(s, b, n) = Mark(r, b, UsedTag(n))
    BY DEF Grant
  <1>5. \A a \in Units : ~Inside(a, b, n) => r.hdr[a] = s.hdr[a] /\ r.ftr[a] = s.ftr[a]
    BY DEF Pools
  <1>6. r.free = s.free
    BY DEF Pools
  <1>. HIDE DEF r
  <1>7. /\ Mark(r, b, UsedTag(n)) \in Pools /\ Mark(r, b, UsedTag(n)).free = r.free
        /\ Mark(r, b, UsedTag(n)).hdr[b] = UsedTag(n)
        /\ Mark(r, b, UsedTag(n)).ftr[LastUnit(b, n)] = UsedTag(n)
        /\ \A a \in Units : a # b => Mark(r, b, UsedTag(n)).hdr[a] = r.hdr[a]
        /\ \A a \in Units : a # LastUnit(b, n) => Mark(r, b, UsedTag(n)).ftr[a] = r.ftr[a]
    <2>1. UsedTag(n) \in Tags /\ UsedTag(n).size = n
      BY <1>1, TagFacts
    <2>. QED
      BY <1>3, <2>1, MarkFacts
  <1>. QED
    BY <1>1, <1>4, <1>5, <1>6, <1>7

\* The tags of one block lie outside every other.
LEMMA TagsApart ==
  ASSUME NEW B, NEW size, Tiles(B, size), NEW b \in B, NEW c \in B, b # c
  PROVE  /\ ~Inside(c, b, size[b]) /\ ~Inside(LastUnit(c, size[c]), b, size[b])
         /\ LastUnit(c, size[c]) \in Units
  <1>1. /\ b \in Nat /\ c \in Nat /\ size[b] \in Nat /\ size[c] \in Nat
        /\ size[b] > 0 /\ size[c] > 0 /\ Cap \in Nat /\ c + size[c] <= Cap
    BY TilesTypes
  <1>2. (b < c => b + size[b] <= c) /\ (c < b => c + size[c] <= b)
    BY DEF Tiles, End
  <1>. QED
    BY <1>1, <1>2 DEF Inside, LastUnit, Units

LEMMA ShapeTypes ==
  ASSUME NEW s, NEW P, Shape(s, P), NEW b \in P \cup Free(s)
  PROVE  /\ s \in Pools /\ b \in Units /\ b \in Nat /\ Cap \in Nat
         /\ Sizes(s)[b] = s.hdr[b].size /\ Sizes(s)[b] \in Nat /\ Sizes(s)[b] >= 2
         /\ b + Sizes(s)[b] \in Nat /\ b + Sizes(s)[b] <= Cap
         /\ End(Sizes(s), b) = b + Sizes(s)[b]
         /\ s.hdr[b] \in Tags
         /\ s.ftr[LastUnit(b, Sizes(s)[b])] = s.hdr[b]
  <1>1. s \in Pools /\ Tiles(P \cup Free(s), Sizes(s))
    BY DEF Shape
  <1>2. b \in Units /\ b \in Nat /\ Cap \in Nat /\ Sizes(s)[b] \in Nat
        /\ b + Sizes(s)[b] \in Nat /\ b + Sizes(s)[b] <= Cap
        /\ End(Sizes(s), b) = b + Sizes(s)[b]
    BY <1>1, TilesTypes
  <1>3. s.hdr[b] \in Tags /\ Sizes(s)[b] = s.hdr[b].size
    BY <1>1, <1>2, PoolTypes
  <1>4. Sizes(s)[b] >= 2 /\ (s.hdr[b].used <=> b \in P)
        /\ s.ftr[LastUnit(b, Sizes(s)[b])] = s.hdr[b]
    BY DEF Shape, MIN_BLOCK
  <1>. QED
    BY <1>1, <1>2, <1>3, <1>4

\* What a request takes.
LEMMA NeedFacts ==
  ASSUME NEW n \in Nat
  PROVE  Need(n) \in Nat /\ Need(n) >= n + OVERHEAD /\ Need(n) >= MIN_BLOCK
  BY DEF Need, OVERHEAD, MIN_BLOCK

\* Pool t is s with block b handed out for a request of n.
Fresh(s, P, n, t, b) ==
    /\ b \in Units \ P /\ Shape(t, P \cup {b})
    /\ Sizes(t)[b] >= Need(n)
    /\ \A p \in P : Sizes(t)[p] = Sizes(s)[p]
    /\ \A a \in Units : ~Inside(a, b, Sizes(t)[b]) /\ ~s.hdr[a].used => ~t.hdr[a].used

LEMMA AllocSplits ==
  ASSUME NEW s, NEW P, Shape(s, P), NEW n \in Nat, NEW b \in Free(s), NEW rem \in Nat,
         rem >= MIN_BLOCK, rem = Sizes(s)[b] - Need(n)
  PROVE  Fresh(s, P, n, Grant(Mark(s, b, FreeTag(rem)), b + rem, Need(n)), b + rem)
  <1>. DEFINE B == P \cup Free(s)
              size == Sizes(s)
              new == b + rem
              need == Need(n)
              m == Mark(s, b, FreeTag(rem))
              g == Grant(m, new, need)
  <1>1. /\ s \in Pools /\ b \in Units /\ b \in Nat /\ Cap \in Nat /\ b \notin P
        /\ size[b] \in Nat /\ b + size[b] <= Cap /\ Tiles(B, size) /\ b \in B
    BY ShapeTypes DEF Shape
  <1>2. /\ need \in Nat /\ need >= 2 /\ rem >= 2 /\ rem + need = size[b] /\ new \in Nat
        /\ b + rem <= Cap /\ new + need <= Cap /\ new \in Units /\ b < new
    BY <1>1, NeedFacts DEF MIN_BLOCK, Units
  <1>. HIDE DEF need, new
  <1>3. /\ m \in Pools /\ m.free = s.free
        /\ m.hdr[b] = FreeTag(rem) /\ m.ftr[LastUnit(b, rem)] = FreeTag(rem)
        /\ \A a \in Units : a # b => m.hdr[a] = s.hdr[a]
        /\ \A a \in Units : a # LastUnit(b, rem) => m.ftr[a] = s.ftr[a]
    <2>1. rem > 0 /\ b + rem <= Cap
      BY <1>2
    <2>. QED
      BY <1>1, <2>1, MarkFreeFacts
  <1>. HIDE DEF m
  <1>4. /\ g \in Pools /\ g.free = s.free
        /\ g.hdr[new] = UsedTag(need) /\ g.ftr[LastUnit(new, need)] = UsedTag(need)
        /\ \A a \in Units : ~Inside(a, new, need) => /\ g.hdr[a] = m.hdr[a]
                                                   /\ g.ftr[a] = m.ftr[a]
    <2>1. need > 0 /\ new + need <= Cap
      BY <1>2
    <2>. QED
      BY <1>2, <1>3, <2>1, GrantFacts
  <1>. HIDE DEF g
  <1>6. /\ ~Inside(b, new, need) /\ ~Inside(LastUnit(b, rem), new, need)
        /\ LastUnit(b, rem) \in Units
    BY <1>1, <1>2 DEF Inside, LastUnit, Units, new
  <1>7. g.hdr[b] = FreeTag(rem) /\ g.ftr[LastUnit(b, rem)] = FreeTag(rem)
    BY <1>1, <1>3, <1>4, <1>6
  <1>8. ASSUME NEW c \in B \ {b}
        PROVE  /\ g.hdr[c] = s.hdr[c]
               /\ g.ftr[LastUnit(c, size[c])] = s.ftr[LastUnit(c, size[c])]
    <2>1. /\ ~Inside(c, b, size[b]) /\ ~Inside(LastUnit(c, size[c]), b, size[b])
          /\ LastUnit(c, size[c]) \in Units /\ c \in Units
      BY <1>1, <1>8, TagsApart, ShapeTypes
    <2>2. ASSUME NEW a \in Units, ~Inside(a, b, size[b])
          PROVE  a # b /\ a # LastUnit(b, rem) /\ ~Inside(a, new, need)
      BY <1>1, <1>2, <2>2 DEF Inside, LastUnit, Units, new
    <2>. QED
      BY <1>3, <1>4, <2>1, <2>2
  <1>9. /\ Free(g) = Free(s) /\ Sizes(g) \in [Units -> 0 .. Cap]
        /\ \A a \in Units : Sizes(g)[a] = g.hdr[a].size
    BY <1>4, PoolTypes DEF Free
  <1>10. /\ Sizes(g)[b] = rem /\ Sizes(g)[new] = need
         /\ \A c \in B \ {b} : Sizes(g)[c] = size[c]
    <2>1. FreeTag(rem).size = rem /\ UsedTag(need).size = need
      BY DEF FreeTag, UsedTag
    <2>2. \A c \in B \ {b} : c \in Units /\ size[c] = s.hdr[c].size
      BY ShapeTypes
    <2>3. Sizes(g)[b] = rem /\ Sizes(g)[new] = need
      BY <1>1, <1>2, <1>4, <1>7, <1>9, <2>1
    <2>. QED
      BY <1>8, <1>9, <2>2, <2>3
  <1>11. new \in Units \ B /\ Tiles(B \cup {new}, Sizes(g))
    <2>1. rem \in Nat \ {0} /\ need \in Nat \ {0}
      BY <1>1, <1>2
    <2>2. new = b + rem
      BY DEF new
    <2>. QED
      <3>. DEFINE z == Sizes(g)
      <3>1. /\ Tiles(B, size) /\ b \in B /\ rem + need = size[b] /\ z \in [Units -> 0 .. Cap]
            /\ z[b] = rem /\ z[new] = need /\ \A c \in B \ {b} : z[c] = size[c]
        BY <1>1, <1>2, <1>9, <1>10
      <3>. HIDE DEF B, size, z
      <3>2. Tiles(B \cup {new}, z)
        BY <2>1, <2>2, <3>1, SplitTiles
      <3>3. new \in Units \ B
        BY <2>1, <2>2, <3>1, SplitFresh
      <3>. QED
        BY <3>2, <3>3 DEF B, size, z
  <1>12. Shape(g, P \cup {new})
    <2>1. (P \cup {new}) \cup Free(g) = B \cup {new}
      BY <1>9
    <2>2. ASSUME NEW c \in B \cup {new}
          PROVE  /\ Sizes(g)[c] >= MIN_BLOCK
                 /\ g.ftr[LastUnit(c, Sizes(g)[c])] = g.hdr[c]
                 /\ g.hdr[c].used <=> c \in P \cup {new}
      <3>1. CASE c = new
        BY <1>2, <1>4, <1>10, <3>1 DEF FreeTag, UsedTag, MIN_BLOCK
      <3>2. CASE c = b
        BY <1>1, <1>2, <1>7, <1>10, <3>2 DEF FreeTag, UsedTag, MIN_BLOCK
      <3>3. CASE c \in B \ {b}
        <4>1. /\ Sizes(s)[c] >= MIN_BLOCK /\ s.ftr[LastUnit(c, Sizes(s)[c])] = s.hdr[c]
              /\ s.hdr[c].used <=> c \in P
          BY <3>3 DEF Shape
        <4>. QED
          BY <1>8, <1>10, <1>11, <3>3, <4>1
      <3>. QED
        BY <3>1, <3>2, <3>3
    <2>3. (P \cup {new}) \cap Free(g) = {} /\ IsInjective(g.free)
      BY <1>4, <1>9, <1>11 DEF Shape
    <2>4. ASSUME NEW c \in Free(g) PROVE End(Sizes(g), c) \notin Free(g)
      <3>1. CASE c = b
        BY <1>9, <1>10, <1>11, <3>1 DEF End, new
      <3>2. CASE c # b
        <4>1. End(Sizes(s), c) \notin Free(s)
          BY <1>9 DEF Shape
        <4>. QED
          BY <1>9, <1>10, <3>2, <4>1 DEF End
      <3>. QED
        BY <3>1, <3>2
    <2>5. P \cup {new} \subseteq Units
      BY <1>2 DEF Shape
    <2>. QED
      BY <1>4, <1>11, <2>1, <2>2, <2>3, <2>4, <2>5 DEF Shape
  <1>13. \A a \in Units : ~Inside(a, new, need) /\ ~s.hdr[a].used => ~g.hdr[a].used
    BY <1>3, <1>4, <1>7 DEF FreeTag
  <1>. QED
    <2>1. Sizes(g)[new] >= need /\ \A p \in P : Sizes(g)[p] = Sizes(s)[p]
      BY <1>1, <1>2, <1>10
    <2>2. Fresh(s, P, n, g, new)
      BY <1>2, <1>10, <1>11, <1>12, <1>13, <2>1 DEF Fresh, need
    <2>. QED
      BY <2>2 DEF g, m, need, new

LEMMA AllocTakesAll ==
  ASSUME NEW s, NEW P, Shape(s, P), NEW n \in Nat, NEW b \in Free(s),
         Sizes(s)[b] >= Need(n), NEW rest \in Seq(Units), IsInjective(rest),
         ToSet(rest) = Free(s) \ {b}
  PROVE  Fresh(s, P, n, Grant([s EXCEPT !.free = rest], b, s.hdr[b].size), b)
  <1>. DEFINE B == P \cup Free(s)
              z == Sizes(s)
              m == [s EXCEPT !.free = rest]
              g == Grant(m, b, z[b])
  <1>1. s \in Pools
    BY DEF Shape
  <1>2. /\ b \in Units /\ b \in Nat /\ Cap \in Nat /\ b \notin P /\ z[b] = s.hdr[b].size
        /\ z[b] \in Nat /\ z[b] >= 2 /\ b + z[b] <= Cap /\ Tiles(B, z) /\ b \in B
    BY <1>1, ShapeTypes DEF Shape
  <1>3. /\ m \in Pools /\ m.hdr = s.hdr /\ m.ftr = s.ftr /\ m.free = rest
        /\ IsInjective(m.free) /\ Free(m) = Free(s) \ {b}
    BY <1>1 DEF Pools, Free
  <1>. HIDE DEF m
  <1>4. /\ g \in Pools /\ g.free = m.free
        /\ g.hdr[b] = UsedTag(z[b]) /\ g.ftr[LastUnit(b, z[b])] = UsedTag(z[b])
        /\ \A a \in Units : ~Inside(a, b, z[b]) => /\ g.hdr[a] = m.hdr[a]
                                                 /\ g.ftr[a] = m.ftr[a]
    <2>1. z[b] > 0 /\ b + z[b] <= Cap
      BY <1>2
    <2>. QED
      BY <1>2, <1>3, <2>1, GrantFacts
  <1>. HIDE DEF g
  <1>5. ASSUME NEW c \in B \ {b}
        PROVE  /\ g.hdr[c] = s.hdr[c]
               /\ g.ftr[LastUnit(c, z[c])] = s.ftr[LastUnit(c, z[c])]
    <2>1. /\ ~Inside(c, b, z[b]) /\ ~Inside(LastUnit(c, z[c]), b, z[b])
          /\ LastUnit(c, z[c]) \in Units /\ c \in Units
      BY <1>2, <1>5, TagsApart, ShapeTypes
    <2>. QED
      BY <1>3, <1>4, <2>1
  <1>6. /\ Free(g) = Free(s) \ {b} /\ Sizes(g) \in [Units -> 0 .. Cap]
        /\ \A a \in Units : Sizes(g)[a] = g.hdr[a].size
    BY <1>3, <1>4, PoolTypes DEF Free
  <1>7. \A c \in B : Sizes(g)[c] = z[c]
    <2>1. \A c \in B : c \in Units /\ z[c] = s.hdr[c].size
      BY ShapeTypes
    <2>2. Sizes(g)[b] = z[b]
      BY <1>2, <1>4, <1>6 DEF UsedTag
    <2>. QED
      BY <1>5, <1>6, <2>1, <2>2
  <1>8. Tiles(B, Sizes(g))
    <2>. DEFINE w == Sizes(g)
    <2>1. w \in [Units -> 0 .. Cap] /\ Tiles(B, z) /\ \A c \in B : w[c] = z[c]
      BY <1>2, <1>6, <1>7
    <2>. HIDE DEF w, B, z
    <2>. QED
      BY <2>1, TilesAgree DEF w
  <1>9. Shape(g, P \cup {b})
    <2>1. (P \cup {b}) \cup Free(g) = B
      BY <1>2, <1>6
    <2>2. ASSUME NEW c \in B
          PROVE  /\ Sizes(g)[c] >= MIN_BLOCK
                 /\ g.ftr[LastUnit(c, Sizes(g)[c])] = g.hdr[c]
                 /\ g.hdr[c].used <=> c \in P \cup {b}
      <3>1. CASE c = b
        BY <1>2, <1>4, <1>7, <3>1 DEF UsedTag, MIN_BLOCK
      <3>2. CASE c # b
        <4>1. /\ Sizes(s)[c] >= MIN_BLOCK /\ s.ftr[LastUnit(c, Sizes(s)[c])] = s.hdr[c]
              /\ s.hdr[c].used <=> c \in P
          BY DEF Shape
        <4>. QED
          BY <1>5, <1>7, <3>2, <4>1
      <3>. QED
        BY <3>1, <3>2
    <2>3. (P \cup {b}) \cap Free(g) = {} /\ IsInjective(g.free)
      BY <1>3, <1>4, <1>6 DEF Shape
    <2>4. ASSUME NEW c \in Free(g) PROVE End(Sizes(g), c) \notin Free(g)
      <3>1. End(Sizes(s), c) \notin Free(s)
        BY <1>6 DEF Shape
      <3>. QED
        BY <1>6, <1>7, <3>1 DEF End
    <2>5. P \cup {b} \subseteq Units
      BY <1>2 DEF Shape
    <2>. QED
      BY <1>4, <1>8, <2>1, <2>2, <2>3, <2>4, <2>5 DEF Shape
  <1>10. \A a \in Units : ~Inside(a, b, z[b]) /\ ~s.hdr[a].used => ~g.hdr[a].used
    BY <1>3, <1>4
  <1>. QED
    <2>1. Fresh(s, P, n, g, b)
      BY <1>2, <1>7, <1>9, <1>10 DEF Fresh
    <2>. QED
      BY <1>2, <2>1 DEF g, m

\* arena_alloc keeps the shape, and hands out a new block that is large enough.
LEMMA AllocFresh ==
  ASSUME NEW s, NEW P, Shape(s, P), NEW n \in Nat, NEW i \in FirstFit(s, n)
  PROVE  Fresh(s, P, n, AllocAt(s, n, i).pool, AllocAt(s, n, i).at)
  <1>. DEFINE b == s.free[i]
              rem == s.hdr[b].size - Need(n)
  <1>1. s \in Pools /\ s.free \in Seq(Units) /\ i \in 1..Len(s.free) /\ b \in Free(s)
    BY PoolTypes, InSet DEF Shape, Free, FirstFit
  <1>2. Sizes(s)[b] = s.hdr[b].size /\ Sizes(s)[b] \in Nat
    BY <1>1, ShapeTypes
  <1>3. Need(n) \in Nat /\ Sizes(s)[b] >= Need(n)
    BY <1>2, NeedFacts DEF FirstFit
  <1>4. rem \in Nat /\ rem = Sizes(s)[b] - Need(n)
    BY <1>2, <1>3
  <1>5. CASE rem >= MIN_BLOCK
    <2>1. Fresh(s, P, n, Grant(Mark(s, b, FreeTag(rem)), b + rem, Need(n)), b + rem)
      BY <1>1, <1>4, <1>5, AllocSplits
    <2>2. /\ AllocAt(s, n, i).pool = Grant(Mark(s, b, FreeTag(rem)), b + rem, Need(n))
          /\ AllocAt(s, n, i).at = b + rem
      BY <1>5 DEF AllocAt
    <2>. QED
      BY <2>1, <2>2
  <1>6. CASE ~(rem >= MIN_BLOCK)
    <2>1. Fresh(s, P, n, Grant([s EXCEPT !.free = RemoveAt(@, i)], b, s.hdr[b].size), b)
      <3>1. IsInjective(s.free) /\ Free(s) = ToSet(s.free)
        BY DEF Shape, Free
      <3>2. /\ RemoveAt(s.free, i) \in Seq(Units) /\ IsInjective(RemoveAt(s.free, i))
            /\ ToSet(RemoveAt(s.free, i)) = Free(s) \ {b}
        BY <1>1, <3>1, RemoveAtFacts
      <3>. QED
        BY <1>1, <1>3, <3>2, AllocTakesAll
    <2>2. /\ AllocAt(s, n, i).pool = Grant([s EXCEPT !.free = RemoveAt(@, i)], b, s.hdr[b].size)
          /\ AllocAt(s, n, i).at = b
      BY <1>6 DEF AllocAt
    <2>. QED
      BY <2>1, <2>2
  <1>. QED
    BY <1>5, <1>6

-----------------------------------------------------------------------------
(* Freeing.                                                                *)

\* The tags tell whether the neighbours are free: a header whether the block
\* behind is, and the footer before b where the block in front begins.
LEMMA NextFree ==
  ASSUME NEW s, NEW P, Shape(s, P), NEW b \in P, NEW next, next = b + s.hdr[b].size
  PROVE  /\ End(Sizes(s), b) = next /\ b < next
         /\ (next < Cap /\ ~s.hdr[next].used) <=> next \in Free(s)
  <1>1. End(Sizes(s), b) = next /\ b < next /\ next \in Nat
    BY ShapeTypes
  <1>2. next \in P \cup Free(s) \cup {Cap} /\ P \cap Free(s) = {}
    BY <1>1 DEF Shape, Tiles
  <1>3. \A c \in P \cup Free(s) : c < Cap
    BY ShapeTypes, TilesTypes DEF Shape
  <1>4. \A c \in P \cup Free(s) : s.hdr[c].used <=> c \in P
    BY DEF Shape
  <1>5. Cap \in Nat
    BY CapNat
  <1>. QED
    BY <1>1, <1>2, <1>3, <1>4, <1>5

\* The footer before a block tells where the one in front begins.
LEMMA InFront ==
  ASSUME NEW s, NEW P, Shape(s, P), NEW b \in P, b # 0
  PROVE  \E c \in P \cup Free(s) : c < b /\ End(Sizes(s), c) = b /\ b - s.ftr[b - 1].size = c
  <1>. DEFINE z == Sizes(s)
              B == P \cup Free(s)
  <1>1. Tiles(B, z) /\ b \in B
    BY DEF Shape
  <1>2. \A c \in B : /\ c \in Nat /\ z[c] \in Nat /\ z[c] = s.hdr[c].size
                     /\ End(z, c) = c + z[c] /\ s.ftr[LastUnit(c, z[c])] = s.hdr[c]
    BY ShapeTypes
  <1>. HIDE DEF z, B
  <1>3. PICK c \in B : c < b /\ End(z, c) = b /\ b - 1 = LastUnit(c, z[c])
    BY <1>1, BlockBefore
  <1>4. s.ftr[b - 1].size = z[c]
    BY <1>2, <1>3
  <1>5. b = c + z[c] /\ c \in Nat /\ z[c] \in Nat
    BY <1>2, <1>3
  <1>6. b - z[c] = c
    BY <1>5
  <1>. QED
    BY <1>3, <1>4, <1>6 DEF z, B

\* No two blocks end at the same place.
LEMMA EndsApart ==
  ASSUME NEW B, NEW size, Tiles(B, size), NEW c \in B, NEW d \in B,
         End(size, c) = End(size, d)
  PROVE  c = d
  <1>1. /\ c \in Nat /\ d \in Nat /\ c < End(size, c) /\ d < End(size, d)
        /\ End(size, c) \in Nat
    BY TilesTypes
  <1>2. (c < d => End(size, c) <= d) /\ (d < c => End(size, d) <= c)
    BY DEF Tiles
  <1>. QED
    BY <1>1, <1>2

LEMMA PrevFree ==
  ASSUME NEW s, NEW P, Shape(s, P), NEW b \in P, NEW prev,
         prev = IF b = 0 THEN 0 ELSE b - s.ftr[b - 1].size
  PROVE  IF b > 0 /\ prev >= 0 /\ ~s.hdr[prev].used
         THEN prev \in Free(s) /\ End(Sizes(s), prev) = b /\ prev < b
         ELSE \A f \in Free(s) : End(Sizes(s), f) # b
  <1>1. Tiles(P \cup Free(s), Sizes(s)) /\ P \cap Free(s) = {}
        /\ \A c \in P \cup Free(s) : s.hdr[c].used <=> c \in P
    BY DEF Shape
  <1>2. b \in Nat
    BY ShapeTypes
  <1>3. CASE b = 0
    <2>1. ASSUME NEW f \in Free(s) PROVE End(Sizes(s), f) # b
      <3>1. f \in P \cup Free(s)
        OBVIOUS
      <3>2. f \in Nat /\ f < End(Sizes(s), f)
        BY <1>1, <3>1, TilesTypes
      <3>. QED
        BY <1>3, <3>2
    <2>. QED
      BY <1>3, <2>1
  <1>4. CASE b # 0
    <2>1. PICK c \in P \cup Free(s) :
             c < b /\ End(Sizes(s), c) = b /\ b - s.ftr[b - 1].size = c
      BY <1>4, InFront
    <2>2. prev = c
      BY <1>4, <2>1
    <2>3. c \in Nat /\ b > 0 /\ c >= 0
      <3>1. c \in Nat
        BY ShapeTypes
      <3>. QED
        BY <1>2, <1>4, <3>1
    <2>4. CASE s.hdr[c].used
      <3>1. ASSUME NEW f \in Free(s), End(Sizes(s), f) = b PROVE FALSE
        <4>1. f \in P \cup Free(s) /\ f # c
          BY <1>1, <2>4
        <4>2. f = c
          BY <1>1, <2>1, <3>1, <4>1, EndsApart
        <4>. QED
          BY <4>1, <4>2
      <3>. QED
        BY <2>2, <2>4, <3>1
    <2>5. CASE ~s.hdr[c].used
      <3>1. c \in Free(s)
        BY <1>1, <2>5
      <3>. QED
        BY <2>1, <2>2, <2>3, <2>5, <3>1
    <2>. QED
      BY <2>4, <2>5
  <1>. QED
    BY <1>3, <1>4

\* Pool t is s with block b given back.
Returned(s, P, t, b) ==
    /\ Shape(t, P \ {b}) /\ ~t.hdr[b].used
    /\ \A p \in P \ {b} : Sizes(t)[p] = Sizes(s)[p]
    /\ \A a \in Units : ~s.hdr[a].used => ~t.hdr[a].used

LEMMA ReleaseReturns ==
  ASSUME NEW s, NEW P, Shape(s, P), NEW b \in P
  PROVE  Returned(s, P, Release(s, b), b)
  <1>. DEFINE z == Sizes(s)
              B == P \cup Free(s)
              size == s.hdr[b].size
              next == b + size
              joinsNext == next < Cap /\ ~s.hdr[next].used
              prev == IF b = 0 THEN 0 ELSE b - s.ftr[b - 1].size
              joinsPrev == b > 0 /\ prev >= 0 /\ ~s.hdr[prev].used
              first == IF joinsPrev THEN prev ELSE b
              total == size + (IF joinsNext THEN s.hdr[next].size ELSE 0)
                            + (IF joinsPrev THEN s.hdr[prev].size ELSE 0)
              list == Unlink(Unlink(s.free, joinsNext, next), joinsPrev, prev)
              m == [s EXCEPT !.hdr[b] = FreeTag(size), !.free = <<first>> \o list]
              t == Mark(m, first, FreeTag(total))
              joined == {c \in {next} : joinsNext} \cup {c \in {b} : joinsPrev}
  <1>0. t = Release(s, b)
    BY DEF Release
  <1>1. /\ s \in Pools /\ P \subseteq Units /\ Tiles(B, z) /\ P \cap Free(s) = {}
        /\ IsInjective(s.free) /\ Free(s) = ToSet(s.free) /\ b \in B
    BY DEF Shape, Free
  <1>2. /\ s.hdr \in [Units -> Tags] /\ s.ftr \in [Units -> Tags]
        /\ s.free \in Seq(Units) /\ Free(s) \subseteq Units
    BY <1>1, PoolTypes
  <1>3. \A c \in B : /\ c \in Units /\ c \in Nat /\ z[c] = s.hdr[c].size /\ z[c] \in Nat
                     /\ z[c] >= 2 /\ c + z[c] \in Nat /\ c + z[c] <= Cap /\ Cap \in Nat
                     /\ End(z, c) = c + z[c]
    BY ShapeTypes
  <1>4. /\ End(z, b) = next /\ b < next /\ size = z[b]
        /\ joinsNext <=> next \in Free(s)
    BY <1>3, NextFree
  <1>5. IF joinsPrev THEN prev \in Free(s) /\ End(z, prev) = b /\ prev < b
                     ELSE \A f \in Free(s) : End(z, f) # b
    BY PrevFree
  <1>6. joinsNext \in BOOLEAN /\ joinsPrev \in BOOLEAN
    OBVIOUS
  <1>. HIDE DEF joinsNext, joinsPrev, next, prev
  <1>7. /\ joinsNext => next \in B \ P
        /\ joinsPrev => prev \in B \ P /\ prev # next
        /\ first \in B /\ first \in Units /\ (first = b \/ first \in Free(s))
    BY <1>1, <1>3, <1>4, <1>5
  <1>8. /\ total = z[b] + (IF joinsNext THEN z[next] ELSE 0)
                       + (IF joinsPrev THEN z[prev] ELSE 0)
    BY <1>3, <1>4, <1>7
  <1>. HIDE DEF size, total, first, joined
  <1>f. first = IF joinsPrev THEN prev ELSE b
    BY DEF first
  <1>j. joined = {c \in {next} : joinsNext} \cup {c \in {b} : joinsPrev}
    BY DEF joined
  <1>9. /\ list \in Seq(Units) /\ IsInjective(list) /\ first \notin ToSet(list)
        /\ ToSet(list) = Free(s) \ ({c \in {next} : joinsNext} \cup {c \in {prev} : joinsPrev})
    <2>. DEFINE once == IF joinsNext THEN RemoveFirst(s.free, next) ELSE s.free
    <2>1. /\ once \in Seq(Units) /\ IsInjective(once)
          /\ ToSet(once) = IF joinsNext THEN Free(s) \ {next} ELSE Free(s)
      <3>1. /\ RemoveFirst(s.free, next) \in Seq(Units)
            /\ IsInjective(RemoveFirst(s.free, next))
            /\ ToSet(RemoveFirst(s.free, next)) = ToSet(s.free) \ {next}
        BY <1>1, <1>2, RemoveFirstFacts
      <3>. QED
        BY <1>1, <1>2, <3>1
    <2>2. list = IF joinsPrev THEN RemoveFirst(once, prev) ELSE once
      BY DEF Unlink
    <2>. HIDE DEF list, once
    <2>3. /\ list \in Seq(Units) /\ IsInjective(list)
          /\ ToSet(list) = IF joinsPrev THEN ToSet(once) \ {prev} ELSE ToSet(once)
      BY <2>1, <2>2, RemoveFirstFacts
    <2>4. ToSet(list) = Free(s) \ ({c \in {next} : joinsNext} \cup {c \in {prev} : joinsPrev})
      BY <2>1, <2>3
    <2>5. first \notin ToSet(list)
      BY <1>1, <1>f, <2>4
    <2>. QED
      BY <2>3, <2>4, <2>5
  <1>. HIDE DEF list
  <1>10. /\ <<first>> \o list \in Seq(Units) /\ IsInjective(<<first>> \o list)
         /\ ToSet(<<first>> \o list) = ToSet(list) \cup {first}
    BY <1>7, <1>9, PushFacts
  <1>11. /\ m \in Pools /\ m.ftr = s.ftr /\ m.free = <<first>> \o list
         /\ m.hdr[b] = FreeTag(size)
         /\ \A a \in Units : a # b => m.hdr[a] = s.hdr[a]
    <2>1. FreeTag(size) \in Tags
      <3>1. size \in 0 .. Cap
        BY <1>3, <1>4, <1>1
      <3>. QED
        BY <3>1, TagFacts
    <2>2. b \in Units
      BY <1>1, <1>3
    <2>. QED
      BY <1>1, <1>10, <2>1, <2>2 DEF Pools
  <1>. HIDE DEF m
  <1>. DEFINE last == IF joinsNext THEN next ELSE b
  <1>12. /\ last \in B /\ first + total = End(z, last) /\ total \in Nat /\ total >= 2
         /\ first + total <= Cap /\ first <= b /\ b <= last
    <2>1. last \in B
      BY <1>1, <1>7
    <2>2. first + z[b] + (IF joinsPrev THEN z[prev] ELSE 0) = End(z, b)
      BY <1>1, <1>3, <1>5, <1>7, <1>f
    <2>3. End(z, last) = End(z, b) + (IF joinsNext THEN z[next] ELSE 0)
      BY <1>1, <1>3, <1>4, <1>7
    <2>4. /\ (IF joinsPrev THEN z[prev] ELSE 0) \in Nat
          /\ (IF joinsNext THEN z[next] ELSE 0) \in Nat /\ z[b] \in Nat /\ z[b] >= 2
          /\ first \in Nat /\ End(z, last) <= Cap
      BY <1>1, <1>3, <1>7, <2>1
    <2>5. first <= b /\ b <= last
      BY <1>1, <1>3, <1>4, <1>5, <1>f
    <2>. QED
      BY <1>8, <2>1, <2>2, <2>3, <2>4, <2>5
  <1>. HIDE DEF last
  <1>13. /\ t \in Pools /\ t.free = <<first>> \o list
         /\ t.hdr[first] = FreeTag(total) /\ t.ftr[LastUnit(first, total)] = FreeTag(total)
         /\ \A a \in Units : a # first => t.hdr[a] = m.hdr[a]
         /\ \A a \in Units : a # LastUnit(first, total) => t.ftr[a] = s.ftr[a]
    <2>1. total > 0
      BY <1>12
    <2>. QED
      BY <1>7, <1>11, <1>12, <2>1, MarkFreeFacts
  <1>. HIDE DEF t
  <1>14. /\ Free(t) = (Free(s) \ {c \in {next} : joinsNext}) \cup {first}
         /\ (P \ {b}) \cup Free(t) = B \ joined
    <2>1. Free(t) = ToSet(list) \cup {first}
      BY <1>10, <1>13 DEF Free
    <2>2. Free(t) = (Free(s) \ {c \in {next} : joinsNext}) \cup {first}
      BY <1>5, <1>7, <1>9, <1>f, <2>1
    <2>. QED
      BY <1>1, <1>4, <1>5, <1>7, <1>f, <1>j, <2>2
  <1>15. ASSUME NEW c \in B \ joined, c # first
         PROVE  t.hdr[c] = s.hdr[c] /\ t.ftr[LastUnit(c, z[c])] = s.hdr[c]
    <2>1. c # b /\ c # last /\ c \in B /\ c \in Units
      BY <1>3, <1>15, <1>f, <1>j DEF last
    <2>2. LastUnit(c, z[c]) \in Units /\ LastUnit(c, z[c]) # LastUnit(first, total)
      <3>1. End(z, c) # End(z, last)
        BY <1>1, <1>12, <2>1, EndsApart
      <3>2. /\ c \in Nat /\ z[c] \in Nat /\ z[c] >= 2 /\ c + z[c] <= Cap /\ Cap \in Nat
            /\ End(z, c) = c + z[c] /\ first \in Nat
        BY <1>3, <1>7, <2>1
      <3>. QED
        BY <1>12, <3>1, <3>2 DEF LastUnit, Units
    <2>3. s.ftr[LastUnit(c, z[c])] = s.hdr[c]
      BY <2>1, ShapeTypes
    <2>. QED
      BY <1>11, <1>13, <1>15, <2>1, <2>2, <2>3
  <1>16. /\ Sizes(t) \in [Units -> 0 .. Cap] /\ Sizes(t)[first] = total
         /\ \A c \in B \ (joined \cup {first}) : Sizes(t)[c] = z[c]
    <2>1. \A a \in Units : Sizes(t)[a] = t.hdr[a].size
      BY <1>13, PoolTypes
    <2>2. FreeTag(total).size = total
      BY DEF FreeTag
    <2>3. Sizes(t)[first] = total
      BY <1>7, <1>13, <2>1, <2>2
    <2>4. \A c \in B \ (joined \cup {first}) : Sizes(t)[c] = z[c]
      BY <1>3, <1>15, <2>1
    <2>. QED
      BY <1>13, <2>3, <2>4, PoolTypes
  <1>17. Tiles(B \ joined, Sizes(t))
    <2>. DEFINE w == Sizes(t)
    <2>1. /\ Tiles(B, z) /\ b \in B /\ w \in [Units -> 0 .. Cap]
          /\ joinsNext => next \in B /\ End(z, b) = next
          /\ joinsPrev => prev \in B /\ End(z, prev) = b /\ prev # next
          /\ w[first] = z[b] + (IF joinsNext THEN z[next] ELSE 0)
                             + (IF joinsPrev THEN z[prev] ELSE 0)
          /\ \A c \in B \ (joined \cup {first}) : w[c] = z[c]
      BY <1>1, <1>4, <1>5, <1>7, <1>8, <1>16
    <2>. HIDE DEF w, B, z
    <2>. DEFINE B1 == IF joinsNext THEN B \ {next} ELSE B
                more == IF joinsNext THEN z[next] ELSE 0
    <2>2. \A c \in B : /\ c \in Nat /\ z[c] \in Nat /\ z[c] > 0 /\ End(z, c) = c + z[c]
      BY <2>1, TilesTypes
    <2>3. b \in B1 /\ more \in Nat /\ z \in [Units -> 0 .. Cap]
      BY <2>1, <2>2 DEF Tiles
    <2>4. PICK y \in [Units -> 0 .. Cap] :
              Tiles(B1, y) /\ y[b] = z[b] + more /\ \A c \in B1 \ {b} : y[c] = z[c]
      <3>1. CASE joinsNext
        <4>1. PICK y \in [Units -> 0 .. Cap] :
                  y[b] = z[b] + z[next] /\ \A d \in B \ {b, next} : y[d] = z[d]
          BY <2>1, <3>1, JoinSizes
        <4>2. Tiles(B \ {next}, y)
          BY <2>1, <3>1, <4>1, JoinTiles
        <4>. QED
          BY <3>1, <4>1, <4>2
      <3>2. CASE ~joinsNext
        <4>1. z[b] = z[b] + 0
          BY <2>1, <2>2
        <4>. QED
          BY <2>1, <2>3, <3>2, <4>1
      <3>. QED
        BY <3>1, <3>2
    <2>5. CASE joinsPrev
      <3>1. prev \in B1 /\ End(y, prev) = b /\ y[prev] = z[prev] /\ prev # b
        BY <2>1, <2>2, <2>3, <2>4, <2>5 DEF End
      <3>2. w[prev] = y[prev] + y[b]
        <4>1. w[prev] = z[b] + more + z[prev]
          BY <1>f, <2>1, <2>5
        <4>2. z[b] \in Nat /\ z[prev] \in Nat
          BY <2>1, <2>2, <2>5
        <4>. QED
          BY <2>3, <2>4, <3>1, <4>1, <4>2
      <3>3. \A d \in B1 \ {prev, b} : w[d] = y[d]
        BY <1>f, <1>j, <2>1, <2>4, <2>5
      <3>4. Tiles(B1 \ {b}, w)
        <4>. HIDE DEF B1, more
        <4>1. Tiles(B1, y) /\ b \in B1 /\ w \in [Units -> 0 .. Cap]
          BY <2>1, <2>3, <2>4
        <4>. QED
          BY <3>1, <3>2, <3>3, <4>1, JoinTiles
      <3>5. B1 \ {b} = B \ joined
        BY <1>j, <2>5
      <3>. QED
        BY <3>4, <3>5 DEF w
    <2>6. CASE ~joinsPrev
      <3>1. w[b] = y[b]
        <4>1. w[b] = z[b] + more + 0
          BY <1>f, <2>1, <2>6
        <4>. QED
          BY <2>1, <2>2, <2>3, <2>4, <4>1
      <3>2. \A d \in B1 : w[d] = y[d]
        BY <1>f, <1>j, <2>1, <2>4, <2>6, <3>1
      <3>3. Tiles(B1, w)
        BY <2>1, <2>4, <3>2, TilesAgree
      <3>4. B1 = B \ joined
        BY <1>j, <2>6
      <3>. QED
        BY <3>3, <3>4 DEF w
    <2>. QED
      BY <2>5, <2>6
  <1>18. ASSUME NEW f \in Free(t) PROVE End(Sizes(t), f) \notin Free(t)
    <2>1. \A c \in Free(s) : End(z, c) \notin Free(s)
      BY DEF Shape
    <2>2. CASE f = first
      <3>1. End(Sizes(t), f) = End(z, last)
        BY <1>12, <1>16, <2>2 DEF End
      <3>2. End(z, last) # first
        BY <1>1, <1>3, <1>7, <1>12
      <3>3. End(z, last) \notin Free(s) \/ ~joinsNext
        BY <1>4, <2>1 DEF last
      <3>4. joinsNext \/ End(z, last) \notin Free(s)
        BY <1>4 DEF last
      <3>. QED
        BY <1>14, <3>1, <3>2, <3>3, <3>4
    <2>3. CASE f # first
      <3>1. f \in Free(s) /\ f \in B \ joined
        BY <1>14, <2>3
      <3>2. End(Sizes(t), f) = End(z, f)
        BY <1>16, <2>3, <3>1 DEF End
      <3>3. End(z, f) # first
        BY <1>5, <1>f, <2>1, <3>1
      <3>. QED
        BY <1>14, <2>1, <3>1, <3>2, <3>3
    <2>. QED
      BY <2>2, <2>3
  <1>19. Shape(t, P \ {b})
    <2>1. ASSUME NEW c \in B \ joined
          PROVE  /\ Sizes(t)[c] >= MIN_BLOCK
                 /\ t.ftr[LastUnit(c, Sizes(t)[c])] = t.hdr[c]
                 /\ t.hdr[c].used <=> c \in P \ {b}
      <3>1. CASE c = first
        <4>1. ~FreeTag(total).used
          BY DEF FreeTag
        <4>2. first \notin P \ {b}
          BY <1>1, <1>7
        <4>. QED
          BY <1>12, <1>13, <1>16, <3>1, <4>1, <4>2 DEF MIN_BLOCK
      <3>2. CASE c # first
        <4>1. s.hdr[c].used <=> c \in P
          BY DEF Shape
        <4>2. c # b
          BY <1>f, <1>j, <3>2
        <4>3. Sizes(t)[c] = z[c] /\ z[c] >= 2
          BY <1>3, <1>16, <3>2
        <4>. QED
          BY <1>15, <3>2, <4>1, <4>2, <4>3 DEF MIN_BLOCK
      <3>. QED
        BY <3>1, <3>2
    <2>2. (P \ {b}) \cap Free(t) = {} /\ IsInjective(t.free)
      BY <1>1, <1>7, <1>10, <1>13, <1>14
    <2>. QED
      BY <1>1, <1>13, <1>14, <1>17, <1>18, <2>1, <2>2 DEF Shape
  <1>20. ~t.hdr[b].used /\ \A a \in Units : ~s.hdr[a].used => ~t.hdr[a].used
    <2>1. ~FreeTag(total).used /\ ~FreeTag(size).used
      BY DEF FreeTag
    <2>2. b \in Units
      BY <1>1, <1>3
    <2>. QED
      BY <1>11, <1>13, <2>1, <2>2
  <1>21. \A p \in P \ {b} : Sizes(t)[p] = z[p]
    BY <1>1, <1>7, <1>14, <1>16
  <1>22. Returned(s, P, t, b)
    BY <1>19, <1>20, <1>21 DEF Returned
  <1>. QED
    BY <1>0, <1>22

-----------------------------------------------------------------------------
(* The invariant: the pool is whole, and nothing has put a tag that says used *)
(* where a freed pointer points.                                           *)

ArenaInv ==
    /\ Shape(pool, ptrs) /\ gone \subseteq Units /\ asked \in [Units -> Nat]
    /\ \A a \in gone : ~pool.hdr[a].used

LEMMA InvInit == Init => ArenaInv
  <1>. SUFFICES ASSUME Init PROVE ArenaInv
    OBVIOUS
  <1>. DEFINE s == [hdr |-> [a \in Units |-> Data], ftr |-> [a \in Units |-> Data],
                    free |-> <<0>>]
              t == Mark(s, 0, FreeTag(Cap))
  <1>1. pool = t /\ ptrs = {} /\ gone = {} /\ asked \in [Units -> Nat]
    BY DEF Init
  <1>2. Cap \in Nat /\ Cap >= 2 /\ 0 \in Units
    BY CapNat
  <1>3. s \in Pools /\ s.free = <<0>>
    <2>1. Data \in Tags
      BY <1>2, TagFacts DEF Data
    <2>2. <<0>> \in Seq(Units)
      BY <1>2
    <2>. QED
      BY <2>1, <2>2 DEF Pools
  <1>. HIDE DEF s
  <1>4. /\ t \in Pools /\ t.free = <<0>> /\ t.hdr[0] = FreeTag(Cap)
        /\ t.ftr[LastUnit(0, Cap)] = FreeTag(Cap)
    <2>1. Cap > 0 /\ 0 + Cap <= Cap
      BY <1>2
    <2>. QED
      BY <1>2, <1>3, <2>1, MarkFreeFacts
  <1>. HIDE DEF t
  <1>5. Free(t) = {0} /\ IsInjective(t.free)
    <2>1. <<0>> \in Seq(Units) /\ Len(<<0>>) = 1 /\ <<0>>[1] = 0
      BY <1>2
    <2>2. ToSet(<<0>>) = {0}
      BY <2>1 DEF ToSet
    <2>. QED
      BY <1>4, <2>1, <2>2 DEF Free, IsInjective
  <1>6. /\ Sizes(t) \in [Units -> 0 .. Cap] /\ Sizes(t)[0] = Cap
        /\ End(Sizes(t), 0) = Cap
    <2>1. Sizes(t) \in [Units -> 0 .. Cap] /\ Sizes(t)[0] = t.hdr[0].size
      BY <1>2, <1>4, PoolTypes
    <2>2. t.hdr[0].size = Cap
      BY <1>4 DEF FreeTag
    <2>. QED
      BY <1>2, <2>1, <2>2 DEF End
  <1>7. Tiles({0}, Sizes(t))
    <2>1. \A u \in Units : 0 <= u /\ u < Cap
      BY <1>2 DEF Units
    <2>. QED
      BY <1>2, <1>6, <2>1 DEF Tiles
  <1>8. Shape(t, {})
    <2>1. t.ftr[LastUnit(0, Sizes(t)[0])] = t.hdr[0] /\ ~t.hdr[0].used
      BY <1>4, <1>6 DEF FreeTag
    <2>2. {} \cup Free(t) = {0}
      BY <1>5
    <2>3. End(Sizes(t), 0) \notin Free(t)
      BY <1>2, <1>5, <1>6
    <2>. QED
      BY <1>2, <1>4, <1>5, <1>6, <1>7, <2>1, <2>2, <2>3 DEF Shape, MIN_BLOCK
  <1>. QED
    BY <1>1, <1>8 DEF ArenaInv

\* A block handed out: Sizes and the header agree there.
LEMMA FreshSize ==
  ASSUME NEW s, NEW P, NEW n \in Nat, NEW t, NEW b, Fresh(s, P, n, t, b)
  PROVE  Sizes(t)[b] = t.hdr[b].size
  <1>1. b \in P \cup {b} /\ Shape(t, P \cup {b})
    BY DEF Fresh
  <1>2. b \in (P \cup {b}) \cup Free(t)
    OBVIOUS
  <1>. QED
    BY <1>1, <1>2, ShapeTypes

\* What a step of the blob is, in terms of the two lemmas.
AllocStep(n, t, b) ==
    /\ Fresh(pool, ptrs, n, t, b) /\ pool' = t /\ ptrs' = ptrs \cup {b}
    /\ gone' = {a \in gone : ~Inside(a, b, Sizes(t)[b])}
    /\ asked' = [asked EXCEPT ![b] = n]
FreeStep(b) ==
    /\ b \in ptrs /\ Returned(pool, ptrs, pool', b)
    /\ ptrs' = ptrs \ {b} /\ gone' = gone \cup {b} /\ asked' = [asked EXCEPT ![b] = 0]
MoveStep(b, n, t, c) ==
    /\ b \in ptrs /\ Fresh(pool, ptrs, n, t, c)
    /\ Returned(t, ptrs \cup {c}, pool', b)
    /\ ptrs' = (ptrs \cup {c}) \ {b}
    /\ gone' = {a \in gone : ~Inside(a, c, Sizes(t)[c])} \cup {b}
    /\ asked' = [asked EXCEPT ![c] = n, ![b] = 0]

LEMMA FreeAtReturns ==
  ASSUME NEW s, NEW P, Shape(s, P), NEW b \in P
  PROVE  Returned(s, P, FreeAt(s, b), b)
  <1>1. s.hdr[b].used
    BY DEF Shape
  <1>. QED
    BY <1>1, ReleaseReturns DEF FreeAt

LEMMA StepAlloc ==
  ASSUME ArenaInv, NEW n \in Nat, Alloc(n)
  PROVE  \E t, b : AllocStep(n, t, b)
  <1>1. Shape(pool, ptrs)
    BY DEF ArenaInv
  <1>2. PICK i \in FirstFit(pool, n) :
            /\ pool' = AllocAt(pool, n, i).pool
            /\ ptrs' = ptrs \cup {AllocAt(pool, n, i).at}
            /\ asked' = [asked EXCEPT ![AllocAt(pool, n, i).at] = n]
            /\ gone' = {a \in gone : ~Inside(a, AllocAt(pool, n, i).at,
                           AllocAt(pool, n, i).pool.hdr[AllocAt(pool, n, i).at].size)}
    BY DEF Alloc
  <1>3. Fresh(pool, ptrs, n, AllocAt(pool, n, i).pool, AllocAt(pool, n, i).at)
    BY <1>1, <1>2, AllocFresh
  <1>4. Sizes(AllocAt(pool, n, i).pool)[AllocAt(pool, n, i).at]
          = AllocAt(pool, n, i).pool.hdr[AllocAt(pool, n, i).at].size
    BY <1>3, FreshSize
  <1>. QED
    BY <1>2, <1>3, <1>4 DEF AllocStep

LEMMA StepFree ==
  ASSUME ArenaInv, NEW b \in Units, FreeBlock(b)
  PROVE  FreeStep(b)
  <1>1. Shape(pool, ptrs) /\ b \in ptrs
    BY DEF ArenaInv, FreeBlock
  <1>2. Returned(pool, ptrs, FreeAt(pool, b), b)
    BY <1>1, FreeAtReturns
  <1>. QED
    BY <1>1, <1>2 DEF FreeBlock, FreeStep

LEMMA StepFreeAgain ==
  ASSUME ArenaInv, NEW b \in Units, FreeAgain(b)
  PROVE  UNCHANGED vars
  BY DEF ArenaInv, FreeAgain, FreeAt, vars

LEMMA StepRealloc ==
  ASSUME ArenaInv, NEW b \in Units, NEW n \in Nat, Realloc(b, n)
  PROVE  \E t, c : MoveStep(b, n, t, c)
  <1>1. Shape(pool, ptrs) /\ b \in ptrs
    BY DEF ArenaInv, Realloc
  <1>2. PICK i \in FirstFit(pool, n) :
            /\ pool' = FreeAt(AllocAt(pool, n, i).pool, b)
            /\ ptrs' = (ptrs \cup {AllocAt(pool, n, i).at}) \ {b}
            /\ asked' = [asked EXCEPT ![AllocAt(pool, n, i).at] = n, ![b] = 0]
            /\ gone' = {a \in gone : ~Inside(a, AllocAt(pool, n, i).at,
                           AllocAt(pool, n, i).pool.hdr[AllocAt(pool, n, i).at].size)}
                         \cup {b}
    BY DEF Realloc
  <1>3. Fresh(pool, ptrs, n, AllocAt(pool, n, i).pool, AllocAt(pool, n, i).at)
    BY <1>1, <1>2, AllocFresh
  <1>4. Sizes(AllocAt(pool, n, i).pool)[AllocAt(pool, n, i).at]
          = AllocAt(pool, n, i).pool.hdr[AllocAt(pool, n, i).at].size
    BY <1>3, FreshSize
  <1>5. Returned(AllocAt(pool, n, i).pool, ptrs \cup {AllocAt(pool, n, i).at}, pool', b)
    <2>1. Shape(AllocAt(pool, n, i).pool, ptrs \cup {AllocAt(pool, n, i).at})
      BY <1>3 DEF Fresh
    <2>2. b \in ptrs \cup {AllocAt(pool, n, i).at}
      BY <1>1
    <2>3. Returned(AllocAt(pool, n, i).pool, ptrs \cup {AllocAt(pool, n, i).at},
                   FreeAt(AllocAt(pool, n, i).pool, b), b)
      BY <2>1, <2>2, FreeAtReturns
    <2>. QED
      BY <1>2, <2>3
  <1>. QED
    BY <1>1, <1>2, <1>3, <1>4, <1>5 DEF MoveStep

LEMMA InvStep == ArenaInv /\ [Next]_vars => ArenaInv'
  <1>. SUFFICES ASSUME ArenaInv, [Next]_vars PROVE ArenaInv'
    OBVIOUS
  <1>0. /\ gone \subseteq Units /\ asked \in [Units -> Nat]
        /\ \A a \in gone : ~pool.hdr[a].used
    BY DEF ArenaInv
  <1>1. CASE UNCHANGED vars
    BY <1>1 DEF ArenaInv, vars
  <1>2. ASSUME NEW n \in Requests, Alloc(n) PROVE ArenaInv'
    <2>1. n \in Nat
      BY RequestAssumption
    <2>2. PICK t, b : AllocStep(n, t, b)
      BY <1>2, <2>1, StepAlloc
    <2>3. Shape(pool', ptrs') /\ gone' \subseteq Units /\ asked' \in [Units -> Nat]
      BY <1>0, <2>1, <2>2 DEF AllocStep, Fresh
    <2>4. \A a \in gone' : ~pool'.hdr[a].used
      BY <1>0, <2>2 DEF AllocStep, Fresh
    <2>. QED
      BY <2>3, <2>4 DEF ArenaInv
  <1>3. ASSUME NEW b \in Units, FreeBlock(b) PROVE ArenaInv'
    <2>1. FreeStep(b)
      BY <1>3, StepFree
    <2>. QED
      BY <1>0, <2>1 DEF FreeStep, Returned, ArenaInv
  <1>4. ASSUME NEW b \in Units, FreeAgain(b) PROVE ArenaInv'
    BY <1>1, <1>4, StepFreeAgain
  <1>5. ASSUME NEW b \in Units, NEW n \in Requests, Realloc(b, n) PROVE ArenaInv'
    <2>1. n \in Nat
      BY RequestAssumption
    <2>2. PICK t, c : MoveStep(b, n, t, c)
      BY <1>5, <2>1, StepRealloc
    <2>3. /\ Shape(pool', ptrs') /\ gone' \subseteq Units /\ ~pool'.hdr[b].used
          /\ asked' \in [Units -> Nat]
      BY <1>0, <2>1, <2>2 DEF MoveStep, Returned
    <2>4. \A a \in gone : ~Inside(a, c, Sizes(t)[c]) => ~t.hdr[a].used
      BY <1>0, <2>2 DEF MoveStep, Fresh
    <2>5. \A a \in gone' : ~pool'.hdr[a].used
      BY <1>0, <2>2, <2>3, <2>4 DEF MoveStep, Returned
    <2>. QED
      BY <2>3, <2>5 DEF ArenaInv
  <1>. QED
    BY <1>1, <1>2, <1>3, <1>4, <1>5 DEF Next

THEOREM ArenaInvHolds == Spec => []ArenaInv
  BY InvInit, InvStep, PTL DEF Spec

-----------------------------------------------------------------------------
(* What follows from it.                                                   *)

LEMMA ShapeWellFormed == ArenaInv => WellFormed
  <1>. SUFFICES ASSUME ArenaInv PROVE WellFormed
    OBVIOUS
  <1>1. /\ Shape(pool, ptrs) /\ pool \in Pools /\ Blocks = ptrs \cup Free(pool)
        /\ Tiles(Blocks, Sizes(pool)) /\ Blocks \subseteq Units
    BY DEF ArenaInv, Shape, Blocks, Free, Tiles
  <1>2. TypeOK
    BY <1>1 DEF ArenaInv, Shape, TypeOK, Pools, Tags
  <1>3. \A b \in Blocks : /\ Sizes(pool)[b] = pool.hdr[b].size
                          /\ NextBlock(b) = End(Sizes(pool), b)
    BY <1>1, PoolTypes DEF NextBlock, End
  <1>4. Tiled
    BY <1>1, <1>3 DEF Tiles, Tiled
  <1>5. ptrs \cap ToSet(pool.free) = {} /\ IsInjective(pool.free)
    BY <1>1 DEF Shape, Free
  <1>6. \A b \in Blocks : /\ pool.hdr[b].size >= MIN_BLOCK
                          /\ pool.ftr[LastUnit(b, pool.hdr[b].size)] = pool.hdr[b]
                          /\ pool.hdr[b].used <=> b \in ptrs
    BY <1>1, <1>3 DEF Shape
  <1>. QED
    BY <1>2, <1>4, <1>5, <1>6 DEF WellFormed

\* After any sequence of espradio_arena_alloc, _free and _realloc, with second
\* frees among them, the blocks tile the pool, with the same tag at both ends.
THEOREM StaysWellFormed == Spec => []WellFormed
  BY ArenaInvHolds, ShapeWellFormed, PTL

\* The search of the free list ends only when no block of it has room.
LEMMA NoneFits ==
  ASSUME NEW s \in Pools, NEW n \in Nat, FirstFit(s, n) = {}, NEW f \in Free(s)
  PROVE  Sizes(s)[f] < Need(n)
  <1>. DEFINE T == {i \in 1..Len(s.free) : s.hdr[s.free[i]].size >= Need(n)}
  <1>1. /\ s.free \in Seq(Units) /\ Len(s.free) \in Nat /\ Need(n) \in Nat
        /\ \A i \in 1..Len(s.free) : s.free[i] \in Units
        /\ \A a \in Units : s.hdr[a].size \in 0 .. Cap /\ Sizes(s)[a] = s.hdr[a].size
    <2>1. s.free \in Seq(Units) /\ s.hdr \in [Units -> Tags]
          /\ \A a \in Units : Sizes(s)[a] = s.hdr[a].size
      BY PoolTypes
    <2>2. Len(s.free) \in Nat /\ \A i \in 1..Len(s.free) : s.free[i] \in Units
      BY <2>1
    <2>. QED
      BY <2>1, <2>2, NeedFacts DEF Tags
  <1>2. T = {}
    <2>1. SUFFICES ASSUME T # {} PROVE FALSE
      OBVIOUS
    <2>2. PICK i \in T : \A j \in T : i <= j
      <3>1. T \in SUBSET Nat
        OBVIOUS
      <3>. HIDE DEF T
      <3>. QED
        BY <2>1, <3>1, Least
    <2>3. ASSUME NEW j \in 1 .. i - 1 PROVE s.hdr[s.free[j]].size < Need(n)
      <3>1. j \in 1..Len(s.free) /\ j \notin T
        BY <1>1, <2>2
      <3>2. s.hdr[s.free[j]].size \in Nat
        BY <1>1, <3>1, CapNat
      <3>. QED
        BY <1>1, <3>1, <3>2
    <2>4. i \in DOMAIN s.free /\ s.hdr[s.free[i]].size >= Need(n)
      BY <1>1
    <2>5. i \in FirstFit(s, n)
      BY <2>3, <2>4 DEF FirstFit
    <2>. QED
      BY <2>5
  <1>3. PICK i \in 1..Len(s.free) : s.free[i] = f
    BY <1>1, InSet DEF Free
  <1>4. /\ ~(s.hdr[f].size >= Need(n)) /\ s.hdr[f].size \in Nat
        /\ Sizes(s)[f] = s.hdr[f].size
    BY <1>1, <1>2, <1>3, CapNat
  <1>. QED
    BY <1>1, <1>4

LEMMA ShapeRefuses == ArenaInv => RefusedOnlyWhenFull
  <1>. DEFINE held == UNION {b .. LastUnit(b, pool.hdr[b].size) : b \in ptrs}
              z == Sizes(pool)
              B == ptrs \cup Free(pool)
  <1>. SUFFICES ASSUME ArenaInv, NEW n \in Requests, FirstFit(pool, n) = {},
                       NEW a \in 0 .. Cap - Need(n)
                PROVE  (a .. a + Need(n) - 1) \cap held # {}
    BY DEF RefusedOnlyWhenFull
  <1>1. Shape(pool, ptrs) /\ pool \in Pools /\ Tiles(B, z) /\ n \in Nat
    BY RequestAssumption DEF ArenaInv, Shape
  <1>2. Cap \in Nat /\ Need(n) \in Nat /\ Need(n) >= 2 /\ a \in Nat /\ a \in Units
        /\ a + Need(n) <= Cap
    BY <1>1, CapNat, NeedFacts DEF Units, MIN_BLOCK
  <1>3. \A c \in B : /\ c \in Nat /\ z[c] \in Nat /\ z[c] >= 2 /\ End(z, c) = c + z[c]
                     /\ z[c] = pool.hdr[c].size
    BY <1>1, ShapeTypes
  <1>4. \A c \in ptrs : c .. LastUnit(c, z[c]) \subseteq held
    BY <1>3
  <1>5. PICK c \in B : c <= a /\ a < End(z, c)
    BY <1>1, <1>2 DEF Tiles
  <1>. HIDE DEF held
  <1>6. CASE c \in ptrs
    <2>1. a \in c .. LastUnit(c, z[c])
      BY <1>2, <1>3, <1>5 DEF LastUnit
    <2>2. a \in a .. a + Need(n) - 1
      BY <1>2
    <2>. QED
      BY <1>4, <1>6, <2>1, <2>2
  <1>7. CASE c \in Free(pool)
    <2>. DEFINE e == End(z, c)
    <2>1. z[c] < Need(n)
      BY <1>1, <1>7, NoneFits
    <2>2. e \in a .. a + Need(n) - 1 /\ e < Cap
      BY <1>2, <1>3, <1>5, <2>1
    <2>3. e \in ptrs
      <3>1. e \in B \cup {Cap}
        BY <1>1, <1>5 DEF Tiles
      <3>2. e \notin Free(pool)
        BY <1>1, <1>7 DEF Shape
      <3>. QED
        BY <1>2, <2>2, <3>1, <3>2
    <2>4. e \in e .. LastUnit(e, z[e])
      BY <1>3, <2>3 DEF LastUnit
    <2>. QED
      BY <1>4, <2>2, <2>3, <2>4
  <1>. QED
    BY <1>6, <1>7

\* arena_alloc refuses a request only if the blob holds some unit of every run of
\* units long enough for it.
THEOREM RefusesOnlyWhenFull == Spec => []RefusedOnlyWhenFull
  BY ArenaInvHolds, ShapeRefuses, PTL

-----------------------------------------------------------------------------
(* The boundary tags implement the heap.                                   *)

Item(s, w, b) == [at |-> b, len |-> s.hdr[b].size, for |-> w[b]]
Items(s, w, P) == {Item(s, w, b) : b \in P}
\* The same was asked for with each block of P.
Agree(w, x, P) == \A p \in P : x[p] = w[p]

LEMMA ItemSame ==
  ASSUME NEW s, NEW P, NEW t, NEW Q, Shape(s, P), Shape(t, Q), NEW b \in P, b \in Q,
         Sizes(t)[b] = Sizes(s)[b], NEW w, NEW x, x[b] = w[b]
  PROVE  Item(t, x, b) = Item(s, w, b)
  <1>1. Sizes(s)[b] = s.hdr[b].size /\ Sizes(t)[b] = t.hdr[b].size
    BY ShapeTypes
  <1>. QED
    BY <1>1 DEF Item

LEMMA FreshItems ==
  ASSUME NEW s, NEW P, NEW n, NEW t, NEW c, Shape(s, P), Fresh(s, P, n, t, c),
         NEW w, NEW x, Agree(w, x, P)
  PROVE  Items(t, x, P \cup {c}) = Items(s, w, P) \cup {Item(t, x, c)}
  <1>1. \A b \in P : Item(t, x, b) = Item(s, w, b)
    <2>1. /\ Shape(t, P \cup {c})
          /\ \A b \in P : Sizes(t)[b] = Sizes(s)[b] /\ x[b] = w[b]
      BY DEF Fresh, Agree
    <2>. QED
      BY <2>1, ItemSame
  <1>. QED
    BY <1>1 DEF Items

\* The block handed out is one the heap may grant for its request.
LEMMA FreshItem ==
  ASSUME NEW s, NEW P, NEW n \in Requests, NEW t, NEW c, Shape(s, P), Fresh(s, P, n, t, c),
         NEW w, NEW x, x[c] = n
  PROVE  /\ Item(t, x, c) \in Abstract!Blocks
         /\ Abstract!Fits(Item(t, x, c), Items(s, w, P))
  <1>. DEFINE z == Sizes(t)
              Q == P \cup {c}
  <1>0. n \in Nat
    BY RequestAssumption
  <1>1. Shape(t, Q) /\ c \notin P /\ \A b \in P : Sizes(t)[b] = Sizes(s)[b]
    BY DEF Fresh
  <1>2. \A b \in Q : /\ b \in Nat /\ z[b] \in Nat /\ z[b] >= 2 /\ z[b] = t.hdr[b].size
                     /\ b + z[b] <= Cap /\ Cap \in Nat /\ End(z, b) = b + z[b]
    BY <1>1, ShapeTypes
  <1>3. z[c] >= n + OVERHEAD
    <2>1. z[c] >= Need(n)
      BY DEF Fresh
    <2>. QED
      BY <1>0, <1>2, <2>1, NeedFacts DEF OVERHEAD
  <1>4. Item(t, x, c) = [at |-> c, len |-> z[c], for |-> n]
    BY <1>2 DEF Item
  <1>5. Item(t, x, c) \in Abstract!Blocks
    BY <1>2, <1>4 DEF Abstract!Blocks
  <1>6. ASSUME NEW o \in Items(s, w, P)
        PROVE  Abstract!Extent(Item(t, x, c)) \cap Abstract!Extent(o) = {}
    <2>1. PICK p \in P : o = Item(s, w, p)
      BY DEF Items
    <2>2. o.at = p /\ o.len = z[p]
      <3>1. s.hdr[p].size = Sizes(s)[p]
        BY ShapeTypes
      <3>. QED
        BY <1>1, <2>1, <3>1 DEF Item
    <2>3. (p < c => p + z[p] <= c) /\ (c < p => c + z[c] <= p) /\ p # c
      <3>1. Tiles(Q \cup Free(t), z)
        BY <1>1 DEF Shape
      <3>. QED
        BY <1>1, <1>2, <3>1 DEF Tiles
    <2>4. p \in Nat /\ z[p] \in Nat /\ c \in Nat /\ z[c] \in Nat
      BY <1>2
    <2>5. (p .. p + z[p] - 1) \cap (c .. c + z[c] - 1) = {}
      BY <2>3, <2>4
    <2>. QED
      BY <1>4, <2>2, <2>5 DEF Abstract!Extent
  <1>. QED
    BY <1>2, <1>3, <1>4, <1>5, <1>6 DEF Abstract!Fits

LEMMA ReturnedItems ==
  ASSUME NEW s, NEW P, NEW t, NEW b \in P, Shape(s, P), Returned(s, P, t, b),
         NEW w, NEW x, Agree(w, x, P \ {b})
  PROVE  Items(t, x, P \ {b}) = Items(s, w, P) \ {Item(s, w, b)}
  <1>1. \A p \in P \ {b} : Item(t, x, p) = Item(s, w, p)
    <2>1. /\ Shape(t, P \ {b})
          /\ \A p \in P \ {b} : Sizes(t)[p] = Sizes(s)[p] /\ x[p] = w[p]
      BY DEF Returned, Agree
    <2>. QED
      BY <2>1, ItemSame
  <1>2. \A p \in P \ {b} : Item(s, w, p) # Item(s, w, b)
    BY DEF Item
  <1>. QED
    BY <1>1, <1>2 DEF Items

LEMMA HeldItems ==
  Held = Items(pool, asked, ptrs) /\ Held' = Items(pool', asked', ptrs')
  BY DEF Held, Items, Item

LEMMA HeapInit == Init => Held = {}
  BY DEF Init, Held

LEMMA HeapStep ==
  ArenaInv /\ [Next]_vars
    => [Abstract!Grant \/ Abstract!Release \/ Abstract!Move]_Held
  <1>. SUFFICES ASSUME ArenaInv, [Next]_vars
                PROVE  \/ Abstract!Grant \/ Abstract!Release \/ Abstract!Move
                       \/ Held' = Held
    OBVIOUS
  <1>0. Shape(pool, ptrs) /\ ptrs \subseteq Units /\ asked \in [Units -> Nat]
    BY DEF ArenaInv, Shape
  <1>1. CASE UNCHANGED vars
    BY <1>1, HeldItems DEF vars
  <1>2. ASSUME NEW n \in Requests, Alloc(n) PROVE Abstract!Grant
    <2>1. n \in Nat
      BY RequestAssumption
    <2>2. PICK t, b : AllocStep(n, t, b)
      BY <1>2, <2>1, StepAlloc
    <2>. DEFINE w == [asked EXCEPT ![b] = n]
    <2>3. Fresh(pool, ptrs, n, t, b) /\ b \in Units \ ptrs
      BY <2>2 DEF AllocStep, Fresh
    <2>4. w[b] = n /\ Agree(asked, w, ptrs)
      BY <1>0, <2>3 DEF Agree
    <2>5. pool' = t /\ ptrs' = ptrs \cup {b} /\ asked' = w
      BY <2>2 DEF AllocStep
    <2>. HIDE DEF w
    <2>6. Items(t, w, ptrs \cup {b}) = Items(pool, asked, ptrs) \cup {Item(t, w, b)}
      BY <1>0, <2>3, <2>4, FreshItems
    <2>7. /\ Item(t, w, b) \in Abstract!Blocks
          /\ Abstract!Fits(Item(t, w, b), Items(pool, asked, ptrs))
      BY <1>0, <2>3, <2>4, FreshItem
    <2>8. /\ Held' = Held \cup {Item(t, w, b)}
          /\ Abstract!Fits(Item(t, w, b), Held)
      BY <2>5, <2>6, <2>7, HeldItems
    <2>. QED
      BY <2>7, <2>8 DEF Abstract!Grant
  <1>3. ASSUME NEW b \in Units, FreeBlock(b) PROVE Abstract!Release
    <2>1. /\ b \in ptrs /\ Returned(pool, ptrs, pool', b) /\ ptrs' = ptrs \ {b}
          /\ asked' = [asked EXCEPT ![b] = 0]
      BY <1>3, StepFree DEF FreeStep
    <2>2. Agree(asked, asked', ptrs \ {b})
      BY <1>0, <2>1 DEF Agree
    <2>3. Items(pool', asked', ptrs \ {b})
            = Items(pool, asked, ptrs) \ {Item(pool, asked, b)}
      BY <1>0, <2>1, <2>2, ReturnedItems
    <2>4. Item(pool, asked, b) \in Held /\ Held' = Held \ {Item(pool, asked, b)}
      BY <2>1, <2>3, HeldItems DEF Items
    <2>. QED
      BY <2>4 DEF Abstract!Release
  <1>4. ASSUME NEW b \in Units, FreeAgain(b) PROVE Held' = Held
    <2>1. UNCHANGED vars
      BY <1>4, StepFreeAgain
    <2>. QED
      BY <1>1, <2>1, HeldItems DEF vars
  <1>5. ASSUME NEW b \in Units, NEW n \in Requests, Realloc(b, n) PROVE Abstract!Move
    <2>1. n \in Nat
      BY RequestAssumption
    <2>2. PICK t, c : MoveStep(b, n, t, c)
      BY <1>5, <2>1, StepRealloc
    <2>. DEFINE w == [asked EXCEPT ![c] = n]
    <2>3. /\ b \in ptrs /\ Fresh(pool, ptrs, n, t, c)
          /\ Returned(t, ptrs \cup {c}, pool', b) /\ ptrs' = (ptrs \cup {c}) \ {b}
          /\ Shape(t, ptrs \cup {c}) /\ c \in Units \ ptrs
          /\ asked' = [asked EXCEPT ![c] = n, ![b] = 0]
      BY <2>2 DEF MoveStep, Fresh
    <2>4. /\ w[c] = n /\ Agree(asked, w, ptrs) /\ w[b] = asked[b]
          /\ Agree(w, asked', (ptrs \cup {c}) \ {b})
      BY <1>0, <2>3 DEF Agree
    <2>. HIDE DEF w
    <2>5. Items(t, w, ptrs \cup {c}) = Items(pool, asked, ptrs) \cup {Item(t, w, c)}
      BY <1>0, <2>3, <2>4, FreshItems
    <2>6. /\ Item(t, w, c) \in Abstract!Blocks
          /\ Abstract!Fits(Item(t, w, c), Items(pool, asked, ptrs))
      BY <1>0, <2>3, <2>4, FreshItem
    <2>7. Items(pool', asked', (ptrs \cup {c}) \ {b})
            = Items(t, w, ptrs \cup {c}) \ {Item(t, w, b)}
      <3>1. b \in ptrs \cup {c}
        BY <2>3
      <3>. QED
        BY <2>3, <2>4, <3>1, ReturnedItems
    <2>8. Item(t, w, b) = Item(pool, asked, b)
      <3>1. Sizes(t)[b] = Sizes(pool)[b] /\ b \in ptrs \cup {c}
        BY <2>3 DEF Fresh
      <3>. QED
        BY <1>0, <2>3, <2>4, <3>1, ItemSame
    <2>9. /\ Item(pool, asked, b) \in Held
          /\ Held' = (Held \cup {Item(t, w, c)}) \ {Item(pool, asked, b)}
          /\ Abstract!Fits(Item(t, w, c), Held)
      BY <2>3, <2>5, <2>6, <2>7, <2>8, HeldItems DEF Items
    <2>. QED
      BY <2>6, <2>9 DEF Abstract!Move
  <1>. QED
    BY <1>1, <1>2, <1>3, <1>4, <1>5 DEF Next

\* arena_alloc, arena_free and the move of _realloc are the steps of a heap: a block
\* has room for its own request and overlaps none in use, none moves, a second free
\* changes nothing.
THEOREM ArenaIsHeap == Spec => ImplementsHeap
  <1>1. Abstract!HeapSpec
          <=> Held = {} /\ [][Abstract!Grant \/ Abstract!Release \/ Abstract!Move]_Held
    BY DEF Abstract!HeapSpec
  <1>. QED
    BY <1>1, ArenaInvHolds, HeapInit, HeapStep, PTL DEF Spec, ImplementsHeap
=============================================================================
