-------------------------------- MODULE Arena --------------------------------
(***************************************************************************)
(* The arena allocator (arena.c): a first-fit free list with boundary tags *)
(* over one pool.  Addresses and sizes are in units of ALIGN (8 bytes).  A *)
(* block's header is the first half of its first unit and its footer the   *)
(* second half of its last (size_t has 4 bytes), so the two together take  *)
(* one unit.  Every operation runs under arena_lock and does not yield:    *)
(* one step each.  A pointer is the block it belongs to.                   *)
(***************************************************************************)
EXTENDS Integers, SequencesExt

CONSTANTS
    Base,       \* address of the pool given to espradio_arena_init, in bytes
    Bytes,      \* its capacity
    Requests    \* payload sizes the blob asks for, in units

ALIGN == 8
OVERHEAD == 1
MIN_BLOCK == 2

Pad == IF Base % ALIGN = 0 THEN 0 ELSE ALIGN - (Base % ALIGN)
Cap == (Bytes - Pad) \div ALIGN     \* arena_cap

ASSUME PoolAssumption == Base \in Nat /\ Bytes \in Nat /\ Cap >= MIN_BLOCK
ASSUME RequestAssumption == Requests \subseteq Nat

VARIABLES
    pool,       \* headers, footers and the free list
    ptrs,       \* the blocks the blob holds
    gone,       \* history: blocks freed, their memory not handed out since
    asked       \* history: the payload asked for with each block the blob holds

vars == <<pool, ptrs, gone, asked>>

Units == 0 .. Cap - 1
FreeTag(size) == [size |-> size, used |-> FALSE]
UsedTag(size) == [size |-> size, used |-> TRUE]
\* What lies where no tag has been written.
Data == FreeTag(0)
LastUnit(b, size) == b + size - 1
Inside(a, b, size) == b <= a /\ a <= LastUnit(b, size)

\* The tags of block b of pool s are written; its inside stays as it was.
Mark(s, b, tag) == [s EXCEPT !.hdr[b] = tag, !.ftr[LastUnit(b, tag.size)] = tag]

\* The same when the block is handed out: the blob may write its inside, so no
\* tag there can be relied on.
Grant(s, b, size) ==
    Mark([s EXCEPT !.hdr = [a \in Units |-> IF Inside(a, b, size) THEN Data ELSE @[a]],
                   !.ftr = [a \in Units |-> IF Inside(a, b, size) THEN Data ELSE @[a]]],
         b, UsedTag(size))

Init ==
    /\ pool = Mark([hdr |-> [a \in Units |-> Data], ftr |-> [a \in Units |-> Data],
                    free |-> <<0>>], 0, FreeTag(Cap))
    /\ ptrs = {} /\ gone = {} /\ asked = [a \in Units |-> 0]

-----------------------------------------------------------------------------
\* The units a request takes: one for nothing is for one byte.
Need(n) == (IF n = 0 THEN 1 ELSE n) + OVERHEAD

\* Where in the free list the search stops: nowhere, or at the first block
\* with room.
FirstFit(s, n) == {i \in DOMAIN s.free :
    /\ s.hdr[s.free[i]].size >= Need(n)
    /\ \A j \in 1 .. i - 1 : s.hdr[s.free[j]].size < Need(n)}

\* Variant: what is left of a split may be too small for a block.
AllocAtSplitsAll(s, n, i) ==
    LET b == s.free[i]
        rem == s.hdr[b].size - Need(n)
    IN IF rem > 0
       THEN [pool |-> Grant(Mark(s, b, FreeTag(rem)), b + rem, Need(n)),
             at |-> b + rem]
       ELSE [pool |-> Grant([s EXCEPT !.free = RemoveAt(@, i)], b, s.hdr[b].size),
             at |-> b]

\* arena_alloc takes the end of the block found, or all of it when what is left
\* would be too small.
AllocAt(s, n, i) ==
    LET b == s.free[i]
        rem == s.hdr[b].size - Need(n)
    IN IF rem >= MIN_BLOCK
       THEN [pool |-> Grant(Mark(s, b, FreeTag(rem)), b + rem, Need(n)),
             at |-> b + rem]
       ELSE [pool |-> Grant([s EXCEPT !.free = RemoveAt(@, i)], b, s.hdr[b].size),
             at |-> b]

\* Block c leaves the list, if it takes part in a join.
Unlink(list, joins, c) == IF joins THEN RemoveFirst(list, c) ELSE list

\* Variant: the free block in front is not joined.
ReleaseForward(s, b) ==
    LET size == s.hdr[b].size
        next == b + size
        joinsNext == next < Cap /\ ~s.hdr[next].used
        total == size + (IF joinsNext THEN s.hdr[next].size ELSE 0)
    IN Mark([s EXCEPT !.free = <<b>> \o Unlink(@, joinsNext, next)], b, FreeTag(total))

\* arena_free: the block loses its bit, takes in its free neighbours, which
\* leave the list, and goes to the front of it.
Release(s, b) ==
    LET size == s.hdr[b].size
        next == b + size
        joinsNext == next < Cap /\ ~s.hdr[next].used
        prev == IF b = 0 THEN 0 ELSE b - s.ftr[b - 1].size
        joinsPrev == b > 0 /\ prev >= 0 /\ ~s.hdr[prev].used
        first == IF joinsPrev THEN prev ELSE b
        total == size + (IF joinsNext THEN s.hdr[next].size ELSE 0)
                      + (IF joinsPrev THEN s.hdr[prev].size ELSE 0)
    IN Mark([s EXCEPT !.hdr[b] = FreeTag(size),
                      !.free = <<first>> \o Unlink(Unlink(@, joinsNext, next),
                                                   joinsPrev, prev)],
            first, FreeTag(total))

\* A block that does not carry the bit is left alone.
FreeAt(s, b) == IF s.hdr[b].used THEN Release(s, b) ELSE s

-----------------------------------------------------------------------------
\* espradio_arena_alloc and _calloc, when there is room; else nothing changes.
Alloc(n) == \E i \in FirstFit(pool, n) :
    LET r == AllocAt(pool, n, i)
    IN /\ pool' = r.pool
       /\ ptrs' = ptrs \cup {r.at} /\ asked' = [asked EXCEPT ![r.at] = n]
       /\ gone' = {a \in gone : ~Inside(a, r.at, r.pool.hdr[r.at].size)}

\* espradio_arena_free, and _realloc to nothing.
FreeBlock(b) ==
    /\ b \in ptrs
    /\ pool' = FreeAt(pool, b)
    /\ ptrs' = ptrs \ {b} /\ asked' = [asked EXCEPT ![b] = 0]
    /\ gone' = gone \cup {b}

\* A pointer is freed a second time before its memory has been handed out again.
FreeAgain(b) ==
    /\ b \in gone
    /\ pool' = FreeAt(pool, b)
    /\ UNCHANGED <<ptrs, gone, asked>>

\* Variant: the block is freed before another is looked for.
ReallocFreesFirst(b, n) ==
    /\ b \in ptrs /\ n > 0
    /\ LET s == FreeAt(pool, b)
       IN \E i \in FirstFit(s, n) :
            LET r == AllocAt(s, n, i)
            IN /\ pool' = r.pool
               /\ ptrs' = (ptrs \ {b}) \cup {r.at}
               /\ asked' = [asked EXCEPT ![b] = 0, ![r.at] = n]
               /\ gone' = {a \in gone \cup {b} :
                             ~Inside(a, r.at, r.pool.hdr[r.at].size)}

\* espradio_arena_realloc, when there is room beside the block: it always moves.
Realloc(b, n) ==
    /\ b \in ptrs /\ n > 0
    /\ \E i \in FirstFit(pool, n) :
         LET r == AllocAt(pool, n, i)
         IN /\ pool' = FreeAt(r.pool, b)
            /\ ptrs' = (ptrs \cup {r.at}) \ {b}
            /\ asked' = [asked EXCEPT ![r.at] = n, ![b] = 0]
            /\ gone' = {a \in gone : ~Inside(a, r.at, r.pool.hdr[r.at].size)}
                         \cup {b}

Next ==
    \/ \E n \in Requests : Alloc(n)
    \/ \E b \in Units : FreeBlock(b) \/ FreeAgain(b)
    \/ \E b \in Units, n \in Requests : Realloc(b, n)

Spec == Init /\ [][Next]_vars

-----------------------------------------------------------------------------
\* The blocks the blob holds and those on the free list.
Blocks == ptrs \cup ToSet(pool.free)
NextBlock(b) == b + pool.hdr[b].size

TypeOK ==
    /\ pool \in [hdr : [Units -> [size : 0 .. Cap, used : BOOLEAN]],
                 ftr : [Units -> [size : 0 .. Cap, used : BOOLEAN]],
                 free : Seq(Units)]
    /\ ptrs \subseteq Units /\ gone \subseteq Units /\ asked \in [Units -> Nat]

\* A walk over the headers from the first unit (arena_stats) comes to every block
\* and to the end of the pool.
Tiled ==
    /\ 0 \in Blocks
    /\ \A b \in Blocks : NextBlock(b) \in Blocks \cup {Cap}
    /\ \A b, c \in Blocks : b < c => NextBlock(b) <= c

\* After any sequence of calls the blocks tile the pool, each with the same tag
\* at both ends and of at least MIN_BLOCK; those in use are those the blob
\* holds, the others are on the free list, once each.
WellFormed ==
    /\ TypeOK /\ Tiled
    /\ \A b \in Blocks : /\ pool.hdr[b].size >= MIN_BLOCK
                         /\ pool.ftr[LastUnit(b, pool.hdr[b].size)] = pool.hdr[b]
                         /\ pool.hdr[b].used <=> b \in ptrs
    /\ ptrs \cap ToSet(pool.free) = {} /\ IsInjective(pool.free)

\* Freeing always coalesces, so a request is refused only if no run of units the
\* blob does not hold is long enough for it, however the pool was cut up before.
RefusedOnlyWhenFull ==
    LET held == UNION {b .. LastUnit(b, pool.hdr[b].size) : b \in ptrs}
    IN \A n \in Requests : FirstFit(pool, n) = {} =>
          \A a \in 0 .. Cap - Need(n) : (a .. a + Need(n) - 1) \cap held # {}

\* The boundary tags implement a heap: a block has room for what it was asked for
\* and overlaps none in use, none moves, a second free of the same pointer changes
\* nothing.
Held == {[at |-> b, len |-> pool.hdr[b].size, for |-> asked[b]] : b \in ptrs}
Abstract == INSTANCE Heap WITH Size <- Cap, Overhead <- OVERHEAD, held <- Held
ImplementsHeap == Abstract!HeapSpec
=============================================================================
