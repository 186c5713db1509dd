-------------------------------- MODULE Heap --------------------------------
(***************************************************************************)
(* What the blob may expect of malloc, realloc and free (arena.c): blocks  *)
(* of one region, none overlapping another, each with room for what was    *)
(* asked, that stay where they are until they are given back.              *)
(***************************************************************************)
EXTENDS Integers

CONSTANTS
    Size,       \* units of the region
    Requests,   \* payload sizes the blob asks for, in units
    Overhead    \* units a block needs beside its payload

VARIABLE held   \* the blocks handed out: first unit, length, what was asked for

Extent(b) == b.at .. b.at + b.len - 1
Blocks == [at : 0 .. Size - 1, len : 1 .. Size, for : Requests]
Fits(b, others) ==
    /\ b.len >= b.for + Overhead /\ b.at + b.len <= Size
    /\ \A o \in others : Extent(b) \cap Extent(o) = {}

Grant == \E b \in Blocks : held' = held \cup {b} /\ Fits(b, held)

Release == \E b \in held : held' = held \ {b}

\* The block moved is still whole when its contents are copied.
Move == \E b \in held, c \in Blocks :
    held' = (held \cup {c}) \ {b} /\ Fits(c, held)

HeapSpec == held = {} /\ [][Grant \/ Release \/ Move]_held
=============================================================================
