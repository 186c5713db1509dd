------------------------------- MODULE MCOsi -------------------------------
(* A small instance of OsiAdapter: three tasks, two slots of each pool.     *)
EXTENDS OsiAdapter, TLC

MCSymmetry == Permutations(Tasks \ {Main}) \cup Permutations(ThreadSems) \cup
              Permutations(Mutexes) \cup Permutations(Bits) \cup
              Permutations(Items)
=============================================================================
