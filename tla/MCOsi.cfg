SPECIFICATION ASpec
CONSTANTS
    Main = main
    Tasks = {main, t1, t2}
    Mutexes = {m1, m2}
    Sems = {s1}
    ThreadSems = {h1, h2}
    Groups = {g1}
    Bits = {b1, b2}
    Kinds = {"mutex", "sem", "event", "task", "queue", "loop"}
    MaxNest = 2
    None = None
    Queues = {q1}
    Items = {i1, i2}
    MaxLen = 3
    MaxLate = 2
    Blocks = {a1, a2, a3, a4}
    Nil = Nil
SYMMETRY MCSymmetry
INVARIANTS
    CriticalIsExclusive
    MutualExclusion
    CountsKept
    QueueIsFifo
    ListsIntact
    EventMemory
PROPERTIES
    ImplementsBus
