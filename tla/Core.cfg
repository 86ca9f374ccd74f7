CONSTANTS
    Sub = {s1, s2}
    Worker = {w1, w2}
    Text = {t1}
    Canceller = {k1}
    MaxChildren = 1
    MaxGhosts = 1
SPECIFICATION Spec
SYMMETRY Interchangeable
INVARIANTS StatusTellsWork SettledOwesNothing
PROPERTY ImplementsSubSession
CHECK_DEADLOCK FALSE
