SPECIFICATION Spec
CONSTANTS
    w1 = w1
    w2 = w2
    c1 = c1
    c2 = c2
    t1 = t1
    t2 = t2
    NoTask = NoTask
    Windows = {w1, w2}
    Clusters = {c1, c2}
    Tasks = {t1, t2}
    Kinds = {"apply", "close", "release", "openPanel", "closePanel", "watch", "paths"}
SYMMETRY TwoTaskSymmetry
INVARIANT SelectionIsUnion
INVARIANT UncancelledWorkSettles
CHECK_DEADLOCK FALSE
