SPECIFICATION FairSpec
CONSTANTS
    w1 = w1
    w2 = w2
    c1 = c1
    c2 = c2
    t1 = t1
    t2 = t2
    NoTask = NoTask
    Windows = {w1, w2}
    Clusters = {c1}
    Tasks = {t1, t2}
    Kinds = {"apply", "close", "release", "stage", "move", "cancelMove", "openPanel", "closePanel", "rebuild", "watch", "paths", "ensure"}
INVARIANT SelectedIsOwned
PROPERTY PanelKeepsReference
PROPERTY CommandsEnd
CHECK_DEADLOCK FALSE
