SPECIFICATION Spec
CONSTANTS
    a1 = a1
    a2 = a2
    n1 = n1
    c1 = c1
    p1 = p1
    p2 = p2
    o1 = o1
    o2 = o2
    x1 = x1
    x2 = x2
    r1 = r1
    None = None
    AppWindows = {a1, a2}
    PanelWindows = {n1}
    Clusters = {c1}
    PanelIDs = {p1, p2}
    Objects = {o1, o2}
    Transfers = {x1, x2}
    Callers = {r1}
    MaxIndex = 2
SYMMETRY DirectorySymmetry
INVARIANT TransfersAgree
INVARIANT OneObjectOnePanel
PROPERTY OnlyOpenCreates
PROPERTY MovingStaysPut
