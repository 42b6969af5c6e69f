SPECIFICATION Spec
CONSTANTS
    t1 = t1
    t2 = t2
    g1 = g1
    g2 = g2
    None = None
    Tasks = {t1, t2}
    Categories = {"c1", "c2"}
    Groups = {g1, g2}
    Layers = {"l1"}
    Styles = {"s1"}
    Users = {"u1", "u2"}
    Names = {"a", "b"}
    FirstCategory = "c1"
    FirstGroup = g1
    FirstUser = "u1"
    MaxEdits = 3
    MaxFaults = 0
SYMMETRY Interchangeable
INVARIANT
    StoreIsReadable
CHECK_DEADLOCK FALSE
