SPECIFICATION Spec
CONSTANTS
    l1 = l1
    l2 = l2
    l3 = l3
    c1 = c1
    c2 = c2
    b1 = b1
    j1 = j1
    Layers = {l1, l2, l3}
    Wiping = {l1}
    Categories = {c1, c2}
    CategoryNames <- MCCategoryNames
    LayerNames <- MCLayerNames
    FirstNames <- MCFirstNames
    Browsers = {b1}
    Flags = {TRUE}
    Setups <- MCSetups
    Jobs = {j1}
    MaxEdits = 2
    MaxFaults = 1
INVARIANTS
    TypeOK
    TilesBelongToTheirLayer
    ConfirmedTilesAreCurrent
