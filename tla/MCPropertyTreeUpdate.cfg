SPECIFICATION Spec
CONSTANTS
    v1 = v1
    v2 = v2
    list = list
    inner = inner
    holed = holed
    hole = hole
    Nil = Nil
    NoKey = NoKey
    Names <- Keys
    Leaves = {v1, v2, list, inner, holed, hole, Nil}
    ListItems <- Items
    MaxDepth = 3
    ConfigServerAdditions <- Served
    StartTrees <- Unchanging
    Requested <- Additions
    NewTrees <- MergingTrees
INVARIANTS UpdateTakesAll
CHECK_DEADLOCK FALSE
