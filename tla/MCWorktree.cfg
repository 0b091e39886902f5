CONSTANTS
    f = f
    g = g
    x = x
    y = y
    None = None
    Path = {f, g}
    Content = {x, y}
    main = main
    topic = topic
    Branch <- MCBranches
    Detached = detached
    History <- MCHistory
    Ignored = {g}
    MaxNew = 0
    MaxTime = 2
SPECIFICATION Spec
SYMMETRY MCSymmetry
INVARIANTS
    EditsAreSeen
PROPERTIES
    HardResetRestores
    LocalFilesSurvive
