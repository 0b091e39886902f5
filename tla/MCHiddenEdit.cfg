CONSTANTS
    f = f
    g = g
    x = x
    y = y
    None = None
    Path = {f, g}
    Content = {x, y}
    main = main
    topic = topic
    Branch <- MCBranches
    Detached = detached
    History <- MCHistory
    Ignored = {g}
    MaxNew = 1
    MaxTime = 1
SPECIFICATION Spec
SYMMETRY MCSymmetry
INVARIANTS
    MetadataIsEnough
