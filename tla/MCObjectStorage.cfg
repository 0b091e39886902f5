CONSTANTS
    None = None
    o1 = o1
    o2 = o2
    Proc = {p1, p2}
    Object = {o1, o2}
    Packs <- TwoPacks
    Op = {"get", "has", "size", "delta", "fetch", "repack", "reindex", "iter", "commit", "addalt"}
    Modes = {FALSE, TRUE}
    AltExtra = {o2}
    AltChoices <- NoAlternates
    MaxCalls = 2
    MaxExternal = 1
    MaxAlts = 2
SPECIFICATION Spec
SYMMETRY Symmetry
INVARIANTS
  PresentIsFound
  AbsentIsNotFound
  IndexKeepsPacks
  NothingLost
  LocksAreReleased
