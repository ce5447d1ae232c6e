SPECIFICATION BackendsSpec
CONSTANTS
    None = None
    Broken = Broken
    LinkLocal <- MCLinkLocal
    Names <- MCNames
    Scene <- MCScene
    Boxes <- MCBoxes
INVARIANTS NothingInvented NothingLost
PROPERTY SnapshotEnds
