\* Three accounts, up to six operations, calls three deep.
SPECIFICATION Spec
CONSTANTS
    Accounts = {a, b, c}
    Nodes <- SomeNodes
    Collisions = FALSE
    None = None
    MaxOps = 6
    MaxDepth = 3
SYMMETRY Symmetry
INVARIANTS
    TypeOK
    ContextIsKnown
    OfflineAgrees
CHECK_DEADLOCK FALSE
