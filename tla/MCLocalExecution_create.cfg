\* A program may create an account that is there already: what it learns then is in no
\* snapshot.
SPECIFICATION Spec
CONSTANTS
    Accounts = {a, b, c}
    Nodes <- SomeNodes
    Collisions = TRUE
    None = None
    MaxOps = 4
    MaxDepth = 3
SYMMETRY Symmetry
INVARIANTS
    SnapshotSuffices
CHECK_DEADLOCK FALSE
