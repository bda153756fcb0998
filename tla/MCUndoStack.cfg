SPECIFICATION Spec
CONSTANTS
    Keys = {k1, k2}
    Data = {d1, d2}
    MaxId = 3
    MaxDepth = 3
    MaxRevision = 4
INVARIANTS TypeOK Restores UndoNeverThrows
PROPERTY ImplementsSnapshots
SYMMETRY Symmetry
