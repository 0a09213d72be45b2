CONSTANTS
    e = e  nv = nv
    Err <- e
    NoValue <- nv
    N = 3
    Width = 1
    IdLists <- MCIdLists
    Layouts <- PartitionerLayouts
    Strategies = {"div"}
SPECIFICATION Spec
INVARIANT CheckpointTiles
PROPERTY ImplementsFullVariable
