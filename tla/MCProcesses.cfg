\* Three tasks on the two workers that a launch of three jobs allows.  One command: a child and
\* a descendant that holds its output; chunks of two sizes, a limit that three small ones reach
\* exactly and that a large one passes with room for a small one left.
CONSTANTS
    t1 = t1
    t2 = t2
    t3 = t3
    child = child
    helper = helper
    None = None
    Jobs = 3
    Tasks <- MCTasks
    Group <- MCGroup
    Child = child
    ChunkSizes <- MCChunkSizes
    maxOutputBytes = 3
    MaxChunks = 4
SPECIFICATION MCSpec
INVARIANTS
    PoolIsSound
    CommandIsSound
PROPERTIES
    NothingAfterTheEnd
    ProcessesEnd
CHECK_DEADLOCK FALSE
