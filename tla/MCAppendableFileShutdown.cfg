CONSTANTS
    cache_max_size = 1
    MaxCommands = 4
SPECIFICATION Spec
INVARIANT ShutdownWritesAll
