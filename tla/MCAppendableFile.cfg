CONSTANTS
    cache_max_size = 2
    MaxCommands = 6
SPECIFICATION Spec
INVARIANT WrittenAtMostOnce
INVARIANT InOrderUnlessOverrun
PROPERTY ShutdownCompletes
