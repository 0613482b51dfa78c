SPECIFICATION BufferSpec
CONSTANTS
    Streams <- MCStreams
    Kinds = {"sync"}
    Ephemerals = {FALSE}
    Ids <- MCIds
    Passes = {"direct", "buffer", "timer"}
    ChannelBuffer = 2
    MaxChanges = 2
    MaxTokens = 2
    MaxReports = 0
    MaxDeletes = 0
    MaxFaults = 1
INVARIANTS Debouncing
PROPERTY ChangesArrive
CHECK_DEADLOCK FALSE
