SPECIFICATION StreamSpec
CONSTANTS
    Streams <- MCStreams
    Kinds = {"sync", "machine"}
    Ephemerals = {TRUE, FALSE}
    Ids <- MCIds
    Passes = {}
    ChannelBuffer = 1
    MaxChanges = 0
    MaxTokens = 0
    MaxReports = 2
    MaxDeletes = 1
    MaxFaults = 1
INVARIANTS TypeOK ResourcesOwned SyncStatusClears SemBalanced
PROPERTY HandlersEnd
CHECK_DEADLOCK FALSE
