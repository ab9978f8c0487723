\* Three runs of different configurations over one key and two macro chunks.
SPECIFICATION Spec
CONSTANTS
    p1 = p1
    p2 = p2
    p3 = p3
    key = key
    layout = layout
    chunk1 = chunk1
    chunk2 = chunk2
    protocol = protocol
    hashes = hashes
    defaults = defaults
    Proc = {p1, p2, p3}
    Cell = {key, chunk1, chunk2}
    MacroCell = {chunk1, chunk2}
    Value = {1, 2}
    Page = {protocol, hashes}
    HashPage = hashes
    Abi = {expected}
    None = None
    MaxInFlight = 4
    QueueDepth = 4
    MayReplug = FALSE
    MayTimeOut = TRUE
    ProtocolPage = protocol
    StatusPages <- HashesOnly
    KeyGroups <- OneKey
    ViaGroups <- MacroChunks
    ExpectedAbi = expected
    Desired <- WantTheirOwn
CHECK_DEADLOCK FALSE
INVARIANT LastRunWins
CONSTRAINT OneAtATime
