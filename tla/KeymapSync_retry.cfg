\* One run that never times out, over a line that loses some of its reports.
SPECIFICATION RetrySpec
CONSTANTS
    p1 = p1
    p2 = p2
    p3 = p3
    key = key
    layout = layout
    chunk1 = chunk1
    chunk2 = chunk2
    protocol = protocol
    hashes = hashes
    defaults = defaults
    Proc = {p1}
    Cell = {key, chunk1, chunk2}
    MacroCell = {chunk1, chunk2}
    Value = {1, 2}
    Page = {protocol, hashes}
    HashPage = hashes
    Abi = {expected}
    None = None
    MaxInFlight = 3
    QueueDepth = 3
    MayReplug = FALSE
    MayTimeOut = FALSE
    ProtocolPage = protocol
    StatusPages <- HashesOnly
    KeyGroups <- OneKey
    ViaGroups <- MacroChunks
    ExpectedAbi = expected
    Desired <- AllWant1
CHECK_DEADLOCK FALSE
PROPERTY RetryMasksLoss
