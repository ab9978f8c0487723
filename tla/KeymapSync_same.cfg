\* Two runs of one configuration over one key and one layout option.
SPECIFICATION FairSpec
CONSTANTS
    p1 = p1
    p2 = p2
    p3 = p3
    key = key
    layout = layout
    chunk1 = chunk1
    chunk2 = chunk2
    protocol = protocol
    hashes = hashes
    defaults = defaults
    Proc = {p1, p2}
    Cell = {key, layout}
    MacroCell = {}
    Value = {1, 2}
    Page = {protocol, hashes}
    HashPage = hashes
    Abi = {expected}
    None = None
    MaxInFlight = 1
    QueueDepth = 2
    MayReplug = FALSE
    MayTimeOut = TRUE
    ProtocolPage = protocol
    StatusPages <- HashesOnly
    KeyGroups <- OneKey
    ViaGroups <- OneLayout
    ExpectedAbi = expected
    Desired <- AllWant1
INVARIANT TypeOK
INVARIANT ConvergedOnSuccess
CHECK_DEADLOCK FALSE
PROPERTY KeepsPromise
PROPERTY EveryRunEnds
