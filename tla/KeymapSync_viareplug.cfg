\* One run, and a keyboard that may be replaced by one with other firmware.
SPECIFICATION Spec
CONSTANTS
    p1 = p1
    p2 = p2
    p3 = p3
    key = key
    layout = layout
    chunk1 = chunk1
    chunk2 = chunk2
    protocol = protocol
    hashes = hashes
    defaults = defaults
    Proc = {p1}
    Cell = {key, layout}
    MacroCell = {}
    Value = {1, 2}
    Page = {protocol, hashes}
    HashPage = hashes
    Abi = {expected, other}
    None = None
    MaxInFlight = 2
    QueueDepth = 2
    MayReplug = TRUE
    MayTimeOut = TRUE
    ProtocolPage = protocol
    StatusPages <- HashesOnly
    KeyGroups <- OneKey
    ViaGroups <- OneLayout
    ExpectedAbi = expected
    Desired <- AllWant1
CHECK_DEADLOCK FALSE
INVARIANT ViaWritesCompatible
