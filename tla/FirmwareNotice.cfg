\* A daemon and a hotplug command under fair scheduling, two ports, one crash or
\* failing operation.
SPECIFICATION FairSpec
CONSTANTS
    Proc = {daemon, command}
    Watch = {daemon}
    Path = {d1, d2}
    Version = {packaged, legacy}
    Expected = packaged
    Compatible = {packaged}
    None = None
    Unknown = Unknown
    Pending = Pending
    Attempts = 2
    MaxPlugs = 2
    MaxFaults = 1
INVARIANT TypeOK
INVARIANT NeverToldTwice
INVARIANT SuppressedWasTold
INVARIANT NoticeInv
PROPERTY Reconciled
PROPERTY MismatchIsReported
