\* The daemon alone, with an incompatible keyboard beside a drifted one.
SPECIFICATION FairSpec
CONSTANTS
    Proc = {daemon}
    Watch = {daemon}
    Path = {d1, d2}
    Version = {packaged, runtime, legacy}
    Expected = packaged
    Compatible = {packaged, runtime}
    None = None
    Unknown = Unknown
    Pending = Pending
    Attempts = 2
    MaxPlugs = 2
    MaxFaults = 1
PROPERTY MismatchIsReportedBesideDrift
