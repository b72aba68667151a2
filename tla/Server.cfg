CONSTANTS
    Nodes = {n1, n2}
    Conns = {c1, c2}
    Browsers = {b1, b2}
    Macs = {a}
    Rssi = {r1, r2}
    NoRssi = NoRssi
    NoRecord = NoRecord
    NoNode = NoNode
    Window = 1
    MaxSubs = 2
SPECIFICATION FairSpec
INVARIANTS TypeOK CountMatchesSockets CompleteMeansEveryNode
PROPERTIES RecordOnlyGrows CompletedIsSent ImplementsReadings VanishedPeerReleased
