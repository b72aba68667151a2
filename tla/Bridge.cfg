CONSTANTS
    Mains = {m1}
    Writers = {w1, w2}
    Fds = {f1}
    MSize = 3
    TSize = 2
    FifoCap = 2
    MaxBytes = 3
    MaxIp = 1
    MaxConn = 2
    NoFd = NoFd
    NoTask = NoTask
SPECIFICATION FairSpec
INVARIANTS TypeOK LockDiscipline CopyFindsItsBytes NoLostWakeup
    CopyExactUnlessWrapped ReaderServesSocket InOrderBeforeWrap
PROPERTIES UsesSync RingIsSent LostConnectionRetried
CHECK_DEADLOCK FALSE
