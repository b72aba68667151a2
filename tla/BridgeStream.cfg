CONSTANTS
    Mains = {m1}
    Writers = {w1}
    Fds = {f1}
    MSize = 3
    TSize = 2
    FifoCap = 2
    MaxBytes = 4
    MaxIp = 1
    MaxConn = 1
    NoFd = NoFd
    NoTask = NoTask
SPECIFICATION Spec
INVARIANT StreamInOrder
CHECK_DEADLOCK FALSE
