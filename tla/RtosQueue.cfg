CONSTANTS
    Tasks = {t1, t2, t3}
    NoTask = NoTask
    MaxLock = 2
SPECIFICATION FairSpec
INVARIANTS TypeOK NoSleeperBesideItem EachTaskInOneList
PROPERTIES ImplementsSync
