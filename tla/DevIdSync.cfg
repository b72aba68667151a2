CONSTANTS
    Bytes = {0, 2, 73, 87, 239}
    DevIds = {1}
    IdSize = 1
    MaxRun = 6
    Text <- Greeting
    Identifier = 239
SPECIFICATION FairSpec
PROPERTY ZeroResynchronizes
CHECK_DEADLOCK FALSE
