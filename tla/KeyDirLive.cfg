\* Every call returns.
CONSTANTS
    k1 = k1 k2 = k2 w1 = w1 w2 = w2 r1 = r1 f1 = f1 f2 = f2 NoOne = NoOne
    Keys <- OneKey
    NShards = 1
    ShardOf <- OneShard
    Writers <- TwoWriters
    Readers <- OneReader
    Folders <- OneFolder
    WriterPreference = TRUE
    MaxOps = 3
    MaxFile = 1
SPECIFICATION FairSpec
PROPERTIES
    CallsReturn
