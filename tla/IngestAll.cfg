CONSTANTS
    Procs = {p1, p2}
    MaxStarts = 3
    MaxKills = 1
    Datasets <- MCDatasets
    KeysOf <- MCKeysOf
    Rejects <- MCRejects
    Flaws <- MCFlaws
    NoData = NoData
SPECIFICATION FairSpec
INVARIANTS TypeOK ValidatedMeansComplete FailuresClassified
PROPERTIES RawFilesReadFirst OkMeansOwnData RerunRecovers
CHECK_DEADLOCK FALSE
