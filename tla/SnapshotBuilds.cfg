CONSTANTS
    Procs = {p1, p2}
    MaxStarts = 3
    MaxKills = 1
    Configs <- MCConfigs
    ShapeOf <- MCShapeOf
    NoRolling = {"c4"}
    NoStore = {"c5"}
    Datasets = {d1, d2}
    None = None
SPECIFICATION MCFairSpec
INVARIANTS TypeOK AtMostOneOrphan LineageExact
PROPERTIES SnapshotsImmutable WedgeIsPermanent RefinesRegistry BuildPublishes
CHECK_DEADLOCK FALSE
