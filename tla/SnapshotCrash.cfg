CONSTANTS
    Procs = {p1, p2}
    MaxStarts = 2
    MaxKills = 1
    Configs <- MCConfigs
    ShapeOf <- MCShapeOf
    NoRolling = {"c4"}
    NoStore = {"c5"}
    Datasets = {d1, d2}
    None = None
SPECIFICATION MCSpec
INVARIANTS NextBuildCanCreate
CHECK_DEADLOCK FALSE
