CONSTANTS
    Procs = {p1, p2}
    MaxStarts = 3
    MaxKills = 0
    Configs <- MCConfigs
    ShapeOf <- MCShapeOf
    NoRolling = {}
    NoStore = {}
    Datasets <- MCDatasets
    None = None
    CostConfigs = {k1, k2}
    Asked = {1}
    Short = {"short"}
    NumQuantiles = 2
    NumMetrics = 2
SYMMETRY MCSymmetry
SPECIFICATION MCSpec
INVARIANTS ReportPricedAsShown
CHECK_DEADLOCK FALSE
