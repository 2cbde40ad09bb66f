CONSTANTS
    Procs = {p1, p2}
    MaxStarts = 3
    MaxKills = 1
    Configs <- MCConfigs
    ShapeOf <- MCShapeOf
    NoRolling = {}
    NoStore = {}
    Datasets = {"full"}
    None = None
    CostConfigs = {k1}
    Asked = {1}
    Short = {}
    NumQuantiles = 2
    NumMetrics = 2
SYMMETRY MCSymmetry
SPECIFICATION MCSpec
INVARIANTS PipelineTypeOK ModelsReproducible DefaultsPublished OutputsReproducible MetricsReproducible
PROPERTIES ReportCurrent
CHECK_DEADLOCK FALSE
