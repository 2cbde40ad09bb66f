CONSTANTS
    Scale = 100
    CostConfigs <- MCCostConfigs
    Parts = 10
    Configured = {1, 5, 9}
    Predictions <- MCPredictions
    Demands = {0, 2}
    Prices = {1, 3}
    LeadTimes = {1, 2}
    Distributions = {"empirical", "normal", "poisson"}
    Orders = {0, 1, 2, 4}
    MaxRows = 2
    NaN = NaN
    ThisRun <- MCThisRun
    OldRows <- MCOldRows
    OldResults <- MCOldResults
    NotAvailable = NotAvailable
    Cap = 1
SPECIFICATION MCSpec
INVARIANTS SummaryTypeOK NoCrossing RearrangementNeverHurts OptimalAtFractile GradedByPinball SummarySpeaksForTable SafetyStockShown SavingsShown AccuracyShown
CHECK_DEADLOCK FALSE
