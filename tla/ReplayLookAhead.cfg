CONSTANTS
    Series = {s1, s2}
    NumWeeks = 4
    WeekDays = 2
    Lags = {1, 3}
    Windows = {2}
    TestSizes = {1, 2}
    ValidationSizes = {1, 2}
    HorizonDays = {1, 3}
    Strides = {1, 2}
    RequestedLeads <- ConfiguredLeads
    LeadTimes = {1, 3}
    ReviewPeriods = {1, 2}
SPECIFICATION Spec
INVARIANTS OnlyPastData
CHECK_DEADLOCK FALSE
