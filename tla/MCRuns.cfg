SPECIFICATION ProcessesSpec
CONSTANTS
    MaxAttempts = 2
    Inventories <- MCInventories
    Policies <- MCPolicies
    Measurements <- MCMeasurements
    MaxGeneration = 1
    MaxDecodes = 2
INVARIANTS OutcomeIsTrue NoBareCgroupLeft
PROPERTIES RunEnds NoReleaseWithContextOpen OnlyEligibleReleased RunReturns
CHECK_DEADLOCK FALSE
