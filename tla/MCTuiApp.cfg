SPECIFICATION Spec
CONSTANTS
    RamPresets <- OnePreset
    TokensPresets <- EightTokens
    TestPresets <- OneTest
    ModeOrder <- TwoModes
    AdvancedFields <- TwoFields
    TextFields = {}
    RamTexts = {""}
    Digits = {1}
    Models <- TwoModels
    Caps <- TwoCaps
    SavedPlans <- OnePlan
    Levels = 2
    MaxHistory = 2
    MaxRuns = 3
    None = None
INVARIANTS ScreenMatchesSession NeverStuck
CHECK_DEADLOCK FALSE
