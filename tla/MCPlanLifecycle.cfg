CONSTANTS
    None = None
    Torn = Torn
    big = big
    small = small
    disk = disk
    stick = stick
    here = here
    llama = llama
    other = other
    NanosPerSecond = 2
    MaxListItems = 3
    MaxSampleTime = 1
    Cuts = {1}
    Environments <- MCEnvironments
    Users <- MCUsers
    Sizes <- MCSizes
SPECIFICATION LifecycleSpec
INVARIANTS
    ConfigurationFits
    ValidMeansCalibratedHere
    CalibrationTimeBounded
PROPERTY FileRefined
