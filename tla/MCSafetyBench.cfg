CONSTANTS
    TotalSamples = 1
    DecisionSamples = 1
    ZeroTime = 0
    OneTime = 5
    ElectronicFailTimeout = 1
    TachoTimeout = 1
    PhaseLostTimeout = 1
    VoltageErrorTimeout = 1
    HwFaultPostrunTimeout = 1
    PhaseLostThreshold = 1
    PowerUpDelay = 0
    CalibrationThreshold = 0
    Debouncing = 2
    FailTimer = 7
    IdleBeforeCheck = 1
    CheckTimeout = 1
    MinPwmPerSlot = 1
    MaxPwmPerSlot = 2
    Failing = {"fault_input", "converters", "offsets", "currents"}
    VbusLevels = {"ok"}
    Temperatures = {"between"}
    PhaseCurrents = {"balanced"}
    StopCurrents = {TRUE, FALSE}
    InjectionAnswers = {TRUE, FALSE}
    ParamsCrc = {TRUE}
SPECIFICATION BenchSpec
INVARIANTS
    TypeOK
    DriveOnlyTested
    UnlockOnlyStopped
    UnlockExcludesDrive
    ProtectionArmed
PROPERTIES
    PermitSpec
    TestStartsClean
