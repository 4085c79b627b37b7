CONSTANTS
    TotalSamples = 1
    DecisionSamples = 1
    ZeroTime = 0
    OneTime = 3
    ElectronicFailTimeout = 1
    TachoTimeout = 1
    PhaseLostTimeout = 0
    VoltageErrorTimeout = 0
    HwFaultPostrunTimeout = 0
    PhaseLostThreshold = 1
    PowerUpDelay = 0
    CalibrationThreshold = 0
    Debouncing = 2
    FailTimer = 8
    IdleBeforeCheck = 1
    CheckTimeout = 1
    MinPwmPerSlot = 1
    MaxPwmPerSlot = 1
    Failing = {"fault_input", "converters", "offsets", "currents"}
    VbusLevels = {"ok"}
    Temperatures = {"below_low", "above_high"}
    PhaseCurrents = {"balanced"}
    StopCurrents = {TRUE}
    InjectionAnswers = {TRUE, FALSE}
    ParamsCrc = {TRUE}
SPECIFICATION RepairSpec
PROPERTIES
    TestsEnd
    RetryComes
    DoorUnlocksUnlessTripped
