CONSTANTS
    TotalSamples = 1
    DecisionSamples = 1
    ZeroTime = 0
    OneTime = 3
    ElectronicFailTimeout = 1
    TachoTimeout = 1
    PhaseLostTimeout = 1
    VoltageErrorTimeout = 1
    HwFaultPostrunTimeout = 3
    PhaseLostThreshold = 1
    PowerUpDelay = 0
    CalibrationThreshold = 0
    Debouncing = 2
    FailTimer = 9
    IdleBeforeCheck = 1
    CheckTimeout = 1
    MinPwmPerSlot = 1
    MaxPwmPerSlot = 1
    Failing = {"fault_input", "converters", "offsets", "currents"}
    VbusLevels = {"low", "ok"}
    Temperatures = {"between"}
    PhaseCurrents = {"balanced"}
    StopCurrents = {TRUE}
    InjectionAnswers = {TRUE}
    ParamsCrc = {TRUE}
SPECIFICATION Spec
PROPERTIES
    HwFaultWaitKept
