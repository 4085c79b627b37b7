CONSTANTS
    TotalSamples = 1
    DecisionSamples = 1
    ZeroTime = 0
    OneTime = 5
    ElectronicFailTimeout = 1
    TachoTimeout = 1
    PhaseLostTimeout = 1
    VoltageErrorTimeout = 1
    HwFaultPostrunTimeout = 2
    PhaseLostThreshold = 1
    PowerUpDelay = 0
    CalibrationThreshold = 0
    Debouncing = 2
    FailTimer = 4
    IdleBeforeCheck = 1
    CheckTimeout = 1
    MinPwmPerSlot = 1
    MaxPwmPerSlot = 2
    Failing = {}
    VbusLevels = {"low", "ok", "high"}
    Temperatures = {"between"}
    PhaseCurrents = {"balanced"}
    StopCurrents = {TRUE}
    InjectionAnswers = {TRUE}
    ParamsCrc = {TRUE}
SPECIFICATION Spec
PROPERTIES
    ErrorReactionApplied
