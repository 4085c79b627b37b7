CONSTANTS
    TotalSamples = 1
    DecisionSamples = 1
    ZeroTime = 0
    OneTime = 0
    ElectronicFailTimeout = 0
    TachoTimeout = 0
    PhaseLostTimeout = 0
    VoltageErrorTimeout = 0
    HwFaultPostrunTimeout = 0
    PhaseLostThreshold = 1
    PowerUpDelay = 0
    CalibrationThreshold = 0
    Debouncing = 2
    FailTimer = 4
    IdleBeforeCheck = 0
    CheckTimeout = 1
    MinPwmPerSlot = 2
    MaxPwmPerSlot = 2
    Failing = {}
    VbusLevels = {"ok"}
    Temperatures = {"between"}
    PhaseCurrents = {"balanced"}
    StopCurrents = {TRUE}
    InjectionAnswers = {TRUE}
    ParamsCrc = {TRUE}
    CheckErrorPostscaler = 0
    InitErrorThreshold = 4
    ClassBStartupThreshold = 4
    Commanders = {"reveal"}
    Commands = {"fvt"}
    MclOutputs = {"duty"}
    OverCurrents = {FALSE}
    MclErrors = {FALSE}
    FvtAnswers = {TRUE}
    RelayAnswers = {TRUE}
SPECIFICATION ControlSpec
PROPERTY
    StopForgetsStarts
