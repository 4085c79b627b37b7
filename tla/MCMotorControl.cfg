CONSTANTS
    TotalSamples = 1
    DecisionSamples = 1
    ZeroTime = 0
    OneTime = 0
    ElectronicFailTimeout = 0
    TachoTimeout = 0
    PhaseLostTimeout = 0
    VoltageErrorTimeout = 0
    HwFaultPostrunTimeout = 0
    PhaseLostThreshold = 1
    PowerUpDelay = 0
    CalibrationThreshold = 0
    Debouncing = 2
    FailTimer = 4
    IdleBeforeCheck = 0
    CheckTimeout = 1
    MinPwmPerSlot = 2
    MaxPwmPerSlot = 2
    Failing = {"currents"}
    VbusLevels = {"ok"}
    Temperatures = {"between"}
    PhaseCurrents = {"balanced"}
    StopCurrents = {TRUE}
    InjectionAnswers = {TRUE}
    ParamsCrc = {TRUE}
    CheckErrorPostscaler = 0
    InitErrorThreshold = 4
    ClassBStartupThreshold = 3
    Commanders = {"reveal", "injects", "drives"}
    Commands = {"fvt", "manual"}
    MclOutputs = {"duty"}
    OverCurrents = {TRUE, FALSE}
    MclErrors = {FALSE}
    FvtAnswers = {TRUE}
    RelayAnswers = {TRUE}
SPECIFICATION ControlSpec
INVARIANTS
    ControlTypeOK
    IdleMeansReleased
PROPERTIES
    SafetySpec
    RunOnlyWanted
