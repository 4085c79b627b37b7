CONSTANTS
    TotalSamples = 5
    DecisionSamples = 3
    ZeroTime = 1
    OneTime = 2
    ErrorSlots = 1
    CheckErrorPostscaler = 0
    InitErrorThreshold = 0
    ClassBStartupThreshold = 0
    RecBuffSize = 3
    Setups <- ThreeSetups
SPECIFICATION PwmInterruptSpec
PROPERTY ManualOnlyAsked
