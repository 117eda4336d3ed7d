SPECIFICATION Spec
CONSTANTS
    momentum = momentum
    reversion = reversion
    volatility = volatility
    malformed = malformed
    Generated <- RepeatedSpecs
    Malformed <- MalformedSpecs
    Configs <- OpenConfig
    MaxCrashes = 0
INVARIANT EquivalentSpecsShareOneTrial
CHECK_DEADLOCK FALSE
