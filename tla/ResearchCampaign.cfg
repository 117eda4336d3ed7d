SPECIFICATION FairSpec
CONSTANTS
    momentum = momentum
    reversion = reversion
    volatility = volatility
    malformed = malformed
    Generated <- SomeSpecs
    Malformed <- MalformedSpecs
    Configs <- SomeConfigs
    MaxCrashes = 2
INVARIANT TrialsCounted
INVARIANT ReportExplains
PROPERTY CampaignEnds
PROPERTY SealedTestSpec
CHECK_DEADLOCK FALSE
