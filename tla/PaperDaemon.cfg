SPECIFICATION FairSpec
CONSTANTS
    MaxSessions = 2
    MaxBars = 3
    MaxErrors = 1
    MaxFills = 4
    Every = 2
INVARIANT TypeOK
INVARIANT TrustedMissesLittle
INVARIANT GracefulEndRecovers
INVARIANT KillOutlivesProcess
PROPERTY StopEndsLoop
PROPERTY LedgerSpec
CHECK_DEADLOCK FALSE
