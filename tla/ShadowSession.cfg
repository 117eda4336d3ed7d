SPECIFICATION Spec
CONSTANTS
    MaxSeq = 2
    MaxRestarts = 1
    Configs = {momentum, reversion}
    Held = {0, 1}
INVARIANT TypeOK
INVARIANT DecisionsAccounted
INVARIANT MismatchHalts
INVARIANT TrustedRecovery
PROPERTY WindowSpec
CHECK_DEADLOCK FALSE
