SPECIFICATION FrostFairSpec
CONSTANTS
    s1 = s1
    s2 = s2
    s3 = s3
    Signers = {s1, s2, s3}
    Threshold = 2
    Settings <- MCSettings
CHECK_DEADLOCK FALSE
INVARIANTS
    NonceUsedOnce
    SessionNeverErrs
PROPERTY SessionCompletes
