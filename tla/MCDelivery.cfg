SPECIFICATION FairSpec
CONSTANTS
    Addresses = 2
    PerAddress = 3
    Retries = 3
    Timeout = 6
    Backoff = 2
    Second = 2
    MaxLag = 1
INVARIANTS TypeOK Ceiling SilenceIsRetried RetryIsNotStarved
PROPERTIES NeverGoesBack Returns
CHECK_DEADLOCK FALSE
