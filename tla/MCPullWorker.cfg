CONSTANTS
    Jobs = {1, 2}
    CrossDevice = {2}
    MaxAttempts = 2
    NoDigest = none
    MaxCrashes = 1
    MaxFaults = 1
    MaxUser = 1
    MaxCreations = 2
SPECIFICATION PullSpec
INVARIANTS ProofFollowsPublication FailureLeavesNothing CopySpaceReleased
PROPERTIES ImplementsLifecycle PublishesOnlyVerified
CHECK_DEADLOCK FALSE
