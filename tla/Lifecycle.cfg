\* Every environment with up to two variables missing or malformed.
SPECIFICATION FairSpec
CONSTANT Environments <- SomeEnvironments
INVARIANTS TypeOK ServingMeansConfigured EndedClean CleanUpAfterRequests
PROPERTY StopsWhenAsked
CHECK_DEADLOCK FALSE
