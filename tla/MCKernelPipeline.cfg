CONSTANTS
    Version = {"v1", "v2"}
    RequestsFor <- Requests
    MaxCommits = 4
    MaxRuns = 2
SPECIFICATION Spec
INVARIANT BuiltTreeIsPinned
INVARIANT VerifiedArtifactIsCurrent
CHECK_DEADLOCK FALSE
