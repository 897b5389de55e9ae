CONSTANTS
    Sym <- MCSym
    Allowed <- MCAllowed
    Kernels <- MCKernels
    Builds <- MCBuilds
    MaxDamaged = 2
SPECIFICATION Spec
INVARIANT PassedLoads
INVARIANT CandidateIsIntact
CHECK_DEADLOCK FALSE
