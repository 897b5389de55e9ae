CONSTANTS
    Sym <- MCSym
    Allowed <- MCAllowed
    Kernels <- MCKernels
    Builds <- MCBuilds
    MaxDamaged = 0
SPECIFICATION Spec
INVARIANT ImportsCheckedByCrc
CHECK_DEADLOCK FALSE
