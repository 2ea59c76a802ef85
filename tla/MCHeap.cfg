SPECIFICATION Spec
CONSTANTS
    Region <- MCRegion
    Request = {3, 13}
    Alignment = {4}
    MM_MAX_CHUNK = 8
    MM_NNODES = 3
INVARIANT HeapIntact
PROPERTY AllocatorKept
CHECK_DEADLOCK FALSE
