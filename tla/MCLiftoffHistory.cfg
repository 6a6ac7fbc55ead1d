\* One output, two planes, two layers: when is a mapping reused?
CONSTANTS
    Planes <- Basic
    Outputs = {"o1"}
    Layers = {"l1", "comp"}
    NULL = NULL
    NoProp = NoProp
    Props = {"FB_ID", "alpha"}
    Values <- FbAlphaValues
    OPAQUE <- Opaque
    ROTATE_0 <- Rotate0
    Primary = {"primary"}
    Supported <- BasicSupported
    Crtcs <- BasicCrtcs
    LIFTOFF_PRIORITY_PERIOD = 1
    MayFail = FALSE
    MayDestroyPlanes = FALSE
SPECIFICATION HistorySpec
INVARIANTS
    MappedLayersDisplayable
    AllocationCurrent
    NothingLost
    NoAssertionFails
PROPERTIES
    EveryApplySearches
