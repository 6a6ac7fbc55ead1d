\* An apply fails after the old mapping was unset.
CONSTANTS
    Planes <- Basic
    Outputs = {"o1"}
    Layers = {"l1", "comp"}
    NULL = NULL
    NoProp = NoProp
    Props = {"FB_ID"}
    Values <- FbOnly
    OPAQUE <- Opaque
    ROTATE_0 <- Rotate0
    Primary = {"primary"}
    Supported <- BasicSupported
    Crtcs <- BasicCrtcs
    LIFTOFF_PRIORITY_PERIOD = 1
    MayFail = TRUE
    MayDestroyPlanes = FALSE
SPECIFICATION SetUpSpec
INVARIANTS
    NothingLost
