\* One output has a change that it has not applied yet when another is applied.
CONSTANTS
    Planes <- Shared
    Outputs = {"o1", "o2"}
    Layers = {"l1", "comp"}
    NULL = NULL
    NoProp = NoProp
    Props = {"FB_ID", "rotation"}
    Values <- FbRotation
    OPAQUE <- Opaque
    ROTATE_0 <- Rotate0
    Primary = {"primary"}
    Supported <- SharedSupported
    Crtcs <- SharedCrtcs
    LIFTOFF_PRIORITY_PERIOD = 1
    MayFail = FALSE
    MayDestroyPlanes = FALSE
SPECIFICATION Spec
INVARIANTS
    NoAssertionFails
