\* Two outputs that flip between two framebuffers, over several periods.
CONSTANTS
    Planes <- Shared
    Outputs = {"o1", "o2"}
    Layers = {"l1"}
    NULL = NULL
    NoProp = NoProp
    Props = {"FB_ID"}
    Values <- FbTwo
    OPAQUE <- Opaque
    ROTATE_0 <- Rotate0
    Primary = {"primary"}
    Supported <- SharedSupported
    Crtcs <- SharedCrtcs
    LIFTOFF_PRIORITY_PERIOD = 3
    MayFail = FALSE
    MayDestroyPlanes = FALSE
SPECIFICATION Spec
INVARIANTS
    TypeOK
    PriorityBounded
