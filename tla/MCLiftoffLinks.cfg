\* Two outputs that share an overlay; everything may fail and be destroyed.
CONSTANTS
    Planes <- Shared
    Outputs = {"o1", "o2"}
    Layers = {"l1", "comp"}
    NULL = NULL
    NoProp = NoProp
    Props = {"FB_ID", "rotation"}
    Values <- FbRotation
    OPAQUE <- Opaque
    ROTATE_0 <- Rotate0
    Primary = {"primary"}
    Supported <- SharedSupported
    Crtcs <- SharedCrtcs
    LIFTOFF_PRIORITY_PERIOD = 1
    MayFail = TRUE
    MayDestroyPlanes = TRUE
SPECIFICATION Spec
INVARIANTS
    LinksConsistent
PROPERTIES
    OtherOutputsUntouched
