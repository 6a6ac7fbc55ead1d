\* A disabled layer above.
CONSTANTS
    INT_MAX = 3
    NoProp = NoProp
    NumLayers = 3
    NumPlanes = 3
    Scenes <- DisabledScenes
SPECIFICATION Spec
INVARIANTS
    DisabledLayersIgnored
