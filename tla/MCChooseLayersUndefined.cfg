\* Planes of equal zpos.
CONSTANTS
    INT_MAX = 3
    NoProp = NoProp
    NumLayers = 3
    NumPlanes = 3
    Scenes <- OrdinaryStackScenes
SPECIFICATION Spec
INVARIANTS
    StackingDefined
