\* Three layers on three planes: every compatibility in nine circumstances, and
\* every zpos of three shapes on six plane stacks.
CONSTANTS
    INT_MAX = 3
    NoProp = NoProp
    NumLayers = 3
    NumPlanes = 3
    Scenes <- SearchScenes
SPECIFICATION Spec
INVARIANTS
    TypeOK
    BestMapsLayersOnce
    CompositionLayerOnce
    RequestFollowsPath
    CompositionAllOrNothing
    ResultUsable
    StackingNotReversed
    NothingCompositedOnTop
    StackingDefinedWhenAllOverlap
PROPERTIES
    FindsBestAllocation
    Termination
