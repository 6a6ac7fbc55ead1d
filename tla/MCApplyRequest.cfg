\* Two planes, two layers, alpha.
CONSTANTS
    NumPlanes = 2
    NumLayers = 2
    NoProp = NoProp
    Names <- AlphaNames
    LayerProps <- TwoLayerProps
    Values <- AlphaValues
    Defaults <- AlphaDefaults
    Has <- TwoPlanes
    Holdings <- TwoHoldings
    ClientRequests <- Requests
SPECIFICATION Spec
INVARIANTS
    TypeOK
    RequestIsWhatIsMeant
    FinalConfigurationTested
    ClientEntriesKept
PROPERTIES
    ApplyReturns
