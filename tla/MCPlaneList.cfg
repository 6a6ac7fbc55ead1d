\* Three planes of every type and zpos.
CONSTANTS
    INT_MAX = 3
    NoProp = NoProp
    NumPlanes = 3
    Cards <- AllCards
SPECIFICATION Spec
INVARIANTS
    TypeOK
    ListIntact
    PlanesSorted
    SuccessRegistersAll
PROPERTIES
    ImplementsPlaneOrder
    CallsReturn
