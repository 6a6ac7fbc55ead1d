\* Planes that have no zpos of their own.
CONSTANTS
    INT_MAX = 3
    NoProp = NoProp
    NumPlanes = 4
    Cards <- GuessedCards
SPECIFICATION Spec
INVARIANTS
    GuessFollowsId
