CONSTANTS
    PageSize = 4
    MaxOffset = 7

SPECIFICATION Spec

INVARIANT
    PlacedAtStart
