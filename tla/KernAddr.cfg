CONSTANTS
    UsizeBits = 8
    PageSizeBits = 2
    VaWidth = 6
    Panic = Panic

SPECIFICATION Spec

INVARIANTS
    CanonicalRoundTrip
    PageRoundTrip
    PhysTranslationsAgree
