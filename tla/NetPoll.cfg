CONSTANTS
    CPUs = {c1, c2, c3}
    Ops <- MCOpsWithoutPoll

SPECIFICATION Spec

INVARIANTS
    TypeOK
    MutualExclusion
    IrqMaskedWhileHolding

PROPERTIES
    SomeOperationCompletes
