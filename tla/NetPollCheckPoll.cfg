CONSTANTS
    CPUs = {c1, c2}
    Ops <- MCOpsAll

SPECIFICATION Spec

PROPERTY
    SomeOperationCompletes
