SPECIFICATION Spec
CONSTANTS
    Services = {manager, s1, s2, s3}
    Manager = manager
    None = none
SYMMETRY Symmetry
INVARIANTS
    TypeOK
    OneMessage
    Quiet
PROPERTIES
    ActsAsTree
