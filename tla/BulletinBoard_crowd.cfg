SPECIFICATION Spec
CONSTANTS
    Servers = {s1}
    Clients = {c1, c2, c3}
    RECORD_NUM = 1
    MAX_CLIENTS = 2
    Posts = {p1, p2}
    Blank = blank
    None = none
SYMMETRY Symmetry
INVARIANTS
    TypeOK
PROPERTIES
    OneBoard
