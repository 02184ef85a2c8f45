SPECIFICATION Spec
CONSTANTS
    Servers = {s1, s2}
    Clients = {c1, c2}
    RECORD_NUM = 2
    MAX_CLIENTS = 2
    Posts = {p1}
    Blank = blank
    None = none
PROPERTIES
    RefusedMeansFull
