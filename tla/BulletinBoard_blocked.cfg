SPECIFICATION ProcessFairSpec
CONSTANTS
    Servers = {s1}
    Clients = {c1, c2}
    RECORD_NUM = 1
    MAX_CLIENTS = 2
    Posts = {p1}
    Blank = blank
    None = none
PROPERTIES
    Answered
