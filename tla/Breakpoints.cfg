SPECIFICATION Spec
CONSTANTS
    Addr = {a1, a2}
    a1 = a1
    a2 = a2
    SP = {0}
    Port = {1, 2}
    PortSets <- MCPortSets
    MaxId = 2
    MaxHits = 1
    MaxIgnore = 1
INVARIANT TiersAgree
