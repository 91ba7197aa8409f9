SPECIFICATION CacheSpec
CONSTANTS
    a = a
    Keys = {1, 2, 3}
    Vals = {a, Empty}
    Nil = Nil
    Empty = Empty
    Absent = Absent
    Parents <- MCParents
    Domains <- MCDomains
    Ranges <- MCRanges
    MaxWrites = 3
INVARIANTS
    WalksAreExact
PROPERTIES
    ImplementsMap
