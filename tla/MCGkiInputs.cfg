CONSTANTS
    f1 = f1
    f2 = f2
    f3 = f3
    p1 = p1
    File = {f1, f2, f3}
    Project = {p1}
    Workers = 2
SPECIFICATION Spec
PROPERTY EvidenceIsPinned
PROPERTY OnlyPublishedSpreads
PROPERTY RunEnds
