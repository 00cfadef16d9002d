CONSTANTS
    PNs = {p1, p2}
    LIDs = {l1, l2}
    Absent = Absent
    NoRow = NoRow
    MaxRows = 2
    MaxLookups = 2
SPECIFICATION MapSpec
SYMMETRY Symmetry
INVARIANTS
    MapTypeOK
    StoredIsFound
    AgreementIsStored
