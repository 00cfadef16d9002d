CONSTANTS
    Stanzas = {group}
    Groups = {group}
    Handlers = {h1, h2}
    group = group
    h1 = h1
    h2 = h2
SPECIFICATION Spec
SYMMETRY AnyHandler
INVARIANTS
    TypeOK
    AckedIsHandled
    HandledOnce
