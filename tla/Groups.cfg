SPECIFICATION Spec
CONSTANTS
    Users = {o, u, v}
    Owner = o
    Requests = {r1, r2, r3}
    MaxListed = 2
SYMMETRY Symmetry
INVARIANTS TypeOK InOnce
PROPERTIES ImplementsMemberSet
CHECK_DEADLOCK FALSE
