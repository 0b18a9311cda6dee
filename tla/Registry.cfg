\* Three guests of two teams who use each other's ports and may be killed.
SPECIFICATION Spec
CONSTANTS
    c1 = c1
    c2 = c2
    c3 = c3
    A = A
    B = B
    Thread = {c1, c2, c3}
    Team = {A, B}
    TeamOf <- TwoAndOne
    Name = {n1, n2}
    MaxObjects = 2
SYMMETRY Symmetry
INVARIANTS
    NamesResolve
    FoundUnlessShared
    OwnersKept
\* Everybody has left.
CHECK_DEADLOCK FALSE
