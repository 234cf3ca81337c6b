CONSTANTS
    Finder = {f1, f2}
    Server = {s1, s2, s3, s4, s5}
    Workers = 2
SPECIFICATION Spec
SYMMETRY MCSymmetry
VIEW MCView
INVARIANTS
    TypeOK
    PortOwnedOnce
    PortsConserved
    NeverCrashes
    OneLobby
