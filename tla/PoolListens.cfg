CONSTANTS
    Finder = {f1}
    Server = {s1, s2, s3, s4}
    Workers = 2
SPECIFICATION Spec
INVARIANT StartedServerListens
