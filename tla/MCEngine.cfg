SPECIFICATION Spec
CONSTANTS
    s1 = s1
    s2 = s2
    a1 = a1
    a2 = a2
    b1 = b1
    None = None
    Sessions = {s1, s2}
    Calls = {a1, a2, b1}
    Of <- MCOf
    Instances = {1, 2, 3}
    MaxReplaced = 1
INVARIANTS
    OneInstance
PROPERTY
    FirstCallWaits
