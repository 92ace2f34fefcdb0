\* Two sandbox threads race on the slot; an address freed by one thread is
\* handed out again to another (4 cells: one per sandbox, the slot, the loop).
SPECIFICATION Spec
CONSTANTS
    Skills = {s1, s2}
    RT = rt
    Ptr = {a1, a2, a3, a4}
    Null = Null
    Freed = Freed
    MaxInject = 4
INVARIANT TypeOK
INVARIANT ExclusiveOwnership
PROPERTY ImplementsRegister
