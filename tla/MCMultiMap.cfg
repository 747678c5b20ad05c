CONSTANTS
    Key1 = {a1, a2, a3}
    Key2 = {b1, b2, b3}
    Val = {v1, v2}
    Addr = {p1, p2, p3, p4}
    Null = Null
    NoItem = NoItem
SPECIFICATION Spec
INVARIANTS NoWildAccess IndexesAgree
PROPERTY ImplementsTwoKeyMap
