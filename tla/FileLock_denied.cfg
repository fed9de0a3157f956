CONSTANTS
    Agents = {a1, a2, a3}
    Paths = {p1}
    Calls = {c1, c2}
    None = None
SYMMETRY Symmetry
SPECIFICATION Spec
INVARIANTS
    FalseOnlyOnTimeout
