SPECIFICATION Spec
CONSTANTS
    A = A
    B = B
    Reader = {r1}
    Mutator = {m1}
    Rule = {A, B}
    RuleOf <- OneRule
    MaxMutation = 1
INVARIANTS
    ListingsAreComplete
SYMMETRY Symmetry
