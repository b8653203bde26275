SPECIFICATION Spec
CONSTANTS
    A = A
    B = B
    Reader = {r1, r2}
    Mutator = {m1}
    Rule = {A, B}
    RuleOf <- TwoRules
    MaxMutation = 2
INVARIANTS
    UndisturbedListingsAreComplete
    UndisturbedListingsObeyTheRule
SYMMETRY Symmetry
