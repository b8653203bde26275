SPECIFICATION Spec
CONSTANTS
    Thread = {t1, t2}
    Uid = {u1}
    PackageManagerFails = TRUE
    MaxConfig = 2
    MaxPackages = 2
INVARIANTS
    CurrentEntriesAreCurrent
    RuleIsFresh
SYMMETRY Symmetry
