SPECIFICATION Spec
CONSTANTS
    Thread = {t1, t2}
    Target = {f, g, h}
    Slot = {s1, s2}
    NoTarget = NoTarget
    NoSlot = NoSlot
SYMMETRY Symmetry
INVARIANT ReplacementHasOriginal
INVARIANT OneSlotPerTarget
INVARIANT TicketsAreHeld
PROPERTY ReportedIsInstalled
