SPECIFICATION Spec
CONSTANTS
    g1 = g1
    g2 = g2
    Groups = {g1, g2}
    Chains <- MCChains
    Times = {1, 2, 4}
    MaxEvents = 3
    MaxTicks = 1
    MaxErrors = 1
INVARIANT WindowsExact
INVARIANT VerdictsComeBack
CHECK_DEADLOCK FALSE
