SPECIFICATION Spec
CONSTANTS
    Backends = {b1, b2}
    Refreshers = {r1}
    Tiers <- MCTiers
    Subscriptions = {s1}
    Matches <- MCMatches
    Policies = {TRUE, FALSE}
    BatchSize = 1
    MaxPlans = 2
    MaxFaults = 2
SYMMETRY MCSymmetry
INVARIANTS TypeOK OncePerWindow NoWindowSilenced RemindersFollow
CHECK_DEADLOCK FALSE
