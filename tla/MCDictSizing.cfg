CONSTANTS
    MaxUsed = 25
    ExpandSizes = {3, 40}
    RehashSteps = {1, 2}
    MaxRehashMsRounds = 2
SPECIFICATION Spec
INVARIANT TypeOK
INVARIANT LoadBound
