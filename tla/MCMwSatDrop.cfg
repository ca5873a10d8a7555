\* A hard clause contradicted by a soft rule that was fixed false.
SPECIFICATION Spec
CONSTANTS
    a = a
    b = b
    c = c
    d = d
    Atoms <- MCAtoms
    Rules <- MCRules
    Clauses <- MCClauses
    Lits <- MCLits
    RuleOf <- MCRuleOf
    Weight <- MCWeight
    Hard <- MCHardAll
    NumTrials = 1
    MaxFlips = 1
    RandomVar = TRUE
    HasTimeout = FALSE
INVARIANT DroppedMeansNoModel
CHECK_DEADLOCK FALSE
