\* Soft rules that can hold together, and one the hard rules exclude; two trials.
SPECIFICATION Spec
CONSTANTS
    a = a
    b = b
    c = c
    d = d
    Atoms <- MCAtoms
    Rules <- MCRules
    Clauses <- MCClauses
    Lits <- MCLitsJoint
    RuleOf <- MCRuleOf
    Weight <- MCWeight
    Hard <- MCHard
    NumTrials = 2
    MaxFlips = 2
    RandomVar = TRUE
    HasTimeout = TRUE
INVARIANTS
    NoClauseLost
    OneListPerClause
    ListsMatch
    ExcusedByFalseRule
    LossIsBounded
    SolvedSatisfiesAll
CHECK_DEADLOCK FALSE
