\* Two calls in lazy mode, each with up to one counted round and any number of failed ones.
SPECIFICATION LazySpec
CONSTANTS
    a = a
    b = b
    c = c
    d = d
    Atoms <- MCAtoms
    Rules <- MCRules
    Clauses <- MCClauses
    Lits <- MCLits
    RuleOf <- MCRuleOf
    Weight <- MCWeight
    Hard <- MCHard
    DbTrue = {}
    DbFalse = {}
    MaxFlips = 1
    MaxExtraFlips = 3
    Rounds = 1
    MaxCalls = 2
INVARIANTS
    DormantAreTrue
    RoundIsChainStep
    KeptWereTrue
CHECK_DEADLOCK FALSE
