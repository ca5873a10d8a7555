\* One Gibbs step after a round, judged against the hard rules.
SPECIFICATION McSpec
CONSTANTS
    a = a
    b = b
    c = c
    d = d
    Atoms <- MCAtoms
    Rules <- MCRules
    Clauses <- MCClauses
    Lits <- MCLits
    RuleOf <- MCRuleOf
    Weight <- MCWeight
    Hard <- MCHard
    DbTrue <- MCDbTrue
    DbFalse = {}
    MaxFlips = 2
    MaxExtraFlips = 1
    MaxSamples = 1
    BurnIn = 1
    SampInterval = 1
    GibbsStepsChoices = {1}
    HasTimeout = FALSE
PROPERTY GibbsKeepsHard
CHECK_DEADLOCK FALSE
