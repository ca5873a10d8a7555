\* Rounds with one of burn-in, without Gibbs steps and with two after every sample.
SPECIFICATION McFairSpec
CONSTANTS
    a = a
    b = b
    c = c
    d = d
    Atoms <- MCAtoms
    Rules <- MCRules
    Clauses <- MCClauses
    Lits <- MCLits
    RuleOf <- MCRuleOf
    Weight <- MCWeight
    Hard <- MCHard
    DbTrue <- MCDbTrue
    DbFalse = {}
    MaxFlips = 1
    MaxExtraFlips = 1
    MaxSamples = 2
    BurnIn = 1
    SampInterval = 2
    GibbsStepsChoices = {0, 2}
    HasTimeout = TRUE
INVARIANTS
    ProposalSatisfiesHard
    DrawsMaxSamples
PROPERTIES
    SamplesSatisfyHard
    ImplementsChain
    McSatReturns
CHECK_DEADLOCK FALSE
