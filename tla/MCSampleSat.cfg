\* One call after another, every subset of the rules, every start.
SPECIFICATION FairSpec
CONSTANTS
    a = a
    b = b
    c = c
    d = d
    Atoms <- MCAtoms
    Rules <- MCRules
    Clauses <- MCClauses
    Lits <- MCLits
    RuleOf <- MCRuleOf
    Weight <- MCWeight
    Hard <- MCHard
    DbTrue <- MCDbTrue
    DbFalse = {}
    MaxFlips = 2
    MaxExtraFlips = 2
INVARIANTS
    TypeOK
    OneListPerClause
    WatchedByTrueLit
    NumUnfixedExact
    FixedIsEntailed
    SatListSettled
    NoClauseLost
    ReturnedModel
    WalkHasCandidate
    CostIsExact
PROPERTIES
    CallReturns
