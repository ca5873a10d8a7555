\* Two runs; resets, queries and assertions between them; in lazy mode threads add atoms.
SPECIFICATION Spec
CONSTANTS
    f = f
    p = p
    t1 = t1
    t2 = t2
    Atoms = {f, p}
    Direct = {f}
    QueryAtom = p
    Threads = {t1, t2}
    MaxSamples = 2
    MaxRuns = 2
    LazyChoices = {TRUE, FALSE}
INVARIANTS
    NewcomersExact
    AnswerIsFrequency
    AtomEstimates
SYMMETRY MCSymmetry
CHECK_DEADLOCK FALSE
