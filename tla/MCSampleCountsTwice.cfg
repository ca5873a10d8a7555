\* Two runs in threads.
SPECIFICATION Spec
CONSTANTS
    f = f
    p = p
    t1 = t1
    t2 = t2
    Atoms = {p}
    Direct = {}
    QueryAtom = p
    Threads = {t1, t2}
    MaxSamples = 1
    MaxRuns = 2
    LazyChoices = {FALSE}
INVARIANT EverySampleCountedOnce
CHECK_DEADLOCK FALSE
