-------------------------------- MODULE MwSat --------------------------------
(***************************************************************************)
(* MaxWalkSAT (mw_sat in src/src/walksat.c): look for an assignment that   *)
(* satisfies the hard rules and loses as little weight of the soft ones as *)
(* possible.  A soft rule has an auxiliary variable that is flipped like   *)
(* an atom: while it is false the clauses of the rule need not hold, and   *)
(* the ones that do not are watched by the rule.                           *)
(*                                                                         *)
(* One call is modelled, from the start of the program.                    *)
(***************************************************************************)
EXTENDS WalkSat, Functions

CONSTANTS
    NumTrials,   \* num_trials
    MaxFlips,    \* max_flips
    RandomVar,   \* whether rvar_probability is positive
    HasTimeout   \* whether timeout is not 0

ASSUME MwSatAssumption ==
    /\ NumTrials \in Nat /\ MaxFlips \in Nat
    /\ RandomVar \in BOOLEAN /\ HasTimeout \in BOOLEAN
    /\ IsFiniteSet(Rules)

VARIABLES
    pc,          \* where the call is
    trial,       \* i
    flips,       \* j
    unsatSoft,   \* unsat_soft_rules
    other,       \* the assignment array that is not current
    best,        \* best_cost
    late         \* the clock has passed fintime

loopVars == <<pc, trial, flips, unsatSoft, other, best, late>>
vars == <<walkVars, loopVars>>

Soft == Rules \ Hard

WeightOf(R) == SumFunctionOnSet(Weight, R)

(* DBL_MAX: above the weight of the soft rules.  A hard rule is switched   *)
(* off only when its clause has been fixed false (see Consistent); what    *)
(* DBL_MAX absorbs then, the code loses when the rule is switched on.      *)
DblMax == 1 + (NumTrials + 1) * WeightOf(Soft)

LossOf(r) == IF r \in Hard THEN DblMax ELSE Weight[r]

Init ==
    /\ assignment \in [Atoms -> FreeTVal]
    /\ ruleAssignment = [r \in Rules |-> "v_up_false"]
    /\ numUnfixed = Cardinality(Atoms)
    /\ live = {} /\ unsat = {} /\ sat = {}
    /\ watched = [l \in Literals |-> {}]
    /\ ruleWatched = [r \in Rules |-> {}]
    /\ unsatWeight = 0 /\ satWeight = 0
    /\ pc = "trial"
    /\ trial = 0 /\ flips = 0
    /\ unsatSoft = {}
    /\ other = assignment
    /\ best = DblMax
    /\ late = FALSE

(* The random values are drawn on the lists of the trial before, which     *)
(* init_live_clauses throws away.                                          *)
StartTrial ==
    LET ra == [r \in Rules |-> IF r \in Hard THEN "v_up_true" ELSE "v_true"] IN
    /\ pc = "trial" /\ trial < NumTrials
    /\ \E S \in SUBSET UnfixedAtoms :
          assignment' = [v \in Atoms |-> IF v \in S THEN NegateTVal(assignment[v])
                                                   ELSE assignment[v]]
    /\ ruleAssignment' = ra
    /\ InitLiveClauses(ra)
    /\ flips' = 0
    /\ pc' = "flip"
    /\ UNCHANGED <<numUnfixed, weights, trial, unsatSoft, other, best, late>>

Scan == ScanLiveClause /\ UNCHANGED loopVars

Ready == pc = "flip" /\ live = {}

(* Mistake: the soft rules that are switched off are forgotten.            *)
ClausesSolved == unsat = {}

Solved == unsat = {} /\ unsatSoft = {}

MayFlip == Ready /\ flips < MaxFlips /\ ~late /\ ~Solved

(* The call returns in the middle of the trial.                            *)
FoundAll ==
    /\ Ready /\ flips < MaxFlips /\ ~late /\ Solved
    /\ pc' = "solved"
    /\ UNCHANGED <<walkVars, trial, flips, unsatSoft, other, best, late>>

EndTrial ==
    /\ Ready
    /\ flips >= MaxFlips \/ late
    /\ trial' = trial + 1
    /\ pc' = "trial"
    /\ UNCHANGED <<walkVars, flips, unsatSoft, other, best, late>>

(* choose_clause_var: the variable of the rule is a candidate too; the     *)
(* greedy choice takes it only when it costs less than every atom.  When   *)
(* there is no candidate at all the entry read is left over from an        *)
(* earlier call: it may name the rule, or lie behind the end of the clause.*)
RuleIsCandidate(c) == UnfixedTVal(ruleAssignment[RuleOf[c]])

NoCandidate(c) == UnfixedVarsOf(c) = {} /\ ~RuleIsCandidate(c)

RuleIsCheapest(c) ==
    RuleIsCandidate(c) /\ \A v \in UnfixedVarsOf(c) : CostFlipRule(RuleOf[c]) < CostFlip(v)

AtomChoices(c) ==
    IF NoCandidate(c) THEN Atoms
    ELSE IF RandomVar THEN UnfixedVarsOf(c)
    ELSE IF RuleIsCheapest(c) THEN {}
    ELSE GreedyVarsOf(c)

MayChooseRule(c) ==
    \/ NoCandidate(c)
    \/ RuleIsCheapest(c)
    \/ RandomVar /\ RuleIsCandidate(c)

FlipAtom ==
    /\ MayFlip
    /\ \E c \in unsat : \E v \in AtomChoices(c) : FlipVariable(v)
    /\ pc' = "keep"
    /\ UNCHANGED <<trial, flips, unsatSoft, other, best, late>>

FlipRuleToUnsat ==
    /\ MayFlip
    /\ \E c \in unsat :
        LET r == RuleOf[c] IN
        /\ MayChooseRule(c)
        /\ ruleAssignment' = [ruleAssignment EXCEPT ![r] = "v_false"]
        /\ unsatSoft' = unsatSoft \cup {r}
        /\ unsatWeight' = unsatWeight + LossOf(r)
        /\ satWeight' = satWeight - LossOf(r)
    /\ live' = unsat
    /\ unsat' = {}
    /\ pc' = "keep"
    /\ UNCHANGED <<assignment, numUnfixed, sat, watched, ruleWatched,
                   trial, flips, other, best, late>>

(* Mistake: what the rule excused stays excused.                           *)
FlipRuleStillExcused ==
    /\ MayFlip
    /\ \E r \in unsatSoft :
        /\ ruleAssignment' = [ruleAssignment EXCEPT ![r] = "v_true"]
        /\ unsatSoft' = unsatSoft \ {r}
        /\ unsatWeight' = unsatWeight - LossOf(r)
        /\ satWeight' = satWeight + LossOf(r)
        /\ live' = ruleWatched[r]
    /\ pc' = "keep"
    /\ UNCHANGED <<assignment, numUnfixed, unsat, sat, watched, ruleWatched,
                   trial, flips, other, best, late>>

FlipRuleToSat ==
    /\ MayFlip
    /\ \E r \in unsatSoft :
        /\ ruleAssignment' = [ruleAssignment EXCEPT ![r] = "v_true"]
        /\ unsatSoft' = unsatSoft \ {r}
        /\ unsatWeight' = unsatWeight - LossOf(r)
        /\ satWeight' = satWeight + LossOf(r)
        /\ live' = ruleWatched[r]
        /\ ruleWatched' = [ruleWatched EXCEPT ![r] = {}]
    /\ pc' = "keep"
    /\ UNCHANGED <<assignment, numUnfixed, unsat, sat, watched,
                   trial, flips, other, best, late>>

(* The end of the loop's body: copy_assignment_array when it is the best   *)
(* so far.                                                                 *)
KeepBest ==
    /\ pc = "keep" /\ live = {}
    /\ IF best > unsatWeight
         THEN best' = unsatWeight /\ other' = assignment
         ELSE UNCHANGED <<best, other>>
    /\ flips' = flips + 1
    /\ pc' = "flip"
    /\ UNCHANGED <<walkVars, trial, unsatSoft, late>>

(* restore_assignment_array *)
Finish ==
    /\ pc = "trial" /\ trial = NumTrials
    /\ assignment' = other
    /\ other' = assignment
    /\ numUnfixed' = Cardinality({v \in Atoms : UnfixedTVal(other[v])})
    /\ pc' = "done"
    /\ UNCHANGED <<ruleAssignment, lists, weights, trial, flips, unsatSoft, best, late>>

Tick ==
    /\ HasTimeout /\ ~late
    /\ late' = TRUE
    /\ UNCHANGED <<walkVars, pc, trial, flips, unsatSoft, other, best>>

MwStep ==
    \/ StartTrial \/ Scan \/ FoundAll \/ EndTrial
    \/ FlipAtom \/ FlipRuleToUnsat \/ FlipRuleToSat \/ KeepBest \/ Finish

Next == MwStep \/ Tick

Spec == Init /\ [][Next]_vars
-----------------------------------------------------------------------------
HardModels ==
    {m \in [Atoms -> FreeTVal] :
        \A c \in Clauses : RuleOf[c] \in Hard => SatClause(m, Lits[c])}

(* A clause is excused by its rule only while the rule is switched off:    *)
(* switching it on takes the clauses it watched back to the scan           *)
(* (rule_watched in mw_sat and insert_live_clause).                        *)
ExcusedByFalseRule ==
    \A r \in Rules : ruleWatched[r] # {} => AssignedFalse(ruleAssignment[r])

(* Until the backup is restored the lists agree with the assignment:       *)
(* watched clauses are watched by a true literal, unsat ones are false     *)
(* (valid_watched_lit, valid_rule_inst_table).                             *)
ListsMatch == pc # "done" => WatchedByTrueLit /\ UnsatListFalse

(* What tables.h says of sat_clauses, "list of fixed satisfied clauses";   *)
(* the code does not keep it: a rule that is fixed false while it is       *)
(* switched off may be switched on again with its clause on that list.     *)
SatListFixed ==
    \A c \in sat : FixedSat(c) \/ AssignedFalse(ruleAssignment[RuleOf[c]])

(* The clauses of rules that are fixed false, because one of their clauses *)
(* is.                                                                     *)
GivenUp == {c \in Clauses : AssignedFixedFalse(ruleAssignment[RuleOf[c]])}

(* Unit propagation has fixed nothing that the hard rules do not allow.    *)
FixedAsIn(m) ==
    \A v \in Atoms :
        FixedTVal(assignment[v]) => (AssignedTrue(assignment[v]) <=> AssignedTrue(m[v]))

Consistent == \E m \in HardModels : FixedAsIn(m)

(* It does that of itself while two flaws of the code do not show: the     *)
(* other clauses of a rule that is fixed false still propagate units       *)
(* (DroppedMeansNoModel), and a rule that is fixed false may be switched   *)
(* off and on again, with its false clause on the sat list.                *)
ListsInOrder ==
    /\ HardModels # {}
    /\ \A c \in sat : FixedSat(c) \/ c \in GivenUp
    /\ \A c1, c2 \in GivenUp : RuleOf[c1] = RuleOf[c2] => c1 = c2

(* The scan loses no clause but those that are fixed false, and only of    *)
(* hard rules; and as long as the lists are in order the hard rules have   *)
(* no such clause, so that all are listed.  (What went wrong in a trial is *)
(* not undone by the next, hence the first.)                               *)
NoClauseLost ==
    pc \in {"flip", "keep"} =>
        /\ \A c \in Clauses \ Listed : RuleOf[c] \in Hard /\ AllFixedFalse(c)
        /\ trial = 0 /\ ListsInOrder => Clauses \subseteq Listed

(* A call that returns because nothing is left to satisfy leaves a model   *)
(* of all the rules that were not given up.                                *)
SolvedSatisfiesAll ==
    pc = "solved" /\ Consistent /\ SatListFixed =>
        \A c \in Clauses \ GivenUp : SatClause(assignment, Lits[c])

(* What the call minimises is a bound on what it loses: when no clause is  *)
(* left unsatisfied, the soft rules that do not hold weigh no more than    *)
(* unsat_weight says, also when rules were switched on and off on the way  *)
(* and rules were fixed false by the scan, in any trial.  The clause lists *)
(* must be in order for that (SatListFixed, which the code does not keep). *)
SatRule(r) == \A c \in Clauses : RuleOf[c] = r => SatClause(assignment, Lits[c])

LossIsBounded ==
    Ready /\ unsat = {} /\ Consistent /\ SatListFixed =>
        WeightOf({r \in Soft : ~SatRule(r)}) <= unsatWeight

(* What the scan says when it drops a clause, "There is a fixed unsat      *)
(* clause, no model exists": the hard rules have no model.                 *)
DroppedMeansNoModel ==
    pc \in {"flip", "keep"} /\ HardModels # {} =>
        \A c \in Clauses : RuleOf[c] \in Hard => c \in Listed
=============================================================================
