-------------------------------- MODULE McSat --------------------------------
(***************************************************************************)
(* MC-SAT (mc_sat_internal in src/src/mcmc.c), the only caller of SampleSAT *)
(* in the program: an initial model of the hard rules, then rounds that     *)
(* each keep a part of the satisfied rules alive and look for a new model   *)
(* of them, with a sample drawn from the rounds after burn-in and a few     *)
(* Gibbs steps after every sample.                                          *)
(*                                                                         *)
(* The steps of SampleSat are the steps of its module; the caller acts when *)
(* the solver is idle.  Its program counter is mpc.                         *)
(***************************************************************************)
EXTENDS SampleSat, FiniteSetsExt

CONSTANTS
    MaxSamples,     \* max_samples
    BurnIn,         \* burn_in_steps
    SampInterval,   \* samp_interval
    GibbsStepsChoices,   \* the values of gibbs_steps a run may be given
    HasTimeout      \* whether timeout is not 0

ASSUME McSatAssumption ==
    /\ MaxSamples \in Nat /\ BurnIn \in Nat /\ GibbsStepsChoices \subseteq Nat
    /\ SampInterval \in Nat \ {0}
    /\ HasTimeout \in BOOLEAN
    /\ FreeAtoms # {}     \* the Gibbs steps index the arrays with an atom

VARIABLES
    mpc,
    other,      \* the assignment array that is not current
    gibbsSteps, \* gibbs_steps, an argument of the run
    i,          \* the round
    k,          \* the Gibbs step
    gibbsVar,   \* the atom flipped by the Gibbs step
    w0,         \* the weight of the model the Gibbs step started from
    samples,    \* num_samples
    pmodel,     \* how many samples an atom was true in
    late        \* the clock has passed fintime

callerVars == <<mpc, other, gibbsSteps, i, k, gibbsVar, w0, samples, pmodel, late>>
mcVars == <<vars, callerVars>>

Rounds == BurnIn + MaxSamples * SampInterval

MpcValues == {"start", "first", "round", "solve", "gibbs", "perturb", "judge",
              "revert", "done"}

-----------------------------------------------------------------------------
SatRule(a, r) == \A c \in Clauses : RuleOf[c] = r => SatClause(a, Lits[c])

(* Mistake: the hard rules are not set.                                    *)
NoRules == [r \in Rules |-> "v_up_false"]

(* init_rule_instances *)
HardRulesOnly == [r \in Rules |-> IF r \in Hard THEN "v_up_true" ELSE "v_up_false"]

(* Mistake: the satisfied hard rules may be dropped like the soft ones.    *)
KeptOfSatisfied ==
    {ra \in RuleChoices : \A r \in Rules : ra[r] = "v_up_true" => SatRule(assignment, r)}

(* reset_sample_sat: restore_sat_dead_rule_instances sets every rule by    *)
(* its value in the current model, kill_rule_instances then drops any of   *)
(* the satisfied soft ones on a coin toss.                                 *)
KeptRules ==
    {ra \in RuleChoices :
        \A r \in Rules :
            /\ ra[r] = "v_up_true" => SatRule(assignment, r)
            /\ r \in Hard /\ SatRule(assignment, r) => ra[r] = "v_up_true"}

(* sat_clause_weight: DBL_MAX absorbs any finite weight added to it.       *)
DblMax == 1 + MapThenSumSet(LAMBDA r : Weight[r], Rules)

ModelWeight(a) ==
    LET satisfied == {r \in Rules : SatRule(a, r)} IN
    IF satisfied \cap Hard # {} THEN DblMax
    ELSE MapThenSumSet(LAMBDA r : Weight[r], satisfied)

(* Mistake: the backup is not switched to.                                 *)
KeepAssignment == UNCHANGED <<assignment, other, numUnfixed>>

(* restore_assignment_array *)
RestoreAssignment ==
    /\ assignment' = other
    /\ other' = assignment
    /\ numUnfixed' = Cardinality({v \in Atoms : UnfixedTVal(other[v])})

-----------------------------------------------------------------------------
McInit ==
    /\ SolverInit
    /\ mpc = "start"
    /\ other = assignment
    /\ gibbsSteps \in GibbsStepsChoices
    /\ i = 0 /\ k = 0
    /\ gibbsVar = CHOOSE v \in FreeAtoms : TRUE
    /\ w0 = 0
    /\ samples = 0
    /\ pmodel = [v \in Atoms |-> 0]
    /\ late = FALSE

FirstSampleSat ==
    /\ mpc = "start"
    /\ StartSampleSat(assignment, HardRulesOnly, FirstCall)
    /\ mpc' = "first"
    /\ UNCHANGED <<other, i, k, gibbsVar, w0, samples, pmodel, late, gibbsSteps>>

(* Found conflict in initialization: no sample at all.                     *)
FirstFound ==
    /\ mpc = "first" /\ Idle
    /\ mpc' = IF unsat = {} THEN "round" ELSE "done"
    /\ UNCHANGED <<vars, other, i, k, gibbsVar, w0, samples, pmodel, late, gibbsSteps>>

(* Mistake: the clock is not looked at.                                    *)
NoTimeLimit == FALSE

TimeOver == late

StartRound ==
    /\ mpc = "round" /\ live = {}
    /\ i < Rounds /\ ~TimeOver
    /\ \E ra \in KeptRules : StartSampleSat(assignment, ra, RoundCall)
    /\ other' = assignment
    /\ mpc' = "solve"
    /\ UNCHANGED <<i, k, gibbsVar, w0, samples, pmodel, late, gibbsSteps>>

RoundsOver ==
    /\ mpc = "round" /\ live = {}
    /\ i >= Rounds \/ TimeOver
    /\ mpc' = "done"
    /\ UNCHANGED <<vars, other, i, k, gibbsVar, w0, samples, pmodel, late, gibbsSteps>>

(* The round is repeated: i-- before the i++ of the loop.                  *)
RoundFailed ==
    /\ mpc = "solve" /\ Idle /\ unsat # {}
    /\ RestoreAssignment
    /\ mpc' = "round"
    /\ UNCHANGED <<ruleAssignment, lists, weights, solverVars,
                   i, k, gibbsVar, w0, samples, pmodel, late, gibbsSteps>>

(* Mistake: every round after the burn-in is a sample.                     *)
DrawEveryRound == i >= BurnIn

DrawSample == i >= BurnIn /\ i % SampInterval = 0

(* update_pmodel, then the first line of gibbs_sample.                     *)
RoundDone ==
    /\ mpc = "solve" /\ Idle /\ unsat = {}
    /\ IF DrawSample
         THEN /\ samples' = samples + 1
              /\ pmodel' = [v \in Atoms |-> IF AssignedTrue(assignment[v])
                                              THEN pmodel[v] + 1 ELSE pmodel[v]]
              /\ w0' = ModelWeight(assignment)
              /\ k' = 0
              /\ mpc' = "gibbs"
              /\ UNCHANGED i
         ELSE /\ i' = i + 1
              /\ mpc' = "round"
              /\ UNCHANGED <<samples, pmodel, w0, k>>
    /\ UNCHANGED <<vars, other, gibbsVar, late, gibbsSteps>>

(* gibbs_sample: flip an atom on the lists the last search has left.       *)
GibbsFlip ==
    /\ mpc = "gibbs" /\ live = {} /\ k < gibbsSteps
    /\ \E v \in UnfixedAtoms : FlipVariable(v) /\ gibbsVar' = v
    /\ mpc' = "perturb"
    /\ UNCHANGED <<solverVars, other, i, k, w0, samples, pmodel, late, gibbsSteps>>

GibbsOver ==
    /\ mpc = "gibbs" /\ live = {} /\ k = gibbsSteps
    /\ i' = i + 1
    /\ mpc' = "round"
    /\ UNCHANGED <<vars, other, k, gibbsVar, w0, samples, pmodel, late, gibbsSteps>>

(* perturb_assignment: another atom is negated in place, the lists are     *)
(* built anew for the hard rules alone, and SampleSAT starts from there.   *)
PerturbAssignment ==
    /\ mpc = "perturb" /\ Idle
    /\ \E v \in UnfixedAtoms :
        LET start == [assignment EXCEPT ![v] = NegateTVal(@)] IN
        /\ StartSampleSat(start, HardRulesOnly, PerturbCall)
        /\ other' = start
    /\ mpc' = "judge"
    /\ UNCHANGED <<i, k, gibbsVar, w0, samples, pmodel, late, gibbsSteps>>

PerturbFailed ==
    /\ mpc = "judge" /\ Idle /\ unsat # {}
    /\ RestoreAssignment
    /\ mpc' = "revert"
    /\ UNCHANGED <<ruleAssignment, lists, weights, solverVars,
                   i, k, gibbsVar, w0, samples, pmodel, late, gibbsSteps>>

(* Keep the model with odds w(M') / w(M), where DBL_MAX is a case apart.   *)
MayKeep(w1) == w1 >= w0
MayRevert(w1) == w1 < DblMax \/ w0 = w1

PerturbKept ==
    /\ mpc = "judge" /\ Idle /\ unsat = {}
    /\ MayKeep(ModelWeight(assignment))
    /\ w0' = ModelWeight(assignment)
    /\ k' = k + 1
    /\ mpc' = "gibbs"
    /\ UNCHANGED <<vars, other, i, gibbsVar, samples, pmodel, late, gibbsSteps>>

PerturbRejected ==
    /\ mpc = "judge" /\ Idle /\ unsat = {}
    /\ MayRevert(ModelWeight(assignment))
    /\ mpc' = "revert"
    /\ UNCHANGED <<vars, other, i, k, gibbsVar, w0, samples, pmodel, late, gibbsSteps>>

(* Only the atom of the Gibbs step is flipped back.                        *)
GibbsRevert ==
    /\ mpc = "revert" /\ live = {}
    /\ FlipVariable(gibbsVar)
    /\ k' = k + 1
    /\ mpc' = "gibbs"
    /\ UNCHANGED <<solverVars, other, i, gibbsVar, w0, samples, pmodel, late, gibbsSteps>>

Tick ==
    /\ HasTimeout /\ ~late /\ mpc # "done"
    /\ late' = TRUE
    /\ UNCHANGED <<vars, mpc, other, i, k, gibbsVar, w0, samples, pmodel, gibbsSteps>>

CallerStep ==
    \/ FirstSampleSat \/ FirstFound
    \/ StartRound \/ RoundsOver \/ RoundFailed \/ RoundDone
    \/ GibbsFlip \/ GibbsOver \/ PerturbAssignment \/ PerturbFailed
    \/ PerturbKept \/ PerturbRejected \/ GibbsRevert

McStep == (SolverStep /\ UNCHANGED callerVars) \/ CallerStep

McNext == McStep \/ Tick

McSpec == McInit /\ [][McNext]_mcVars

(* One thread that nothing blocks, and a clock that does not stop.         *)
McFairSpec == McSpec /\ WF_mcVars(McStep) /\ WF_mcVars(Tick)

-----------------------------------------------------------------------------
HardSatisfied == \A r \in Hard : SatRule(assignment, r)

(* Without Gibbs steps every sample the marginal probabilities are counted *)
(* from is a model of the hard rules, after any number of failed and       *)
(* repeated rounds (update_pmodel in mc_sat_internal).                     *)
SamplesSatisfyHard ==
    [][gibbsSteps = 0 /\ samples' # samples => HardSatisfied]_mcVars

(* A run that is neither cut short nor stuck at the start draws exactly    *)
(* max_samples samples, and an atom's count is a part of them, all of them *)
(* for a fact of the database.                                             *)
DrawsMaxSamples ==
    /\ mpc = "done" /\ ~late => samples = MaxSamples \/ (samples = 0 /\ i = 0)
    /\ \A v \in Atoms : pmodel[v] <= samples
    /\ \A v \in DbTrue : pmodel[v] = samples

(* The model a Gibbs step proposes satisfies the hard rules, even when the *)
(* step started from one that does not (perturb_assignment).               *)
ProposalSatisfiesHard ==
    mpc = "judge" /\ Idle /\ unsat = {} => HardSatisfied

(* With a timeout the loop ends, although a round that finds no model is   *)
(* repeated without any bound.                                             *)
McSatReturns == <>(mpc = "done")

(* What the comment in mc_sat_internal says of the Gibbs steps: the model  *)
(* they leave satisfies the hard clauses.                                  *)
GibbsKeepsHard ==
    [][mpc = "gibbs" /\ mpc' = "round" => HardSatisfied]_mcVars

(* The chain is at the current assignment, except during a search, when it *)
(* is still at the one that was backed up.                                 *)
BooleanOf(a) == [v \in Atoms |-> IF AssignedTrue(a[v]) THEN "v_true" ELSE "v_false"]

ChainStatus == CASE mpc \in {"start", "first"} -> "init"
                 [] mpc = "solve" -> "moving"
                 [] mpc = "done" -> "done"
                 [] OTHER -> "at"

ChainModel ==
    BooleanOf(IF mpc = "solve" \/ mpc = "first" THEN other ELSE assignment)

ChainKept ==
    IF mpc = "start" \/ mpc = "first" THEN Hard
    ELSE {r \in Rules : AssignedTrue(ruleAssignment[r])}

Chain == INSTANCE MarkovChain WITH
    model <- ChainModel,
    kept <- ChainKept,
    status <- ChainStatus

(* Refinement: a run without Gibbs steps is a behaviour of the chain that  *)
(* MC-SAT promises.  A search that is given up does not leak: the model is *)
(* restored, and the next round starts from it (mc_sat_internal).          *)
ImplementsChain ==
    /\ Chain!Init
    /\ [][gibbsSteps = 0 => Chain!Next]_(Chain!chainVars)
=============================================================================
