------------------------------- MODULE LazySat -------------------------------
(***************************************************************************)
(* MC-SAT in lazy mode: the rounds of mc_sat_internal (src/src/mcmc.c)     *)
(* around a search that makes the rule instances it needs while it runs.   *)
(*                                                                         *)
(* Rules here are all the instances grounding would make in eager mode.    *)
(* One of them is in the table only after a clause of it might have become *)
(* false (Grounding says how it is found, and NeededOnce there that it is):*)
(* update_atom_tval (src/src/walksat.c) activates an atom when it becomes  *)
(* true for the first time, in a flip, in the random start or in the midst *)
(* of a scan, and the clauses of the new instances join the scan.          *)
(*                                                                         *)
(* An atom that is not in the table is false, the default of every         *)
(* predicate; numUnfixed counts these atoms too, and nothing in lazy mode  *)
(* reads it.  There are no facts and no Gibbs steps (see McSat for these). *)
(***************************************************************************)
EXTENDS SampleSat

CONSTANTS
    Rounds,    \* burn_in_steps + max_samples * samp_interval
    MaxCalls   \* bound: how often mc_sat is called

ASSUME LazySatAssumption ==
    /\ DbTrue = {} /\ DbFalse = {}
    /\ Rounds \in Nat /\ MaxCalls \in Nat

VARIABLES
    known,   \* the atoms in atom_table
    active,  \* atom_table->active
    made,    \* the rules that have an instance in rule_inst_table
    soft,    \* soft_rules_included
    todo,    \* atoms that the random start has not changed yet
    mpc,     \* where mc_sat_internal is
    other,   \* the assignment array that is not current
    i,       \* the round
    late,    \* the clock has passed fintime
    calls    \* calls of mc_sat so far

tableVars == <<known, active, made>>
roundVars == <<soft, mpc, other, i, late, calls>>
lazyVars == <<vars, tableVars, todo, roundVars>>

-----------------------------------------------------------------------------
ClausesFrom(R) == {c \in Clauses : RuleOf[c] \in R}
AtomsFrom(R) == UNION {{VarOf(l) : l \in Lits[c]} : c \in ClausesFrom(R)}

(* Mistake: an instance is made only when all of its clauses may be false. *)
MayAllBeFalse(r, on) ==
    \A c \in ClausesFrom({r}) : \A v \in Atoms : NegLit(v) \in Lits[c] => v \in on

(* check_rule_instance_falsifiable *)
MayBeFalse(r, on) ==
    \E c \in ClausesFrom({r}) : \A v \in Atoms : NegLit(v) \in Lits[c] => v \in on

(* The rules that activate_rules makes an instance of.                     *)
Fresh(v) == {r \in Rules \ made : MayBeFalse(r, active \cup {v})}

(* Mistake: the new clauses are not scanned.                               *)
PushNothing(R, rest) ==
    /\ ruleAssignment' = [r \in Rules |-> IF r \in R \cap Hard THEN "v_up_true"
                                          ELSE ruleAssignment[r]]
    /\ live' = rest

(* push_newly_activated_rule_instance: hard rules are kept, and soft ones  *)
(* on a coin toss if they are included; rest is the live list so far.      *)
PushNewlyActivated(R, rest) ==
    \E kept \in SUBSET (R \ Hard) :
        /\ kept = {} \/ soft
        /\ ruleAssignment' = [r \in Rules |->
               IF r \in R THEN IF r \in Hard \cup kept THEN "v_up_true" ELSE "v_up_false"
               ELSE ruleAssignment[r]]
        /\ live' = rest \cup ClausesFrom(R \cap (Hard \cup kept))

(* activate_atom *)
ActivateAtom(v, rest) ==
    /\ active' = active \cup {v}
    /\ made' = made \cup Fresh(v)
    /\ known' = known \cup {v} \cup AtomsFrom(Fresh(v))
    /\ PushNewlyActivated(Fresh(v), rest)

(* Case 2 of update_atom_tval: l has been false and becomes true.          *)
MakeTrue(l, tval, popped) ==
    LET v == VarOf(l)
        rest == (live \ popped) \cup watched[Not(l)] \cup unsat
    IN
    /\ assignment' = [assignment EXCEPT ![v] = tval]
    /\ watched' = [watched EXCEPT ![Not(l)] = {}]
    /\ unsat' = {}
    /\ IF l = PosLit(v) /\ v \notin active
         THEN ActivateAtom(v, rest)
         ELSE live' = rest /\ UNCHANGED <<ruleAssignment, tableVars>>
    /\ UNCHANGED <<ruleWatched, weights>>

(* flip_unfixed_variable up to its scan.                                   *)
LazyFlip(v) ==
    IF UnfixedTVal(assignment[v])
      THEN /\ MakeTrue(Not(TrueLitOf(v)), NegateTVal(assignment[v]), {})
           /\ UNCHANGED <<numUnfixed, sat>>
      ELSE UNCHANGED <<walkVars, tableVars>>

(* fix_lit_true in insert_live_clause when the value changes.              *)
LazyUnitPropagate(c) ==
    /\ ~FixedSat(c)
    /\ \E l \in Literals :
        /\ UnitLit(c, l) /\ ~AssignedTrueLit(assignment, l)
        /\ MakeTrue(l, UpTrueValueOf(l), {c})
    /\ numUnfixed' = numUnfixed - 1
    /\ sat' = sat \cup {c}

(* A turn of scan_live_clauses: what changes no value activates nothing.   *)
LazyScan ==
    /\ \/ \E c \in live : LazyUnitPropagate(c)
       \/ ScanLiveClause /\ Unfixed(assignment') = Unfixed(assignment) /\ UNCHANGED tableVars
    /\ UNCHANGED <<solverVars, todo, roundVars>>

-----------------------------------------------------------------------------
(* init_random_assignment runs through the atoms of the table, those that  *)
(* it adds on its way included, and scans nothing until it is through.     *)
StartRandom ==
    /\ phase = "init" /\ live = {}
    /\ todo' = known
    /\ phase' = "random"
    /\ UNCHANGED <<walkVars, call, flips, extra, tableVars, roundVars>>

RandomFlip ==
    /\ phase = "random"
    /\ \E v \in todo \cap UnfixedAtoms :
        /\ LazyFlip(v)
        /\ todo' = (todo \ {v}) \cup (known' \ known)
    /\ UNCHANGED <<solverVars, roundVars>>

EndRandom ==
    /\ phase = "random"
    /\ todo' = {}
    /\ phase' = "settle"
    /\ UNCHANGED <<walkVars, call, flips, extra, tableVars, roundVars>>

(* choose_random_atom takes any ground atom.  One that is not in the table *)
(* is added and activated; it is in no clause of a list, so its flip costs *)
(* nothing and is done at once.                                            *)
LazyAnneal(hot) ==
    \/ \E v \in UnfixedAtoms : (CostFlip(v) <= 0 \/ hot) /\ LazyFlip(v)
    \/ /\ \E v \in Atoms : v \notin UnfixedAtoms \/ CostFlip(v) > 0
       /\ UNCHANGED <<walkVars, tableVars>>

(* sample_sat_body *)
LazyBody ==
    \/ (unsat = {} \/ call.anneal) /\ LazyAnneal(call.anneal)
    \/ \E c \in unsat : \E v \in ClauseVars(c) : LazyFlip(v)

LazyWalkStep ==
    /\ phase = "walk" /\ live = {} /\ WalkGoesOn
    /\ flips' = flips - 1
    /\ extra' = IF unsat = {} THEN extra - 1 ELSE extra
    /\ LazyBody
    /\ UNCHANGED <<phase, call, todo, roundVars>>

LazyExtraStep ==
    /\ phase = "extra" /\ live = {} /\ flips > 0
    /\ LazyAnneal(TRUE)
    /\ flips' = flips - 1
    /\ UNCHANGED <<phase, call, extra, todo, roundVars>>

SearchStep ==
    \/ LazyScan
    \/ StartRandom \/ RandomFlip \/ EndRandom
    \/ LazyWalkStep \/ LazyExtraStep
    \/ (StartWalk \/ StartExtra \/ Return) /\ UNCHANGED <<tableVars, todo, roundVars>>

-----------------------------------------------------------------------------
SatRule(a, r) == \A c \in ClausesFrom({r}) : SatClause(a, Lits[c])

(* init_rule_instances: only what is in the table has a value.             *)
HardMade == [r \in Rules |-> IF r \in Hard \cap made THEN "v_up_true" ELSE "v_up_false"]

(* Mistake: the values in the current model are not looked at.             *)
KeptMade == {ra \in RuleChoices : \A r \in Rules : ra[r] = "v_up_true" => r \in made}

(* reset_sample_sat: of the instances in the table those that are          *)
(* satisfied, the hard ones all and the soft ones on a coin toss.          *)
KeptInstances ==
    {ra \in RuleChoices :
        \A r \in Rules :
            /\ ra[r] = "v_up_true" => r \in made /\ SatRule(assignment, r)
            /\ r \in Hard \cap made /\ SatRule(assignment, r) => ra[r] = "v_up_true"}

LazyInit ==
    /\ SolverInit
    /\ assignment = [v \in Atoms |-> "v_false"]
    /\ active = {}
    /\ made = {r \in Rules : MayBeFalse(r, {})}
    /\ known = AtomsFrom(made)
    /\ todo = {}
    /\ soft = FALSE
    /\ mpc = "start"
    /\ other = assignment
    /\ i = 0 /\ late = FALSE /\ calls = 0

(* mc_sat_internal up to first_sample_sat.                                 *)
FirstSampleSat ==
    /\ mpc = "start" /\ calls < MaxCalls
    /\ StartSampleSat(assignment, HardMade, FirstCall)
    /\ mpc' = "first" /\ i' = 0 /\ late' = FALSE
    /\ calls' = calls + 1
    /\ UNCHANGED <<tableVars, todo, soft, other>>

FirstFound ==
    /\ mpc = "first" /\ Idle
    /\ mpc' = IF unsat = {} THEN "round" ELSE "start"
    /\ UNCHANGED <<vars, tableVars, todo, soft, other, i, late, calls>>

StartRound ==
    /\ mpc = "round" /\ i < Rounds /\ ~late
    /\ \E ra \in KeptInstances : StartSampleSat(assignment, ra, RoundCall)
    /\ soft' = TRUE
    /\ other' = assignment
    /\ mpc' = "solve"
    /\ UNCHANGED <<tableVars, todo, i, late, calls>>

RoundsOver ==
    /\ mpc = "round" /\ (i = Rounds \/ late)
    /\ mpc' = "start"
    /\ UNCHANGED <<vars, tableVars, todo, soft, other, i, late, calls>>

(* The round is given up: soft_rules_included stays set.                   *)
RoundFailed ==
    /\ mpc = "solve" /\ Idle /\ unsat # {}
    /\ assignment' = other /\ other' = assignment
    /\ numUnfixed' = Cardinality({v \in Atoms : UnfixedTVal(other[v])})
    /\ mpc' = "round"
    /\ UNCHANGED <<ruleAssignment, lists, weights, solverVars, tableVars, todo,
                   soft, i, late, calls>>

RoundDone ==
    /\ mpc = "solve" /\ Idle /\ unsat = {}
    /\ soft' = FALSE
    /\ i' = i + 1
    /\ mpc' = "round"
    /\ UNCHANGED <<vars, tableVars, todo, other, late, calls>>

Tick ==
    /\ ~late /\ mpc # "start"
    /\ late' = TRUE
    /\ UNCHANGED <<vars, tableVars, todo, soft, mpc, other, i, calls>>

LazyNext ==
    \/ SearchStep
    \/ FirstSampleSat \/ FirstFound
    \/ StartRound \/ RoundsOver \/ RoundFailed \/ RoundDone
    \/ Tick

LazySpec == LazyInit /\ [][LazyNext]_lazyVars

-----------------------------------------------------------------------------
HardModels == {m \in [Atoms -> FreeTVal] : \A r \in Hard : SatRule(m, r)}

(* A rule without an instance need not be looked at: it is true, both in   *)
(* the assignment of the search, at every moment of it, and in the backup  *)
(* that a failed round goes back to (update_atom_tval, activate_rules,     *)
(* add_internal_atom).                                                     *)
DormantAreTrue ==
    \A r \in Rules \ made : SatRule(assignment, r) /\ SatRule(other, r)

(* A soft rule that is kept was true in the model the round began with,   *)
(* at every moment of the search: also one that is made and kept on a coin *)
(* toss while the assignment is somewhere else (reset_sample_sat,          *)
(* push_newly_activated_rule_instance).                                    *)
KeptWereTrue ==
    mpc = "solve" =>
        \A r \in Rules : AssignedTrue(ruleAssignment[r]) => SatRule(other, r)

(* Laziness does not show: a model that is found satisfies the hard rules, *)
(* whether they have an instance or not, and all that was kept, so that    *)
(* the round is one that eager MC-SAT might have made (Keep and Move of    *)
(* MarkovChain), in spite of rules that joined in the middle of a scan.    *)
RoundIsChainStep ==
    Idle /\ unsat = {} /\ mpc \in {"first", "solve"} /\ HardModels # {} =>
        \A r \in Rules :
            r \in Hard \/ AssignedTrue(ruleAssignment[r]) => SatRule(assignment, r)
=============================================================================
