------------------------------ MODULE SampleSat ------------------------------
(***************************************************************************)
(* SampleSAT (src/src/samplesat.c): find a random model of the clauses of  *)
(* the live rule instances.                                                *)
(*                                                                         *)
(* One call initialises the lists and propagates units, randomises the     *)
(* free atoms, flips atoms until its flips are used up, and finally drops  *)
(* the marks of unit propagation.  Every loop of the C code is a phase     *)
(* here, and a phase does its next step only when the scan it started has  *)
(* emptied the live list: scan_live_clauses is the trailing loop of every  *)
(* operation that changes a value.                                         *)
(*                                                                         *)
(* The caller is left open: a call may start from any values of the free   *)
(* atoms and any set of live rules.  McSat is the caller in the program.   *)
(***************************************************************************)
EXTENDS WalkSat

CONSTANTS
    DbTrue, DbFalse,   \* the atoms fixed by the input database
    MaxFlips,          \* max_flips
    MaxExtraFlips      \* max_extra_flips

ASSUME SampleSatAssumption ==
    /\ DbTrue \subseteq Atoms /\ DbFalse \subseteq Atoms
    /\ DbTrue \cap DbFalse = {}
    /\ MaxFlips \in Nat /\ MaxExtraFlips \in Nat

VARIABLES
    phase,   \* "idle" between two calls
    call,    \* the arguments of the call
    flips,   \* num_flips
    extra    \* what is left of max_extra_flips

solverVars == <<phase, call, flips, extra>>
vars == <<walkVars, solverVars>>

Phases == {"idle", "init", "settle", "walk", "extra"}

(* first: first_sample_sat or sample_sat; randomize: whether to start from *)
(* random values; anneal: sa_probability is positive, and so is the        *)
(* temperature; rvar: rvar_probability is positive, otherwise the walk is  *)
(* greedy.                                                                 *)
Calls ==
    {x \in [first : BOOLEAN, randomize : BOOLEAN, anneal : BOOLEAN, rvar : BOOLEAN] :
        x.first => x.randomize}

FirstCall == [first |-> TRUE, randomize |-> TRUE, anneal |-> TRUE, rvar |-> TRUE]
RoundCall == [first |-> FALSE, randomize |-> TRUE, anneal |-> TRUE, rvar |-> TRUE]
PerturbCall == [first |-> FALSE, randomize |-> FALSE, anneal |-> FALSE, rvar |-> FALSE]

Idle == phase = "idle" /\ live = {}

LiveClauses == ClausesOf(ruleAssignment)

FreeAtoms == Atoms \ (DbTrue \cup DbFalse)

(* Values of the atoms outside a call: free, or fixed by the database.     *)
IdleAssignments ==
    {f \in [Atoms -> FreeTVal \cup {"v_db_true", "v_db_false"}] :
        \A v \in Atoms :
            /\ v \in DbTrue <=> f[v] = "v_db_true"
            /\ v \in DbFalse <=> f[v] = "v_db_false"}

RuleChoices == [Rules -> {"v_up_true", "v_up_false"}]

-----------------------------------------------------------------------------
SolverInit ==
    /\ ruleAssignment = [r \in Rules |-> "v_up_false"]
    /\ assignment \in IdleAssignments
    /\ numUnfixed = Cardinality(FreeAtoms)
    /\ live = {} /\ unsat = {} /\ sat = {}
    /\ watched = [l \in Literals |-> {}]
    /\ ruleWatched = [r \in Rules |-> {}]
    /\ unsatWeight = 0 /\ satWeight = 0
    /\ phase = "idle"
    /\ call = FirstCall
    /\ flips = 0
    /\ extra = 0

(* first_sample_sat and sample_sat up to the first scan of init_sample_sat.*)
StartSampleSat(a, ra, args) ==
    /\ Idle
    /\ assignment' = a
    /\ ruleAssignment' = ra
    /\ InitLiveClauses(ra)
    /\ phase' = "init"
    /\ call' = args
    /\ flips' = MaxFlips
    /\ extra' = MaxExtraFlips
    /\ UNCHANGED <<numUnfixed, weights>>

CallSampleSat ==
    \E a \in IdleAssignments, ra \in RuleChoices, args \in Calls :
        StartSampleSat(a, ra, args)

(* A scan belongs to whatever operation filled the live list.              *)
Scan == ScanLiveClause /\ UNCHANGED solverVars

(* init_sample_sat after its first scan.                                   *)
Randomize ==
    /\ phase = "init" /\ live = {}
    /\ IF call.randomize THEN RandomAssignment ELSE UNCHANGED walkVars
    /\ phase' = "settle"
    /\ UNCHANGED <<call, flips, extra>>

StartWalk ==
    /\ phase = "settle" /\ live = {}
    /\ phase' = "walk"
    /\ UNCHANGED <<walkVars, call, flips, extra>>

(* sample_sat_body.  A step of simulated annealing flips an atom when this *)
(* costs nothing, or on a coin toss; it does nothing when no atom is free. *)
AnnealFlip(hot) ==
    \E v \in UnfixedAtoms : (CostFlip(v) <= 0 \/ hot) /\ FlipVariable(v)

AnnealStay ==
    /\ numUnfixed = 0 \/ \E v \in UnfixedAtoms : CostFlip(v) > 0
    /\ UNCHANGED walkVars

(* choose_clause_var pushes the candidates of the clause on a stack and    *)
(* reads a random entry.  Without candidates the stack is empty and the    *)
(* entry read is whatever an earlier call left there: any atom.            *)
ClauseVars(c) ==
    IF UnfixedVarsOf(c) = {} THEN Atoms
    ELSE IF call.rvar THEN UnfixedVarsOf(c) ELSE GreedyVarsOf(c)

WalkFlip == \E c \in unsat : \E v \in ClauseVars(c) : FlipVariable(v)

Body ==
    \/ /\ unsat = {} \/ call.anneal
       /\ AnnealFlip(call.anneal) \/ AnnealStay
    \/ WalkFlip

(* Mistake: num_flips does not bound the loop.                             *)
WalkUntilModel == unsat # {} \/ (~call.first /\ extra > 0)

(* The loop of first_sample_sat stops at the first model, that of          *)
(* sample_sat spends its extra flips on a model before it stops.           *)
WalkGoesOn ==
    /\ flips > 0
    /\ unsat # {} \/ (~call.first /\ extra > 0)

WalkStep ==
    /\ phase = "walk" /\ live = {} /\ WalkGoesOn
    /\ flips' = flips - 1
    /\ extra' = IF unsat = {} THEN extra - 1 ELSE extra
    /\ Body
    /\ UNCHANGED <<phase, call>>

(* genrand_uint(n) is below n, and 0 for n = 0.                            *)
StartExtra ==
    /\ phase = "walk" /\ live = {} /\ ~WalkGoesOn
    /\ ~call.first /\ unsat = {}
    /\ flips' \in {n \in 0..MaxExtraFlips : n < extra \/ n = 0}
    /\ phase' = "extra"
    /\ UNCHANGED <<walkVars, call, extra>>

(* Steps around the model, at a low temperature.                           *)
ExtraStep ==
    /\ phase = "extra" /\ live = {} /\ flips > 0
    /\ AnnealFlip(TRUE) \/ AnnealStay
    /\ flips' = flips - 1
    /\ UNCHANGED <<phase, call, extra>>

(* unfix_assignment_array and return.  Both functions report success       *)
(* through the unsat list; no path sets conflict to anything but 0.        *)
Unfixed(a) == [v \in Atoms |-> UnfixTVal(a[v])]

Return ==
    /\ live = {}
    /\ \/ phase = "extra" /\ flips = 0
       \/ phase = "walk" /\ ~WalkGoesOn /\ (call.first \/ unsat # {})
    /\ assignment' = Unfixed(assignment)
    /\ numUnfixed' = Cardinality({v \in Atoms : UnfixedTVal(Unfixed(assignment)[v])})
    /\ phase' = "idle"
    /\ UNCHANGED <<ruleAssignment, lists, weights, call, flips, extra>>

SolverStep ==
    \/ Scan
    \/ Randomize
    \/ StartWalk
    \/ WalkStep
    \/ StartExtra
    \/ ExtraStep
    \/ Return

Next == CallSampleSat \/ SolverStep

Spec == SolverInit /\ [][Next]_vars

(* A call runs in one thread that nothing blocks; the caller may stop.     *)
FairSpec == Spec /\ WF_vars(SolverStep)

-----------------------------------------------------------------------------
TypeOK ==
    /\ WalkTypeOK
    /\ phase \in Phases
    /\ call \in Calls
    /\ flips \in 0..(MaxFlips + MaxExtraFlips)
    /\ extra \in 0..MaxExtraFlips

(* The models a call looks for: free values for all the atoms that agree   *)
(* with the database and satisfy every clause of a live rule.              *)
Models ==
    {m \in [Atoms -> FreeTVal] :
        /\ \A v \in DbTrue : m[v] = "v_true"
        /\ \A v \in DbFalse : m[v] = "v_false"
        /\ \A c \in LiveClauses : SatClause(m, Lits[c])}

(* Unit propagation is sound: an atom is only ever fixed to the value it   *)
(* has in every model of the live clauses, in whatever order the clauses   *)
(* are scanned and whatever is flipped in between (get_fixable_literal,    *)
(* update_atom_tval).                                                      *)
FixedIsEntailed ==
    phase # "idle" =>
        \A m \in Models : \A v \in Atoms :
            FixedTVal(assignment[v]) =>
                (AssignedTrue(assignment[v]) <=> AssignedTrue(m[v]))

(* A clause taken off the lists that flips look at stays satisfied: it     *)
(* holds a literal fixed true until the marks are dropped on return, and a *)
(* true literal from then on (valid_rule_inst_table, whose check of the    *)
(* sat_clauses list is disabled by a return in the code).                  *)
SatListSettled ==
    \A c \in sat :
        /\ phase # "idle" => FixedSat(c)
        /\ phase = "idle" => SatClause(assignment, Lits[c])

(* No clause gets lost between the lists, and none gets there that is of a *)
(* rule that is not live: unless the live clauses have no model at all,    *)
(* the lists hold exactly these.                                           *)
NoClauseLost ==
    /\ Listed \subseteq LiveClauses
    /\ Models # {} => LiveClauses \subseteq Listed

(* The answer of a call is right: when it returns with an empty unsat list *)
(* and the live clauses have a model, the assignment it leaves is one.     *)
ReturnedModel ==
    Idle /\ unsat = {} /\ Models # {} =>
        \A c \in LiveClauses : SatClause(assignment, Lits[c])

(* WalkSAT always has an atom to flip in the unsatisfied clause it picked, *)
(* unless the live clauses have no model: the read of an entry of an empty *)
(* stack in choose_clause_var happens for contradictory clauses only.      *)
WalkHasCandidate ==
    phase # "idle" /\ live = {} /\ Models # {} =>
        \A c \in unsat : UnfixedVarsOf(c) # {}

(* cost_flip_unfixed_variable returns the change a flip makes to the       *)
(* number of false clauses on the lists, when no unit is propagated by it. *)
(* A clause that holds v and its negation, as every instance of an XOR     *)
(* has, is an exception: no flip of v makes it false, yet it is counted    *)
(* when v watches it and the rest of it is false.                          *)
FalseListed(a) ==
    Cardinality({c \in WatchedClauses \cup unsat : ~SatClause(a, Lits[c])})

Overcounted(v) ==
    LET t == TrueLitOf(v) IN
      {c \in watched[t] :
         /\ Not(t) \in Lits[c]
         /\ \A l \in Lits[c] : VarOf(l) = v \/ AssignedFalseLit(assignment, l)}

CostIsExact ==
    live = {} =>
        \A v \in UnfixedAtoms :
            CostFlip(v) = FalseListed([assignment EXCEPT ![v] = NegateTVal(@)])
                          - FalseListed(assignment) + Cardinality(Overcounted(v))

(* What "db" fixed never changes, and what unit propagation fixed keeps    *)
(* its value and its mark until the call returns.                          *)
FixedStaysFixed ==
    [][\A v \in Atoms :
          /\ DbTVal(assignment[v]) => assignment'[v] = assignment[v]
          /\ FixedTVal(assignment[v]) /\ phase' # "idle" =>
                assignment'[v] = assignment[v]]_vars

(* Every call comes to an end: the scans terminate although unit           *)
(* propagation puts clauses back on the live list.                         *)
CallReturns == phase # "idle" ~> phase = "idle"
=============================================================================
