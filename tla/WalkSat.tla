------------------------------- MODULE WalkSat -------------------------------
(***************************************************************************)
(* The clause lists of the rule instance table and the operations of       *)
(* src/src/walksat.c on them: link propagation, unit propagation, the scan *)
(* of live clauses, flips and their cost.                                  *)
(*                                                                         *)
(* A clause is in at most one list (it has a single link field).  The      *)
(* lists are sets here: which end a clause is inserted at, and therefore   *)
(* the order in which a scan pops the clauses, is left open, so a property *)
(* holds for every order.  The order of the literals in a clause is left   *)
(* open too.  A module that extends this one (SampleSat, MwSat) adds the   *)
(* control that calls these operations.                                    *)
(*                                                                         *)
(* A definition whose comment begins with "Mistake" is used by no          *)
(* specification.  It is what the definition after it might have been if   *)
(* the code were wrong; PROJECT.json names the property that notices.      *)
(***************************************************************************)
EXTENDS TruthValues, Integers, FiniteSets

CONSTANTS
    Atoms,     \* the ground atoms of the atom table
    Rules,     \* the rule instances
    Clauses,   \* the clauses of all rule instances
    Lits,      \* the literals of a clause
    RuleOf,    \* the rule instance of a clause (rule_index)
    Hard,      \* the rule instances of weight DBL_MAX
    Weight     \* the weight of a soft rule instance

Literals == LiteralsOf(Atoms)

ASSUME WalkSatAssumption ==
    /\ IsFiniteSet(Atoms) /\ IsFiniteSet(Clauses)
    /\ Lits \in [Clauses -> SUBSET Literals]
    /\ RuleOf \in [Clauses -> Rules]
    /\ Hard \subseteq Rules
    /\ Weight \in [Rules -> Nat]

VARIABLES
    assignment,      \* atom_table->assignment
    ruleAssignment,  \* rule_inst_table->assignment
    numUnfixed,      \* atom_table->num_unfixed_vars
    live,            \* live_clauses: still to be scanned
    unsat,           \* unsat_clauses
    sat,             \* sat_clauses: satisfied whatever is flipped
    watched,         \* watched[lit]: kept true by lit
    ruleWatched,     \* rule_watched[r]: kept true by the falsity of r
    unsatWeight, satWeight

lists    == <<live, unsat, sat, watched, ruleWatched>>
weights  == <<unsatWeight, satWeight>>
walkVars == <<assignment, ruleAssignment, numUnfixed, lists, weights>>

-----------------------------------------------------------------------------
(* What the code reads off the assignment.                                 *)

UnfixedAtoms == {v \in Atoms : UnfixedTVal(assignment[v])}

TrueLitOf(v) == IF AssignedTrue(assignment[v]) THEN PosLit(v) ELSE NegLit(v)

ClausesOf(ra) == {c \in Clauses : AssignedTrue(ra[RuleOf[c]])}

(* Mistake: the plain value is taken for a fixed one.                      *)
SatByValue(c) == SatClause(assignment, Lits[c])

(* get_fixable_literal: a literal fixed true; -2, every literal fixed      *)
(* false under a rule fixed true; num_lits, the same under a rule that is  *)
(* not; the only literal left under a fixed rule; -1, anything else.       *)
FixedSat(c) == \E l \in Lits[c] : AssignedFixedTrueLit(assignment, l)

OpenLits(c) == {l \in Lits[c] : ~AssignedFixedFalseLit(assignment, l)}

RuleFixed(c) == FixedTVal(ruleAssignment[RuleOf[c]])

AllFixedFalse(c) == OpenLits(c) = {}

(* Mistake: a false clause is taken for one that is fixed false.           *)
UnsatByValue(c) ==
    ~SatClause(assignment, Lits[c]) /\ AssignedFixedTrue(ruleAssignment[RuleOf[c]])

FixedUnsat(c) == AllFixedFalse(c) /\ AssignedFixedTrue(ruleAssignment[RuleOf[c]])

(* Mistake: a literal is fixed although others are open.                   *)
FirstOpenLit(c, l) == RuleFixed(c) /\ l \in OpenLits(c)

UnitLit(c, l) == RuleFixed(c) /\ OpenLits(c) = {l}

Unfixable(c) ==
    /\ ~FixedSat(c) /\ ~AllFixedFalse(c)
    /\ \A l \in OpenLits(c) : ~UnitLit(c, l)

-----------------------------------------------------------------------------
(* Mistake: the list of l is not emptied.                                  *)
LinkPropagateCopying(l, popped) ==
    /\ live' = (live \ popped) \cup watched[l] \cup unsat
    /\ unsat' = {}
    /\ UNCHANGED <<watched, ruleWatched>>

(* Mistake: the unsat list is scanned again and not emptied.               *)
LinkPropagateKeepingUnsat(l, popped) ==
    /\ live' = (live \ popped) \cup watched[l] \cup unsat
    /\ watched' = [watched EXCEPT ![l] = {}]
    /\ UNCHANGED <<unsat, ruleWatched>>

(* l has just become false: the clauses it kept true, and every clause on  *)
(* the unsat list, are to be scanned again.                                *)
LinkPropagate(l, popped) ==
    /\ live' = (live \ popped) \cup watched[l] \cup unsat
    /\ watched' = [watched EXCEPT ![l] = {}]
    /\ unsat' = {}
    /\ UNCHANGED ruleWatched

(* Mistake: num_unfixed_vars is not decremented.                           *)
FixLitTrueUncounted(l, c) ==
    /\ assignment' = [assignment EXCEPT ![VarOf(l)] = UpTrueValueOf(l)]
    /\ IF AssignedTrueLit(assignment, l)
         THEN live' = live \ {c} /\ UNCHANGED <<watched, unsat, ruleWatched>>
         ELSE LinkPropagate(Not(l), {c})
    /\ UNCHANGED numUnfixed

(* update_atom_tval through fix_lit_true.  When the value is only marked   *)
(* as fixed (Case 1 of the code) no clause is looked at again.             *)
FixLitTrue(l, c) ==
    /\ assignment' = [assignment EXCEPT ![VarOf(l)] = UpTrueValueOf(l)]
    /\ numUnfixed' = numUnfixed - 1
    /\ IF AssignedTrueLit(assignment, l)
         THEN live' = live \ {c} /\ UNCHANGED <<watched, unsat, ruleWatched>>
         ELSE LinkPropagate(Not(l), {c})

(* Mistake: a satisfied clause is not popped.                              *)
InsertWithoutPop(c) ==
    /\ FixedSat(c)
    /\ sat' = sat \cup {c}
    /\ UNCHANGED <<assignment, ruleAssignment, numUnfixed, live, unsat, watched, ruleWatched,
                   weights>>

(* insert_live_clause for a clause popped from the live list: one action   *)
(* for every outcome of get_fixable_literal and get_true_literal.          *)
InsertFixedSat(c) ==
    /\ FixedSat(c)
    /\ live' = live \ {c}
    /\ sat' = sat \cup {c}
    /\ UNCHANGED <<assignment, ruleAssignment, numUnfixed, unsat, watched, ruleWatched, weights>>

(* The code reports the clause and returns: it is in no list any more.     *)
DropFixedUnsat(c) ==
    /\ ~FixedSat(c) /\ FixedUnsat(c)
    /\ live' = live \ {c}
    /\ UNCHANGED <<assignment, ruleAssignment, numUnfixed, unsat, sat, watched, ruleWatched, weights>>

(* Mistake: the weight always goes to the satisfied side.                  *)
FixRuleFalseUnweighed(c) ==
    LET r == RuleOf[c] IN
    /\ ~FixedSat(c) /\ AllFixedFalse(c) /\ ~FixedUnsat(c)
    /\ ruleAssignment' = [ruleAssignment EXCEPT ![r] = "v_up_false"]
    /\ satWeight' = satWeight + Weight[r]
    /\ live' = live \ {c}
    /\ sat' = sat \cup {c}
    /\ UNCHANGED <<assignment, numUnfixed, unsat, watched, ruleWatched, unsatWeight>>

FixRuleFalse(c) ==
    LET r == RuleOf[c] IN
    /\ ~FixedSat(c) /\ AllFixedFalse(c) /\ ~FixedUnsat(c)
    /\ ruleAssignment' = [ruleAssignment EXCEPT ![r] = "v_up_false"]
    /\ IF AssignedTrue(ruleAssignment[r])
         THEN unsatWeight' = unsatWeight + Weight[r] /\ UNCHANGED satWeight
         ELSE satWeight' = satWeight + Weight[r] /\ UNCHANGED unsatWeight
    /\ live' = live \ {c}
    /\ sat' = sat \cup {c}
    /\ UNCHANGED <<assignment, numUnfixed, unsat, watched, ruleWatched>>

UnitPropagate(c) ==
    /\ ~FixedSat(c)
    /\ \E l \in Lits[c] : UnitLit(c, l) /\ FixLitTrue(l, c)
    /\ sat' = sat \cup {c}
    /\ UNCHANGED <<ruleAssignment, weights>>

WatchTrueLit(c) ==
    /\ Unfixable(c)
    /\ \E l \in Lits[c] :
          /\ AssignedTrueLit(assignment, l)
          /\ watched' = [watched EXCEPT ![l] = @ \cup {c}]
    /\ live' = live \ {c}
    /\ UNCHANGED <<assignment, ruleAssignment, numUnfixed, unsat, sat, ruleWatched, weights>>

WatchRule(c) ==
    /\ Unfixable(c) /\ ~SatClause(assignment, Lits[c])
    /\ AssignedFalse(ruleAssignment[RuleOf[c]])
    /\ ruleWatched' = [ruleWatched EXCEPT ![RuleOf[c]] = @ \cup {c}]
    /\ live' = live \ {c}
    /\ UNCHANGED <<assignment, ruleAssignment, numUnfixed, unsat, sat, watched, weights>>

ListUnsat(c) ==
    /\ Unfixable(c) /\ ~SatClause(assignment, Lits[c])
    /\ ~AssignedFalse(ruleAssignment[RuleOf[c]])
    /\ unsat' = unsat \cup {c}
    /\ live' = live \ {c}
    /\ UNCHANGED <<assignment, ruleAssignment, numUnfixed, sat, watched, ruleWatched, weights>>

(* One turn of the loop of scan_live_clauses.                              *)
ScanLiveClause ==
    \E c \in live :
        \/ InsertFixedSat(c)
        \/ DropFixedUnsat(c)
        \/ FixRuleFalse(c)
        \/ UnitPropagate(c)
        \/ WatchTrueLit(c)
        \/ WatchRule(c)
        \/ ListUnsat(c)

-----------------------------------------------------------------------------
(* init_live_clauses: every list is emptied, then the clauses of the rules *)
(* that are true go to the live list.                                      *)
InitLiveClauses(ra) ==
    /\ live' = ClausesOf(ra)
    /\ unsat' = {}
    /\ sat' = {}
    /\ watched' = [l \in Literals |-> {}]
    /\ ruleWatched' = [r \in Rules |-> {}]

(* flip_unfixed_variable up to its scan.  For a fixed atom the call of     *)
(* update_atom_tval reports a conflict, which nobody looks at.             *)
FlipVariable(v) ==
    IF UnfixedTVal(assignment[v])
      THEN /\ assignment' = [assignment EXCEPT ![v] = NegateTVal(@)]
           /\ LinkPropagate(TrueLitOf(v), {})
           /\ UNCHANGED <<ruleAssignment, numUnfixed, sat, weights>>
      ELSE UNCHANGED walkVars

(* init_random_assignment: S is the set of free atoms whose value changes. *)
RandomAssignment ==
    \E S \in SUBSET UnfixedAtoms :
        LET falsified == {TrueLitOf(v) : v \in S} IN
        /\ assignment' = [v \in Atoms |-> IF v \in S THEN NegateTVal(assignment[v])
                                                    ELSE assignment[v]]
        /\ live' = live \cup (UNION {watched[l] : l \in falsified})
                        \cup (IF S = {} THEN {} ELSE unsat)
        /\ unsat' = IF S = {} THEN unsat ELSE {}
        /\ watched' = [l \in Literals |-> IF l \in falsified THEN {} ELSE watched[l]]
        /\ UNCHANGED <<ruleAssignment, numUnfixed, sat, ruleWatched, weights>>

(* Mistake: what a flip repairs is not counted.                            *)
CostBroken(v) ==
    LET t == TrueLitOf(v) IN
      Cardinality({c \in watched[t] :
                     \A l \in Lits[c] : l = t \/ AssignedFalseLit(assignment, l)})

(* cost_flip_unfixed_variable: the clauses that would become false minus   *)
(* those that would become true.                                           *)
CostFlip(v) ==
    LET t == TrueLitOf(v) IN
      Cardinality({c \in watched[t] :
                     \A l \in Lits[c] : l = t \/ AssignedFalseLit(assignment, l)})
    - Cardinality({c \in unsat : Not(t) \in Lits[c]})

(* cost_flip_unfixed_rule *)
CostFlipRule(r) ==
    - Cardinality({c \in Clauses : RuleOf[c] = r /\ ~SatClause(assignment, Lits[c])})

UnfixedVarsOf(c) == {VarOf(l) : l \in Lits[c]} \cap UnfixedAtoms

GreedyVarsOf(c) ==
    {v \in UnfixedVarsOf(c) : \A w \in UnfixedVarsOf(c) : CostFlip(v) <= CostFlip(w)}

-----------------------------------------------------------------------------
WalkTypeOK ==
    /\ assignment \in [Atoms -> TVal]
    /\ ruleAssignment \in [Rules -> TVal]
    /\ numUnfixed \in Int
    /\ live \subseteq Clauses
    /\ unsat \subseteq Clauses
    /\ sat \subseteq Clauses
    /\ watched \in [Literals -> SUBSET Clauses]
    /\ ruleWatched \in [Rules -> SUBSET Clauses]
    /\ unsatWeight \in Int
    /\ satWeight \in Int

WatchedClauses == UNION {watched[l] : l \in Literals}
RuleWatchedClauses == UNION {ruleWatched[r] : r \in Rules}

Listed == live \cup unsat \cup sat \cup WatchedClauses \cup RuleWatchedClauses

(* A clause has one link field (clause_list.c): it must never be inserted  *)
(* in a list while it is a member of another one.                          *)
OneListPerClause ==
    /\ live \cap (unsat \cup sat \cup WatchedClauses \cup RuleWatchedClauses) = {}
    /\ unsat \cap (sat \cup WatchedClauses \cup RuleWatchedClauses) = {}
    /\ sat \cap (WatchedClauses \cup RuleWatchedClauses) = {}
    /\ WatchedClauses \cap RuleWatchedClauses = {}
    /\ \A l, m \in Literals : watched[l] \cap watched[m] # {} => l = m
    /\ \A r \in Rules : \A c \in ruleWatched[r] : RuleOf[c] = r

(* valid_watched_lit and the assertion of link_propagate: a clause watched *)
(* by a literal contains it, and the literal is true, at every moment of a *)
(* scan.                                                                   *)
WatchedByTrueLit ==
    \A l \in Literals : \A c \in watched[l] :
        l \in Lits[c] /\ AssignedTrueLit(assignment, l)

(* valid_rule_inst_table: the clauses on the unsat list are false.         *)
UnsatListFalse == \A c \in unsat : ~SatClause(assignment, Lits[c])

(* valid_atom_table: num_unfixed_vars counts the atoms that may be flipped.*)
NumUnfixedExact == numUnfixed = Cardinality(UnfixedAtoms)
=============================================================================
