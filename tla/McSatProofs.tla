----------------------------- MODULE McSatProofs -----------------------------
(***************************************************************************)
(* Proofs about SampleSat, for any atoms, rules, clauses and flip bounds,  *)
(* and about McSat, which calls it.                                        *)
(*                                                                         *)
(* A run of MC-SAT without Gibbs steps implements the Markov chain that it *)
(* promises, and samples only models of the hard rules, whenever these     *)
(* have a model; for any rules, clauses and database, any numbers of       *)
(* flips, rounds and samples, and however often rounds fail.  With Gibbs   *)
(* steps each proposed assignment is a model of the hard rules, and with   *)
(* or without them the number of samples is the one asked for.             *)
(***************************************************************************)
EXTENDS McSat, WalkSatProofs

-----------------------------------------------------------------------------
(* The inductive invariant.                                                *)

(* OneListPerClause, clause by clause, for a table in which no clause is   *)
(* watched by its rule.                                                    *)
NoRuleWatched == ruleWatched = [r \in Rules |-> {}]

Apart ==
    \A c \in Clauses :
        /\ c \in live => c \notin unsat /\ c \notin sat
        /\ c \in unsat => c \notin sat
        /\ \A l \in Literals : c \in watched[l] =>
              /\ c \notin live /\ c \notin unsat /\ c \notin sat
              /\ \A m \in Literals : c \in watched[m] => m = l

On(c) == c \in live \/ c \in unsat \/ c \in sat \/ \E l \in Literals : c \in watched[l]

RulesFixed == \A r \in Rules : ruleAssignment[r] \in {"v_up_true", "v_up_false"}

OnlyLive == \A c \in Clauses : On(c) => c \in LiveClauses

ListInv ==
    /\ WalkTypeOK /\ NoRuleWatched /\ RulesFixed
    /\ Apart /\ OnlyLive /\ WatchedByTrueLit /\ UnsatListFalse

DbKept ==
    \A v \in Atoms :
        /\ v \in DbTrue <=> assignment[v] = "v_db_true"
        /\ v \in DbFalse <=> assignment[v] = "v_db_false"

NotLost == Models # {} => \A c \in LiveClauses : On(c)

Entailed ==
    \A m \in Models : \A v \in Atoms :
        FixedTVal(assignment[v]) => (AssignedTrue(assignment[v]) <=> AssignedTrue(m[v]))

SatFixed == \A c \in sat : FixedSat(c)

(* What a step of a call preserves.                                        *)
CallInv == ListInv /\ DbKept /\ NotLost /\ Entailed /\ SatFixed

NoMarks == \A v \in Atoms : assignment[v] \in FreeTVal \/ DbTVal(assignment[v])

IdleInv ==
    /\ live = {}
    /\ ListInv /\ DbKept /\ NoMarks /\ NotLost
    /\ \A c \in sat : SatClause(assignment, Lits[c])

CountsOK == numUnfixed \in Int /\ unsatWeight \in Int /\ satWeight \in Int

ControlOK ==
    /\ phase \in Phases
    /\ call \in Calls
    /\ flips \in 0..(MaxFlips + MaxExtraFlips)
    /\ extra \in 0..MaxExtraFlips

IndInv ==
    /\ ControlOK
    /\ phase # "idle" => CallInv
    /\ phase = "idle" => IdleInv

-----------------------------------------------------------------------------
(* The pointwise forms say the same as the properties of the modules.      *)
LEMMA ApartIsOneList ==
    ASSUME WalkTypeOK, NoRuleWatched
    PROVE  Apart => OneListPerClause
<1>1. RuleWatchedClauses = {}
  BY DEF RuleWatchedClauses, NoRuleWatched
<1>2. \A r \in Rules : ruleWatched[r] = {}
  BY DEF NoRuleWatched
<1>3. \A c : c \in WatchedClauses <=> \E l \in Literals : c \in watched[l]
  BY DEF WatchedClauses
<1>4. /\ live \subseteq Clauses /\ unsat \subseteq Clauses /\ sat \subseteq Clauses
      /\ \A l \in Literals : watched[l] \subseteq Clauses
  BY DEF WalkTypeOK
<1> SUFFICES ASSUME Apart PROVE OneListPerClause
  OBVIOUS
<1>5. live \cap (unsat \cup sat \cup WatchedClauses \cup RuleWatchedClauses) = {}
  BY <1>1, <1>3, <1>4 DEF Apart
<1>6. unsat \cap (sat \cup WatchedClauses \cup RuleWatchedClauses) = {}
  BY <1>1, <1>3, <1>4 DEF Apart
<1>7. sat \cap (WatchedClauses \cup RuleWatchedClauses) = {}
  BY <1>1, <1>3, <1>4 DEF Apart
<1>8. \A l, m \in Literals : watched[l] \cap watched[m] # {} => l = m
  BY <1>4 DEF Apart
<1> QED
  BY <1>1, <1>2, <1>5, <1>6, <1>7, <1>8 DEF OneListPerClause

LEMMA OnIsListed ==
    ASSUME NoRuleWatched, NEW c
    PROVE  c \in Listed <=> On(c)
<1>1. RuleWatchedClauses = {}
  BY DEF RuleWatchedClauses, NoRuleWatched
<1> QED
  BY <1>1 DEF Listed, On, WatchedClauses

(* Models depends on the live rules alone.                                 *)
LEMMA SameRulesSameModels ==
    ASSUME UNCHANGED ruleAssignment
    PROVE  LiveClauses' = LiveClauses /\ Models' = Models
BY DEF LiveClauses, Models, ClausesOf

LEMMA LiveClauseRule ==
    ASSUME RulesFixed, NEW c \in LiveClauses
    PROVE  /\ c \in Clauses
           /\ ruleAssignment[RuleOf[c]] = "v_up_true"
BY WalkSatAssumption DEF LiveClauses, ClausesOf, AssignedTrue, RulesFixed

-----------------------------------------------------------------------------
(* What link_propagate does to the lists.                                  *)

(* link_propagate keeps the lists in order: what the literal watched is    *)
(* live again, what others watch is still watched by a true literal.       *)
LEMMA LinkPropagateLists ==
    ASSUME ListInv,
           NEW l \in Literals, AssignedTrueLit(assignment, l), LiteralFalsified(l),
           NEW popped \in SUBSET live,
           LinkPropagate(l, popped), sat' = sat \cup popped,
           numUnfixed' \in Int,
           UNCHANGED <<ruleAssignment, weights>>
    PROVE  /\ ListInv'
           /\ \A c \in Clauses : On(c) => On(c)'
<1> USE DEF ListInv, WalkTypeOK
<1>1. /\ live' = (live \ popped) \cup watched[l] \cup unsat
      /\ watched' = [watched EXCEPT ![l] = {}]
      /\ unsat' = {}
      /\ ruleWatched' = ruleWatched
  BY DEF LinkPropagate
<1>2. /\ watched'[l] = {}
      /\ \A h \in Literals : h # l => watched'[h] = watched[h]
  BY <1>1
<1>3. WalkTypeOK'
  <2>1. watched' \in [Literals -> SUBSET Clauses]
    BY <1>1
  <2>2. live' \subseteq Clauses /\ unsat' \subseteq Clauses /\ sat' \subseteq Clauses
    BY <1>1
  <2> QED
    BY <1>1, <2>1, <2>2 DEF LiteralFalsified, weights
<1>4. NoRuleWatched' /\ RulesFixed'
  BY <1>1 DEF NoRuleWatched, RulesFixed
<1>5. Apart'
  BY <1>1, <1>2 DEF Apart
<1>6. \A c \in Clauses : On(c) <=> On(c)'
  <2> TAKE c \in Clauses
  <2>1. ASSUME On(c) PROVE On(c)'
    BY <1>1, <1>2, <2>1 DEF On
  <2>2. ASSUME On(c)' PROVE On(c)
    BY <1>1, <1>2, <2>2 DEF On
  <2> QED
    BY <2>1, <2>2
<1>7. OnlyLive'
  BY <1>6, SameRulesSameModels DEF OnlyLive
<1>8. WatchedByTrueLit'
  <2> SUFFICES ASSUME NEW h \in Literals, NEW c \in watched'[h]
               PROVE  h \in Lits[c] /\ AssignedTrueLit(assignment', h)
    BY DEF WatchedByTrueLit
  <2>1. h # l /\ c \in watched[h]
    BY <1>2
  <2>2. h \in Lits[c] /\ AssignedTrueLit(assignment, h)
    BY <2>1 DEF WatchedByTrueLit
  <2> QED
    BY <2>1, <2>2, FalsifiedLits
<1>9. UnsatListFalse'
  BY <1>1 DEF UnsatListFalse
<1> QED
  BY <1>3, <1>4, <1>5, <1>6, <1>7, <1>8, <1>9

-----------------------------------------------------------------------------
(* Flips.                                                                  *)

LEMMA FixedPartKept ==
    ASSUME assignment \in [Atoms -> TVal], sat \subseteq Clauses,
           FreeAtomsOnly, UNCHANGED <<ruleAssignment, sat>>
    PROVE  /\ Entailed => Entailed'
           /\ SatFixed => SatFixed'
           /\ DbKept => DbKept'
<1>1. Entailed => Entailed'
  <2>1. Models' = Models
    BY SameRulesSameModels
  <2> QED
    BY <2>1 DEF Entailed, FreeAtomsOnly
<1>2. SatFixed => SatFixed'
  <2>1. \A c \in Clauses : Lits[c] \subseteq Literals
    BY WalkSatAssumption
  <2> QED
    BY <2>1, FixedLitStays DEF SatFixed, FixedSat
<1>3. DbKept => DbKept'
  <2>1. FixedTVal("v_db_true") /\ FixedTVal("v_db_false")
    BY DEF FixedTVal
  <2> QED
    BY <2>1 DEF DbKept, FreeAtomsOnly
<1> QED
  BY <1>1, <1>2, <1>3

LEMMA NoneLost ==
    ASSUME NotLost, UNCHANGED ruleAssignment, \A c \in Clauses : On(c) => On(c)'
    PROVE  NotLost'
<1>1. LiveClauses \subseteq Clauses
  BY DEF LiveClauses, ClausesOf
<1> QED
  BY <1>1, SameRulesSameModels DEF NotLost

LEMMA StutterKeepsCallInv ==
    ASSUME CallInv, UNCHANGED walkVars
    PROVE  CallInv'
<1> USE DEF walkVars, lists, weights
<1>1. UNCHANGED ruleAssignment
  OBVIOUS
<1>2. LiveClauses' = LiveClauses /\ Models' = Models
  BY <1>1, SameRulesSameModels
<1>3. \A c : On(c)' <=> On(c)
  BY DEF On
<1>4. ListInv'
  BY <1>2, <1>3 DEF CallInv, ListInv, WalkTypeOK, NoRuleWatched, RulesFixed, Apart, OnlyLive,
     WatchedByTrueLit, UnsatListFalse
<1>5. DbKept' /\ NotLost' /\ Entailed' /\ SatFixed'
  BY <1>2, <1>3 DEF CallInv, DbKept, NotLost, Entailed, SatFixed, FixedSat
<1> QED
  BY <1>4, <1>5 DEF CallInv

(* flip_unfixed_variable up to its scan.                                   *)
LEMMA FlipKeepsCallInv ==
    ASSUME CallInv, NEW v \in Atoms, FlipVariable(v)
    PROVE  CallInv'
<1>1. CASE ~UnfixedTVal(assignment[v])
  BY <1>1, StutterKeepsCallInv DEF FlipVariable
<1>2. CASE UnfixedTVal(assignment[v])
  <2>1. /\ assignment' = [assignment EXCEPT ![v] = NegateTVal(@)]
        /\ LinkPropagate(TrueLitOf(v), {})
        /\ UNCHANGED <<ruleAssignment, numUnfixed, sat, weights>>
    BY <1>2 DEF FlipVariable
  <2>2. /\ assignment \in [Atoms -> TVal] /\ sat \subseteq Clauses
        /\ numUnfixed \in Int
    BY DEF CallInv, ListInv, WalkTypeOK
  <2>3. LiteralFalsified(TrueLitOf(v)) /\ FreeAtomsOnly
    BY <1>2, <2>1, <2>2, FlipFalsifies
  <2>4. TrueLitOf(v) \in Literals /\ AssignedTrueLit(assignment, TrueLitOf(v))
    BY <2>2, TrueLit
  <2>5. ListInv' /\ \A c \in Clauses : On(c) => On(c)'
    <3>1. sat' = sat \cup {} /\ {} \in SUBSET live /\ ListInv
      BY <2>1 DEF CallInv
    <3> QED
      BY <2>1, <2>2, <2>3, <2>4, <3>1, LinkPropagateLists
  <2>6. NotLost'
    BY <2>1, <2>5, NoneLost DEF CallInv
  <2>7. Entailed' /\ SatFixed' /\ DbKept'
    BY <2>1, <2>2, <2>3, FixedPartKept DEF CallInv
  <2> QED
    BY <2>5, <2>6, <2>7 DEF CallInv
<1> QED
  BY <1>1, <1>2

(* init_random_assignment: the flips of a set of free atoms at once.       *)
LEMMA RandomKeepsCallInv ==
    ASSUME CallInv, RandomAssignment
    PROVE  CallInv'
<1> DEFINE Falsified(S) == {TrueLitOf(v) : v \in S}
<1>1. PICK S \in SUBSET UnfixedAtoms :
        /\ assignment' = [v \in Atoms |-> IF v \in S THEN NegateTVal(assignment[v])
                                                    ELSE assignment[v]]
        /\ live' = live \cup (UNION {watched[l] : l \in Falsified(S)})
                        \cup (IF S = {} THEN {} ELSE unsat)
        /\ unsat' = IF S = {} THEN unsat ELSE {}
        /\ watched' = [l \in Literals |-> IF l \in Falsified(S) THEN {} ELSE watched[l]]
        /\ UNCHANGED <<ruleAssignment, numUnfixed, sat, ruleWatched, weights>>
  BY DEF RandomAssignment
<1>2. /\ assignment \in [Atoms -> TVal] /\ sat \subseteq Clauses
      /\ ListInv /\ WalkTypeOK
  BY DEF CallInv, ListInv, WalkTypeOK
<1>3. \A v \in S : v \in Atoms /\ UnfixedTVal(assignment[v])
  BY DEF UnfixedAtoms
<1>4. assignment' \in [Atoms -> TVal]
  <2>1. \A v \in Atoms : (IF v \in S THEN NegateTVal(assignment[v]) ELSE assignment[v]) \in TVal
    BY <1>2, <1>3, NegateFree
  <2> QED
    BY <1>1, <2>1
<1>5. FreeAtomsOnly
  BY <1>1, <1>3, <1>4, NegateFree DEF FreeAtomsOnly
<1>6. /\ \A l \in Falsified(S) : watched'[l] = {} /\ l \in Literals
      /\ \A l \in Literals : l \notin Falsified(S) => watched'[l] = watched[l]
  BY <1>1, <1>2, <1>3, TrueLit
<1>7. /\ \A c : c \in live' <=>
                 \/ c \in live
                 \/ \E l \in Falsified(S) : c \in watched[l]
                 \/ S # {} /\ c \in unsat
      /\ \A c : c \in unsat' <=> S = {} /\ c \in unsat
  <2> DEFINE U == UNION {watched[l] : l \in Falsified(S)}
  <2>1. \A c : c \in U <=> \E l \in Falsified(S) : c \in watched[l]
    OBVIOUS
  <2>2. /\ S = {} => live' = live \cup U /\ unsat' = unsat
        /\ S # {} => live' = live \cup U \cup unsat /\ unsat' = {}
    <3> HIDE DEF Falsified
    <3>1. live' = live \cup U \cup (IF S = {} THEN {} ELSE unsat)
      BY <1>1
    <3>2. unsat' = IF S = {} THEN unsat ELSE {}
      BY <1>1
    <3> HIDE DEF U
    <3> QED
      BY <3>1, <3>2
  <2> HIDE DEF U, Falsified
  <2> QED
    BY <2>1, <2>2
<1>8. /\ NoRuleWatched' /\ RulesFixed'
      /\ UNCHANGED <<ruleAssignment, numUnfixed, sat, ruleWatched, weights>>
  BY <1>1, <1>2 DEF ListInv, NoRuleWatched, RulesFixed
<1>9. watched' \in [Literals -> SUBSET Clauses]
  BY <1>1, <1>2 DEF WalkTypeOK
<1> HIDE DEF Falsified
<1>10. WalkTypeOK'
  <2>1. live' \subseteq Clauses /\ unsat' \subseteq Clauses
    BY <1>2, <1>6, <1>7 DEF WalkTypeOK
  <2> QED
    BY <1>2, <1>4, <1>8, <1>9, <2>1 DEF WalkTypeOK, weights
<1>11. /\ Apart'
       /\ \A c \in Clauses : On(c) <=> On(c)'
  <2>1. Apart'
    BY <1>2, <1>6, <1>7, <1>8 DEF ListInv, Apart
  <2>2. ASSUME NEW c \in Clauses, On(c) PROVE On(c)'
    <3>1. CASE c \in live \/ c \in sat
      BY <1>7, <1>8, <3>1 DEF On
    <3>2. CASE c \in unsat
      <4>1. c \in live' \/ c \in unsat'
        BY <1>7, <3>2
      <4> QED
        BY <4>1 DEF On
    <3>3. ASSUME NEW l \in Literals, c \in watched[l] PROVE On(c)'
      <4>1. CASE l \in Falsified(S)
        <5>1. c \in live'
          BY <1>7, <3>3, <4>1
        <5> QED
          BY <5>1 DEF On
      <4>2. CASE l \notin Falsified(S)
        BY <1>6, <3>3, <4>2 DEF On
      <4> QED
        BY <4>1, <4>2
    <3> QED
      BY <2>2, <3>1, <3>2, <3>3 DEF On
  <2>3. ASSUME NEW c \in Clauses, On(c)' PROVE On(c)
    <3>1. CASE c \in live' \/ c \in sat' \/ c \in unsat'
      BY <1>6, <1>7, <1>8, <3>1 DEF On
    <3>2. CASE \E l \in Literals : c \in watched'[l]
      BY <1>6, <3>2 DEF On
    <3> QED
      BY <2>3, <3>1, <3>2 DEF On
  <2> QED
    BY <2>1, <2>2, <2>3
<1>12. OnlyLive'
  BY <1>1, <1>2, <1>11, SameRulesSameModels DEF ListInv, OnlyLive
<1>13. WatchedByTrueLit'
  <2> SUFFICES ASSUME NEW h \in Literals, NEW c \in watched'[h]
               PROVE  h \in Lits[c] /\ AssignedTrueLit(assignment', h)
    BY DEF WatchedByTrueLit
  <2>1. h \notin Falsified(S) /\ c \in watched[h]
    BY <1>6
  <2>2. h \in Lits[c] /\ AssignedTrueLit(assignment, h)
    BY <1>2, <2>1 DEF ListInv, WatchedByTrueLit
  <2>3. VarOf(h) \in Atoms
    BY <1>2, LitValues
  <2>4. VarOf(h) \notin S
    <3> SUFFICES ASSUME VarOf(h) \in S PROVE FALSE
      OBVIOUS
    <3> DEFINE t == TrueLitOf(VarOf(h))
    <3>1. t \in Literals /\ VarOf(t) = VarOf(h) /\ AssignedTrueLit(assignment, t) /\ t \in Falsified(S)
      BY <1>2, <2>3, TrueLit DEF Falsified
    <3>2. h = t \/ h = Not(t)
      BY <1>2, <3>1, NotLit
    <3>3. ~AssignedTrueLit(assignment, Not(t))
      BY <1>2, <3>1, NotLit, LitValues
    <3> QED
      BY <2>1, <2>2, <3>1, <3>2, <3>3
  <2>5. assignment'[VarOf(h)] = assignment[VarOf(h)]
    BY <1>1, <2>3, <2>4
  <2> QED
    BY <2>2, <2>5, SameAtomSameValue
<1>14. UnsatListFalse'
  <2>1. CASE S = {}
    <3>1. assignment' = assignment
      BY <1>1, <1>2, <2>1
    <3> QED
      BY <1>1, <1>2, <2>1, <3>1 DEF ListInv, UnsatListFalse
  <2>2. CASE S # {}
    BY <1>1, <2>2 DEF UnsatListFalse
  <2> QED
    BY <2>1, <2>2
<1>15. ListInv'
  BY <1>8, <1>10, <1>11, <1>12, <1>13, <1>14 DEF ListInv
<1>16. NotLost'
  BY <1>1, <1>11, NoneLost DEF CallInv
<1>17. Entailed' /\ SatFixed' /\ DbKept'
  BY <1>1, <1>2, <1>5, FixedPartKept DEF CallInv
<1> QED
  BY <1>15, <1>16, <1>17 DEF CallInv

-----------------------------------------------------------------------------
(* The scan of one clause.                                                 *)

(* A live clause belongs to a rule that is fixed true.                     *)
LEMMA PoppedClause ==
    ASSUME CallInv, NEW c \in live
    PROVE  /\ c \in Clauses /\ c \in LiveClauses
           /\ Lits[c] \subseteq Literals
           /\ ruleAssignment[RuleOf[c]] = "v_up_true"
           /\ c \notin unsat /\ c \notin sat
           /\ \A l \in Literals : c \notin watched[l]
<1>1. c \in Clauses
  BY DEF CallInv, ListInv, WalkTypeOK
<1>2. c \in LiveClauses
  BY <1>1 DEF CallInv, ListInv, OnlyLive, On
<1>3. RulesFixed /\ Apart
  BY DEF CallInv, ListInv
<1> QED
  BY <1>1, <1>2, <1>3, LiveClauseRule, WalkSatAssumption DEF Apart

LEMMA SameValuesKept ==
    ASSUME CallInv, UNCHANGED <<assignment, ruleAssignment>>
    PROVE  Entailed' /\ DbKept' /\ LiveClauses' = LiveClauses /\ Models' = Models
<1>1. LiveClauses' = LiveClauses /\ Models' = Models
  BY SameRulesSameModels
<1> QED
  BY <1>1 DEF CallInv, Entailed, DbKept

(* A satisfied clause goes to the sat list.                                *)
LEMMA SatKeepsCallInv ==
    ASSUME CallInv, NEW c \in live, InsertFixedSat(c)
    PROVE  CallInv'
<1>1. /\ FixedSat(c) /\ live' = live \ {c} /\ sat' = sat \cup {c}
      /\ UNCHANGED <<assignment, ruleAssignment, numUnfixed, unsat, watched, ruleWatched, weights>>
  BY DEF InsertFixedSat
<1>2. ListInv /\ c \in Clauses
  BY PoppedClause DEF CallInv
<1>3. WalkTypeOK' /\ NoRuleWatched' /\ RulesFixed' /\ WatchedByTrueLit' /\ UnsatListFalse'
  BY <1>1, <1>2 DEF ListInv, WalkTypeOK, NoRuleWatched, RulesFixed, WatchedByTrueLit,
     UnsatListFalse, weights
<1>4. Apart'
  BY <1>1, <1>2, PoppedClause DEF ListInv, Apart
<1>5. \A d \in Clauses : On(d)' <=> On(d)
  BY <1>1 DEF On
<1>6. OnlyLive' /\ NotLost' /\ Entailed' /\ DbKept'
  BY <1>1, <1>2, <1>5, SameValuesKept, NoneLost DEF CallInv, ListInv, OnlyLive
<1>7. SatFixed'
  BY <1>1 DEF CallInv, SatFixed, FixedSat
<1> QED
  BY <1>3, <1>4, <1>6, <1>7 DEF CallInv, ListInv

(* A clause whose literals are all fixed false has no model: it may be     *)
(* dropped.                                                                *)
LEMMA AllFalseNoModel ==
    ASSUME CallInv, NEW c \in live, AllFixedFalse(c)
    PROVE  Models = {}
<1> SUFFICES ASSUME NEW m \in Models PROVE FALSE
  OBVIOUS
<1>1. m \in [Atoms -> TVal]
  BY DEF Models, FreeTVal, TVal
<1>2. PICK l \in Lits[c] : AssignedTrueLit(m, l)
  BY PoppedClause DEF Models, SatClause
<1>3. l \in Literals /\ assignment \in [Atoms -> TVal]
  BY PoppedClause DEF CallInv, ListInv, WalkTypeOK
<1>4. AssignedFixedFalseLit(assignment, l)
  BY DEF AllFixedFalse, OpenLits
<1>5. /\ AssignedFalseLit(assignment, l) /\ FixedTVal(assignment[VarOf(l)])
      /\ VarOf(l) \in Atoms
  BY <1>3, <1>4, LitValues
<1>6. AssignedTrue(assignment[VarOf(l)]) <=> AssignedTrue(m[VarOf(l)])
  BY <1>5 DEF CallInv, Entailed
<1>7. assignment[VarOf(l)] \in TVal /\ m[VarOf(l)] \in TVal
  BY <1>1, <1>3, <1>5
<1> QED
  BY <1>2, <1>5, <1>6, <1>7
     DEF AssignedTrueLit, AssignedFalseLit, AssignedTrue, AssignedFalse, TVal

LEMMA DropKeepsCallInv ==
    ASSUME CallInv, NEW c \in live, DropFixedUnsat(c)
    PROVE  CallInv'
<1>1. /\ AllFixedFalse(c) /\ live' = live \ {c}
      /\ UNCHANGED <<assignment, ruleAssignment, numUnfixed, unsat, sat, watched, ruleWatched, weights>>
  BY DEF DropFixedUnsat, FixedUnsat
<1>2. ListInv /\ c \in Clauses
  BY PoppedClause DEF CallInv
<1>3. WalkTypeOK' /\ NoRuleWatched' /\ RulesFixed' /\ WatchedByTrueLit' /\ UnsatListFalse'
  BY <1>1, <1>2 DEF ListInv, WalkTypeOK, NoRuleWatched, RulesFixed, WatchedByTrueLit,
     UnsatListFalse, weights
<1>4. Apart'
  BY <1>1, <1>2 DEF ListInv, Apart
<1>5. \A d \in Clauses : On(d)' => On(d)
  BY <1>1 DEF On
<1>6. OnlyLive' /\ Entailed' /\ DbKept'
  BY <1>1, <1>2, <1>5, SameValuesKept DEF ListInv, OnlyLive
<1>7. NotLost'
  BY <1>1, AllFalseNoModel, SameValuesKept DEF NotLost
<1>8. SatFixed'
  BY <1>1 DEF CallInv, SatFixed, FixedSat
<1> QED
  BY <1>3, <1>4, <1>6, <1>7, <1>8 DEF CallInv, ListInv

(* A clause with a true literal is watched by it.                          *)
LEMMA WatchKeepsCallInv ==
    ASSUME CallInv, NEW c \in live, WatchTrueLit(c)
    PROVE  CallInv'
<1>1. PICK l \in Lits[c] :
        /\ AssignedTrueLit(assignment, l)
        /\ watched' = [watched EXCEPT ![l] = @ \cup {c}]
  BY DEF WatchTrueLit
<1>2. /\ live' = live \ {c}
      /\ UNCHANGED <<assignment, ruleAssignment, numUnfixed, unsat, sat, ruleWatched, weights>>
  BY DEF WatchTrueLit
<1>3. ListInv /\ c \in Clauses /\ l \in Literals /\ watched \in [Literals -> SUBSET Clauses]
  BY PoppedClause DEF CallInv, ListInv, WalkTypeOK
<1>4. /\ watched'[l] = watched[l] \cup {c}
      /\ \A h \in Literals : h # l => watched'[h] = watched[h]
  BY <1>1, <1>3
<1>5. WalkTypeOK'
  <2>1. watched' \in [Literals -> SUBSET Clauses]
    BY <1>1, <1>3
  <2> QED
    BY <1>2, <1>3, <2>1 DEF ListInv, WalkTypeOK, weights
<1>6. NoRuleWatched' /\ RulesFixed' /\ UnsatListFalse'
  BY <1>2, <1>3 DEF ListInv, NoRuleWatched, RulesFixed, UnsatListFalse
<1>7. WatchedByTrueLit'
  BY <1>1, <1>2, <1>3, <1>4 DEF ListInv, WatchedByTrueLit
<1>8. Apart'
  BY <1>2, <1>3, <1>4, PoppedClause DEF ListInv, Apart
<1>9. \A d \in Clauses : On(d)' <=> On(d)
  BY <1>2, <1>3, <1>4 DEF On
<1>10. OnlyLive' /\ NotLost' /\ Entailed' /\ DbKept'
  BY <1>2, <1>3, <1>9, SameValuesKept, NoneLost DEF CallInv, ListInv, OnlyLive
<1>11. SatFixed'
  BY <1>2 DEF CallInv, SatFixed, FixedSat
<1> QED
  BY <1>5, <1>6, <1>7, <1>8, <1>10, <1>11 DEF CallInv, ListInv

(* A false clause goes to the unsat list.                                  *)
LEMMA UnsatKeepsCallInv ==
    ASSUME CallInv, NEW c \in live, ListUnsat(c)
    PROVE  CallInv'
<1>1. /\ ~SatClause(assignment, Lits[c])
      /\ live' = live \ {c} /\ unsat' = unsat \cup {c}
      /\ UNCHANGED <<assignment, ruleAssignment, numUnfixed, sat, watched, ruleWatched, weights>>
  BY DEF ListUnsat
<1>2. ListInv /\ c \in Clauses
  BY PoppedClause DEF CallInv
<1>3. WalkTypeOK' /\ NoRuleWatched' /\ RulesFixed' /\ WatchedByTrueLit' /\ UnsatListFalse'
  BY <1>1, <1>2 DEF ListInv, WalkTypeOK, NoRuleWatched, RulesFixed, WatchedByTrueLit,
     UnsatListFalse, weights
<1>4. Apart'
  BY <1>1, <1>2, PoppedClause DEF ListInv, Apart
<1>5. \A d \in Clauses : On(d)' <=> On(d)
  BY <1>1 DEF On
<1>6. OnlyLive' /\ NotLost' /\ Entailed' /\ DbKept'
  BY <1>1, <1>2, <1>5, SameValuesKept, NoneLost DEF CallInv, ListInv, OnlyLive
<1>7. SatFixed'
  BY <1>1 DEF CallInv, SatFixed, FixedSat
<1> QED
  BY <1>3, <1>4, <1>6, <1>7 DEF CallInv, ListInv

(* Unit propagation: the literal left is true in every model, so fixing it *)
(* true is sound.                                                          *)
LEMMA UnitEntailed ==
    ASSUME CallInv, NEW c \in live, NEW l \in Lits[c], UnitLit(c, l), NEW m \in Models
    PROVE  AssignedTrueLit(m, l)
<1>1. m \in [Atoms -> TVal]
  BY DEF Models, FreeTVal, TVal
<1>2. PICK h \in Lits[c] : AssignedTrueLit(m, h)
  BY PoppedClause DEF Models, SatClause
<1>3. h \in Literals /\ assignment \in [Atoms -> TVal]
  BY PoppedClause DEF CallInv, ListInv, WalkTypeOK
<1> SUFFICES ASSUME h # l PROVE FALSE
  BY <1>2
<1>4. AssignedFixedFalseLit(assignment, h)
  BY DEF UnitLit, OpenLits
<1>5. /\ AssignedFalseLit(assignment, h) /\ FixedTVal(assignment[VarOf(h)])
      /\ VarOf(h) \in Atoms
  BY <1>3, <1>4, LitValues
<1>6. AssignedTrue(assignment[VarOf(h)]) <=> AssignedTrue(m[VarOf(h)])
  BY <1>5 DEF CallInv, Entailed
<1>7. assignment[VarOf(h)] \in TVal /\ m[VarOf(h)] \in TVal
  BY <1>1, <1>3, <1>5
<1> QED
  BY <1>2, <1>5, <1>6, <1>7
     DEF AssignedTrueLit, AssignedFalseLit, AssignedTrue, AssignedFalse, TVal

LEMMA UnitIsFree ==
    ASSUME CallInv, NEW c \in live, ~FixedSat(c), NEW l \in Lits[c], UnitLit(c, l)
    PROVE  /\ l \in Literals /\ VarOf(l) \in Atoms
           /\ ~FixedTVal(assignment[VarOf(l)])
<1>1. l \in Literals /\ assignment \in [Atoms -> TVal]
  BY PoppedClause DEF CallInv, ListInv, WalkTypeOK
<1>2. ~AssignedFixedTrueLit(assignment, l)
  BY DEF FixedSat
<1>3. ~AssignedFixedFalseLit(assignment, l)
  BY DEF UnitLit, OpenLits
<1> QED
  BY <1>1, <1>2, <1>3, LitValues

LEMMA UnitKeepsFixedPart ==
    ASSUME CallInv, NEW c \in live, ~FixedSat(c), NEW l \in Lits[c], UnitLit(c, l),
           assignment' = [assignment EXCEPT ![VarOf(l)] = UpTrueValueOf(l)],
           sat' = sat \cup {c}, UNCHANGED ruleAssignment
    PROVE  Entailed' /\ SatFixed' /\ DbKept'
<1>1. assignment \in [Atoms -> TVal] /\ sat \subseteq Clauses
  BY DEF CallInv, ListInv, WalkTypeOK
<1>2. /\ l \in Literals /\ VarOf(l) \in Atoms
      /\ ~FixedTVal(assignment[VarOf(l)])
  BY UnitIsFree
<1>3. /\ assignment'[VarOf(l)] = UpTrueValueOf(l)
      /\ \A v \in Atoms : v # VarOf(l) => assignment'[v] = assignment[v]
      /\ AssignedFixedTrueLit(assignment', l)
  BY <1>1, <1>2, FixedValue
<1>4. Entailed'
  <2>1. Models' = Models
    BY SameRulesSameModels
  <2> SUFFICES ASSUME NEW m \in Models, NEW v \in Atoms, FixedTVal(assignment'[v])
               PROVE  AssignedTrue(assignment'[v]) <=> AssignedTrue(m[v])
    BY <2>1 DEF Entailed
  <2>2. CASE v = VarOf(l)
    <3>1. AssignedTrueLit(m, l)
      BY UnitEntailed
    <3> QED
      BY <1>3, <2>2, <3>1
         DEF AssignedTrueLit, UpTrueValueOf, AssignedTrue, AssignedFalse
  <2>3. CASE v # VarOf(l)
    BY <1>3, <2>3 DEF CallInv, Entailed
  <2> QED
    BY <2>2, <2>3
<1>5. SatFixed'
  <2> SUFFICES ASSUME NEW d \in sat' PROVE FixedSat(d)'
    BY DEF SatFixed
  <2>1. CASE d = c
    BY <1>3, <2>1 DEF FixedSat
  <2>2. CASE d \in sat
    <3>1. PICK h \in Lits[d] : AssignedFixedTrueLit(assignment, h)
      BY <2>2 DEF CallInv, SatFixed, FixedSat
    <3>2. h \in Literals
      BY <1>1, <2>2, WalkSatAssumption
    <3>3. VarOf(h) \in Atoms /\ FixedTVal(assignment[VarOf(h)])
      BY <1>1, <3>1, <3>2, LitValues
    <3>4. assignment'[VarOf(h)] = assignment[VarOf(h)]
      BY <1>2, <1>3, <3>3
    <3>5. AssignedFixedTrueLit(assignment', h)
      BY <3>1, <3>4, SameAtomSameValue
    <3> QED
      BY <3>5 DEF FixedSat
  <2> QED
    BY <2>1, <2>2
<1>6. DbKept'
  BY <1>2, <1>3 DEF CallInv, DbKept, FixedTVal, UpTrueValueOf
<1> QED
  BY <1>4, <1>5, <1>6

LEMMA UnitKeepsCallInv ==
    ASSUME CallInv, NEW c \in live, UnitPropagate(c)
    PROVE  CallInv'
<1>1. PICK l \in Lits[c] : UnitLit(c, l) /\ FixLitTrue(l, c)
  BY DEF UnitPropagate
<1>2. /\ ~FixedSat(c) /\ sat' = sat \cup {c}
      /\ UNCHANGED <<ruleAssignment, weights>>
  BY DEF UnitPropagate
<1>3. /\ assignment' = [assignment EXCEPT ![VarOf(l)] = UpTrueValueOf(l)]
      /\ numUnfixed' = numUnfixed - 1
  BY <1>1 DEF FixLitTrue
<1>4. /\ ListInv /\ c \in Clauses /\ assignment \in [Atoms -> TVal]
      /\ numUnfixed \in Int
  BY PoppedClause DEF CallInv, ListInv, WalkTypeOK
<1>5. /\ l \in Literals /\ VarOf(l) \in Atoms
  BY <1>1, <1>2, UnitIsFree
<1>6. /\ assignment' \in [Atoms -> TVal]
      /\ \A v \in Atoms : v # VarOf(l) => assignment'[v] = assignment[v]
      /\ AssignedTrueLit(assignment', l)
  BY <1>3, <1>4, <1>5, FixedValue
<1>7. Entailed' /\ SatFixed' /\ DbKept'
  BY <1>1, <1>2, <1>3, UnitKeepsFixedPart
<1>8. ListInv' /\ \A d \in Clauses : On(d) => On(d)'
  <2>1. CASE AssignedTrueLit(assignment, l)
    <3>1. /\ live' = live \ {c}
          /\ UNCHANGED <<watched, unsat, ruleWatched>>
      BY <1>1, <2>1 DEF FixLitTrue
    <3>2. \A h \in Literals : AssignedTrueLit(assignment', h) <=> AssignedTrueLit(assignment, h)
      <4> TAKE h \in Literals
      <4>1. CASE VarOf(h) = VarOf(l)
        <5>1. h = l \/ h = Not(l)
          BY <1>4, <1>5, <4>1, NotLit
        <5>2. AssignedTrueLit(assignment, Not(l)) <=> AssignedTrueLit(assignment', Not(l))
          BY <1>4, <1>5, <1>6, <2>1, NotLit, LitValues
        <5> QED
          BY <1>6, <2>1, <5>1, <5>2
      <4>2. CASE VarOf(h) # VarOf(l)
        <5>1. VarOf(h) \in Atoms
          BY <1>4, LitValues
        <5>2. assignment'[VarOf(h)] = assignment[VarOf(h)]
          BY <1>6, <4>2, <5>1
        <5> QED
          BY <5>2, SameAtomSameValue
      <4> QED
        BY <4>1, <4>2
    <3>3. \A d \in Clauses : SatClause(assignment', Lits[d]) <=> SatClause(assignment, Lits[d])
      BY <3>2, WalkSatAssumption DEF SatClause
    <3>4. WalkTypeOK'
      BY <1>2, <1>3, <1>4, <1>6, <3>1 DEF ListInv, WalkTypeOK, weights
    <3>5. NoRuleWatched' /\ RulesFixed'
      BY <1>2, <1>4, <3>1 DEF ListInv, NoRuleWatched, RulesFixed
    <3>6. Apart'
      BY <1>2, <1>4, <3>1, PoppedClause DEF ListInv, Apart
    <3>7. \A d \in Clauses : On(d)' <=> On(d)
      BY <1>2, <3>1 DEF On
    <3>8. OnlyLive'
      BY <1>2, <1>4, <3>7, SameRulesSameModels DEF ListInv, OnlyLive
    <3>9. WatchedByTrueLit'
      BY <1>4, <3>1, <3>2 DEF ListInv, WatchedByTrueLit
    <3>10. UnsatListFalse'
      BY <1>4, <3>1, <3>3 DEF ListInv, WalkTypeOK, UnsatListFalse
    <3> QED
      BY <3>4, <3>5, <3>6, <3>7, <3>8, <3>9, <3>10 DEF ListInv
  <2>2. CASE ~AssignedTrueLit(assignment, l)
    <3>1. LinkPropagate(Not(l), {c})
      BY <1>1, <2>2 DEF FixLitTrue
    <3>2. /\ Not(l) \in Literals /\ VarOf(Not(l)) = VarOf(l) /\ Not(Not(l)) = l
          /\ AssignedTrueLit(assignment, Not(l))
          /\ AssignedFalseLit(assignment', Not(l))
      BY <1>4, <1>5, <1>6, <2>2, NotLit, LitValues
    <3>3. LiteralFalsified(Not(l))
      BY <1>6, <3>2 DEF LiteralFalsified
    <3>4. {c} \in SUBSET live /\ numUnfixed' \in Int
      BY <1>3, <1>4
    <3> QED
      BY <1>2, <1>4, <3>1, <3>2, <3>3, <3>4, LinkPropagateLists
  <2> QED
    BY <2>1, <2>2
<1>9. NotLost'
  BY <1>2, <1>8, NoneLost DEF CallInv
<1> QED
  BY <1>7, <1>8, <1>9 DEF CallInv

LEMMA ScanKeepsCallInv ==
    ASSUME CallInv, ScanLiveClause
    PROVE  CallInv'
<1>1. PICK c \in live :
        \/ InsertFixedSat(c)
        \/ DropFixedUnsat(c)
        \/ FixRuleFalse(c)
        \/ UnitPropagate(c)
        \/ WatchTrueLit(c)
        \/ WatchRule(c)
        \/ ListUnsat(c)
  BY DEF ScanLiveClause
<1>2. ruleAssignment[RuleOf[c]] = "v_up_true"
  BY PoppedClause
<1>3. ~FixRuleFalse(c)
  BY <1>2 DEF FixRuleFalse, FixedUnsat, AssignedFixedTrue
<1>4. ~WatchRule(c)
  BY <1>2 DEF WatchRule, AssignedFalse
<1> QED
  BY <1>1, <1>3, <1>4, SatKeepsCallInv, DropKeepsCallInv, UnitKeepsCallInv,
     WatchKeepsCallInv, UnsatKeepsCallInv

-----------------------------------------------------------------------------
(* The start and the end of a call.                                        *)

(* A call starts well whatever is on the lists before.                     *)
LEMMA StartGivesCallInv ==
    ASSUME CountsOK, NEW a \in IdleAssignments, NEW ra \in RuleChoices, NEW args \in Calls,
           StartSampleSat(a, ra, args)
    PROVE  CallInv'
<1>1. /\ assignment' = a /\ ruleAssignment' = ra
      /\ live' = ClausesOf(ra) /\ unsat' = {} /\ sat' = {}
      /\ watched' = [l \in Literals |-> {}]
      /\ ruleWatched' = [r \in Rules |-> {}]
      /\ UNCHANGED <<numUnfixed, weights>>
  BY DEF StartSampleSat, InitLiveClauses
<1>2. LiveClauses' = live' /\ live' \subseteq Clauses
  BY <1>1 DEF LiveClauses, ClausesOf
<1>3. /\ a \in [Atoms -> TVal]
      /\ \A v \in Atoms : a[v] \in FreeTVal \cup {"v_db_true", "v_db_false"}
      /\ \A v \in Atoms : /\ v \in DbTrue <=> a[v] = "v_db_true"
                          /\ v \in DbFalse <=> a[v] = "v_db_false"
  BY DEF IdleAssignments, FreeTVal, TVal
<1>4. ra \in [Rules -> TVal] /\ \A r \in Rules : ra[r] \in {"v_up_true", "v_up_false"}
  BY DEF RuleChoices, TVal
<1>5. WalkTypeOK'
  <2>1. watched' \in [Literals -> SUBSET Clauses] /\ ruleWatched' \in [Rules -> SUBSET Clauses]
    BY <1>1
  <2>2. numUnfixed' \in Int /\ unsatWeight' \in Int /\ satWeight' \in Int
    BY <1>1 DEF CountsOK, weights
  <2> QED
    BY <1>1, <1>2, <1>3, <1>4, <2>1, <2>2 DEF WalkTypeOK
<1>6. NoRuleWatched' /\ RulesFixed'
  BY <1>1, <1>4 DEF NoRuleWatched, RulesFixed
<1>7. Apart' /\ WatchedByTrueLit' /\ UnsatListFalse'
  BY <1>1 DEF Apart, WatchedByTrueLit, UnsatListFalse
<1>8. OnlyLive' /\ NotLost'
  BY <1>1, <1>2 DEF OnlyLive, NotLost, On
<1>9. DbKept' /\ SatFixed'
  BY <1>1, <1>3 DEF DbKept, SatFixed
<1>10. Entailed'
  <2> SUFFICES ASSUME NEW m \in Models', NEW v \in Atoms, FixedTVal(a[v])
               PROVE  AssignedTrue(a[v]) <=> AssignedTrue(m[v])
    BY <1>1 DEF Entailed
  <2>1. /\ \A u \in DbTrue : m[u] = "v_true"
        /\ \A u \in DbFalse : m[u] = "v_false"
    BY DEF Models
  <2>2. a[v] = "v_db_true" \/ a[v] = "v_db_false"
    BY <1>3 DEF FixedTVal, FreeTVal
  <2> QED
    BY <1>3, <2>1, <2>2 DEF AssignedTrue
<1> QED
  BY <1>5, <1>6, <1>7, <1>8, <1>9, <1>10 DEF CallInv, ListInv

(* Dropping the marks of unit propagation changes no truth value.          *)
LEMMA UnfixKeepsTruth ==
    ASSUME assignment \in [Atoms -> TVal]
    PROVE  /\ Unfixed(assignment) \in [Atoms -> TVal]
           /\ \A v \in Atoms : DbTVal(assignment[v]) => Unfixed(assignment)[v] = assignment[v]
           /\ \A v \in Atoms : Unfixed(assignment)[v] \in FreeTVal \/ DbTVal(assignment[v])
           /\ \A l \in Literals :
                AssignedTrueLit(Unfixed(assignment), l) <=> AssignedTrueLit(assignment, l)
<1>1. \A x \in TVal :
        /\ UnfixTVal(x) \in TVal
        /\ DbTVal(x) => UnfixTVal(x) = x
        /\ UnfixTVal(x) \in FreeTVal \/ DbTVal(x)
        /\ AssignedTrue(UnfixTVal(x)) <=> AssignedTrue(x)
        /\ AssignedFalse(UnfixTVal(x)) <=> AssignedFalse(x)
  BY DEF TVal, FreeTVal, UnfixTVal, DbTVal, AssignedTrue, AssignedFalse
<1>2. /\ Unfixed(assignment) \in [Atoms -> TVal]
      /\ \A v \in Atoms : assignment[v] \in TVal
      /\ \A v \in Atoms : Unfixed(assignment)[v] = UnfixTVal(assignment[v])
  BY <1>1 DEF Unfixed
<1>3. \A l \in Literals : VarOf(l) \in Atoms
  BY LitValues
<1>4. \A l \in Literals :
        AssignedTrueLit(Unfixed(assignment), l) <=> AssignedTrueLit(assignment, l)
  BY <1>1, <1>2, <1>3 DEF AssignedTrueLit
<1>5. \A v \in Atoms : /\ DbTVal(assignment[v]) => Unfixed(assignment)[v] = assignment[v]
                       /\ Unfixed(assignment)[v] \in FreeTVal \/ DbTVal(assignment[v])
  BY <1>1, <1>2
<1> QED
  BY <1>2, <1>4, <1>5

LEMMA ReturnGivesIdleInv ==
    ASSUME CallInv, Return
    PROVE  IdleInv'
<1>1. /\ assignment' = Unfixed(assignment)
      /\ numUnfixed' = Cardinality({v \in Atoms : UnfixedTVal(Unfixed(assignment)[v])})
      /\ UNCHANGED <<ruleAssignment, live, unsat, sat, watched, ruleWatched, weights>>
  BY DEF Return, lists
<1>2. ListInv /\ assignment \in [Atoms -> TVal]
  BY DEF CallInv, ListInv, WalkTypeOK
<1>3. /\ assignment' \in [Atoms -> TVal]
      /\ \A l \in Literals : AssignedTrueLit(assignment', l) <=> AssignedTrueLit(assignment, l)
      /\ \A v \in Atoms : DbTVal(assignment[v]) => assignment'[v] = assignment[v]
      /\ \A v \in Atoms : assignment'[v] \in FreeTVal \/ DbTVal(assignment[v])
  BY <1>1, <1>2, UnfixKeepsTruth
<1>4. numUnfixed' \in Int
  <2> DEFINE F == {v \in Atoms : UnfixedTVal(Unfixed(assignment)[v])}
  <2>1. F \subseteq Atoms
    OBVIOUS
  <2> HIDE DEF F
  <2>2. IsFiniteSet(F)
    BY <2>1, FS_Subset, WalkSatAssumption
  <2>3. Cardinality(F) \in Nat
    BY <2>2, FS_CardinalityType
  <2> QED
    BY <1>1, <2>3 DEF F
<1>5. \A c \in Clauses : SatClause(assignment', Lits[c]) <=> SatClause(assignment, Lits[c])
  BY <1>3, WalkSatAssumption DEF SatClause
<1>6. WalkTypeOK'
  BY <1>1, <1>2, <1>3, <1>4 DEF ListInv, WalkTypeOK, weights
<1>7. NoRuleWatched' /\ RulesFixed' /\ Apart'
  BY <1>1, <1>2 DEF ListInv, NoRuleWatched, RulesFixed, Apart
<1>8. \A c : On(c)' <=> On(c)
  BY <1>1 DEF On
<1>9. OnlyLive' /\ NotLost'
  BY <1>1, <1>2, <1>8, SameRulesSameModels, NoneLost DEF CallInv, ListInv, OnlyLive
<1>10. WatchedByTrueLit' /\ UnsatListFalse'
  BY <1>1, <1>2, <1>3, <1>5 DEF ListInv, WalkTypeOK, WatchedByTrueLit, UnsatListFalse
<1>11. DbKept' /\ NoMarks'
  <2>1. DbKept'
    BY <1>3 DEF CallInv, DbKept, DbTVal, FreeTVal
  <2>2. NoMarks'
    BY <1>3 DEF NoMarks
  <2> QED
    BY <2>1, <2>2
<1>12. \A c \in sat' : SatClause(assignment', Lits[c])
  <2> SUFFICES ASSUME NEW c \in sat PROVE SatClause(assignment, Lits[c])
    BY <1>1, <1>2, <1>5 DEF ListInv, WalkTypeOK
  <2>1. PICK l \in Lits[c] : AssignedFixedTrueLit(assignment, l)
    BY DEF CallInv, SatFixed, FixedSat
  <2>2. l \in Literals
    BY <1>2, WalkSatAssumption DEF ListInv, WalkTypeOK
  <2> QED
    BY <1>2, <2>1, <2>2, LitValues DEF SatClause
<1>13. live' = {}
  BY <1>1 DEF Return
<1> QED
  BY <1>6, <1>7, <1>9, <1>10, <1>11, <1>12, <1>13 DEF IdleInv, ListInv

-----------------------------------------------------------------------------
(* The invariant is inductive.                                             *)

LEMMA InitIndInv == SolverInit => IndInv
<1> SUFFICES ASSUME SolverInit PROVE IndInv
  OBVIOUS
<1> USE DEF SolverInit
<1>1. ControlOK
  BY SampleSatAssumption DEF ControlOK, Phases, Calls, FirstCall
<1>2. WalkTypeOK
  <2>1. assignment \in [Atoms -> TVal]
    BY DEF IdleAssignments, FreeTVal, TVal
  <2>2. numUnfixed \in Int
    <3>1. IsFiniteSet(FreeAtoms)
      BY FS_Subset, WalkSatAssumption DEF FreeAtoms
    <3> QED
      BY <3>1, FS_CardinalityType
  <2> QED
    BY <2>1, <2>2 DEF WalkTypeOK, TVal
<1>3. NoRuleWatched /\ RulesFixed /\ Apart /\ OnlyLive /\ WatchedByTrueLit /\ UnsatListFalse
  BY DEF NoRuleWatched, RulesFixed, Apart, OnlyLive, On, WatchedByTrueLit, UnsatListFalse
<1>4. LiveClauses = {}
  BY WalkSatAssumption DEF LiveClauses, ClausesOf, AssignedTrue
<1>5. DbKept /\ NoMarks /\ NotLost
  BY <1>4 DEF DbKept, NoMarks, DbTVal, IdleAssignments, NotLost
<1> QED
  BY <1>1, <1>2, <1>3, <1>5 DEF IndInv, IdleInv, ListInv

LEMMA ControlStep ==
    ASSUME ControlOK, Next
    PROVE  ControlOK'
<1> USE SampleSatAssumption DEF ControlOK
<1>1. ASSUME NEW a \in IdleAssignments, NEW ra \in RuleChoices, NEW args \in Calls,
             StartSampleSat(a, ra, args)
      PROVE  ControlOK'
  BY <1>1 DEF StartSampleSat, Phases
<1>2. CASE Scan
  BY <1>2 DEF Scan, solverVars
<1>3. CASE Randomize
  BY <1>3 DEF Randomize, Phases
<1>4. CASE StartWalk
  BY <1>4 DEF StartWalk, Phases
<1>5. CASE WalkStep
  <2>1. /\ flips > 0 /\ (unsat # {} \/ extra > 0)
        /\ flips' = flips - 1
        /\ extra' = IF unsat = {} THEN extra - 1 ELSE extra
        /\ UNCHANGED <<phase, call>>
    BY <1>5 DEF WalkStep, WalkGoesOn
  <2>2. extra' \in 0..MaxExtraFlips
    BY <2>1
  <2>3. flips' \in 0..(MaxFlips + MaxExtraFlips)
    BY <2>1
  <2> QED
    BY <2>1, <2>2, <2>3
<1>6. CASE StartExtra
  BY <1>6 DEF StartExtra, Phases
<1>7. CASE ExtraStep
  BY <1>7 DEF ExtraStep
<1>8. CASE Return
  BY <1>8 DEF Return, Phases
<1> QED
  BY <1>1, <1>2, <1>3, <1>4, <1>5, <1>6, <1>7, <1>8 DEF Next, CallSampleSat, SolverStep

(* The steps of a call that change a value.                                *)
LEMMA AnnealKeepsCallInv ==
    ASSUME CallInv, NEW hot, AnnealFlip(hot) \/ AnnealStay
    PROVE  CallInv'
<1>1. ASSUME NEW v \in UnfixedAtoms, FlipVariable(v) PROVE CallInv'
  BY <1>1, FlipKeepsCallInv DEF UnfixedAtoms
<1>2. CASE AnnealStay
  BY <1>2, StutterKeepsCallInv DEF AnnealStay
<1> QED
  BY <1>1, <1>2 DEF AnnealFlip

LEMMA BodyKeepsCallInv ==
    ASSUME CallInv, Body
    PROVE  CallInv'
<1>1. CASE AnnealFlip(call.anneal) \/ AnnealStay
  BY <1>1, AnnealKeepsCallInv
<1>2. ASSUME NEW c \in unsat, NEW v \in ClauseVars(c), FlipVariable(v) PROVE CallInv'
  <2>1. v \in Atoms
    BY <1>2 DEF ClauseVars, UnfixedVarsOf, GreedyVarsOf, UnfixedAtoms
  <2> QED
    BY <1>2, <2>1, FlipKeepsCallInv
<1> QED
  BY <1>1, <1>2 DEF Body, WalkFlip

LEMMA NextIndInv ==
    ASSUME IndInv, [Next]_vars
    PROVE  IndInv'
<1>1. CASE UNCHANGED vars
  <2>1. UNCHANGED walkVars /\ UNCHANGED <<phase, call, flips, extra>>
    BY <1>1 DEF vars, solverVars
  <2>2. UNCHANGED <<assignment, ruleAssignment, numUnfixed, live, unsat, sat, watched,
                    ruleWatched, unsatWeight, satWeight>>
    BY <2>1 DEF walkVars, lists, weights
  <2>3. ControlOK'
    BY <2>1 DEF IndInv, ControlOK
  <2>4. phase # "idle" => CallInv'
    BY <2>1, StutterKeepsCallInv DEF IndInv
  <2>5. phase = "idle" => IdleInv'
    BY <2>2 DEF IndInv, IdleInv, ListInv, WalkTypeOK, NoRuleWatched, RulesFixed, Apart,
       OnlyLive, On, LiveClauses, ClausesOf, WatchedByTrueLit, UnsatListFalse, DbKept,
       NoMarks, NotLost, Models
  <2> QED
    BY <2>1, <2>3, <2>4, <2>5 DEF IndInv
<1>2. CASE Next
  <2>1. ControlOK'
    BY <1>2, ControlStep DEF IndInv
  <2>2. ASSUME NEW a \in IdleAssignments, NEW ra \in RuleChoices, NEW args \in Calls,
               StartSampleSat(a, ra, args)
        PROVE  IndInv'
    <3>1. phase = "idle" /\ phase' = "init"
      BY <2>2 DEF StartSampleSat, Idle
    <3>2. CallInv'
      BY <2>2, <3>1, StartGivesCallInv DEF IndInv, IdleInv, ListInv, WalkTypeOK, CountsOK
    <3> QED
      BY <2>1, <3>1, <3>2 DEF IndInv
  <2>3. CASE Scan
    <3>1. phase # "idle"
      BY <2>3 DEF Scan, ScanLiveClause, IndInv, IdleInv
    <3> QED
      BY <2>1, <2>3, <3>1, ScanKeepsCallInv DEF Scan, solverVars, IndInv
  <2>4. CASE Randomize
    <3>1. phase # "idle" /\ phase' # "idle"
      BY <2>4 DEF Randomize
    <3>2. CallInv'
      BY <2>4, <3>1, RandomKeepsCallInv, StutterKeepsCallInv DEF Randomize, IndInv
    <3> QED
      BY <2>1, <3>1, <3>2 DEF IndInv
  <2>5. CASE StartWalk \/ StartExtra
    <3>1. phase # "idle" /\ phase' # "idle" /\ UNCHANGED walkVars
      BY <2>5 DEF StartWalk, StartExtra
    <3> QED
      BY <2>1, <3>1, StutterKeepsCallInv DEF IndInv
  <2>6. CASE WalkStep
    <3>1. phase # "idle" /\ phase' # "idle" /\ Body
      BY <2>6 DEF WalkStep
    <3> QED
      BY <2>1, <3>1, BodyKeepsCallInv DEF IndInv
  <2>7. CASE ExtraStep
    <3>1. phase # "idle" /\ phase' # "idle" /\ (AnnealFlip(TRUE) \/ AnnealStay)
      BY <2>7 DEF ExtraStep
    <3> QED
      BY <2>1, <3>1, AnnealKeepsCallInv DEF IndInv
  <2>8. CASE Return
    <3>1. phase # "idle" /\ phase' = "idle"
      BY <2>8 DEF Return
    <3> QED
      BY <2>1, <2>8, <3>1, ReturnGivesIdleInv DEF IndInv
  <2> QED
    BY <1>2, <2>2, <2>3, <2>4, <2>5, <2>6, <2>7, <2>8 DEF Next, CallSampleSat, SolverStep
<1> QED
  BY <1>1, <1>2

-----------------------------------------------------------------------------
(* The theorems.                                                           *)

(* IndInv holds at every moment of every call.                             *)
THEOREM Invariance == Spec => []IndInv
<1>1. SolverInit => IndInv
  BY InitIndInv
<1>2. IndInv /\ [Next]_vars => IndInv'
  BY NextIndInv
<1> QED
  BY <1>1, <1>2, PTL DEF Spec

(* The type invariant: the variables of the rule instance table and the    *)
(* loop counters of sample_sat_body stay in their types; in particular     *)
(* neither num_flips nor max_extra_flips goes below zero.                  *)
THEOREM TypeCorrect == Spec => []TypeOK
<1>1. IndInv => TypeOK
  BY DEF IndInv, ControlOK, CallInv, IdleInv, ListInv, TypeOK
<1> QED
  BY <1>1, Invariance, PTL

(* The single link of a clause is enough: insert_live_clause and           *)
(* link_propagate never put a clause in a second list (clause_list.c).     *)
THEOREM ListsDisjoint == Spec => []OneListPerClause
<1>1. IndInv => OneListPerClause
  BY ApartIsOneList DEF IndInv, CallInv, IdleInv, ListInv
<1> QED
  BY <1>1, Invariance, PTL

(* A watched clause contains its watched literal, which is true, also in   *)
(* the middle of a scan (valid_watched_lit); this is what the assertion of *)
(* link_propagate relies on.                                               *)
THEOREM WatchedIsTrue == Spec => []WatchedByTrueLit
<1>1. IndInv => WatchedByTrueLit
  BY DEF IndInv, CallInv, IdleInv, ListInv
<1> QED
  BY <1>1, Invariance, PTL

(* A clause on the unsat list is false (valid_rule_inst_table).            *)
THEOREM UnsatIsFalse == Spec => []UnsatListFalse
<1>1. IndInv => UnsatListFalse
  BY DEF IndInv, CallInv, IdleInv, ListInv
<1> QED
  BY <1>1, Invariance, PTL

(* Unit propagation is sound for any clauses, scanned in any order:        *)
(* what insert_live_clause fixes is so in every model of the live clauses. *)
THEOREM FixedSound == Spec => []FixedIsEntailed
<1>1. IndInv => FixedIsEntailed
  BY DEF IndInv, CallInv, Entailed, FixedIsEntailed
<1> QED
  BY <1>1, Invariance, PTL

(* A clause on the sat list needs no further look: it holds a literal fixed *)
(* true, and still a true one after unfix_assignment_array.                *)
THEOREM SatSettled == Spec => []SatListSettled
<1>1. IndInv => SatListSettled
  BY DEF IndInv, CallInv, IdleInv, SatFixed, SatListSettled
<1> QED
  BY <1>1, Invariance, PTL

(* Only a contradiction makes a live clause disappear from the lists       *)
(* (the early return of insert_live_clause), and no other clause is there. *)
THEOREM ListsComplete == Spec => []NoClauseLost
<1>1. IndInv => NoClauseLost
  <2> SUFFICES ASSUME ListInv, NotLost PROVE NoClauseLost
    BY DEF IndInv, CallInv, IdleInv
  <2>1. \A c : c \in Listed <=> On(c)
    BY OnIsListed DEF ListInv
  <2>2. \A c : On(c) => c \in Clauses
    BY DEF On, ListInv, WalkTypeOK
  <2>3. LiveClauses \subseteq Clauses
    BY DEF LiveClauses, ClausesOf
  <2> QED
    BY <2>1, <2>2, <2>3 DEF NotLost, NoClauseLost, ListInv, OnlyLive
<1> QED
  BY <1>1, Invariance, PTL

LEMMA AnswerInv == IndInv => ReturnedModel
<1> SUFFICES ASSUME IdleInv, unsat = {}, Models # {}, NEW c \in LiveClauses
             PROVE  SatClause(assignment, Lits[c])
  BY DEF IndInv, ReturnedModel, Idle
<1>1. c \in sat \/ \E l \in Literals : c \in watched[l]
  BY DEF IdleInv, NotLost, On
<1> QED
  BY <1>1 DEF IdleInv, ListInv, WatchedByTrueLit, SatClause

(* The answer of SampleSAT is right: when a call returns with an empty     *)
(* unsat list the assignment satisfies every live clause, if there is a    *)
(* model at all.                                                           *)
THEOREM AnswerIsModel == Spec => []ReturnedModel
BY AnswerInv, Invariance, PTL

(* choose_clause_var finds an atom to flip in every clause of the unsat    *)
(* list, unless the live clauses contradict each other.                    *)
THEOREM CandidateExists == Spec => []WalkHasCandidate
<1>1. IndInv => WalkHasCandidate
  <2> SUFFICES ASSUME CallInv, NEW m \in Models, NEW c \in unsat, UnfixedVarsOf(c) = {}
               PROVE  FALSE
    BY DEF IndInv, WalkHasCandidate
  <2>1. /\ ListInv /\ c \in Clauses /\ assignment \in [Atoms -> TVal]
        /\ Lits[c] \subseteq Literals
    BY WalkSatAssumption DEF CallInv, ListInv, WalkTypeOK
  <2>2. m \in [Atoms -> TVal] /\ c \in LiveClauses
    BY <2>1 DEF Models, FreeTVal, TVal, ListInv, OnlyLive, On
  <2>3. PICK l \in Lits[c] : AssignedTrueLit(m, l)
    BY <2>2 DEF Models, SatClause
  <2>4. l \in Literals /\ VarOf(l) \in Atoms
    BY <2>1, LitValues
  <2>5. FixedTVal(assignment[VarOf(l)])
    <3>1. ~UnfixedTVal(assignment[VarOf(l)])
      BY <2>3, <2>4 DEF UnfixedVarsOf, UnfixedAtoms
    <3>2. assignment[VarOf(l)] \in TVal
      BY <2>1, <2>4
    <3> QED
      BY <3>1, <3>2 DEF UnfixedTVal, FreeTVal, FixedTVal, TVal
  <2>6. ~AssignedTrueLit(assignment, l)
    BY <2>1, <2>3 DEF ListInv, UnsatListFalse, SatClause
  <2>7. AssignedTrue(assignment[VarOf(l)]) <=> AssignedTrue(m[VarOf(l)])
    BY <2>4, <2>5 DEF CallInv, Entailed
  <2>8. assignment[VarOf(l)] \in TVal /\ m[VarOf(l)] \in TVal
    BY <2>1, <2>2, <2>4
  <2> QED
    BY <2>3, <2>6, <2>7, <2>8 DEF AssignedTrueLit, AssignedTrue, AssignedFalse, TVal
<1> QED
  BY <1>1, Invariance, PTL

-----------------------------------------------------------------------------
(* What is fixed stays fixed.                                              *)

FixedKept ==
    \A v \in Atoms :
        /\ DbTVal(assignment[v]) => assignment'[v] = assignment[v]
        /\ FixedTVal(assignment[v]) /\ phase' # "idle" => assignment'[v] = assignment[v]

MarksKept == \A v \in Atoms : FixedTVal(assignment[v]) => assignment'[v] = assignment[v]

LEMMA MarksSuffice == MarksKept => FixedKept
BY DEF MarksKept, FixedKept, DbTVal, FixedTVal

LEMMA FlipKeepsMarks ==
    ASSUME assignment \in [Atoms -> TVal], NEW v \in Atoms, FlipVariable(v)
    PROVE  MarksKept
<1>1. CASE UnfixedTVal(assignment[v])
  BY <1>1, FlipFalsifies DEF FlipVariable, FreeAtomsOnly, MarksKept
<1>2. CASE ~UnfixedTVal(assignment[v])
  BY <1>2 DEF FlipVariable, walkVars, MarksKept
<1> QED
  BY <1>1, <1>2

LEMMA ScanKeepsMarks ==
    ASSUME CallInv, ScanLiveClause
    PROVE  MarksKept
<1>1. assignment \in [Atoms -> TVal]
  BY DEF CallInv, ListInv, WalkTypeOK
<1>2. CASE UNCHANGED assignment
  BY <1>2 DEF MarksKept
<1>3. ASSUME NEW c \in live, UnitPropagate(c) PROVE MarksKept
  <2>1. PICK l \in Lits[c] : UnitLit(c, l) /\ FixLitTrue(l, c)
    BY <1>3 DEF UnitPropagate
  <2>2. /\ l \in Literals
        /\ ~FixedTVal(assignment[VarOf(l)])
    BY <1>3, <2>1, UnitIsFree DEF UnitPropagate
  <2>3. \A v \in Atoms : v # VarOf(l) => assignment'[v] = assignment[v]
    BY <1>1, <2>1, <2>2, FixedValue DEF FixLitTrue
  <2> QED
    BY <2>2, <2>3 DEF MarksKept
<1> QED
  BY <1>2, <1>3 DEF ScanLiveClause, InsertFixedSat, DropFixedUnsat, FixRuleFalse,
     WatchTrueLit, WatchRule, ListUnsat

LEMMA RandomKeepsMarks ==
    ASSUME assignment \in [Atoms -> TVal], RandomAssignment
    PROVE  MarksKept
<1>1. PICK S \in SUBSET UnfixedAtoms :
        assignment' = [v \in Atoms |-> IF v \in S THEN NegateTVal(assignment[v])
                                                 ELSE assignment[v]]
  BY DEF RandomAssignment
<1>2. \A v \in S : ~FixedTVal(assignment[v])
  BY NegateFree DEF UnfixedAtoms
<1> QED
  BY <1>1, <1>2 DEF MarksKept

LEMMA StepKeepsFixed ==
    ASSUME IndInv, Next
    PROVE  FixedKept
<1>1. assignment \in [Atoms -> TVal]
  BY DEF IndInv, CallInv, IdleInv, ListInv, WalkTypeOK
<1>2. ASSUME NEW a \in IdleAssignments, NEW ra \in RuleChoices, NEW args \in Calls,
             StartSampleSat(a, ra, args)
      PROVE  FixedKept
  <2>1. DbKept /\ NoMarks /\ assignment' = a
    BY <1>2 DEF StartSampleSat, Idle, IndInv, IdleInv
  <2>2. \A v \in Atoms : /\ v \in DbTrue <=> a[v] = "v_db_true"
                         /\ v \in DbFalse <=> a[v] = "v_db_false"
    BY DEF IdleAssignments
  <2>3. \A v \in Atoms : FixedTVal(assignment[v]) => DbTVal(assignment[v])
    BY <2>1 DEF NoMarks, FixedTVal, FreeTVal
  <2>4. MarksKept
    BY <2>1, <2>2, <2>3 DEF MarksKept, DbKept, DbTVal
  <2> QED
    BY <2>4, MarksSuffice
<1>3. CASE Scan
  <2>1. CallInv
    BY <1>3 DEF Scan, ScanLiveClause, IndInv, IdleInv
  <2> QED
    BY <1>3, <2>1, ScanKeepsMarks, MarksSuffice DEF Scan
<1>4. ASSUME UNCHANGED walkVars PROVE FixedKept
  BY <1>4 DEF walkVars, FixedKept
<1>5. CASE Randomize
  BY <1>1, <1>4, <1>5, RandomKeepsMarks, MarksSuffice DEF Randomize
<1>6. CASE StartWalk \/ StartExtra
  BY <1>4, <1>6 DEF StartWalk, StartExtra
<1>7. ASSUME NEW v \in Atoms, FlipVariable(v) PROVE FixedKept
  BY <1>1, <1>7, FlipKeepsMarks, MarksSuffice
<1>8. ASSUME NEW hot, AnnealFlip(hot) \/ AnnealStay PROVE FixedKept
  BY <1>4, <1>7, <1>8 DEF AnnealFlip, AnnealStay, UnfixedAtoms
<1>9. CASE WalkStep
  <2>1. CASE AnnealFlip(call.anneal) \/ AnnealStay
    BY <1>8, <2>1
  <2>2. ASSUME NEW c \in unsat, NEW v \in ClauseVars(c), FlipVariable(v) PROVE FixedKept
    <3>1. v \in Atoms
      BY <2>2 DEF ClauseVars, UnfixedVarsOf, GreedyVarsOf, UnfixedAtoms
    <3> QED
      BY <1>7, <2>2, <3>1
  <2> QED
    BY <1>9, <2>1, <2>2 DEF WalkStep, Body, WalkFlip
<1>10. CASE ExtraStep
  BY <1>8, <1>10 DEF ExtraStep
<1>11. CASE Return
  BY <1>1, <1>11, UnfixKeepsTruth DEF Return, FixedKept
<1> QED
  BY <1>2, <1>3, <1>5, <1>6, <1>9, <1>10, <1>11 DEF Next, CallSampleSat, SolverStep

(* An atom fixed by the database keeps its value for good, and one fixed   *)
(* by unit propagation keeps it until the call returns: no step of a       *)
(* SampleSAT call, flips included, goes against them.                      *)
THEOREM FixedStays == Spec => FixedStaysFixed
<1>1. IndInv /\ [Next]_vars => [FixedKept]_vars
  BY StepKeepsFixed
<1> QED
  BY <1>1, Invariance, PTL DEF Spec, FixedStaysFixed, FixedKept

-----------------------------------------------------------------------------
(* The number of free atoms.                                               *)

(* The atoms free outside a call are those the database does not fix.      *)
LEMMA IdleUnfixed ==
    ASSUME assignment \in [Atoms -> TVal], DbKept, NoMarks
    PROVE  UnfixedAtoms = FreeAtoms
<1>1. \A v \in Atoms : UnfixedTVal(assignment[v]) <=> v \notin DbTrue /\ v \notin DbFalse
  BY DEF DbKept, NoMarks, DbTVal, UnfixedTVal, FreeTVal
<1> QED
  BY <1>1 DEF UnfixedAtoms, FreeAtoms

LEMMA FlipKeepsUnfixed ==
    ASSUME assignment \in [Atoms -> TVal], FreeAtomsOnly
    PROVE  UnfixedAtoms' = UnfixedAtoms
<1>1. \A x \in TVal : UnfixedTVal(x) <=> ~FixedTVal(x)
  BY DEF TVal, UnfixedTVal, FreeTVal, FixedTVal
<1>2. \A v \in Atoms : UnfixedTVal(assignment'[v]) <=> UnfixedTVal(assignment[v])
  BY <1>1 DEF FreeAtomsOnly
<1> QED
  BY <1>2 DEF UnfixedAtoms

LEMMA StepKeepsCount ==
    ASSUME IndInv, IndInv', NumUnfixedExact, Next
    PROVE  NumUnfixedExact'
<1> USE DEF NumUnfixedExact
<1>1. assignment \in [Atoms -> TVal] /\ numUnfixed \in Int
  BY DEF IndInv, CallInv, IdleInv, ListInv, WalkTypeOK
<1>2. ASSUME UNCHANGED <<assignment, numUnfixed>> PROVE NumUnfixedExact'
  BY <1>2 DEF UnfixedAtoms
<1>3. ASSUME UNCHANGED walkVars PROVE NumUnfixedExact'
  BY <1>2, <1>3 DEF walkVars
<1>4. ASSUME NEW a \in IdleAssignments, NEW ra \in RuleChoices, NEW args \in Calls,
             StartSampleSat(a, ra, args)
      PROVE  NumUnfixedExact'
  <2>1. DbKept /\ NoMarks /\ assignment' = a /\ numUnfixed' = numUnfixed
    BY <1>4 DEF StartSampleSat, Idle, IndInv, IdleInv
  <2>2. /\ a \in [Atoms -> TVal]
        /\ \A v \in Atoms : a[v] \in FreeTVal \/ DbTVal(a[v])
        /\ \A v \in Atoms : /\ v \in DbTrue <=> a[v] = "v_db_true"
                            /\ v \in DbFalse <=> a[v] = "v_db_false"
    BY DEF IdleAssignments, FreeTVal, TVal, DbTVal
  <2>3. \A v \in Atoms : UnfixedTVal(a[v]) <=> v \notin DbTrue /\ v \notin DbFalse
    BY <2>2 DEF UnfixedTVal, FreeTVal, DbTVal
  <2>4. UnfixedAtoms' = FreeAtoms
    BY <2>1, <2>3 DEF UnfixedAtoms, FreeAtoms
  <2> QED
    BY <1>1, <2>1, <2>4, IdleUnfixed
<1>5. CASE Scan
  <2>1. CallInv
    BY <1>5 DEF Scan, ScanLiveClause, IndInv, IdleInv
  <2>2. ASSUME NEW c \in live, UnitPropagate(c) PROVE NumUnfixedExact'
    <3>1. PICK l \in Lits[c] : UnitLit(c, l) /\ FixLitTrue(l, c)
      BY <2>2 DEF UnitPropagate
    <3>2. /\ l \in Literals /\ VarOf(l) \in Atoms
          /\ ~FixedTVal(assignment[VarOf(l)])
      BY <2>1, <2>2, <3>1, UnitIsFree DEF UnitPropagate
    <3>3. /\ \A v \in Atoms : v # VarOf(l) => assignment'[v] = assignment[v]
          /\ assignment'[VarOf(l)] = UpTrueValueOf(l)
          /\ numUnfixed' = numUnfixed - 1
      BY <1>1, <3>1, <3>2, FixedValue DEF FixLitTrue
    <3>4. UnfixedTVal(assignment[VarOf(l)]) /\ ~UnfixedTVal(assignment'[VarOf(l)])
      BY <1>1, <3>2, <3>3 DEF TVal, UnfixedTVal, FreeTVal, FixedTVal, UpTrueValueOf
    <3>5. VarOf(l) \in UnfixedAtoms /\ UnfixedAtoms' = UnfixedAtoms \ {VarOf(l)}
      BY <3>2, <3>3, <3>4 DEF UnfixedAtoms
    <3>6. IsFiniteSet(UnfixedAtoms)
      BY FS_Subset, WalkSatAssumption DEF UnfixedAtoms
    <3> QED
      BY <3>3, <3>5, <3>6, FS_RemoveElement
  <2> QED
    BY <1>2, <1>5, <2>2 DEF Scan, ScanLiveClause, InsertFixedSat, DropFixedUnsat,
       FixRuleFalse, WatchTrueLit, WatchRule, ListUnsat
<1>6. ASSUME NEW v \in Atoms, FlipVariable(v) PROVE NumUnfixedExact'
  <2>1. CASE UnfixedTVal(assignment[v])
    <3>1. FreeAtomsOnly /\ numUnfixed' = numUnfixed
      BY <1>1, <1>6, <2>1, FlipFalsifies DEF FlipVariable
    <3> QED
      BY <1>1, <3>1, FlipKeepsUnfixed
  <2> QED
    BY <1>3, <1>6, <2>1 DEF FlipVariable
<1>7. CASE Randomize
  <2>1. CASE RandomAssignment
    <3>1. PICK S \in SUBSET UnfixedAtoms :
            assignment' = [v \in Atoms |-> IF v \in S THEN NegateTVal(assignment[v])
                                                     ELSE assignment[v]]
      BY <2>1 DEF RandomAssignment
    <3>2. assignment' \in [Atoms -> TVal]
      BY DEF IndInv, CallInv, IdleInv, ListInv, WalkTypeOK
    <3>3. FreeAtomsOnly
      BY <3>1, <3>2, NegateFree DEF FreeAtomsOnly, UnfixedAtoms
    <3> QED
      BY <1>1, <2>1, <3>3, FlipKeepsUnfixed DEF RandomAssignment
  <2> QED
    BY <1>3, <1>7, <2>1 DEF Randomize
<1>8. ASSUME NEW hot, AnnealFlip(hot) \/ AnnealStay PROVE NumUnfixedExact'
  BY <1>3, <1>6, <1>8 DEF AnnealFlip, AnnealStay, UnfixedAtoms
<1>9. CASE WalkStep
  <2>1. ASSUME NEW c \in unsat, NEW v \in ClauseVars(c), FlipVariable(v) PROVE NumUnfixedExact'
    <3>1. v \in Atoms
      BY <2>1 DEF ClauseVars, UnfixedVarsOf, GreedyVarsOf, UnfixedAtoms
    <3> QED
      BY <1>6, <2>1, <3>1
  <2> QED
    BY <1>8, <1>9, <2>1 DEF WalkStep, Body, WalkFlip
<1>10. CASE Return
  BY <1>10 DEF Return, UnfixedAtoms
<1> QED
  BY <1>3, <1>4, <1>5, <1>7, <1>8, <1>9, <1>10
     DEF Next, CallSampleSat, SolverStep, StartWalk, StartExtra, ExtraStep

(* num_unfixed_vars counts the atoms that may be flipped, in the middle of *)
(* unit propagation too (valid_atom_table): sample_sat_body asks it before *)
(* it looks for an atom to flip.                                           *)
THEOREM CountExact == Spec => []NumUnfixedExact
<1>1. SolverInit => NumUnfixedExact
  <2> SUFFICES ASSUME SolverInit PROVE NumUnfixedExact
    OBVIOUS
  <2>1. IdleInv
    BY InitIndInv DEF IndInv, SolverInit
  <2> QED
    BY <2>1, IdleUnfixed DEF IdleInv, ListInv, WalkTypeOK, SolverInit, NumUnfixedExact
<1>2. IndInv /\ IndInv' /\ NumUnfixedExact /\ [Next]_vars => NumUnfixedExact'
  <2>1. ASSUME UNCHANGED vars, NumUnfixedExact PROVE NumUnfixedExact'
    BY <2>1 DEF vars, walkVars, NumUnfixedExact, UnfixedAtoms
  <2> QED
    BY <2>1, StepKeepsCount
<1> QED
  BY <1>1, <1>2, Invariance, PTL DEF Spec

-----------------------------------------------------------------------------
(* The cost of a flip.                                                     *)

(* What becomes of a clause on the lists when v is flipped: an unsatisfied *)
(* one becomes true if it holds the literal that becomes true, a watched   *)
(* one becomes false if v watches it, the rest of it is false and it does  *)
(* not hold the negation as well.                                          *)
LEMMA FlippedClause ==
    ASSUME ListInv, NEW v \in UnfixedAtoms, NEW c \in WatchedClauses \cup unsat
    PROVE  LET t == TrueLitOf(v)
               flipped == [assignment EXCEPT ![v] = NegateTVal(@)]
               broken == \A l \in Lits[c] : l = t \/ AssignedFalseLit(assignment, l)
           IN  /\ c \in unsat =>
                     (~SatClause(flipped, Lits[c]) <=> Not(t) \notin Lits[c])
               /\ c \notin unsat =>
                     (~SatClause(flipped, Lits[c])
                        <=> c \in watched[t] /\ broken /\ Not(t) \notin Lits[c])
<1> DEFINE t == TrueLitOf(v)
           flipped == [assignment EXCEPT ![v] = NegateTVal(@)]
<1>1. /\ assignment \in [Atoms -> TVal] /\ v \in Atoms /\ UnfixedTVal(assignment[v])
      /\ c \in Clauses
    BY DEF ListInv, WalkTypeOK, UnfixedAtoms, WatchedClauses
<1>2. Lits[c] \subseteq Literals
  BY <1>1, WalkSatAssumption
<1>3. t \in Literals /\ VarOf(t) = v /\ AssignedTrueLit(assignment, t)
  BY <1>1, TrueLit
<1>4. flipped \in [Atoms -> TVal] /\ flipped[v] = NegateTVal(assignment[v])
  BY <1>1, NegateFree
<1>5. /\ Not(t) \in Literals /\ VarOf(Not(t)) = v /\ Not(t) # t
      /\ \A l \in Literals : VarOf(l) = v => l = t \/ l = Not(t)
  BY <1>1, <1>3, NotLit
<1>6. ~AssignedTrueLit(flipped, t)
  <2>1. AssignedTrue(assignment[v]) \/ AssignedFalse(assignment[v])
    BY <1>1 DEF UnfixedTVal, FreeTVal, AssignedTrue, AssignedFalse
  <2>2. AssignedFalseLit(flipped, t)
    BY <1>1, <1>4, <2>1, NegateFree
       DEF TrueLitOf, AssignedFalseLit, IsPos, VarOf, PosLit, NegLit
  <2> QED
    BY <1>3, <1>4, <2>2, LitValues
<1>7. AssignedTrueLit(flipped, Not(t))
  BY <1>3, <1>4, <1>6, NotLit, LitValues
<1>8. \A l \in Literals : VarOf(l) # v =>
        (AssignedTrueLit(flipped, l) <=> AssignedTrueLit(assignment, l))
  <2> SUFFICES ASSUME NEW l \in Literals, VarOf(l) # v
               PROVE  AssignedTrueLit(flipped, l) <=> AssignedTrueLit(assignment, l)
    OBVIOUS
  <2>1. VarOf(l) \in Atoms
    BY <1>1, LitValues
  <2>2. flipped[VarOf(l)] = assignment[VarOf(l)]
    BY <1>1, <2>1
  <2> QED
    BY <2>2, SameAtomSameValue
<1>9. \A l \in Literals : AssignedTrueLit(assignment, l) <=> ~AssignedFalseLit(assignment, l)
  BY <1>1, LitValues
<1> HIDE DEF t, flipped
<1>10. SatClause(flipped, Lits[c]) <=>
         Not(t) \in Lits[c] \/ \E l \in Lits[c] : l # t /\ AssignedTrueLit(assignment, l)
  <2>1. \A l \in Lits[c] : AssignedTrueLit(flipped, l) <=>
                              l = Not(t) \/ (l # t /\ AssignedTrueLit(assignment, l))
    <3> TAKE l \in Lits[c]
    <3>1. CASE VarOf(l) = v
      <4>1. ~AssignedTrueLit(assignment, Not(t))
        BY <1>1, <1>3, <1>9, NotLit
      <4> QED
        BY <1>2, <1>5, <1>6, <1>7, <3>1, <4>1
    <3>2. CASE VarOf(l) # v
      BY <1>2, <1>3, <1>5, <1>8, <3>2
    <3> QED
      BY <3>1, <3>2
  <2> QED
    BY <2>1 DEF SatClause
<1>11. ASSUME c \in unsat
       PROVE  ~SatClause(flipped, Lits[c]) <=> Not(t) \notin Lits[c]
  <2>1. \A l \in Lits[c] : ~AssignedTrueLit(assignment, l)
    BY <1>11 DEF ListInv, UnsatListFalse, SatClause
  <2> QED
    BY <1>10, <2>1
<1>12. ASSUME c \notin unsat
       PROVE  ~SatClause(flipped, Lits[c])
                <=> /\ c \in watched[t]
                    /\ \A l \in Lits[c] : l = t \/ AssignedFalseLit(assignment, l)
                    /\ Not(t) \notin Lits[c]
  <2>1. PICK w \in Literals : c \in watched[w]
    BY <1>12 DEF WatchedClauses
  <2>2. w \in Lits[c] /\ AssignedTrueLit(assignment, w)
    BY <2>1 DEF ListInv, WatchedByTrueLit
  <2>3. (\A l \in Lits[c] : l = t \/ AssignedFalseLit(assignment, l)) => w = t
    BY <1>9, <2>1, <2>2
  <2> QED
    BY <1>2, <1>9, <1>10, <2>1, <2>3
<1> QED
  BY <1>11, <1>12 DEF t, flipped

LEMMA CostInv == ListInv => CostIsExact
<1> SUFFICES ASSUME ListInv, NEW v \in UnfixedAtoms
             PROVE  CostFlip(v) = FalseListed([assignment EXCEPT ![v] = NegateTVal(@)])
                                  - FalseListed(assignment) + Cardinality(Overcounted(v))
  BY DEF CostIsExact
<1> DEFINE t == TrueLitOf(v)
           flipped == [assignment EXCEPT ![v] = NegateTVal(@)]
           Broken(c) == \A l \in Lits[c] : l = t \/ AssignedFalseLit(assignment, l)
           B == {c \in watched[t] : Broken(c)}
           R == {c \in unsat : Not(t) \in Lits[c]}
           O == {c \in B : Not(t) \in Lits[c]}
           W == WatchedClauses \cup unsat
           F(a) == {c \in W : ~SatClause(a, Lits[c])}
<1>1. /\ assignment \in [Atoms -> TVal] /\ v \in Atoms
      /\ unsat \subseteq Clauses /\ \A l \in Literals : watched[l] \subseteq Clauses
  BY DEF ListInv, WalkTypeOK, UnfixedAtoms
<1>2. t \in Literals /\ VarOf(t) = v
  BY <1>1, TrueLit
<1>3. B \subseteq Clauses /\ R \subseteq unsat /\ O \subseteq B /\ B \cap unsat = {}
  BY <1>1, <1>2 DEF ListInv, Apart
<1>4. F(assignment) = unsat
  <2>1. \A c \in WatchedClauses : SatClause(assignment, Lits[c])
    BY DEF WatchedClauses, ListInv, WatchedByTrueLit, SatClause
  <2>2. \A c \in unsat : ~SatClause(assignment, Lits[c])
    BY DEF ListInv, UnsatListFalse
  <2> QED
    BY <2>1, <2>2
<1>5. F(flipped) = (unsat \ R) \cup (B \ O)
  <2>1. B \subseteq W /\ unsat \subseteq W
    BY <1>2 DEF WatchedClauses
  <2>2. /\ \A c \in W : c \in unsat => (~SatClause(flipped, Lits[c]) <=> c \notin R)
        /\ \A c \in W : c \notin unsat =>
              (~SatClause(flipped, Lits[c]) <=> c \in B /\ c \notin O)
    BY FlippedClause
  <2> HIDE DEF B, R, O, W, flipped
  <2> QED
    BY <1>3, <2>1, <2>2
<1>6. Overcounted(v) = O
  <2>1. /\ \A c \in watched[t] : Lits[c] \subseteq Literals
        /\ \A l \in Literals : VarOf(l) = v => l = t \/ l = Not(t)
        /\ VarOf(Not(t)) = v /\ AssignedFalseLit(assignment, Not(t))
    <3>1. AssignedTrueLit(assignment, t)
      BY <1>1, TrueLit
    <3>2. Not(t) \in Literals /\ Not(Not(t)) = t
      BY <1>1, <1>2, NotLit
    <3>3. AssignedFalseLit(assignment, Not(t))
      BY <1>1, <3>1, <3>2, NotLit
    <3> QED
      BY <1>1, <1>2, <3>3, NotLit, WalkSatAssumption
  <2>2. \A c \in watched[t] : \A l \in Lits[c] :
          (l = t \/ AssignedFalseLit(assignment, l))
            <=> (VarOf(l) = v \/ AssignedFalseLit(assignment, l))
    BY <1>2, <2>1
  <2> QED
    BY <2>2 DEF Overcounted
<1> HIDE DEF t
<1>7. /\ CostFlip(v) = Cardinality(B) - Cardinality(R)
      /\ FalseListed(flipped) = Cardinality(F(flipped))
      /\ FalseListed(assignment) = Cardinality(F(assignment))
  BY DEF CostFlip, FalseListed, t
<1> HIDE DEF B, R, O, W, F, flipped
<1>8. IsFiniteSet(B) /\ IsFiniteSet(unsat)
  BY <1>1, <1>3, FS_Subset, WalkSatAssumption
<1>9. /\ Cardinality(B) \in Nat /\ Cardinality(unsat) \in Nat
      /\ Cardinality(R) \in Nat /\ Cardinality(O) \in Nat
  BY <1>3, <1>8, PartCount, FS_CardinalityType
<1>10. /\ IsFiniteSet(unsat \ R) /\ Cardinality(unsat \ R) = Cardinality(unsat) - Cardinality(R)
       /\ IsFiniteSet(B \ O) /\ Cardinality(B \ O) = Cardinality(B) - Cardinality(O)
  BY <1>3, <1>8, PartCount
<1>11. Cardinality(F(flipped)) = Cardinality(unsat \ R) + Cardinality(B \ O)
  <2>1. (unsat \ R) \cap (B \ O) = {}
    BY <1>3
  <2>2. Cardinality((unsat \ R) \cup (B \ O))
          = Cardinality(unsat \ R) + Cardinality(B \ O) - Cardinality((unsat \ R) \cap (B \ O))
    BY <1>10, FS_Union
  <2>3. Cardinality(unsat \ R) \in Nat /\ Cardinality(B \ O) \in Nat
    BY <1>10, FS_CardinalityType
  <2>4. Cardinality((unsat \ R) \cap (B \ O)) = 0
    BY <2>1, FS_EmptySet
  <2> QED
    BY <1>5, <2>2, <2>3, <2>4
<1>12. CostFlip(v) = FalseListed(flipped) - FalseListed(assignment) + Cardinality(Overcounted(v))
  BY <1>4, <1>6, <1>7, <1>9, <1>10, <1>11
<1> QED
  BY <1>12 DEF flipped

(* cost_flip_unfixed_variable is right: it returns by how much a flip of   *)
(* the atom changes the number of false clauses on the lists, plus the     *)
(* clauses that hold the atom and its negation, which it takes for broken. *)
THEOREM CostExact == Spec => []CostIsExact
<1>1. IndInv => CostIsExact
  BY CostInv DEF IndInv, CallInv, IdleInv
<1> QED
  BY <1>1, Invariance, PTL

-----------------------------------------------------------------------------
(* From here on MC-SAT.                                                    *)

(* Hard rules that contradict each other may lose a clause in unit         *)
(* propagation, and then the first search does not notice.                 *)
HardHaveModel ==
    \E m \in [Atoms -> FreeTVal] :
        /\ \A v \in DbTrue : m[v] = "v_true"
        /\ \A v \in DbFalse : m[v] = "v_false"
        /\ \A c \in Clauses : RuleOf[c] \in Hard => SatClause(m, Lits[c])

-----------------------------------------------------------------------------
(* The invariant.                                                          *)

(* A search works on the hard rules and on rules that the model backed up  *)
(* before it satisfies: so it has a model to find.                         *)
KeptRulesHold ==
    /\ other \in IdleAssignments
    /\ \A r \in Hard : ruleAssignment[r] = "v_up_true"
    /\ \A r \in Rules : ruleAssignment[r] = "v_up_true" => SatRule(other, r)

(* Between two searches the lists may be those of an assignment that was   *)
(* given up, but the assignment is a model of the hard rules.              *)
AtModel == assignment \in IdleAssignments /\ HardSatisfied

McInv ==
    /\ mpc \in {"start", "first", "round", "solve", "gibbs", "done"}
    /\ ControlOK /\ CountsOK
    /\ mpc = "start" => other = assignment /\ assignment \in IdleAssignments
    /\ mpc = "first" => IndInv /\ ruleAssignment = HardRulesOnly /\ other \in IdleAssignments
    /\ mpc = "solve" => IndInv /\ KeptRulesHold
    /\ mpc \in {"round", "gibbs"} => AtModel
    /\ mpc = "gibbs" => k = 0
    /\ mpc \notin {"first", "solve"} => Idle

(* Gibbs steps are another matter.                                         *)
NoGibbsInv == gibbsSteps = 0 => McInv

-----------------------------------------------------------------------------
(* Models.                                                                 *)

LEMMA IdleIsStored == ASSUME IdleInv PROVE assignment \in IdleAssignments
<1>1. \A v \in Atoms : assignment[v] \in FreeTVal \cup {"v_db_true", "v_db_false"}
  BY DEF IdleInv, NoMarks, DbTVal
<1>2. assignment \in [Atoms -> TVal]
  BY DEF IdleInv, ListInv, WalkTypeOK
<1> QED
  BY <1>1, <1>2 DEF IdleInv, DbKept, IdleAssignments

LEMMA StoredType == ASSUME NEW f \in IdleAssignments PROVE f \in [Atoms -> TVal]
BY DEF IdleAssignments, FreeTVal, TVal

(* The plain values of an assignment satisfy the same clauses.             *)
LEMMA BooleanModel ==
    ASSUME NEW f \in IdleAssignments
    PROVE  /\ BooleanOf(f) \in [Atoms -> FreeTVal]
           /\ \A v \in DbTrue : BooleanOf(f)[v] = "v_true"
           /\ \A v \in DbFalse : BooleanOf(f)[v] = "v_false"
           /\ \A c \in Clauses : SatClause(BooleanOf(f), Lits[c]) <=> SatClause(f, Lits[c])
<1>1. /\ BooleanOf(f) \in [Atoms -> FreeTVal]
      /\ \A v \in Atoms : BooleanOf(f)[v] = IF AssignedTrue(f[v]) THEN "v_true" ELSE "v_false"
  BY DEF BooleanOf, FreeTVal
<1>2. \A v \in Atoms : /\ AssignedTrue(BooleanOf(f)[v]) <=> AssignedTrue(f[v])
                       /\ AssignedFalse(BooleanOf(f)[v]) <=> AssignedFalse(f[v])
  BY <1>1, StoredType DEF TVal, AssignedTrue, AssignedFalse
<1>3. \A v \in Atoms : /\ v \in DbTrue => BooleanOf(f)[v] = "v_true"
                       /\ v \in DbFalse => BooleanOf(f)[v] = "v_false"
  BY <1>1 DEF IdleAssignments, AssignedTrue
<1>4. \A l \in Literals : AssignedTrueLit(BooleanOf(f), l) <=> AssignedTrueLit(f, l)
  <2>1. \A l \in Literals : VarOf(l) \in Atoms
    BY DEF Literals, LiteralsOf, VarOf
  <2> QED
    BY <1>2, <2>1 DEF AssignedTrueLit
<1>5. \A c \in Clauses : Lits[c] \subseteq Literals
  BY WalkSatAssumption
<1> QED
  BY <1>1, <1>3, <1>4, <1>5, SampleSatAssumption DEF SatClause

LEMMA LiveRule ==
    ASSUME ruleAssignment \in RuleChoices, NEW c \in Clauses
    PROVE  c \in LiveClauses <=> ruleAssignment[RuleOf[c]] = "v_up_true"
BY WalkSatAssumption DEF LiveClauses, ClausesOf, AssignedTrue, RuleChoices

LEMMA CallRules == ASSUME IndInv PROVE ruleAssignment \in RuleChoices
BY DEF IndInv, CallInv, IdleInv, ListInv, RulesFixed, WalkTypeOK, RuleChoices

LEMMA FirstHasModel ==
    ASSUME HardHaveModel, ruleAssignment = HardRulesOnly
    PROVE  Models # {}
<1>1. \A c \in LiveClauses : c \in Clauses /\ RuleOf[c] \in Hard
  BY WalkSatAssumption DEF LiveClauses, ClausesOf, HardRulesOnly, AssignedTrue
<1> QED
  BY <1>1 DEF HardHaveModel, Models

LEMMA RoundHasModel ==
    ASSUME KeptRulesHold, ruleAssignment \in RuleChoices
    PROVE  Models # {}
<1>1. \A c \in LiveClauses : c \in Clauses /\ SatClause(other, Lits[c])
  BY LiveRule, WalkSatAssumption DEF KeptRulesHold, SatRule, LiveClauses, ClausesOf
<1>2. BooleanOf(other) \in Models
  BY <1>1, BooleanModel DEF KeptRulesHold, Models
<1> QED
  BY <1>2

(* A search that has found something has found a model of its rules.       *)
LEMMA FoundModel ==
    ASSUME IndInv, Idle, unsat = {}, Models # {}
    PROVE  /\ assignment \in IdleAssignments
           /\ \A r \in Rules : ruleAssignment[r] = "v_up_true" => SatRule(assignment, r)
<1>1. assignment \in IdleAssignments
  BY IdleIsStored DEF IndInv, Idle
<1>2. \A c \in LiveClauses : SatClause(assignment, Lits[c])
  BY AnswerInv DEF ReturnedModel
<1> QED
  BY <1>1, <1>2, CallRules, LiveRule DEF SatRule

-----------------------------------------------------------------------------
(* The steps of the search.                                                *)

(* A search neither makes a rule alive nor gives one up.                   *)
LEMMA SolverKeepsRules ==
    ASSUME IndInv, SolverStep
    PROVE  /\ IndInv' /\ UNCHANGED ruleAssignment
           /\ phase # "idle"
<1>1. phase # "idle"
  <2>1. CASE Scan
    BY <2>1 DEF Scan, ScanLiveClause, IndInv, IdleInv
  <2> QED
    BY <2>1 DEF SolverStep, Randomize, StartWalk, WalkStep, StartExtra, ExtraStep, Return
<1>2. IndInv'
  BY NextIndInv DEF Next
<1>3. \A v : FlipVariable(v) => UNCHANGED ruleAssignment
  BY DEF FlipVariable, walkVars
<1>4. CASE Scan
  <2>1. CallInv
    BY <1>1 DEF IndInv
  <2>2. PICK c \in live :
          \/ InsertFixedSat(c) \/ DropFixedUnsat(c) \/ FixRuleFalse(c) \/ UnitPropagate(c)
          \/ WatchTrueLit(c) \/ WatchRule(c) \/ ListUnsat(c)
    BY <1>4 DEF Scan, ScanLiveClause
  <2>3. ~FixRuleFalse(c)
    BY <2>1, PoppedClause DEF FixRuleFalse, FixedUnsat, AssignedFixedTrue
  <2>4. UNCHANGED ruleAssignment
    BY <2>2, <2>3 DEF InsertFixedSat, DropFixedUnsat, UnitPropagate, WatchTrueLit, WatchRule, ListUnsat
  <2> QED
    BY <1>1, <1>2, <2>4
<1>5. CASE Randomize
  BY <1>1, <1>2, <1>5 DEF Randomize, RandomAssignment, walkVars
<1>6. CASE WalkStep \/ ExtraStep
  BY <1>1, <1>2, <1>3, <1>6 DEF WalkStep, ExtraStep, Body, AnnealFlip, AnnealStay, WalkFlip, walkVars
<1>7. CASE StartWalk \/ StartExtra \/ Return
  BY <1>1, <1>2, <1>7 DEF StartWalk, StartExtra, Return, walkVars
<1> QED
  BY <1>4, <1>5, <1>6, <1>7 DEF SolverStep

(* A call that starts from a stored assignment.                            *)
LEMMA StartGivesInv ==
    ASSUME ControlOK, CountsOK, NEW f \in IdleAssignments, NEW ra \in RuleChoices,
           NEW args \in Calls, StartSampleSat(f, ra, args)
    PROVE  IndInv' /\ CountsOK' /\ assignment' = f /\ ruleAssignment' = ra
<1>1. ControlOK'
  BY ControlStep DEF Next, CallSampleSat
<1>2. CallInv' /\ phase' = "init"
  BY StartGivesCallInv DEF StartSampleSat
<1> QED
  BY <1>1, <1>2 DEF IndInv, StartSampleSat, CountsOK, weights

LEMMA InvCounts == ASSUME IndInv PROVE ControlOK /\ CountsOK
BY DEF IndInv, CallInv, IdleInv, ListInv, WalkTypeOK, CountsOK

LEMMA IdleOfIndInv == ASSUME IndInv, phase = "idle" PROVE Idle
BY DEF IndInv, IdleInv, Idle

LEMMA CallKinds == FirstCall \in Calls /\ RoundCall \in Calls
BY DEF Calls, FirstCall, RoundCall

LEMMA FirstRules == HardRulesOnly \in RuleChoices
BY DEF HardRulesOnly, RuleChoices

(* The rules that are kept, of the model they are kept for.                *)
LEMMA KeptRulesOfModel ==
    ASSUME HardSatisfied, NEW ra \in KeptRules
    PROVE  /\ ra \in RuleChoices
           /\ \A r \in Hard : ra[r] = "v_up_true"
           /\ \A r \in Rules : ra[r] = "v_up_true" => SatRule(assignment, r)
BY WalkSatAssumption DEF KeptRules, HardSatisfied

-----------------------------------------------------------------------------
(* The invariant is inductive.                                             *)

LEMMA McInitInv == McInit => NoGibbsInv
<1> SUFFICES ASSUME McInit PROVE McInv
  BY DEF NoGibbsInv
<1>1. IndInv /\ phase = "idle"
  BY InitIndInv DEF McInit, SolverInit
<1>2. Idle /\ ControlOK /\ CountsOK
  BY <1>1, InvCounts, IdleOfIndInv
<1>3. mpc = "start" /\ other = assignment /\ assignment \in IdleAssignments
  BY DEF McInit, SolverInit
<1> QED
  BY <1>2, <1>3 DEF McInv

LEMMA McNextInv ==
    ASSUME HardHaveModel, NoGibbsInv, [McNext]_mcVars
    PROVE  NoGibbsInv'
<1>0. gibbsSteps' = gibbsSteps
  BY DEF McNext, McStep, CallerStep, Tick, mcVars, callerVars, FirstSampleSat, FirstFound,
     StartRound, RoundsOver, RoundFailed, RoundDone, GibbsFlip, GibbsOver, PerturbAssignment,
     PerturbFailed, PerturbKept, PerturbRejected, GibbsRevert
<1> SUFFICES ASSUME McInv, gibbsSteps = 0 PROVE McInv'
  BY <1>0 DEF NoGibbsInv
<1>1. CASE UNCHANGED <<vars, mpc, other, k>>
  <2>1. /\ UNCHANGED <<assignment, ruleAssignment, numUnfixed, live, unsat, sat, watched,
                       ruleWatched, unsatWeight, satWeight>>
        /\ UNCHANGED <<phase, call, flips, extra, mpc, other, k>>
    BY <1>1 DEF vars, walkVars, lists, weights, solverVars
  <2>2. IndInv => IndInv'
    BY <1>1, NextIndInv
  <2>3. ControlOK' /\ CountsOK'
    BY <2>1 DEF McInv, ControlOK, CountsOK
  <2>4. Idle' = Idle /\ AtModel' = AtModel /\ KeptRulesHold' = KeptRulesHold
    BY <2>1 DEF Idle, AtModel, HardSatisfied, KeptRulesHold, SatRule
  <2> QED
    BY <2>1, <2>2, <2>3, <2>4 DEF McInv
<1>2. CASE SolverStep /\ UNCHANGED callerVars
  <2>1. mpc' = mpc /\ other' = other /\ k' = k
    BY <1>2 DEF callerVars
  <2>2. mpc \in {"first", "solve"}
    <3> SUFFICES ASSUME Idle PROVE FALSE
      BY DEF McInv
    <3> QED
      BY <1>2 DEF Idle, SolverStep, Scan, ScanLiveClause, Randomize, StartWalk, WalkStep,
         StartExtra, ExtraStep, Return
  <2>3. IndInv' /\ ruleAssignment' = ruleAssignment
    BY <1>2, <2>2, SolverKeepsRules DEF McInv
  <2>4. ControlOK' /\ CountsOK'
    BY <2>3, InvCounts DEF IndInv, CallInv, IdleInv, ListInv, WalkTypeOK, CountsOK
  <2>5. KeptRulesHold' = KeptRulesHold
    BY <2>1, <2>3 DEF KeptRulesHold, SatRule
  <2> QED
    BY <2>1, <2>2, <2>3, <2>4, <2>5 DEF McInv
<1>3. CASE FirstSampleSat
  <2>1. /\ mpc = "start" /\ mpc' = "first" /\ other' = other
        /\ StartSampleSat(assignment, HardRulesOnly, FirstCall)
    BY <1>3 DEF FirstSampleSat
  <2>2. IndInv' /\ CountsOK' /\ ruleAssignment' = HardRulesOnly
    BY <2>1, StartGivesInv, CallKinds, FirstRules DEF McInv
  <2> QED
    BY <2>1, <2>2 DEF McInv, IndInv, HardRulesOnly
<1>4. CASE FirstFound
  <2>1. /\ mpc = "first" /\ Idle /\ mpc' = IF unsat = {} THEN "round" ELSE "done"
        /\ UNCHANGED <<assignment, ruleAssignment, numUnfixed, live, unsat, sat, watched,
                       ruleWatched, unsatWeight, satWeight>>
        /\ UNCHANGED <<phase, call, flips, extra>>
    BY <1>4 DEF FirstFound, vars, walkVars, lists, weights, solverVars
  <2>2. Idle' /\ ControlOK' /\ CountsOK'
    BY <2>1 DEF McInv, Idle, ControlOK, CountsOK
  <2>3. unsat = {} => AtModel
    <3> SUFFICES ASSUME unsat = {} PROVE AtModel
      OBVIOUS
    <3>1. IndInv /\ ruleAssignment = HardRulesOnly
      BY <2>1 DEF McInv
    <3>2. \A r \in Hard : r \in Rules /\ ruleAssignment[r] = "v_up_true"
      BY <3>1, WalkSatAssumption DEF HardRulesOnly
    <3> QED
      BY <2>1, <3>1, <3>2, FirstHasModel, FoundModel DEF AtModel, HardSatisfied
  <2>4. AtModel' = AtModel
    BY <2>1 DEF AtModel, HardSatisfied, SatRule
  <2> QED
    BY <2>1, <2>2, <2>3, <2>4 DEF McInv
<1>5. CASE StartRound
  <2>1. PICK ra \in KeptRules : StartSampleSat(assignment, ra, RoundCall)
    BY <1>5 DEF StartRound
  <2>2. mpc = "round" /\ mpc' = "solve" /\ other' = assignment
    BY <1>5 DEF StartRound
  <2>3. AtModel
    BY <2>2 DEF McInv
  <2>4. /\ ra \in RuleChoices
        /\ \A r \in Hard : ra[r] = "v_up_true"
        /\ \A r \in Rules : ra[r] = "v_up_true" => SatRule(assignment, r)
    BY <2>3, KeptRulesOfModel DEF AtModel
  <2>5. IndInv' /\ CountsOK' /\ ruleAssignment' = ra
    BY <2>1, <2>3, <2>4, StartGivesInv, CallKinds DEF McInv, AtModel
  <2>6. KeptRulesHold'
    BY <2>2, <2>3, <2>4, <2>5 DEF KeptRulesHold, AtModel, SatRule
  <2> QED
    BY <2>2, <2>5, <2>6 DEF McInv, IndInv
<1>6. CASE RoundsOver \/ GibbsOver
  <2>1. /\ mpc \in {"round", "gibbs"} /\ mpc' \in {"done", "round"}
        /\ UNCHANGED <<assignment, numUnfixed, live, unsatWeight, satWeight>>
        /\ UNCHANGED <<phase, call, flips, extra>>
    BY <1>6 DEF RoundsOver, GibbsOver, vars, walkVars, lists, weights, solverVars
  <2>2. Idle' /\ ControlOK' /\ CountsOK' /\ AtModel'
    BY <2>1 DEF McInv, Idle, ControlOK, CountsOK, AtModel, HardSatisfied, SatRule
  <2> QED
    BY <2>1, <2>2 DEF McInv
<1>7. CASE RoundFailed
  <2>1. /\ mpc = "solve" /\ mpc' = "round" /\ Idle
        /\ assignment' = other
        /\ numUnfixed' = Cardinality({v \in Atoms : UnfixedTVal(other[v])})
        /\ UNCHANGED <<live, unsatWeight, satWeight>>
        /\ UNCHANGED <<phase, call, flips, extra>>
    BY <1>7 DEF RoundFailed, RestoreAssignment, lists, weights, solverVars
  <2>2. KeptRulesHold /\ IndInv
    BY <2>1 DEF McInv
  <2>3. AtModel'
    BY <2>1, <2>2, WalkSatAssumption DEF KeptRulesHold, AtModel, HardSatisfied, SatRule
  <2>4. numUnfixed' \in Int
    <3> DEFINE F == {v \in Atoms : UnfixedTVal(other[v])}
    <3>1. IsFiniteSet(F)
      BY FS_Subset, WalkSatAssumption
    <3>2. Cardinality(F) \in Nat
      BY <3>1, FS_CardinalityType
    <3> QED
      BY <2>1, <3>2
  <2>5. Idle' /\ ControlOK' /\ CountsOK'
    BY <2>1, <2>4 DEF McInv, Idle, ControlOK, CountsOK
  <2> QED
    BY <2>1, <2>3, <2>5 DEF McInv
<1>8. CASE RoundDone
  <2>1. /\ mpc = "solve" /\ Idle /\ unsat = {}
        /\ mpc' = "round" \/ (mpc' = "gibbs" /\ k' = 0)
        /\ UNCHANGED <<assignment, numUnfixed, live, unsatWeight, satWeight>>
        /\ UNCHANGED <<phase, call, flips, extra>>
    BY <1>8 DEF RoundDone, vars, walkVars, lists, weights, solverVars
  <2>2. KeptRulesHold /\ IndInv
    BY <2>1 DEF McInv
  <2>3. AtModel
    <3>1. Models # {}
      BY <2>2, RoundHasModel, CallRules
    <3> QED
      BY <2>1, <2>2, <3>1, FoundModel, WalkSatAssumption DEF KeptRulesHold, AtModel, HardSatisfied
  <2>4. Idle' /\ ControlOK' /\ CountsOK' /\ AtModel'
    BY <2>1, <2>3 DEF McInv, Idle, ControlOK, CountsOK, AtModel, HardSatisfied, SatRule
  <2> QED
    BY <2>1, <2>4 DEF McInv
<1>9. ~(GibbsFlip \/ PerturbAssignment \/ PerturbFailed \/ PerturbKept \/ PerturbRejected \/ GibbsRevert)
  BY DEF McInv, GibbsFlip, PerturbAssignment, PerturbFailed, PerturbKept, PerturbRejected, GibbsRevert
<1>10. CASE Tick \/ UNCHANGED mcVars
  BY <1>1, <1>10 DEF Tick, mcVars, callerVars
<1> QED
  BY <1>2, <1>3, <1>4, <1>5, <1>6, <1>7, <1>8, <1>9, <1>10 DEF McNext, McStep, CallerStep

-----------------------------------------------------------------------------
(* What is sampled.                                                        *)

LEMMA SampleIsModel ==
    ASSUME HardHaveModel, NoGibbsInv, NoGibbsInv', [McNext]_mcVars,
           gibbsSteps = 0, samples' # samples
    PROVE  HardSatisfied
<1>1. RoundDone
  BY DEF McNext, McStep, CallerStep, Tick, mcVars, callerVars, FirstSampleSat, FirstFound,
     StartRound, RoundsOver, RoundFailed, GibbsFlip, GibbsOver, PerturbAssignment,
     PerturbFailed, PerturbKept, PerturbRejected, GibbsRevert
<1>2. KeptRulesHold /\ IndInv /\ Idle /\ unsat = {}
  BY <1>1 DEF RoundDone, NoGibbsInv, McInv
<1>3. Models # {}
  BY <1>2, RoundHasModel, CallRules
<1> QED
  BY <1>2, <1>3, FoundModel, WalkSatAssumption DEF KeptRulesHold, HardSatisfied

(* Without Gibbs steps every sample is a model of the hard rules, if these *)
(* have one (update_pmodel in mc_sat_internal).                            *)
THEOREM SamplesAreModels ==
    ASSUME HardHaveModel
    PROVE  McSpec => SamplesSatisfyHard
<1>1. McInit => NoGibbsInv
  BY McInitInv
<1>2. NoGibbsInv /\ [McNext]_mcVars => NoGibbsInv'
  BY McNextInv
<1>3. NoGibbsInv /\ NoGibbsInv' /\ [McNext]_mcVars =>
        [gibbsSteps = 0 /\ samples' # samples => HardSatisfied]_mcVars
  BY SampleIsModel
<1> QED
  BY <1>1, <1>2, <1>3, PTL DEF McSpec, SamplesSatisfyHard

-----------------------------------------------------------------------------
(* The chain.                                                              *)

LEMMA ChainSat ==
    /\ \A f, ls : Chain!SatClause(f, ls) <=> SatClause(f, ls)
    /\ Chain!FreeTVal = FreeTVal
BY DEF Chain!SatClause, SatClause, Chain!AssignedTrueLit, AssignedTrueLit, Chain!IsPos, IsPos,
   Chain!VarOf, VarOf, Chain!AssignedTrue, AssignedTrue, Chain!AssignedFalse, AssignedFalse,
   Chain!FreeTVal, FreeTVal

LEMMA ChainModelOf ==
    ASSUME NEW f \in IdleAssignments
    PROVE  /\ BooleanOf(f) \in Chain!Values
           /\ \A R : Chain!Satisfies(BooleanOf(f), R) <=>
                        \A c \in Clauses : RuleOf[c] \in R => SatClause(f, Lits[c])
BY ChainSat, BooleanModel DEF Chain!Values, Chain!Satisfies

(* The rules that hold, in the words of both modules.                      *)
LEMMA ChainRules ==
    ASSUME NEW f \in IdleAssignments, NEW R \in SUBSET Rules, \A r \in R : SatRule(f, r)
    PROVE  Chain!Satisfies(BooleanOf(f), R) /\ R \subseteq Chain!SatisfiedRules(BooleanOf(f))
<1>1. Chain!Satisfies(BooleanOf(f), R)
  BY ChainModelOf DEF SatRule
<1>2. \A r \in R : Chain!Satisfies(BooleanOf(f), {r})
  BY ChainModelOf DEF SatRule
<1> QED
  BY <1>1, <1>2 DEF Chain!SatisfiedRules

LEMMA ChainInit == ASSUME McInit PROVE Chain!Init
<1>1. mpc = "start" /\ assignment \in IdleAssignments /\ samples = 0
  BY DEF McInit, SolverInit
<1>2. ChainModel = BooleanOf(assignment) /\ ChainKept = Hard /\ ChainStatus = "init"
  BY <1>1 DEF ChainModel, ChainKept, ChainStatus
<1> QED
  BY <1>1, <1>2, ChainModelOf DEF Chain!Init

LEMMA LiveRules ==
    ASSUME ruleAssignment \in RuleChoices
    PROVE  {r \in Rules : AssignedTrue(ruleAssignment[r])} =
             {r \in Rules : ruleAssignment[r] = "v_up_true"}
BY DEF RuleChoices, AssignedTrue

(* What the chain sees does not change.                                    *)
LEMMA ChainStutters ==
    ASSUME UNCHANGED <<ChainModel, ChainKept, samples, ChainStatus>>
    PROVE  UNCHANGED Chain!chainVars
BY DEF Chain!chainVars

LEMMA ChainStep ==
    ASSUME HardHaveModel, McInv, McInv', McNext, gibbsSteps = 0
    PROVE  [Chain!Next]_(Chain!chainVars)
<1>1. CASE SolverStep /\ UNCHANGED callerVars
  <2>1. mpc' = mpc /\ other' = other /\ samples' = samples
    BY <1>1 DEF callerVars
  <2>2. mpc \in {"first", "solve"}
    <3> SUFFICES ASSUME Idle PROVE FALSE
      BY DEF McInv
    <3> QED
      BY <1>1 DEF Idle, SolverStep, Scan, ScanLiveClause, Randomize, StartWalk, WalkStep,
         StartExtra, ExtraStep, Return
  <2>3. ruleAssignment' = ruleAssignment
    BY <1>1, <2>2, SolverKeepsRules DEF McInv
  <2>4. UNCHANGED <<ChainModel, ChainKept, samples, ChainStatus>>
    BY <2>1, <2>2, <2>3 DEF ChainModel, ChainKept, ChainStatus, BooleanOf
  <2> QED
    BY <2>4, ChainStutters
<1>2. CASE FirstSampleSat
  <2>1. mpc = "start" /\ mpc' = "first" /\ other' = other /\ other = assignment /\ samples' = samples
    BY <1>2 DEF FirstSampleSat, McInv
  <2>2. UNCHANGED <<ChainModel, ChainKept, samples, ChainStatus>>
    BY <2>1 DEF ChainModel, ChainKept, ChainStatus, BooleanOf
  <2> QED
    BY <2>2, ChainStutters
<1>3. CASE FirstFound
  <2>1. /\ mpc = "first" /\ Idle /\ mpc' = IF unsat = {} THEN "round" ELSE "done"
        /\ UNCHANGED <<assignment, ruleAssignment, samples>>
    BY <1>3 DEF FirstFound, vars, walkVars
  <2>2. IndInv /\ ruleAssignment = HardRulesOnly
    BY <2>1 DEF McInv
  <2>3. ChainStatus = "init" /\ ChainKept = Hard
    BY <2>1 DEF ChainStatus, ChainKept
  <2>4. ChainModel' = BooleanOf(assignment) /\ assignment \in IdleAssignments
    BY <2>1, <2>2, IdleIsStored DEF ChainModel, BooleanOf, IndInv, Idle
  <2>5. ChainKept' = Hard
    BY <2>1, <2>2, WalkSatAssumption DEF ChainKept, HardRulesOnly, AssignedTrue
  <2>6. CASE unsat = {}
    <3>1. \A r \in Hard : r \in Rules /\ SatRule(assignment, r)
      BY <2>1, <2>2, <2>6, FirstHasModel, FoundModel, WalkSatAssumption DEF HardRulesOnly
    <3>2. Chain!Satisfies(BooleanOf(assignment), Hard)
      BY <2>4, <3>1, ChainRules
    <3>3. ChainStatus' = "at"
      BY <2>1, <2>6 DEF ChainStatus
    <3>4. Chain!FindFirst
      BY <2>1, <2>3, <2>4, <2>5, <3>2, <3>3, ChainModelOf DEF Chain!FindFirst
    <3> QED
      BY <3>4 DEF Chain!Next
  <2>7. CASE unsat # {}
    <3>1. ChainStatus' = "done"
      BY <2>1, <2>7 DEF ChainStatus
    <3>2. Chain!GiveUp
      BY <2>1, <2>3, <2>4, <2>5, <3>1, ChainModelOf DEF Chain!GiveUp
    <3> QED
      BY <3>2 DEF Chain!Next
  <2> QED
    BY <2>6, <2>7
<1>4. CASE StartRound
  <2>1. PICK ra \in KeptRules : StartSampleSat(assignment, ra, RoundCall)
    BY <1>4 DEF StartRound
  <2>2. /\ mpc = "round" /\ mpc' = "solve" /\ other' = assignment /\ samples' = samples
        /\ ruleAssignment' = ra
    BY <1>4, <2>1 DEF StartRound, StartSampleSat
  <2>3. AtModel
    BY <2>2 DEF McInv
  <2>4. /\ ra \in RuleChoices
        /\ \A r \in Hard : ra[r] = "v_up_true"
        /\ \A r \in Rules : ra[r] = "v_up_true" => SatRule(assignment, r)
    BY <2>3, KeptRulesOfModel DEF AtModel
  <2>5. ChainStatus = "at" /\ ChainStatus' = "moving"
    BY <2>2 DEF ChainStatus
  <2>6. ChainModel = BooleanOf(assignment) /\ ChainModel' = BooleanOf(assignment)
    BY <2>2 DEF ChainModel, BooleanOf
  <2>7. ChainKept' = {r \in Rules : ra[r] = "v_up_true"}
    BY <2>2, <2>4 DEF ChainKept, RuleChoices, AssignedTrue
  <2>8. Hard \subseteq ChainKept' /\ ChainKept' \subseteq Chain!SatisfiedRules(ChainModel)
    BY <2>3, <2>4, <2>6, <2>7, ChainRules, WalkSatAssumption DEF AtModel
  <2>9. Chain!Keep
    BY <2>2, <2>5, <2>6, <2>8 DEF Chain!Keep
  <2> QED
    BY <2>9 DEF Chain!Next
<1>5. CASE RoundsOver
  <2>1. /\ mpc = "round" /\ mpc' = "done" /\ UNCHANGED <<assignment, ruleAssignment, samples>>
    BY <1>5 DEF RoundsOver, vars, walkVars
  <2>2. ChainStatus = "at" /\ ChainStatus' = "done" /\ UNCHANGED <<ChainModel, ChainKept, samples>>
    BY <2>1 DEF ChainStatus, ChainModel, ChainKept, BooleanOf
  <2>3. Chain!Finish
    BY <2>2 DEF Chain!Finish
  <2> QED
    BY <2>3 DEF Chain!Next
<1>6. CASE GibbsOver
  <2>1. mpc = "gibbs" /\ mpc' = "round" /\ UNCHANGED <<assignment, ruleAssignment, samples>>
    BY <1>6 DEF GibbsOver, vars, walkVars
  <2>2. UNCHANGED <<ChainModel, ChainKept, samples, ChainStatus>>
    BY <2>1 DEF ChainStatus, ChainModel, ChainKept, BooleanOf
  <2> QED
    BY <2>2, ChainStutters
<1>7. CASE RoundFailed
  <2>1. /\ mpc = "solve" /\ mpc' = "round" /\ assignment' = other
        /\ UNCHANGED <<ruleAssignment, samples>>
    BY <1>7 DEF RoundFailed, RestoreAssignment
  <2>2. /\ ChainStatus = "moving" /\ ChainStatus' = "at"
        /\ UNCHANGED <<ChainModel, ChainKept, samples>>
    BY <2>1 DEF ChainStatus, ChainModel, ChainKept, BooleanOf
  <2>3. Chain!Stay
    BY <2>2 DEF Chain!Stay
  <2> QED
    BY <2>3 DEF Chain!Next
<1>8. CASE RoundDone
  <2>1. /\ mpc = "solve" /\ Idle /\ unsat = {} /\ mpc' \in {"round", "gibbs"}
        /\ UNCHANGED <<assignment, ruleAssignment>>
        /\ samples' \in {samples, samples + 1}
    BY <1>8 DEF RoundDone, vars, walkVars
  <2>2. KeptRulesHold /\ IndInv
    BY <2>1 DEF McInv
  <2>3. ruleAssignment \in RuleChoices
    BY <2>2, CallRules
  <2>4. /\ assignment \in IdleAssignments
        /\ \A r \in Rules : ruleAssignment[r] = "v_up_true" => SatRule(assignment, r)
    BY <2>1, <2>2, <2>3, RoundHasModel, FoundModel
  <2>5. ChainKept = {r \in Rules : ruleAssignment[r] = "v_up_true"} /\ ChainKept' = ChainKept
    BY <2>1, <2>3, LiveRules DEF ChainKept
  <2>6. ChainStatus = "moving" /\ ChainStatus' = "at" /\ ChainModel' = BooleanOf(assignment)
    BY <2>1 DEF ChainStatus, ChainModel, BooleanOf
  <2>7. Chain!Satisfies(BooleanOf(assignment), ChainKept)
    BY <2>4, <2>5, ChainRules
  <2>8. Chain!Move
    BY <2>1, <2>4, <2>5, <2>6, <2>7, ChainModelOf DEF Chain!Move
  <2> QED
    BY <2>8 DEF Chain!Next
<1>9. ~(GibbsFlip \/ PerturbAssignment \/ PerturbFailed \/ PerturbKept \/ PerturbRejected \/ GibbsRevert)
  BY DEF McInv, GibbsFlip, PerturbAssignment, PerturbFailed, PerturbKept, PerturbRejected, GibbsRevert
<1>10. CASE Tick
  <2>1. UNCHANGED <<assignment, ruleAssignment, mpc, other, samples>>
    BY <1>10 DEF Tick, vars, walkVars
  <2>2. UNCHANGED <<ChainModel, ChainKept, samples, ChainStatus>>
    BY <2>1 DEF ChainStatus, ChainModel, ChainKept, BooleanOf
  <2> QED
    BY <2>2, ChainStutters
<1> QED
  BY <1>1, <1>2, <1>3, <1>4, <1>5, <1>6, <1>7, <1>8, <1>9, <1>10 DEF McNext, McStep, CallerStep

LEMMA ChainStays ==
    ASSUME UNCHANGED mcVars
    PROVE  UNCHANGED Chain!chainVars
<1>1. UNCHANGED <<assignment, ruleAssignment, mpc, other, samples>>
  BY DEF mcVars, callerVars, vars, walkVars
<1>2. UNCHANGED <<ChainModel, ChainKept, samples, ChainStatus>>
  BY <1>1 DEF ChainStatus, ChainModel, ChainKept, BooleanOf
<1> QED
  BY <1>2, ChainStutters

(* Without Gibbs steps MC-SAT implements the Markov chain it promises,     *)
(* if the hard rules have a model: the searches, their failures and the    *)
(* backup are steps of the chain or leave it where it is.                  *)
THEOREM McSatImplementsChain ==
    ASSUME HardHaveModel
    PROVE  McSpec => ImplementsChain
<1>1. McInit => NoGibbsInv /\ Chain!Init
  BY McInitInv, ChainInit
<1>2. NoGibbsInv /\ [McNext]_mcVars => NoGibbsInv'
  BY McNextInv
<1>3. NoGibbsInv /\ NoGibbsInv' /\ [McNext]_mcVars =>
        [gibbsSteps = 0 => Chain!Next]_(Chain!chainVars)
  <2>1. gibbsSteps = 0 /\ McNext => gibbsSteps' = 0
    BY DEF McNext, McStep, CallerStep, Tick, callerVars, FirstSampleSat, FirstFound,
       StartRound, RoundsOver, RoundFailed, RoundDone, GibbsFlip, GibbsOver, PerturbAssignment,
       PerturbFailed, PerturbKept, PerturbRejected, GibbsRevert
  <2> QED
    BY <2>1, ChainStep, ChainStays DEF NoGibbsInv
<1> QED
  BY <1>1, <1>2, <1>3, PTL DEF McSpec, ImplementsChain

-----------------------------------------------------------------------------
(* Gibbs steps.                                                            *)

(* A literal the database does not make false, and a clause that no fact   *)
(* of the database can make a unit.                                        *)
NotDbFalse(l) == IF IsPos(l) THEN VarOf(l) \notin DbFalse ELSE VarOf(l) \notin DbTrue

TwoOpen(c) == \E l, m \in Lits[c] : l # m /\ NotDbFalse(l) /\ NotDbFalse(m)

(* Unit propagation puts every other clause on the sat list for good.      *)
ListsOpen ==
    /\ \A c \in unsat : TwoOpen(c)
    /\ \A l \in Literals : \A c \in watched[l] : TwoOpen(c)

(* A flip of a Gibbs step is followed by scans outside any search: they    *)
(* fix nothing, as no clause they meet is a unit without the marks of the  *)
(* search that is over.                                                    *)
AtRest ==
    /\ phase = "idle"
    /\ assignment \in IdleAssignments
    /\ \A c \in live : TwoOpen(c)

ListTypes ==
    live \subseteq Clauses /\ unsat \subseteq Clauses /\ watched \in [Literals -> SUBSET Clauses]

(* What holds with Gibbs steps too: every search starts from an assignment *)
(* without marks, whatever lists the steps before it have left.            *)
GibbsInv ==
    /\ mpc \in MpcValues
    /\ ControlOK /\ CountsOK
    /\ ruleAssignment \in RuleChoices
    /\ ListTypes
    /\ other \in IdleAssignments
    /\ gibbsVar \in Atoms
    /\ ListsOpen
    /\ mpc \in {"first", "solve", "judge"} => IndInv
    /\ mpc \in {"first", "judge"} => ruleAssignment = HardRulesOnly
    /\ mpc \notin {"first", "solve", "judge"} => AtRest

LEMMA StoredDb == ASSUME assignment \in IdleAssignments PROVE DbKept /\ assignment \in [Atoms -> TVal]
BY StoredType DEF IdleAssignments, DbKept

(* A clause that is neither satisfied for good nor a unit is open.         *)
LEMMA UnfixableIsOpen ==
    ASSUME DbKept, assignment \in [Atoms -> TVal], ruleAssignment \in RuleChoices,
           NEW c \in Clauses, Unfixable(c)
    PROVE  TwoOpen(c)
<1>1. RuleFixed(c)
  BY WalkSatAssumption DEF RuleFixed, RuleChoices, FixedTVal
<1>2. PICK l \in OpenLits(c) : TRUE
  BY DEF Unfixable, AllFixedFalse
<1>3. PICK m \in OpenLits(c) : m # l
  BY <1>1, <1>2 DEF Unfixable, UnitLit
<1>4. \A n \in OpenLits(c) : n \in Lits[c] /\ NotDbFalse(n)
  <2> SUFFICES ASSUME NEW n \in OpenLits(c) PROVE NotDbFalse(n)
    BY DEF OpenLits
  <2>1. ~AssignedFixedFalseLit(assignment, n)
    BY DEF OpenLits
  <2>2. VarOf(n) \in Atoms
    BY WalkSatAssumption, LitValues DEF OpenLits
  <2> QED
    BY <2>1, <2>2 DEF NotDbFalse, DbKept, AssignedFixedFalseLit, AssignedFixedFalse, AssignedFixedTrue
<1> QED
  BY <1>2, <1>3, <1>4 DEF TwoOpen

(* Outside a search an open clause is no unit.                             *)
LEMMA OpenIsNoUnit ==
    ASSUME assignment \in IdleAssignments, NEW c \in Clauses, TwoOpen(c)
    PROVE  ~AllFixedFalse(c) /\ \A l \in Lits[c] : ~UnitLit(c, l)
<1>1. PICK l, m \in Lits[c] : l # m /\ NotDbFalse(l) /\ NotDbFalse(m)
  BY DEF TwoOpen
<1>2. \A n \in Lits[c] : NotDbFalse(n) => n \in OpenLits(c)
  <2> SUFFICES ASSUME NEW n \in Lits[c], AssignedFixedFalseLit(assignment, n) PROVE ~NotDbFalse(n)
    BY DEF OpenLits
  <2>1. n \in Literals /\ VarOf(n) \in Atoms
    BY WalkSatAssumption, LitValues, StoredDb
  <2>2. assignment[VarOf(n)] \in FreeTVal \cup {"v_db_true", "v_db_false"}
    BY <2>1 DEF IdleAssignments
  <2> QED
    BY <2>1, <2>2 DEF NotDbFalse, IdleAssignments, AssignedFixedFalseLit, AssignedFixedFalse,
       AssignedFixedTrue, FreeTVal
<1> QED
  BY <1>1, <1>2 DEF AllFixedFalse, UnitLit

LEMMA FewerListed ==
    ASSUME ListsOpen, unsat' \subseteq unsat, \A l \in Literals : watched'[l] \subseteq watched[l]
    PROVE  ListsOpen'
BY DEF ListsOpen, TwoOpen, NotDbFalse

(* A flip only takes clauses off the lists of unsatisfied and watched      *)
(* clauses.                                                                *)
LEMMA FlipLists ==
    ASSUME ListTypes, assignment \in [Atoms -> TVal], NEW v \in Atoms, FlipVariable(v)
    PROVE  /\ ListTypes' /\ UNCHANGED <<ruleAssignment, numUnfixed, weights>>
           /\ unsat' \subseteq unsat /\ \A l \in Literals : watched'[l] \subseteq watched[l]
           /\ \A c \in live' : c \in live \/ c \in unsat \/ \E l \in Literals : c \in watched[l]
<1>1. CASE UnfixedTVal(assignment[v])
  <2>1. /\ live' = (live \ {}) \cup watched[TrueLitOf(v)] \cup unsat
        /\ watched' = [watched EXCEPT ![TrueLitOf(v)] = {}]
        /\ unsat' = {}
        /\ UNCHANGED <<ruleAssignment, numUnfixed, weights>>
    BY <1>1 DEF FlipVariable, LinkPropagate
  <2>2. TrueLitOf(v) \in Literals
    BY TrueLit
  <2> QED
    BY <2>1, <2>2 DEF ListTypes
<1>2. CASE ~UnfixedTVal(assignment[v])
  BY <1>2 DEF FlipVariable, walkVars, lists, ListTypes
<1> QED
  BY <1>1, <1>2

LEMMA ScanKeepsOpen ==
    ASSUME DbKept, assignment \in [Atoms -> TVal], ruleAssignment \in RuleChoices,
           ListTypes, ListsOpen, ScanLiveClause
    PROVE  ListsOpen'
<1>1. PICK c \in live :
        \/ InsertFixedSat(c) \/ DropFixedUnsat(c) \/ FixRuleFalse(c) \/ UnitPropagate(c)
        \/ WatchTrueLit(c) \/ WatchRule(c) \/ ListUnsat(c)
  BY DEF ScanLiveClause
<1>2. c \in Clauses /\ Lits[c] \subseteq Literals
  BY WalkSatAssumption DEF ListTypes
<1>3. Unfixable(c) => TwoOpen(c)
  BY <1>2, UnfixableIsOpen
<1>4. CASE InsertFixedSat(c) \/ DropFixedUnsat(c) \/ FixRuleFalse(c) \/ WatchRule(c)
  BY <1>4, FewerListed DEF InsertFixedSat, DropFixedUnsat, FixRuleFalse, WatchRule
<1>5. CASE UnitPropagate(c)
  <2>1. PICK l \in Lits[c] : FixLitTrue(l, c)
    BY <1>5 DEF UnitPropagate
  <2>2. unsat' \subseteq unsat /\ \A m \in Literals : watched'[m] \subseteq watched[m]
    BY <2>1 DEF FixLitTrue, LinkPropagate, ListTypes
  <2> QED
    BY <2>2, FewerListed
<1>6. CASE WatchTrueLit(c)
  <2>1. PICK l \in Lits[c] : watched' = [watched EXCEPT ![l] = @ \cup {c}]
    BY <1>6 DEF WatchTrueLit
  <2>2. unsat' = unsat /\ TwoOpen(c)
    BY <1>3, <1>6 DEF WatchTrueLit
  <2>3. \A m \in Literals : watched'[m] \subseteq watched[m] \cup {c}
    BY <1>2, <2>1 DEF ListTypes
  <2> QED
    BY <2>2, <2>3 DEF ListsOpen, TwoOpen, NotDbFalse
<1>7. CASE ListUnsat(c)
  <2>1. unsat' = unsat \cup {c} /\ watched' = watched /\ TwoOpen(c)
    BY <1>3, <1>7 DEF ListUnsat
  <2> QED
    BY <2>1 DEF ListsOpen, TwoOpen, NotDbFalse
<1> QED
  BY <1>1, <1>4, <1>5, <1>6, <1>7

(* A scan outside a search only moves clauses between the lists.           *)
LEMMA ScanAtRest ==
    ASSUME AtRest, ListTypes, ListsOpen, ruleAssignment \in RuleChoices, ScanLiveClause,
           UNCHANGED phase
    PROVE  /\ AtRest' /\ ListTypes' /\ ListsOpen'
           /\ UNCHANGED <<assignment, ruleAssignment, numUnfixed, weights>>
<1>1. PICK c \in live :
        \/ InsertFixedSat(c) \/ DropFixedUnsat(c) \/ FixRuleFalse(c) \/ UnitPropagate(c)
        \/ WatchTrueLit(c) \/ WatchRule(c) \/ ListUnsat(c)
  BY DEF ScanLiveClause
<1>2. c \in Clauses /\ Lits[c] \subseteq Literals /\ TwoOpen(c)
  BY WalkSatAssumption DEF ListTypes, AtRest
<1>3. ~DropFixedUnsat(c) /\ ~FixRuleFalse(c) /\ ~UnitPropagate(c)
  BY <1>2, OpenIsNoUnit DEF AtRest, DropFixedUnsat, FixedUnsat, FixRuleFalse, UnitPropagate
<1>4. /\ UNCHANGED <<assignment, ruleAssignment, numUnfixed, weights>>
      /\ live' = live \ {c} /\ unsat' \subseteq unsat \cup {c}
      /\ watched' \in [Literals -> SUBSET Clauses]
  <2>1. CASE InsertFixedSat(c) \/ WatchRule(c) \/ ListUnsat(c)
    BY <1>2, <2>1 DEF InsertFixedSat, WatchRule, ListUnsat, ListTypes
  <2>2. CASE WatchTrueLit(c)
    BY <1>2, <2>2 DEF WatchTrueLit, ListTypes
  <2> QED
    BY <1>1, <1>3, <2>1, <2>2
<1>5. ListsOpen'
  BY StoredDb, ScanKeepsOpen DEF AtRest
<1>6. AtRest' /\ ListTypes'
  BY <1>2, <1>4 DEF AtRest, ListTypes, TwoOpen, NotDbFalse
<1> QED
  BY <1>4, <1>5, <1>6

LEMMA NegatedIsStored ==
    ASSUME NEW f \in IdleAssignments, NEW v \in Atoms, UnfixedTVal(f[v])
    PROVE  [f EXCEPT ![v] = NegateTVal(@)] \in IdleAssignments
<1> DEFINE g == [f EXCEPT ![v] = NegateTVal(@)]
<1>1. /\ f[v] \in FreeTVal /\ NegateTVal(f[v]) \in FreeTVal
      /\ v \notin DbTrue /\ v \notin DbFalse
  BY DEF IdleAssignments, UnfixedTVal, FreeTVal, NegateTVal
<1>2. /\ DOMAIN g = Atoms /\ g[v] \in FreeTVal
      /\ \A u \in Atoms : u # v => g[u] = f[u]
  BY <1>1 DEF IdleAssignments
<1>3. g \in [Atoms -> FreeTVal \cup {"v_db_true", "v_db_false"}]
  BY <1>1 DEF IdleAssignments
<1> HIDE DEF g
<1>4. \A u \in Atoms : /\ u \in DbTrue <=> g[u] = "v_db_true"
                       /\ u \in DbFalse <=> g[u] = "v_db_false"
  BY <1>1, <1>2 DEF IdleAssignments, FreeTVal
<1>5. g \in IdleAssignments
  BY <1>3, <1>4 DEF IdleAssignments
<1> QED
  BY <1>5 DEF g

LEMMA FlipAtRest ==
    ASSUME AtRest, ListTypes, ListsOpen, NEW v \in Atoms, FlipVariable(v), UNCHANGED phase
    PROVE  /\ AtRest' /\ ListTypes' /\ ListsOpen'
           /\ UNCHANGED <<ruleAssignment, numUnfixed, weights>>
<1>1. /\ ListTypes' /\ UNCHANGED <<ruleAssignment, numUnfixed, weights>>
      /\ unsat' \subseteq unsat /\ \A l \in Literals : watched'[l] \subseteq watched[l]
      /\ \A c \in live' : c \in live \/ c \in unsat \/ \E l \in Literals : c \in watched[l]
  BY FlipLists, StoredDb DEF AtRest
<1>2. ListsOpen'
  BY <1>1, FewerListed
<1>3. \A c \in live' : TwoOpen(c)
  BY <1>1 DEF AtRest, ListsOpen
<1>4. assignment' \in IdleAssignments
  <2>1. CASE UnfixedTVal(assignment[v])
    BY <2>1, NegatedIsStored DEF FlipVariable, AtRest
  <2>2. CASE ~UnfixedTVal(assignment[v])
    BY <2>2 DEF FlipVariable, walkVars, AtRest
  <2> QED
    BY <2>1, <2>2
<1> QED
  BY <1>1, <1>2, <1>3, <1>4 DEF AtRest, TwoOpen, NotDbFalse

(* A search keeps the lists open.                                          *)
LEMMA SearchKeepsOpen ==
    ASSUME IndInv, ListsOpen, SolverStep
    PROVE  ListsOpen'
<1>1. /\ ListTypes /\ assignment \in [Atoms -> TVal] /\ DbKept
      /\ ruleAssignment \in RuleChoices
  BY CallRules DEF IndInv, CallInv, IdleInv, ListInv, WalkTypeOK, ListTypes
<1>2. ASSUME UNCHANGED walkVars PROVE ListsOpen'
  BY <1>2, FewerListed DEF walkVars, lists
<1>3. ASSUME NEW v \in Atoms, FlipVariable(v) PROVE ListsOpen'
  BY <1>1, <1>3, FlipLists, FewerListed
<1>4. CASE Scan
  BY <1>1, <1>4, ScanKeepsOpen DEF Scan
<1>5. CASE Randomize
  <2>1. CASE RandomAssignment
    <3>1. unsat' \subseteq unsat /\ \A l \in Literals : watched'[l] \subseteq watched[l]
      BY <2>1 DEF RandomAssignment
    <3> QED
      BY <3>1, FewerListed
  <2> QED
    BY <1>2, <1>5, <2>1 DEF Randomize
<1>6. ASSUME NEW hot, AnnealFlip(hot) \/ AnnealStay PROVE ListsOpen'
  BY <1>2, <1>3, <1>6 DEF AnnealFlip, AnnealStay, UnfixedAtoms
<1>7. CASE WalkStep
  <2>1. ASSUME NEW c \in unsat, NEW v \in ClauseVars(c), FlipVariable(v) PROVE ListsOpen'
    <3>1. v \in Atoms
      BY <2>1 DEF ClauseVars, UnfixedVarsOf, GreedyVarsOf, UnfixedAtoms
    <3> QED
      BY <1>3, <2>1, <3>1
  <2> QED
    BY <1>6, <1>7, <2>1 DEF WalkStep, Body, WalkFlip
<1>8. CASE StartWalk \/ StartExtra \/ ExtraStep
  BY <1>2, <1>6, <1>8 DEF StartWalk, StartExtra, ExtraStep
<1>9. CASE Return
  BY <1>9, FewerListed DEF Return, lists
<1> QED
  BY <1>4, <1>5, <1>7, <1>8, <1>9 DEF SolverStep

LEMMA McInitGibbs == McInit => GibbsInv
<1> SUFFICES ASSUME McInit PROVE GibbsInv
  OBVIOUS
<1>1. IndInv /\ phase = "idle"
  BY InitIndInv DEF McInit, SolverInit
<1>2. ControlOK /\ CountsOK /\ ruleAssignment \in RuleChoices
  BY <1>1, InvCounts, CallRules
<1>3. mpc = "start" /\ other = assignment /\ assignment \in IdleAssignments /\ live = {} /\ unsat = {}
  BY DEF McInit, SolverInit
<1>4. watched = [l \in Literals |-> {}]
  BY DEF McInit, SolverInit
<1>5. gibbsVar \in Atoms
  BY McSatAssumption DEF McInit, FreeAtoms
<1> QED
  BY <1>1, <1>2, <1>3, <1>4, <1>5 DEF GibbsInv, AtRest, ListsOpen, ListTypes, MpcValues

(* Every search starts with empty lists.                                   *)
LEMMA StartGivesGibbs ==
    ASSUME GibbsInv, NEW f \in IdleAssignments, NEW ra \in RuleChoices, NEW args \in Calls,
           StartSampleSat(f, ra, args), mpc' \in {"first", "solve", "judge"},
           mpc' # "solve" => ra = HardRulesOnly,
           other' \in IdleAssignments, gibbsVar' = gibbsVar
    PROVE  GibbsInv'
<1>1. IndInv' /\ CountsOK' /\ assignment' = f /\ ruleAssignment' = ra
  BY StartGivesInv DEF GibbsInv
<1>2. ControlOK' /\ ListTypes'
  BY <1>1 DEF IndInv, CallInv, IdleInv, ListInv, WalkTypeOK, ListTypes
<1>3. unsat' = {} /\ watched' = [l \in Literals |-> {}]
  BY DEF StartSampleSat, InitLiveClauses
<1>4. ListsOpen'
  BY <1>3 DEF ListsOpen
<1>5. gibbsVar' \in Atoms /\ mpc' \in MpcValues
  BY DEF GibbsInv, MpcValues
<1> QED
  BY <1>1, <1>2, <1>4, <1>5 DEF GibbsInv, HardRulesOnly

(* Between two searches nothing is left to scan.                           *)
LEMMA EndGivesGibbs ==
    ASSUME GibbsInv, Idle, assignment' \in IdleAssignments, other' \in IdleAssignments,
           numUnfixed' \in Int,
           UNCHANGED <<ruleAssignment, lists, weights, solverVars, gibbsVar>>,
           mpc' \in MpcValues \ {"first", "solve", "judge"}
    PROVE  GibbsInv'
<1>1. UNCHANGED <<ruleAssignment, live, unsat, sat, watched, ruleWatched, unsatWeight, satWeight,
                  phase, call, flips, extra, gibbsVar>>
  BY DEF lists, weights, solverVars
<1>2. ControlOK' /\ CountsOK' /\ ListTypes' /\ ListsOpen'
  BY <1>1 DEF GibbsInv, ControlOK, CountsOK, ListTypes, ListsOpen, TwoOpen, NotDbFalse
<1>3. AtRest'
  BY <1>1 DEF Idle, AtRest
<1> QED
  BY <1>1, <1>2, <1>3 DEF GibbsInv, RuleChoices

(* A step of the caller while no search runs.                              *)
LEMMA RestGivesGibbs ==
    ASSUME GibbsInv, AtRest', ListTypes', ListsOpen', CountsOK', ControlOK',
           UNCHANGED <<ruleAssignment, other>>,
           gibbsVar' \in Atoms, mpc' \in MpcValues \ {"first", "solve", "judge"}
    PROVE  GibbsInv'
BY DEF GibbsInv, RuleChoices, IdleAssignments

LEMMA RestoredCount ==
    ASSUME NEW f
    PROVE  Cardinality({v \in Atoms : UnfixedTVal(f[v])}) \in Int
<1> DEFINE F == {v \in Atoms : UnfixedTVal(f[v])}
<1>1. IsFiniteSet(F)
  BY FS_Subset, WalkSatAssumption
<1> HIDE DEF F
<1>2. Cardinality(F) \in Nat
  BY <1>1, FS_CardinalityType
<1> QED
  BY <1>2 DEF F

LEMMA McNextGibbs ==
    ASSUME GibbsInv, [McNext]_mcVars
    PROVE  GibbsInv'
<1>1. CASE UNCHANGED <<vars, mpc, other, gibbsVar>>
  <2>1. /\ UNCHANGED <<assignment, ruleAssignment, numUnfixed, live, unsat, sat, watched,
                       ruleWatched, unsatWeight, satWeight>>
        /\ UNCHANGED <<phase, call, flips, extra, mpc, other, gibbsVar>>
    BY <1>1 DEF vars, walkVars, lists, weights, solverVars
  <2>2. IndInv => IndInv'
    BY <1>1, NextIndInv
  <2>3. ControlOK' /\ CountsOK' /\ ListTypes' /\ ListsOpen' /\ (AtRest => AtRest')
    BY <2>1 DEF GibbsInv, ControlOK, CountsOK, ListTypes, ListsOpen, AtRest, TwoOpen, NotDbFalse
  <2> QED
    BY <2>1, <2>2, <2>3 DEF GibbsInv
<1>2. CASE SolverStep /\ UNCHANGED callerVars
  <2>1. mpc' = mpc /\ other' = other /\ gibbsVar' = gibbsVar
    BY <1>2 DEF callerVars
  <2>2. CASE mpc \in {"first", "solve", "judge"}
    <3>1. IndInv
      BY <2>2 DEF GibbsInv
    <3>2. IndInv' /\ ruleAssignment' = ruleAssignment /\ ListsOpen'
      BY <1>2, <3>1, SolverKeepsRules, SearchKeepsOpen DEF GibbsInv
    <3>3. ControlOK' /\ CountsOK' /\ ListTypes'
      BY <3>2 DEF IndInv, CallInv, IdleInv, ListInv, WalkTypeOK, CountsOK, ListTypes
    <3> QED
      BY <2>1, <2>2, <3>2, <3>3 DEF GibbsInv
  <2>3. CASE mpc \notin {"first", "solve", "judge"}
    <3>1. AtRest
      BY <2>3 DEF GibbsInv
    <3>2. Scan
      BY <1>2, <3>1 DEF AtRest, SolverStep, Randomize, StartWalk, WalkStep, StartExtra,
         ExtraStep, Return
    <3>3. /\ AtRest' /\ ListTypes' /\ ListsOpen'
          /\ UNCHANGED <<assignment, ruleAssignment, numUnfixed, weights>>
      BY <3>1, <3>2, ScanAtRest DEF GibbsInv, Scan, solverVars
    <3>4. ControlOK' /\ CountsOK'
      BY <3>2, <3>3 DEF GibbsInv, ControlOK, CountsOK, Scan, solverVars, weights
    <3> QED
      BY <2>1, <2>3, <3>3, <3>4, RestGivesGibbs DEF GibbsInv
  <2> QED
    BY <2>2, <2>3
<1>3. CASE FirstSampleSat
  <2>1. /\ mpc = "start" /\ mpc' = "first" /\ other' = other /\ gibbsVar' = gibbsVar
        /\ StartSampleSat(assignment, HardRulesOnly, FirstCall)
    BY <1>3 DEF FirstSampleSat
  <2>2. assignment \in IdleAssignments /\ other' \in IdleAssignments
    BY <2>1 DEF GibbsInv, AtRest
  <2> QED
    BY <2>1, <2>2, StartGivesGibbs, CallKinds, FirstRules
<1>4. CASE FirstFound \/ RoundDone
  <2>1. /\ mpc \in {"first", "solve"} /\ Idle
        /\ mpc' \in {"round", "gibbs", "done"}
        /\ UNCHANGED <<vars, other, gibbsVar>>
    BY <1>4 DEF FirstFound, RoundDone
  <2>2. UNCHANGED <<assignment, ruleAssignment, numUnfixed, lists, weights, solverVars>>
    BY <2>1 DEF vars, walkVars
  <2>3. assignment \in IdleAssignments
    BY <2>1, IdleIsStored DEF GibbsInv, IndInv, Idle
  <2>4. mpc' \in MpcValues \ {"first", "solve", "judge"}
    BY <2>1 DEF MpcValues
  <2> QED
    BY <2>1, <2>2, <2>3, <2>4, EndGivesGibbs DEF GibbsInv, CountsOK
<1>5. CASE StartRound
  <2>1. PICK ra \in KeptRules : StartSampleSat(assignment, ra, RoundCall)
    BY <1>5 DEF StartRound
  <2>2. /\ mpc = "round" /\ mpc' = "solve" /\ other' = assignment /\ gibbsVar' = gibbsVar
        /\ ra \in RuleChoices
    BY <1>5 DEF StartRound, KeptRules
  <2>3. assignment \in IdleAssignments
    BY <2>2 DEF GibbsInv, AtRest
  <2> QED
    BY <2>1, <2>2, <2>3, StartGivesGibbs, CallKinds
<1>6. CASE RoundsOver \/ GibbsOver
  <2>1. /\ mpc \in {"round", "gibbs"} /\ mpc' \in {"done", "round"} /\ live = {}
        /\ UNCHANGED <<vars, other, gibbsVar>>
    BY <1>6 DEF RoundsOver, GibbsOver
  <2>2. UNCHANGED <<assignment, ruleAssignment, numUnfixed, lists, weights, solverVars>>
    BY <2>1 DEF vars, walkVars
  <2>3. AtRest
    BY <2>1 DEF GibbsInv
  <2>4. mpc' \in MpcValues \ {"first", "solve", "judge"}
    BY <2>1 DEF MpcValues
  <2> QED
    BY <2>1, <2>2, <2>3, <2>4, EndGivesGibbs DEF GibbsInv, AtRest, Idle, CountsOK
<1>7. CASE RoundFailed \/ PerturbFailed
  <2>1. /\ Idle /\ assignment' = other /\ other' = assignment
        /\ numUnfixed' = Cardinality({v \in Atoms : UnfixedTVal(other[v])})
        /\ mpc \in {"solve", "judge"} /\ mpc' \in {"round", "revert"}
        /\ UNCHANGED <<ruleAssignment, lists, weights, solverVars, gibbsVar>>
    BY <1>7 DEF RoundFailed, PerturbFailed, RestoreAssignment
  <2>2. assignment \in IdleAssignments /\ other \in IdleAssignments
    BY <2>1, IdleIsStored DEF GibbsInv, IndInv, Idle
  <2>3. mpc' \in MpcValues \ {"first", "solve", "judge"}
    BY <2>1 DEF MpcValues
  <2> QED
    BY <2>1, <2>2, <2>3, RestoredCount, EndGivesGibbs
<1>8. CASE GibbsFlip \/ GibbsRevert
  <2>1. PICK v \in Atoms : FlipVariable(v) /\ gibbsVar' \in {v, gibbsVar}
    BY <1>8 DEF GibbsFlip, GibbsRevert, UnfixedAtoms, GibbsInv
  <2>2. /\ mpc \in {"gibbs", "revert"} /\ mpc' \in {"perturb", "gibbs"}
        /\ UNCHANGED <<solverVars, other>>
    BY <1>8 DEF GibbsFlip, GibbsRevert
  <2>3. AtRest /\ ListTypes /\ ListsOpen
    BY <2>2 DEF GibbsInv
  <2>4. /\ AtRest' /\ ListTypes' /\ ListsOpen'
        /\ UNCHANGED <<ruleAssignment, numUnfixed, weights>>
    BY <2>1, <2>2, <2>3, FlipAtRest DEF solverVars
  <2>5. ControlOK' /\ CountsOK'
    BY <2>2, <2>4 DEF GibbsInv, ControlOK, CountsOK, solverVars, weights
  <2>6. mpc' \in MpcValues \ {"first", "solve", "judge"} /\ gibbsVar' \in Atoms
    BY <2>1, <2>2 DEF MpcValues, GibbsInv
  <2> QED
    BY <2>2, <2>4, <2>5, <2>6, RestGivesGibbs
<1>9. CASE PerturbAssignment
  <2>1. PICK v \in UnfixedAtoms :
          /\ StartSampleSat([assignment EXCEPT ![v] = NegateTVal(@)], HardRulesOnly, PerturbCall)
          /\ other' = [assignment EXCEPT ![v] = NegateTVal(@)]
    BY <1>9 DEF PerturbAssignment
  <2>2. mpc = "perturb" /\ mpc' = "judge" /\ gibbsVar' = gibbsVar
    BY <1>9 DEF PerturbAssignment
  <2>3. other' \in IdleAssignments
    BY <2>1, <2>2, NegatedIsStored DEF GibbsInv, AtRest, UnfixedAtoms
  <2>4. PerturbCall \in Calls
    BY DEF PerturbCall, Calls
  <2> QED
    BY <2>1, <2>2, <2>3, <2>4, StartGivesGibbs, FirstRules
<1>10. CASE PerturbKept \/ PerturbRejected
  <2>1. /\ mpc = "judge" /\ mpc' \in {"gibbs", "revert"} /\ Idle
        /\ UNCHANGED <<vars, other, gibbsVar>>
    BY <1>10 DEF PerturbKept, PerturbRejected
  <2>2. UNCHANGED <<assignment, ruleAssignment, numUnfixed, lists, weights, solverVars>>
    BY <2>1 DEF vars, walkVars
  <2>3. assignment \in IdleAssignments
    BY <2>1, IdleIsStored DEF GibbsInv, IndInv, Idle
  <2>4. mpc' \in MpcValues \ {"first", "solve", "judge"}
    BY <2>1 DEF MpcValues
  <2> QED
    BY <2>1, <2>2, <2>3, <2>4, EndGivesGibbs DEF GibbsInv, CountsOK
<1>11. CASE Tick \/ UNCHANGED mcVars
  BY <1>1, <1>11 DEF Tick, mcVars, callerVars
<1> QED
  BY <1>2, <1>3, <1>4, <1>5, <1>6, <1>7, <1>8, <1>9, <1>10, <1>11 DEF McNext, McStep, CallerStep

(* Every search with Gibbs steps starts from an assignment without marks   *)
(* of unit propagation, although flips and scans go on between searches.   *)
THEOREM GibbsInvariance == McSpec => []GibbsInv
BY McInitGibbs, McNextGibbs, PTL DEF McSpec

(* The model a Gibbs step proposes satisfies the hard rules, if these have *)
(* a model, even when the step started from an assignment that violates    *)
(* them (perturb_assignment).                                              *)
THEOREM ProposalIsModel ==
    ASSUME HardHaveModel
    PROVE  McSpec => []ProposalSatisfiesHard
<1>1. GibbsInv => ProposalSatisfiesHard
  <2> SUFFICES ASSUME GibbsInv, mpc = "judge", Idle, unsat = {} PROVE HardSatisfied
    BY DEF ProposalSatisfiesHard
  <2>1. IndInv /\ ruleAssignment = HardRulesOnly
    BY DEF GibbsInv
  <2>2. \A r \in Hard : r \in Rules /\ ruleAssignment[r] = "v_up_true"
    BY <2>1, WalkSatAssumption DEF HardRulesOnly
  <2> QED
    BY <2>1, <2>2, FirstHasModel, FoundModel DEF HardSatisfied
<1> QED
  BY <1>1, GibbsInvariance, PTL

-----------------------------------------------------------------------------
(* The count of the samples.  Rounds BurnIn, BurnIn + 1, .. draw one       *)
(* whenever the interval divides their number.                             *)
Ceiling(n) == (n + SampInterval - 1) \div SampInterval

DrawnBefore(n) == IF n < BurnIn THEN 0 ELSE Ceiling(n) - Ceiling(BurnIn)

LEMMA Division ==
    ASSUME NEW s \in Nat \ {0}, NEW n \in Nat
    PROVE  /\ n \div s \in Nat /\ n % s \in Nat
           /\ n = s * (n \div s) + (n % s)
           /\ n % s < s
  OBVIOUS

LEMMA CeilingBounds ==
    ASSUME NEW n \in Nat
    PROVE  /\ Ceiling(n) \in Nat
           /\ SampInterval * Ceiling(n) < n + SampInterval
           /\ n <= SampInterval * Ceiling(n)
<1> DEFINE m == n + SampInterval - 1
<1>1. SampInterval \in Nat \ {0} /\ m \in Nat
  BY McSatAssumption
<1>2. /\ m \div SampInterval \in Nat
      /\ m = SampInterval * (m \div SampInterval) + (m % SampInterval)
      /\ m % SampInterval < SampInterval /\ m % SampInterval \in Nat
  BY <1>1, Division
<1>3. Ceiling(n) = m \div SampInterval
  BY DEF Ceiling
<1>4. SampInterval * Ceiling(n) \in Nat
  BY <1>1, <1>2, <1>3
<1> QED
  BY <1>1, <1>2, <1>3, <1>4

(* The bounds say which number a ceiling is.                               *)
LEMMA CeilingIs ==
    ASSUME NEW n \in Nat, NEW q \in Nat,
           SampInterval * q < n + SampInterval, n <= SampInterval * q
    PROVE  Ceiling(n) = q
<1> DEFINE p == Ceiling(n)
<1>1. /\ p \in Nat /\ SampInterval \in Nat \ {0}
      /\ SampInterval * p < n + SampInterval /\ n <= SampInterval * p
  BY CeilingBounds, McSatAssumption
<1> HIDE DEF p
<1>2. p + 1 <= q => SampInterval * (p + 1) <= SampInterval * q
  BY <1>1
<1>3. q + 1 <= p => SampInterval * (q + 1) <= SampInterval * p
  BY <1>1
<1>4. /\ SampInterval * (p + 1) = SampInterval * p + SampInterval
      /\ SampInterval * (q + 1) = SampInterval * q + SampInterval
      /\ SampInterval * p \in Nat /\ SampInterval * q \in Nat
  BY <1>1
<1>5. p = q
  BY <1>1, <1>2, <1>3, <1>4
<1> QED
  BY <1>5 DEF p

(* One round more: a sample if the interval divides its number.            *)
LEMMA CeilingNext ==
    ASSUME NEW n \in Nat
    PROVE  Ceiling(n + 1) = IF n % SampInterval = 0 THEN Ceiling(n) + 1 ELSE Ceiling(n)
<1> DEFINE q == n \div SampInterval
           t == n % SampInterval
<1>1. /\ q \in Nat /\ t \in Nat /\ SampInterval \in Nat \ {0}
      /\ n = SampInterval * q + t /\ t < SampInterval
  BY Division, McSatAssumption
<1> HIDE DEF q, t
<1>2. SampInterval * (q + 1) = SampInterval * q + SampInterval /\ SampInterval * q \in Nat
  BY <1>1
<1>3. Ceiling(n + 1) = q + 1
  BY <1>1, <1>2, CeilingIs
<1>4. CASE t = 0
  <2>1. Ceiling(n) = q
    BY <1>1, <1>2, <1>4, CeilingIs
  <2> QED
    BY <1>1, <1>3, <1>4, <2>1 DEF t
<1>5. CASE t # 0
  <2>1. Ceiling(n) = q + 1
    BY <1>1, <1>2, <1>5, CeilingIs
  <2> QED
    BY <1>1, <1>3, <1>5, <2>1 DEF t
<1> QED
  BY <1>4, <1>5

LEMMA DrawnCount ==
    /\ Rounds \in Nat
    /\ DrawnBefore(0) = 0
    /\ \A n \in Nat : DrawnBefore(n + 1) =
                         IF n >= BurnIn /\ n % SampInterval = 0 THEN DrawnBefore(n) + 1
                         ELSE DrawnBefore(n)
    /\ DrawnBefore(Rounds) = MaxSamples
<1>0. BurnIn \in Nat /\ MaxSamples \in Nat /\ SampInterval \in Nat \ {0}
  BY McSatAssumption
<1>1. MaxSamples * SampInterval \in Nat
  BY <1>0
<1>2. Rounds \in Nat /\ Rounds >= BurnIn
  BY <1>0, <1>1 DEF Rounds
<1>3. \A n \in Nat : Ceiling(n) \in Nat
  BY CeilingBounds
<1>4. DrawnBefore(0) = 0
  <2>1. BurnIn = 0 => Ceiling(0) - Ceiling(BurnIn) = 0
    BY <1>3
  <2> QED
    BY <1>0, <2>1 DEF DrawnBefore
<1>5. ASSUME NEW n \in Nat
      PROVE  DrawnBefore(n + 1) =
               IF n >= BurnIn /\ n % SampInterval = 0 THEN DrawnBefore(n) + 1
               ELSE DrawnBefore(n)
  <2>1. /\ Ceiling(n) \in Nat /\ Ceiling(BurnIn) \in Nat
        /\ Ceiling(n + 1) = IF n % SampInterval = 0 THEN Ceiling(n) + 1 ELSE Ceiling(n)
    BY <1>0, <1>3, CeilingNext
  <2>2. CASE n >= BurnIn
    BY <1>0, <2>1, <2>2 DEF DrawnBefore
  <2>3. CASE n + 1 < BurnIn
    BY <1>0, <2>3 DEF DrawnBefore
  <2>4. CASE n + 1 = BurnIn
    <3>1. DrawnBefore(n + 1) = 0
      BY <1>0, <2>1, <2>4 DEF DrawnBefore
    <3>2. DrawnBefore(n) = 0 /\ ~(n >= BurnIn)
      BY <1>0, <2>4 DEF DrawnBefore
    <3> QED
      BY <3>1, <3>2
  <2> QED
    BY <1>0, <2>2, <2>3, <2>4
<1>6. DrawnBefore(Rounds) = MaxSamples
  <2> DEFINE q == Ceiling(BurnIn) + MaxSamples
             B == SampInterval * Ceiling(BurnIn)
             N == MaxSamples * SampInterval
  <2>1. /\ Ceiling(BurnIn) \in Nat
        /\ B < BurnIn + SampInterval /\ BurnIn <= B
    BY <1>0, CeilingBounds
  <2>2. SampInterval * q = B + N /\ q \in Nat /\ B \in Nat
    BY <1>0, <2>1
  <2>3. SampInterval * q < Rounds + SampInterval /\ Rounds <= SampInterval * q
    <3> HIDE DEF q, B, N
    <3>1. Rounds = BurnIn + N /\ N \in Nat
      BY <1>1 DEF Rounds, N
    <3> QED
      BY <1>0, <2>1, <2>2, <3>1
  <2>4. Ceiling(Rounds) = q
    BY <1>2, <2>2, <2>3, CeilingIs
  <2>5. q - Ceiling(BurnIn) = MaxSamples
    BY <1>0, <2>1
  <2> QED
    BY <1>0, <1>2, <2>4, <2>5 DEF DrawnBefore
<1> QED
  BY <1>2, <1>4, <1>5, <1>6

(* What has been drawn by the round the loop is in, and what of it an atom *)
(* was true in.                                                            *)
DrawInv ==
    /\ i \in Nat /\ samples \in Nat /\ pmodel \in [Atoms -> Nat]
    /\ mpc \in {"start", "first"} => i = 0 /\ samples = 0
    /\ mpc \in {"round", "solve"} => i <= Rounds /\ samples = DrawnBefore(i)
    /\ mpc = "solve" => i < Rounds
    /\ mpc \in {"gibbs", "perturb", "judge", "revert"} =>
          i < Rounds /\ samples = DrawnBefore(i + 1)
    /\ mpc = "done" /\ ~late => samples = MaxSamples \/ (samples = 0 /\ i = 0)
    /\ \A v \in Atoms : pmodel[v] <= samples
    /\ \A v \in DbTrue : pmodel[v] = samples

LEMMA DrawInit == McInit => DrawInv
BY SampleSatAssumption DEF McInit, DrawInv

LEMMA SampleOfFact ==
    ASSUME GibbsInv, mpc = "solve", Idle, NEW v \in DbTrue
    PROVE  v \in Atoms /\ AssignedTrue(assignment[v])
<1>1. IdleInv
  BY DEF GibbsInv, IndInv, Idle
<1> QED
  BY <1>1, SampleSatAssumption DEF IdleInv, DbKept, AssignedTrue

LEMMA DrawNext ==
    ASSUME GibbsInv, DrawInv, [McNext]_mcVars
    PROVE  DrawInv'
<1>1. CASE /\ UNCHANGED <<mpc, i, samples, pmodel>>
           /\ late' = late \/ mpc # "done"
  BY <1>1 DEF DrawInv
<1>2. CASE (SolverStep /\ UNCHANGED callerVars) \/ UNCHANGED mcVars \/ Tick
  BY <1>1, <1>2 DEF mcVars, callerVars, Tick
<1>3. CASE FirstSampleSat
  BY <1>3 DEF FirstSampleSat, DrawInv
<1>4. CASE FirstFound
  <2>1. /\ mpc = "first" /\ mpc' \in {"round", "done"}
        /\ UNCHANGED <<i, samples, pmodel, late>>
    BY <1>4 DEF FirstFound
  <2> QED
    BY <2>1, DrawnCount DEF DrawInv
<1>5. CASE StartRound
  <2>1. mpc = "round" /\ mpc' = "solve" /\ i < Rounds /\ UNCHANGED <<i, samples, pmodel, late>>
    BY <1>5 DEF StartRound
  <2> QED
    BY <2>1 DEF DrawInv
<1>6. CASE RoundsOver
  <2>1. /\ mpc = "round" /\ mpc' = "done" /\ (i >= Rounds \/ late)
        /\ UNCHANGED <<i, samples, pmodel, late>>
    BY <1>6 DEF RoundsOver, TimeOver
  <2> QED
    BY <2>1, DrawnCount DEF DrawInv
<1>7. CASE RoundFailed
  <2>1. mpc = "solve" /\ mpc' = "round" /\ UNCHANGED <<i, samples, pmodel, late>>
    BY <1>7 DEF RoundFailed
  <2> QED
    BY <2>1, DrawnCount DEF DrawInv
<1>8. CASE RoundDone
  <2>1. mpc = "solve" /\ Idle /\ UNCHANGED late /\ BurnIn \in Nat
    BY <1>8, McSatAssumption DEF RoundDone
  <2>2. i < Rounds /\ samples = DrawnBefore(i)
    BY <2>1 DEF DrawInv
  <2>3. CASE DrawSample
    <3>1. /\ samples' = samples + 1 /\ i' = i /\ mpc' = "gibbs"
          /\ pmodel' = [v \in Atoms |-> IF AssignedTrue(assignment[v])
                                           THEN pmodel[v] + 1 ELSE pmodel[v]]
      BY <1>8, <2>3 DEF RoundDone
    <3>2. samples' = DrawnBefore(i + 1)
      BY <2>2, <2>3, <3>1, DrawnCount DEF DrawInv, DrawSample
    <3>3. /\ \A v \in Atoms : pmodel[v] \in Nat /\ pmodel[v] <= samples
          /\ \A v \in DbTrue : pmodel[v] = samples
      BY DEF DrawInv
    <3>4. \A v \in DbTrue : v \in Atoms /\ AssignedTrue(assignment[v])
      BY <2>1, SampleOfFact
    <3>5. \A v \in Atoms : pmodel'[v] \in {pmodel[v], pmodel[v] + 1}
      BY <3>1, Zenon
    <3>6. \A v \in DbTrue : pmodel'[v] = pmodel[v] + 1
      BY <3>1, <3>4, Zenon
    <3>7. \A v \in Atoms : pmodel'[v] \in Nat /\ pmodel'[v] <= samples'
      BY <3>1, <3>3, <3>5 DEF DrawInv
    <3>8. pmodel' \in [Atoms -> Nat]
      BY <3>1, <3>7, Zenon
    <3>9. \A v \in DbTrue : pmodel'[v] = samples'
      BY <3>1, <3>3, <3>6
    <3> QED
      BY <2>2, <3>1, <3>2, <3>7, <3>8, <3>9 DEF DrawInv
  <2>4. CASE ~DrawSample
    <3>1. i' = i + 1 /\ mpc' = "round" /\ UNCHANGED <<samples, pmodel>>
      BY <1>8, <2>4 DEF RoundDone
    <3>2. samples' = DrawnBefore(i + 1)
      BY <2>2, <2>4, <3>1, DrawnCount DEF DrawInv, DrawSample
    <3> QED
      BY <2>2, <3>1, <3>2, DrawnCount DEF DrawInv
  <2> QED
    BY <2>3, <2>4
<1>9. CASE GibbsOver
  <2>1. mpc = "gibbs" /\ mpc' = "round" /\ i' = i + 1 /\ UNCHANGED <<samples, pmodel, late>>
    BY <1>9 DEF GibbsOver
  <2> QED
    BY <2>1, DrawnCount DEF DrawInv
<1>10. CASE GibbsFlip \/ PerturbAssignment \/ PerturbFailed \/ PerturbKept \/ PerturbRejected
            \/ GibbsRevert
  <2>1. /\ mpc \in {"gibbs", "perturb", "judge", "revert"}
        /\ mpc' \in {"gibbs", "perturb", "judge", "revert"}
        /\ UNCHANGED <<i, samples, pmodel, late>>
    BY <1>10 DEF GibbsFlip, PerturbAssignment, PerturbFailed, PerturbKept, PerturbRejected,
       GibbsRevert
  <2> QED
    BY <2>1 DEF DrawInv
<1> QED
  BY <1>2, <1>3, <1>4, <1>5, <1>6, <1>7, <1>8, <1>9, <1>10 DEF McNext, McStep, CallerStep

(* A run of MC-SAT that is neither cut short by the clock nor stuck at the *)
(* start draws max_samples samples for any burn-in and any interval, and   *)
(* no atom is counted more often than there are samples, nor a fact of the *)
(* database less often (update_pmodel).                                    *)
THEOREM SamplesDrawn == McSpec => []DrawsMaxSamples
<1>1. DrawInv => DrawsMaxSamples
  BY DEF DrawInv, DrawsMaxSamples
<1>2. McSpec => [](GibbsInv /\ DrawInv)
  BY McInitGibbs, McNextGibbs, DrawInit, DrawNext, PTL DEF McSpec
<1> QED
  BY <1>1, <1>2, PTL
=============================================================================
