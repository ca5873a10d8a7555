----------------------------- MODULE MwSatProofs -----------------------------
(***************************************************************************)
(* Proofs about MwSat: the clause lists of a weighted search, with the     *)
(* rules that are switched off and on again, for any atoms, rules, clauses *)
(* and weights, any numbers of trials and flips, and any timeout; what is  *)
(* dropped from the lists (OrderInv), and what the weight of the rules     *)
(* that are switched off says of the assignment (LossInv).                 *)
(***************************************************************************)
EXTENDS MwSat, WalkSatProofs, Sums

-----------------------------------------------------------------------------
(* The inductive invariant.                                                *)

ListTypes ==
    /\ assignment \in [Atoms -> TVal]
    /\ ruleAssignment \in [Rules -> TVal]
    /\ live \subseteq Clauses /\ unsat \subseteq Clauses /\ sat \subseteq Clauses
    /\ watched \in [Literals -> SUBSET Clauses]
    /\ ruleWatched \in [Rules -> SUBSET Clauses]

(* OneListPerClause, clause by clause.                                     *)
Apart ==
    \A c \in Clauses :
        /\ c \in live => c \notin unsat /\ c \notin sat
        /\ c \in unsat => c \notin sat
        /\ \A l \in Literals : c \in watched[l] =>
              /\ c \notin live /\ c \notin unsat /\ c \notin sat
              /\ \A m \in Literals : c \in watched[m] => m = l
        /\ \A r \in Rules : c \in ruleWatched[r] =>
              /\ RuleOf[c] = r
              /\ c \notin live /\ c \notin unsat /\ c \notin sat
              /\ \A l \in Literals : c \notin watched[l]

(* What holds of the lists whatever the assignment is.                     *)
TableInv == ListTypes /\ Apart /\ ExcusedByFalseRule

(* What a step of a trial preserves.                                       *)
TrialInv == TableInv /\ WatchedByTrueLit /\ UnsatListFalse

InTrial == pc \in {"flip", "keep"}

(* Only a trial scans: at the end of the call the backup replaces the      *)
(* assignment that the lists were made for, and no clause may be scanned.  *)
MwInv ==
    /\ TableInv
    /\ pc # "done" => TrialInv
    /\ ~InTrial => live = {}
    /\ other \in [Atoms -> TVal]
    /\ unsatSoft \subseteq Rules

-----------------------------------------------------------------------------
(* The pointwise form says the same as the property.                       *)
LEMMA ApartIsOneList ==
    ASSUME ListTypes, Apart
    PROVE  OneListPerClause
<1>1. /\ \A c : c \in WatchedClauses <=> \E l \in Literals : c \in watched[l]
      /\ \A c : c \in RuleWatchedClauses <=> \E r \in Rules : c \in ruleWatched[r]
  BY DEF WatchedClauses, RuleWatchedClauses
<1>2. /\ live \subseteq Clauses /\ unsat \subseteq Clauses /\ sat \subseteq Clauses
      /\ \A l \in Literals : watched[l] \subseteq Clauses
      /\ \A r \in Rules : ruleWatched[r] \subseteq Clauses
  BY DEF ListTypes
<1>3. \A c \in live : c \notin unsat /\ c \notin sat /\ c \notin WatchedClauses
                      /\ c \notin RuleWatchedClauses
  BY <1>1, <1>2 DEF Apart
<1>4. \A c \in unsat : c \notin sat /\ c \notin WatchedClauses /\ c \notin RuleWatchedClauses
  BY <1>1, <1>2 DEF Apart
<1>5. \A c \in sat : c \notin WatchedClauses /\ c \notin RuleWatchedClauses
  BY <1>1, <1>2 DEF Apart
<1>6. \A c \in WatchedClauses : c \notin RuleWatchedClauses
  BY <1>1, <1>2 DEF Apart
<1>7. \A l, m \in Literals : watched[l] \cap watched[m] # {} => l = m
  BY <1>2 DEF Apart
<1>8. \A r \in Rules : \A c \in ruleWatched[r] : RuleOf[c] = r
  BY <1>2 DEF Apart
<1> QED
  BY <1>3, <1>4, <1>5, <1>6, <1>7, <1>8 DEF OneListPerClause

(* Empty lists are in order.                                               *)
LEMMA EmptyLists ==
    ASSUME assignment \in [Atoms -> TVal], ruleAssignment \in [Rules -> TVal],
           live \subseteq Clauses, unsat = {}, sat = {},
           watched = [l \in Literals |-> {}], ruleWatched = [r \in Rules |-> {}]
    PROVE  TrialInv
BY DEF TrialInv, TableInv, ListTypes, Apart, ExcusedByFalseRule, WatchedByTrueLit,
   UnsatListFalse

LEMMA SameLists ==
    ASSUME UNCHANGED <<assignment, ruleAssignment, live, unsat, sat, watched, ruleWatched>>
    PROVE  /\ TableInv => TableInv'
           /\ TrialInv => TrialInv'
BY DEF TrialInv, TableInv, ListTypes, Apart, ExcusedByFalseRule, WatchedByTrueLit,
   UnsatListFalse

-----------------------------------------------------------------------------
(* link_propagate keeps the lists in order.                                *)
LEMMA LinkPropagateLists ==
    ASSUME TrialInv,
           NEW l \in Literals, AssignedTrueLit(assignment, l), LiteralFalsified(l),
           NEW popped \in SUBSET live,
           LinkPropagate(l, popped), sat' = sat \cup popped,
           UNCHANGED ruleAssignment
    PROVE  TrialInv'
<1> USE DEF TrialInv, TableInv, ListTypes
<1>1. /\ live' = (live \ popped) \cup watched[l] \cup unsat
      /\ watched' = [watched EXCEPT ![l] = {}]
      /\ unsat' = {}
      /\ ruleWatched' = ruleWatched
  BY DEF LinkPropagate
<1>2. /\ watched'[l] = {}
      /\ \A k \in Literals : k # l => watched'[k] = watched[k]
  BY <1>1
<1>3. ListTypes'
  <2>1. watched' \in [Literals -> SUBSET Clauses]
    BY <1>1
  <2>2. live' \subseteq Clauses /\ unsat' \subseteq Clauses /\ sat' \subseteq Clauses
    BY <1>1
  <2> QED
    BY <1>1, <2>1, <2>2 DEF LiteralFalsified
<1>4. Apart'
  BY <1>1, <1>2 DEF Apart
<1>5. ExcusedByFalseRule'
  BY <1>1 DEF ExcusedByFalseRule
<1>6. WatchedByTrueLit'
  <2> SUFFICES ASSUME NEW k \in Literals, NEW c \in watched'[k]
               PROVE  k \in Lits[c] /\ AssignedTrueLit(assignment', k)
    BY DEF WatchedByTrueLit
  <2>1. k # l /\ c \in watched[k]
    BY <1>2
  <2>2. k \in Lits[c] /\ AssignedTrueLit(assignment, k)
    BY <2>1 DEF WatchedByTrueLit
  <2> QED
    BY <2>1, <2>2, FalsifiedLits
<1>7. UnsatListFalse'
  BY <1>1 DEF UnsatListFalse
<1> QED
  BY <1>3, <1>4, <1>5, <1>6, <1>7

(* flip_unfixed_variable up to its scan.                                   *)
LEMMA FlipKeepsTrialInv ==
    ASSUME TrialInv, NEW v \in Atoms, FlipVariable(v)
    PROVE  TrialInv'
<1>1. CASE ~UnfixedTVal(assignment[v])
  BY <1>1, SameLists DEF FlipVariable, walkVars, lists
<1>2. CASE UnfixedTVal(assignment[v])
  <2>1. /\ assignment' = [assignment EXCEPT ![v] = NegateTVal(@)]
        /\ LinkPropagate(TrueLitOf(v), {})
        /\ UNCHANGED <<ruleAssignment, sat>>
    BY <1>2 DEF FlipVariable
  <2>2. assignment \in [Atoms -> TVal]
    BY DEF TrialInv, TableInv, ListTypes
  <2>3. LiteralFalsified(TrueLitOf(v))
    BY <1>2, <2>1, <2>2, FlipFalsifies
  <2>4. TrueLitOf(v) \in Literals /\ AssignedTrueLit(assignment, TrueLitOf(v))
    BY <2>2, TrueLit
  <2>5. sat' = sat \cup {} /\ {} \in SUBSET live
    BY <2>1
  <2> QED
    BY <2>1, <2>3, <2>4, <2>5, LinkPropagateLists
<1> QED
  BY <1>1, <1>2

-----------------------------------------------------------------------------
(* The scan of one clause.                                                 *)

LEMMA PoppedClause ==
    ASSUME TrialInv, NEW c \in live
    PROVE  /\ c \in Clauses /\ Lits[c] \subseteq Literals /\ RuleOf[c] \in Rules
           /\ c \notin unsat /\ c \notin sat
           /\ \A l \in Literals : c \notin watched[l]
           /\ \A r \in Rules : c \notin ruleWatched[r]
<1>1. c \in Clauses /\ Apart
  BY DEF TrialInv, TableInv, ListTypes
<1> QED
  BY <1>1, WalkSatAssumption DEF Apart

(* A clause that goes to the sat list, or to no list at all.               *)
LEMMA SettledKeepsTrialInv ==
    ASSUME TrialInv, NEW c \in live, live' = live \ {c},
           sat' \in {sat, sat \cup {c}},
           UNCHANGED <<assignment, unsat, watched, ruleWatched>>,
           \/ UNCHANGED ruleAssignment
           \/ ruleAssignment' = [ruleAssignment EXCEPT ![RuleOf[c]] = "v_up_false"]
    PROVE  TrialInv'
<1> USE DEF TrialInv, TableInv
<1>1. c \in Clauses /\ RuleOf[c] \in Rules
  BY PoppedClause
<1>2. /\ ruleAssignment' \in [Rules -> TVal]
      /\ \A r \in Rules : AssignedFalse(ruleAssignment[r]) => AssignedFalse(ruleAssignment'[r])
  BY <1>1 DEF ListTypes, TVal, AssignedFalse
<1>3. ListTypes'
  BY <1>1, <1>2 DEF ListTypes
<1>4. Apart'
  BY PoppedClause DEF Apart
<1>5. ExcusedByFalseRule' /\ WatchedByTrueLit' /\ UnsatListFalse'
  BY <1>2 DEF ExcusedByFalseRule, WatchedByTrueLit, UnsatListFalse
<1> QED
  BY <1>3, <1>4, <1>5

LEMMA WatchKeepsTrialInv ==
    ASSUME TrialInv, NEW c \in live, WatchTrueLit(c)
    PROVE  TrialInv'
<1> USE DEF TrialInv, TableInv
<1>1. PICK l \in Lits[c] :
        /\ AssignedTrueLit(assignment, l)
        /\ watched' = [watched EXCEPT ![l] = @ \cup {c}]
  BY DEF WatchTrueLit
<1>2. /\ live' = live \ {c}
      /\ UNCHANGED <<assignment, ruleAssignment, unsat, sat, ruleWatched>>
  BY DEF WatchTrueLit
<1>3. c \in Clauses /\ l \in Literals /\ watched \in [Literals -> SUBSET Clauses]
  BY PoppedClause DEF ListTypes
<1>4. /\ watched'[l] = watched[l] \cup {c}
      /\ \A k \in Literals : k # l => watched'[k] = watched[k]
      /\ watched' \in [Literals -> SUBSET Clauses]
  BY <1>1, <1>3
<1>5. ListTypes'
  BY <1>2, <1>3, <1>4 DEF ListTypes
<1>6. Apart'
  BY <1>2, <1>3, <1>4, PoppedClause DEF Apart
<1>7. WatchedByTrueLit'
  BY <1>1, <1>2, <1>3, <1>4 DEF WatchedByTrueLit
<1>8. ExcusedByFalseRule' /\ UnsatListFalse'
  BY <1>2 DEF ExcusedByFalseRule, UnsatListFalse
<1> QED
  BY <1>5, <1>6, <1>7, <1>8

(* A clause of a rule that is switched off is watched by the rule.         *)
LEMMA WatchRuleKeepsTrialInv ==
    ASSUME TrialInv, NEW c \in live, WatchRule(c)
    PROVE  TrialInv'
<1> USE DEF TrialInv, TableInv
<1>1. /\ AssignedFalse(ruleAssignment[RuleOf[c]])
      /\ ruleWatched' = [ruleWatched EXCEPT ![RuleOf[c]] = @ \cup {c}]
      /\ live' = live \ {c}
      /\ UNCHANGED <<assignment, ruleAssignment, unsat, sat, watched>>
  BY DEF WatchRule
<1>2. c \in Clauses /\ RuleOf[c] \in Rules /\ ruleWatched \in [Rules -> SUBSET Clauses]
  BY PoppedClause DEF ListTypes
<1>3. /\ ruleWatched'[RuleOf[c]] = ruleWatched[RuleOf[c]] \cup {c}
      /\ \A r \in Rules : r # RuleOf[c] => ruleWatched'[r] = ruleWatched[r]
      /\ ruleWatched' \in [Rules -> SUBSET Clauses]
  BY <1>1, <1>2
<1>4. ListTypes'
  BY <1>1, <1>2, <1>3 DEF ListTypes
<1>5. Apart'
  BY <1>1, <1>2, <1>3, PoppedClause DEF Apart
<1>6. ExcusedByFalseRule'
  BY <1>1, <1>3 DEF ExcusedByFalseRule
<1>7. WatchedByTrueLit' /\ UnsatListFalse'
  BY <1>1 DEF WatchedByTrueLit, UnsatListFalse
<1> QED
  BY <1>4, <1>5, <1>6, <1>7

LEMMA UnsatKeepsTrialInv ==
    ASSUME TrialInv, NEW c \in live, ListUnsat(c)
    PROVE  TrialInv'
<1> USE DEF TrialInv, TableInv
<1>1. /\ ~SatClause(assignment, Lits[c])
      /\ live' = live \ {c} /\ unsat' = unsat \cup {c}
      /\ UNCHANGED <<assignment, ruleAssignment, sat, watched, ruleWatched>>
  BY DEF ListUnsat
<1>2. ListTypes'
  BY <1>1, PoppedClause DEF ListTypes
<1>3. Apart'
  BY <1>1, PoppedClause DEF Apart
<1>4. ExcusedByFalseRule' /\ WatchedByTrueLit' /\ UnsatListFalse'
  BY <1>1 DEF ExcusedByFalseRule, WatchedByTrueLit, UnsatListFalse
<1> QED
  BY <1>2, <1>3, <1>4

(* A literal that is true already is only marked as fixed: no other value  *)
(* changes, and the lists need no scan.                                    *)
LEMMA MarkedOnly ==
    ASSUME assignment \in [Atoms -> TVal], NEW l \in Literals, AssignedTrueLit(assignment, l),
           assignment' = [assignment EXCEPT ![VarOf(l)] = UpTrueValueOf(l)],
           NEW k \in Literals
    PROVE  AssignedTrueLit(assignment', k) <=> AssignedTrueLit(assignment, k)
<1>1. VarOf(k) \in Atoms /\ assignment' \in [Atoms -> TVal]
  BY LitValues, FixedValue
<1>2. CASE VarOf(k) # VarOf(l)
  <2>1. assignment'[VarOf(k)] = assignment[VarOf(k)]
    BY <1>1, <1>2, FixedValue
  <2> QED
    BY <2>1, SameAtomSameValue
<1>3. CASE k = l
  BY <1>3, FixedValue
<1>4. CASE k = Not(l)
  <2>1. ~AssignedTrueLit(assignment, k)
    BY <1>4, NotLit, LitValues
  <2>2. ~AssignedTrueLit(assignment', k)
    BY <1>1, <1>4, NotLit, LitValues, FixedValue
  <2> QED
    BY <2>1, <2>2
<1> QED
  BY <1>2, <1>3, <1>4, NotLit

LEMMA UnitKeepsTrialInv ==
    ASSUME TrialInv, NEW c \in live, UnitPropagate(c)
    PROVE  TrialInv'
<1> USE DEF TrialInv, TableInv
<1>1. PICK l \in Lits[c] : UnitLit(c, l) /\ FixLitTrue(l, c)
  BY DEF UnitPropagate
<1>2. /\ l \in Literals /\ c \in Clauses /\ assignment \in [Atoms -> TVal]
      /\ assignment' = [assignment EXCEPT ![VarOf(l)] = UpTrueValueOf(l)]
      /\ sat' = sat \cup {c} /\ UNCHANGED ruleAssignment
  BY <1>1, PoppedClause DEF UnitPropagate, FixLitTrue, ListTypes
<1>3. CASE AssignedTrueLit(assignment, l)
  <2>1. live' = live \ {c} /\ UNCHANGED <<watched, unsat, ruleWatched>>
    BY <1>1, <1>3 DEF FixLitTrue
  <2>2. \A k \in Literals : AssignedTrueLit(assignment', k) <=> AssignedTrueLit(assignment, k)
    BY <1>2, <1>3, MarkedOnly
  <2>3. ListTypes'
    BY <1>2, <2>1, FixedValue DEF ListTypes
  <2>4. Apart'
    BY <1>2, <2>1, PoppedClause DEF Apart
  <2>5. ExcusedByFalseRule' /\ WatchedByTrueLit'
    BY <1>2, <2>1, <2>2 DEF ExcusedByFalseRule, WatchedByTrueLit
  <2>6. UnsatListFalse'
    <3>1. \A d \in unsat : Lits[d] \subseteq Literals
      BY WalkSatAssumption DEF ListTypes
    <3> QED
      BY <2>1, <2>2, <3>1 DEF UnsatListFalse, SatClause
  <2> QED
    BY <2>3, <2>4, <2>5, <2>6
<1>4. CASE ~AssignedTrueLit(assignment, l)
  <2>1. LinkPropagate(Not(l), {c}) /\ {c} \in SUBSET live
    BY <1>1, <1>4 DEF FixLitTrue
  <2>2. Not(l) \in Literals /\ VarOf(Not(l)) = VarOf(l) /\ AssignedTrueLit(assignment, Not(l))
    BY <1>2, <1>4, NotLit, LitValues
  <2>3. LiteralFalsified(Not(l))
    <3>1. /\ assignment' \in [Atoms -> TVal] /\ AssignedTrueLit(assignment', l)
          /\ \A v \in Atoms : v # VarOf(l) => assignment'[v] = assignment[v]
      BY <1>2, FixedValue
    <3>2. AssignedFalseLit(assignment', Not(l))
      BY <1>2, <2>2, <3>1, NotLit, LitValues
    <3> QED
      BY <2>2, <3>1, <3>2 DEF LiteralFalsified
  <2> QED
    BY <1>2, <2>1, <2>2, <2>3, LinkPropagateLists
<1> QED
  BY <1>3, <1>4

LEMMA ScanKeepsTrialInv ==
    ASSUME TrialInv, ScanLiveClause
    PROVE  TrialInv'
<1>1. PICK c \in live :
        \/ InsertFixedSat(c) \/ DropFixedUnsat(c) \/ FixRuleFalse(c) \/ UnitPropagate(c)
        \/ WatchTrueLit(c) \/ WatchRule(c) \/ ListUnsat(c)
  BY DEF ScanLiveClause
<1>2. CASE InsertFixedSat(c) \/ DropFixedUnsat(c) \/ FixRuleFalse(c)
  BY <1>2, SettledKeepsTrialInv DEF InsertFixedSat, DropFixedUnsat, FixRuleFalse
<1> QED
  BY <1>1, <1>2, UnitKeepsTrialInv, WatchKeepsTrialInv, WatchRuleKeepsTrialInv,
     UnsatKeepsTrialInv

-----------------------------------------------------------------------------
(* The actions.                                                            *)

LEMMA InitMwInv == Init => MwInv
<1> SUFFICES ASSUME Init PROVE MwInv
  OBVIOUS
<1>1. /\ assignment \in [Atoms -> TVal] /\ ruleAssignment \in [Rules -> TVal]
      /\ other = assignment /\ unsatSoft = {}
  BY DEF Init, FreeTVal, TVal
<1>2. TrialInv
  BY <1>1, EmptyLists DEF Init
<1> QED
  BY <1>1, <1>2 DEF MwInv, TrialInv, Init

LEMMA StartKeepsMwInv ==
    ASSUME MwInv, StartTrial
    PROVE  MwInv'
<1>1. /\ assignment \in [Atoms -> TVal] /\ other \in [Atoms -> TVal]
      /\ unsatSoft \subseteq Rules
  BY DEF MwInv, TableInv, ListTypes
<1>2. PICK S \in SUBSET UnfixedAtoms :
        assignment' = [v \in Atoms |-> IF v \in S THEN NegateTVal(assignment[v])
                                                 ELSE assignment[v]]
  BY DEF StartTrial
<1>3. assignment' \in [Atoms -> TVal]
  <2>1. \A v \in Atoms : (IF v \in S THEN NegateTVal(assignment[v]) ELSE assignment[v]) \in TVal
    BY <1>1, NegateFree DEF UnfixedAtoms
  <2> QED
    BY <1>2, <2>1
<1>4. ruleAssignment' \in [Rules -> TVal]
  BY DEF StartTrial, TVal
<1>5. /\ live' \subseteq Clauses /\ unsat' = {} /\ sat' = {}
      /\ watched' = [l \in Literals |-> {}] /\ ruleWatched' = [r \in Rules |-> {}]
  BY DEF StartTrial, InitLiveClauses, ClausesOf
<1>6. TrialInv'
  BY <1>3, <1>4, <1>5 DEF TrialInv, TableInv, ListTypes, Apart, ExcusedByFalseRule,
     WatchedByTrueLit, UnsatListFalse
<1>7. InTrial' /\ UNCHANGED <<unsatSoft, other>>
  BY DEF StartTrial, InTrial
<1> QED
  BY <1>1, <1>6, <1>7 DEF MwInv, TrialInv

(* What the steps of a trial have in common.                               *)
LEMMA StaysInTrial ==
    ASSUME MwInv, TrialInv', InTrial', other' \in [Atoms -> TVal], unsatSoft' \subseteq Rules
    PROVE  MwInv'
BY DEF MwInv, TrialInv

LEMMA InTrialInv ==
    ASSUME MwInv, InTrial
    PROVE  /\ TrialInv /\ other \in [Atoms -> TVal] /\ unsatSoft \subseteq Rules
BY DEF MwInv, InTrial

LEMMA ScanKeepsMwInv ==
    ASSUME MwInv, Scan
    PROVE  MwInv'
<1>1. InTrial
  BY DEF MwInv, Scan, ScanLiveClause
<1>2. TrialInv' /\ UNCHANGED loopVars
  BY <1>1, InTrialInv, ScanKeepsTrialInv DEF Scan
<1> QED
  BY <1>1, <1>2, InTrialInv, StaysInTrial DEF loopVars, InTrial

LEMMA FlipAtomKeepsMwInv ==
    ASSUME MwInv, FlipAtom
    PROVE  MwInv'
<1>1. TrialInv /\ other \in [Atoms -> TVal] /\ unsatSoft \subseteq Rules
  BY InTrialInv DEF FlipAtom, MayFlip, Ready, InTrial
<1>2. PICK c \in unsat : \E v \in AtomChoices(c) : FlipVariable(v)
  BY DEF FlipAtom
<1>3. PICK v \in AtomChoices(c) : FlipVariable(v)
  BY <1>2
<1>4. v \in Atoms
  BY DEF AtomChoices, UnfixedVarsOf, GreedyVarsOf, UnfixedAtoms
<1>5. TrialInv'
  BY <1>1, <1>3, <1>4, FlipKeepsTrialInv
<1> QED
  BY <1>1, <1>5, StaysInTrial DEF FlipAtom, InTrial

(* A rule that is switched off excuses clauses, and those it has excused   *)
(* so far it still does.                                                   *)
LEMMA RuleToUnsatKeepsMwInv ==
    ASSUME MwInv, FlipRuleToUnsat
    PROVE  MwInv'
<1>1. /\ TrialInv /\ other \in [Atoms -> TVal] /\ unsatSoft \subseteq Rules
      /\ live = {}
  BY InTrialInv DEF FlipRuleToUnsat, MayFlip, Ready, InTrial
<1> USE DEF TrialInv, TableInv
<1>2. PICK c \in unsat :
        /\ ruleAssignment' = [ruleAssignment EXCEPT ![RuleOf[c]] = "v_false"]
        /\ unsatSoft' = unsatSoft \cup {RuleOf[c]}
  BY DEF FlipRuleToUnsat
<1>3. /\ live' = unsat /\ unsat' = {}
      /\ UNCHANGED <<assignment, sat, watched, ruleWatched, other>>
  BY DEF FlipRuleToUnsat
<1>4. RuleOf[c] \in Rules
  BY <1>1, WalkSatAssumption DEF ListTypes
<1>5. /\ ruleAssignment' \in [Rules -> TVal]
      /\ \A r \in Rules : AssignedFalse(ruleAssignment[r]) => AssignedFalse(ruleAssignment'[r])
  BY <1>1, <1>2, <1>4 DEF ListTypes, TVal, AssignedFalse
<1>6. ListTypes'
  BY <1>1, <1>3, <1>5 DEF ListTypes
<1>7. Apart'
  BY <1>1, <1>3 DEF Apart
<1>8. ExcusedByFalseRule' /\ WatchedByTrueLit' /\ UnsatListFalse'
  BY <1>1, <1>3, <1>5 DEF ExcusedByFalseRule, WatchedByTrueLit, UnsatListFalse
<1> QED
  BY <1>1, <1>2, <1>3, <1>4, <1>6, <1>7, <1>8, StaysInTrial DEF FlipRuleToUnsat, InTrial

(* A rule that is switched on gives back every clause it excused.          *)
LEMMA RuleToSatKeepsMwInv ==
    ASSUME MwInv, FlipRuleToSat
    PROVE  MwInv'
<1>1. /\ TrialInv /\ other \in [Atoms -> TVal] /\ unsatSoft \subseteq Rules
      /\ live = {}
  BY InTrialInv DEF FlipRuleToSat, MayFlip, Ready, InTrial
<1> USE DEF TrialInv, TableInv
<1>2. PICK r \in unsatSoft :
        /\ ruleAssignment' = [ruleAssignment EXCEPT ![r] = "v_true"]
        /\ unsatSoft' = unsatSoft \ {r}
        /\ live' = ruleWatched[r]
        /\ ruleWatched' = [ruleWatched EXCEPT ![r] = {}]
  BY DEF FlipRuleToSat
<1>3. UNCHANGED <<assignment, unsat, sat, watched, other>>
  BY DEF FlipRuleToSat
<1>4. /\ r \in Rules
      /\ ruleWatched'[r] = {}
      /\ \A q \in Rules : q # r => ruleWatched'[q] = ruleWatched[q]
      /\ ruleAssignment' \in [Rules -> TVal]
      /\ \A q \in Rules : q # r => ruleAssignment'[q] = ruleAssignment[q]
  BY <1>1, <1>2 DEF ListTypes, TVal
<1>5. ListTypes'
  BY <1>1, <1>2, <1>3, <1>4 DEF ListTypes
<1>6. Apart'
  BY <1>1, <1>2, <1>3, <1>4 DEF Apart
<1>7. ExcusedByFalseRule'
  BY <1>1, <1>4 DEF ExcusedByFalseRule
<1>8. WatchedByTrueLit' /\ UnsatListFalse'
  BY <1>1, <1>3 DEF WatchedByTrueLit, UnsatListFalse
<1> QED
  BY <1>1, <1>2, <1>3, <1>5, <1>6, <1>7, <1>8, StaysInTrial DEF FlipRuleToSat, InTrial

(* Steps that leave the lists and the values alone.                        *)
LEMMA LoopKeepsMwInv ==
    ASSUME MwInv, UNCHANGED <<walkVars, unsatSoft>>, other' \in {other, assignment},
           pc' = "done" <=> pc = "done",
           InTrial' \/ live = {}
    PROVE  MwInv'
<1>1. UNCHANGED <<assignment, ruleAssignment, live, unsat, sat, watched, ruleWatched>>
  BY DEF walkVars, lists
<1> QED
  BY <1>1, SameLists DEF MwInv, TableInv, ListTypes

(* restore_assignment_array: the lists are those of the assignment that is *)
(* put away.                                                               *)
LEMMA FinishKeepsMwInv ==
    ASSUME MwInv, Finish
    PROVE  MwInv'
<1>1. /\ assignment' = other /\ other' = assignment /\ pc = "trial" /\ pc' = "done"
      /\ UNCHANGED <<ruleAssignment, live, unsat, sat, watched, ruleWatched, unsatSoft>>
  BY DEF Finish, lists
<1> QED
  BY <1>1 DEF MwInv, TrialInv, TableInv, ListTypes, Apart, ExcusedByFalseRule, InTrial

LEMMA NextMwInv ==
    ASSUME MwInv, [Next]_vars
    PROVE  MwInv'
<1>1. CASE FoundAll \/ EndTrial \/ KeepBest
  BY <1>1, LoopKeepsMwInv DEF FoundAll, EndTrial, KeepBest, Ready, InTrial
<1>2. CASE Tick \/ UNCHANGED vars
  <2>1. UNCHANGED <<walkVars, pc, unsatSoft, other>>
    BY <1>2 DEF Tick, vars, loopVars
  <2>2. InTrial' \/ live = {}
    BY <2>1 DEF MwInv, InTrial
  <2> QED
    BY <2>1, <2>2, LoopKeepsMwInv
<1> QED
  BY <1>1, <1>2, StartKeepsMwInv, ScanKeepsMwInv, FlipAtomKeepsMwInv, RuleToUnsatKeepsMwInv,
     RuleToSatKeepsMwInv, FinishKeepsMwInv DEF Next, MwStep

(* The invariant of a weighted search.                                     *)
THEOREM MwInvariance == Spec => []MwInv
BY InitMwInv, NextMwInv, PTL DEF Spec

-----------------------------------------------------------------------------
(* The properties.                                                         *)

(* The single link of a clause is enough for a weighted search too, in     *)
(* which a clause moves to the list of its rule and back (clause_list.c).  *)
THEOREM MwListsDisjoint == Spec => []OneListPerClause
<1>1. MwInv => OneListPerClause
  BY ApartIsOneList DEF MwInv, TableInv
<1> QED
  BY <1>1, MwInvariance, PTL

(* Until the backup is restored, watched clauses are watched by a true     *)
(* literal and unsat ones are false, in the middle of a scan and after     *)
(* rules were switched off and on (valid_watched_lit,                      *)
(* valid_rule_inst_table).                                                 *)
THEOREM MwListsMatch == Spec => []ListsMatch
<1>1. MwInv => ListsMatch
  BY DEF MwInv, TrialInv, ListsMatch
<1> QED
  BY <1>1, MwInvariance, PTL

(* No clause stays excused by a rule that is switched on, or by one the    *)
(* random start of a trial sets true (rule_watched in mw_sat).             *)
THEOREM MwExcused == Spec => []ExcusedByFalseRule
<1>1. MwInv => ExcusedByFalseRule
  BY DEF MwInv, TableInv
<1> QED
  BY <1>1, MwInvariance, PTL

-----------------------------------------------------------------------------
(* What is lost, and what is fixed.                                        *)

Searching == pc \in {"flip", "keep", "solved"}

(* A clause on the sat list was satisfied for good, or its rule was given  *)
(* up for it.                                                              *)
Settled == \A c \in sat : FixedSat(c) \/ AllFixedFalse(c)

OnList(c) ==
    \/ c \in live \/ c \in unsat \/ c \in sat
    \/ \E l \in Literals : c \in watched[l]
    \/ \E r \in Rules : c \in ruleWatched[r]

FalseForGood(c) == RuleOf[c] \in Hard /\ AllFixedFalse(c)

NothingLost == \A c \in Clauses : OnList(c) \/ FalseForGood(c)

(* Only a hard rule is fixed true, a rule that is switched off is known to *)
(* be, and one that was given up has a clause to show for it.              *)
RuleValues ==
    \A r \in Rules :
        /\ ruleAssignment[r] \in {"v_up_true", "v_true", "v_false", "v_up_false"}
        /\ ruleAssignment[r] = "v_up_true" => r \in Hard
        /\ ruleAssignment[r] = "v_false" => r \in unsatSoft
        /\ ruleAssignment[r] = "v_up_false" =>
              \E c \in sat : RuleOf[c] = r /\ AllFixedFalse(c)

(* Unit propagation follows the hard rules as long as the lists are in     *)
(* order.                                                                  *)
Entailed == trial = 0 /\ ListsInOrder => \A m \in HardModels : FixedAsIn(m)

SearchOrder == Settled /\ NothingLost /\ RuleValues /\ Entailed

OrderInv ==
    /\ trial \in Nat
    /\ Searching => SearchOrder
    /\ pc = "solved" => unsat = {} /\ unsatSoft = {}
    /\ pc = "trial" /\ trial = 0 => assignment \in [Atoms -> FreeTVal]

-----------------------------------------------------------------------------
(* What is fixed stays so during a call.                                   *)
FixedStay ==
    /\ assignment' \in [Atoms -> TVal]
    /\ \A v \in Atoms : FixedTVal(assignment[v]) => assignment'[v] = assignment[v]

LEMMA StaysFixed ==
    ASSUME assignment \in [Atoms -> TVal], FixedStay, NEW c \in Clauses
    PROVE  /\ FixedSat(c) => FixedSat(c)'
           /\ AllFixedFalse(c) => AllFixedFalse(c)' /\ ~FixedSat(c)'
<1>1. Lits[c] \subseteq Literals
  BY WalkSatAssumption
<1>2. ASSUME NEW l \in Literals, FixedTVal(assignment[VarOf(l)])
      PROVE  /\ AssignedFixedTrueLit(assignment', l) <=> AssignedFixedTrueLit(assignment, l)
             /\ AssignedFixedFalseLit(assignment', l) <=> AssignedFixedFalseLit(assignment, l)
  <2>1. assignment'[VarOf(l)] = assignment[VarOf(l)]
    BY <1>2, LitValues DEF FixedStay
  <2> QED
    BY <2>1, SameAtomSameValue
<1>3. \A l \in Literals :
         /\ AssignedFixedTrueLit(assignment, l) => FixedTVal(assignment[VarOf(l)])
         /\ AssignedFixedFalseLit(assignment, l) =>
               FixedTVal(assignment[VarOf(l)]) /\ ~AssignedFixedTrueLit(assignment, l)
  BY LitValues
<1>4. FixedSat(c) => FixedSat(c)'
  BY <1>1, <1>2, <1>3 DEF FixedSat
<1>5. AllFixedFalse(c) => AllFixedFalse(c)' /\ ~FixedSat(c)'
  BY <1>1, <1>2, <1>3 DEF AllFixedFalse, OpenLits, FixedSat
<1> QED
  BY <1>4, <1>5

LEMMA StaysAsIn ==
    ASSUME assignment \in [Atoms -> TVal], FixedStay, NEW m,
           \A v \in Atoms : FixedTVal(assignment'[v]) => FixedTVal(assignment[v]),
           FixedAsIn(m)
    PROVE  FixedAsIn(m)'
BY DEF FixedStay, FixedAsIn

(* A hard clause has a true literal in a model of the hard rules, and so   *)
(* one that is not fixed false.                                            *)
LEMMA HardNotFalse ==
    ASSUME assignment \in [Atoms -> TVal], NEW m \in HardModels, FixedAsIn(m),
           NEW c \in Clauses, RuleOf[c] \in Hard
    PROVE  \E l \in Lits[c] : AssignedTrueLit(m, l) /\ ~AssignedFixedFalseLit(assignment, l)
<1>1. Lits[c] \subseteq Literals /\ m \in [Atoms -> TVal]
  BY WalkSatAssumption DEF HardModels, FreeTVal, TVal
<1>2. PICK l \in Lits[c] : AssignedTrueLit(m, l)
  BY DEF HardModels, SatClause
<1>3. ~AssignedFixedFalseLit(assignment, l)
  <2> SUFFICES ASSUME AssignedFixedFalseLit(assignment, l) PROVE FALSE
    OBVIOUS
  <2>1. VarOf(l) \in Atoms /\ FixedTVal(assignment[VarOf(l)])
    BY <1>1, LitValues
  <2>2. AssignedTrue(assignment[VarOf(l)]) <=> AssignedTrue(m[VarOf(l)])
    BY <2>1 DEF FixedAsIn
  <2>3. assignment[VarOf(l)] \in TVal /\ m[VarOf(l)] \in TVal
    BY <1>1, <2>1
  <2> QED
    BY <1>2, <2>2, <2>3 DEF TVal, AssignedFixedFalseLit, AssignedTrueLit, AssignedTrue,
       AssignedFalse, AssignedFixedTrue, AssignedFixedFalse
<1> QED
  BY <1>2, <1>3

(* Once the lists are out of order they stay so during a trial: what is on *)
(* the sat list stays there, and a rule that was given up is switched on   *)
(* with its clause there.                                                  *)
LEMMA OutOfOrder ==
    ASSUME assignment \in [Atoms -> TVal], FixedStay, sat \subseteq Clauses, Settled, RuleValues,
           sat \subseteq sat',
           \A c \in sat : c \in GivenUp' => c \in GivenUp,
           \A r \in Rules : ruleAssignment[r] = "v_up_false" =>
               ruleAssignment'[r] \in {"v_up_false", "v_false", "v_true"},
           ListsInOrder'
    PROVE  ListsInOrder
<1>1. \A c \in sat : FixedSat(c) \/ c \in GivenUp
  <2> SUFFICES ASSUME NEW c \in sat, c \notin GivenUp PROVE FixedSat(c)
    OBVIOUS
  <2>1. FixedSat(c)'
    BY DEF ListsInOrder
  <2> QED
    BY <2>1, StaysFixed DEF Settled
<1>2. GivenUp \subseteq GivenUp'
  <2> SUFFICES ASSUME NEW d \in GivenUp PROVE d \in GivenUp'
    OBVIOUS
  <2>1. d \in Clauses /\ RuleOf[d] \in Rules /\ ruleAssignment[RuleOf[d]] = "v_up_false"
    BY WalkSatAssumption DEF GivenUp, RuleValues, AssignedFixedFalse
  <2>2. PICK c \in sat : RuleOf[c] = RuleOf[d] /\ AllFixedFalse(c)
    BY <2>1 DEF RuleValues
  <2>3. c \in GivenUp'
    BY <2>2, StaysFixed DEF ListsInOrder
  <2> QED
    BY <2>1, <2>2, <2>3 DEF GivenUp
<1>3. HardModels' = HardModels
  BY DEF HardModels
<1> QED
  BY <1>1, <1>2, <1>3 DEF ListsInOrder

-----------------------------------------------------------------------------
(* Steps that leave the values of the rules alone.                         *)
LEMMA SameRulesOrder ==
    ASSUME assignment \in [Atoms -> TVal], sat \subseteq Clauses, SearchOrder, FixedStay,
           sat \subseteq sat', \A c \in sat' \ sat : FixedSat(c)',
           UNCHANGED <<ruleAssignment, trial, unsatSoft>>,
           \A c \in Clauses : OnList(c) => OnList(c)' \/ FalseForGood(c)',
           trial = 0 /\ ListsInOrder =>
               \A m \in HardModels : FixedAsIn(m) => FixedAsIn(m)'
    PROVE  SearchOrder'
<1> USE DEF SearchOrder
<1>1. Settled'
  BY StaysFixed DEF Settled
<1>2. NothingLost'
  <2>1. \A c \in Clauses : FalseForGood(c) => FalseForGood(c)'
    BY StaysFixed DEF FalseForGood
  <2> QED
    BY <2>1 DEF NothingLost
<1>3. RuleValues'
  <2> SUFFICES ASSUME NEW r \in Rules, ruleAssignment'[r] = "v_up_false"
               PROVE  \E c \in sat' : RuleOf[c] = r /\ AllFixedFalse(c)'
    BY DEF RuleValues
  <2>1. PICK c \in sat : RuleOf[c] = r /\ AllFixedFalse(c)
    BY DEF RuleValues
  <2> QED
    BY <2>1, StaysFixed
<1>4. Entailed'
  <2> SUFFICES ASSUME trial = 0, ListsInOrder' PROVE \A m \in HardModels : FixedAsIn(m)'
    BY DEF Entailed, HardModels
  <2>1. ListsInOrder
    BY OutOfOrder DEF GivenUp, RuleValues
  <2> QED
    BY <2>1 DEF Entailed
<1> QED
  BY <1>1, <1>2, <1>3, <1>4

(* The same for steps that fix nothing.                                    *)
LEMMA NothingFixedOrder ==
    ASSUME assignment \in [Atoms -> TVal], sat \subseteq Clauses, SearchOrder, FixedStay,
           \A v \in Atoms : FixedTVal(assignment'[v]) => FixedTVal(assignment[v]),
           sat \subseteq sat', \A c \in sat' \ sat : FixedSat(c)',
           UNCHANGED <<ruleAssignment, trial, unsatSoft>>,
           \A c \in Clauses : OnList(c) => OnList(c)' \/ FalseForGood(c)'
    PROVE  SearchOrder'
BY StaysAsIn, SameRulesOrder

LEMMA LinkKeepsListed ==
    ASSUME ListTypes, NEW l \in Literals, NEW popped, LinkPropagate(l, popped),
           sat' = sat \cup popped, NEW c \in Clauses, OnList(c)
    PROVE  OnList(c)'
<1>1. /\ live' = (live \ popped) \cup watched[l] \cup unsat
      /\ ruleWatched' = ruleWatched
      /\ \A k \in Literals : k # l => watched'[k] = watched[k]
  BY DEF LinkPropagate, ListTypes
<1> QED
  BY <1>1 DEF OnList

(* get_fixable_literal and fix_lit_true: a unit is the only literal of its *)
(* clause that can be true.  A clause that is a unit under a rule that was *)
(* given up is the second one of the rule to be so.                        *)
LEMMA UnitOrder ==
    ASSUME TrialInv, SearchOrder, NEW c \in live, UnitPropagate(c),
           UNCHANGED <<trial, unsatSoft>>
    PROVE  SearchOrder'
<1>1. PICK l \in Lits[c] : UnitLit(c, l) /\ FixLitTrue(l, c)
  BY DEF UnitPropagate
<1>2. /\ l \in Literals /\ c \in Clauses /\ assignment \in [Atoms -> TVal]
      /\ sat \subseteq Clauses /\ c \notin sat
      /\ assignment' = [assignment EXCEPT ![VarOf(l)] = UpTrueValueOf(l)]
      /\ sat' = sat \cup {c} /\ UNCHANGED ruleAssignment
  BY <1>1, PoppedClause DEF UnitPropagate, FixLitTrue, TrialInv, TableInv, ListTypes
<1>3. ~FixedTVal(assignment[VarOf(l)])
  BY <1>1, <1>2, LitValues DEF UnitPropagate, UnitLit, OpenLits, FixedSat
<1>4. FixedStay
  BY <1>2, <1>3, FixedValue DEF FixedStay
<1>5. FixedSat(c)'
  BY <1>1, <1>2, FixedValue DEF FixedSat
<1>6. \A d \in Clauses : OnList(d) => OnList(d)'
  <2>1. CASE AssignedTrueLit(assignment, l)
    BY <1>1, <1>2, <2>1 DEF FixLitTrue, OnList
  <2>2. CASE ~AssignedTrueLit(assignment, l)
    BY <1>1, <1>2, <2>2, NotLit, LinkKeepsListed DEF FixLitTrue, TrialInv, TableInv
  <2> QED
    BY <2>1, <2>2
<1>7. ASSUME ListsInOrder, NEW m \in HardModels, FixedAsIn(m)
      PROVE  FixedAsIn(m)'
  <2>1. RuleOf[c] \in Hard
    <3> SUFFICES ASSUME RuleOf[c] \notin Hard PROVE FALSE
      OBVIOUS
    <3>1. RuleOf[c] \in Rules /\ ruleAssignment[RuleOf[c]] = "v_up_false"
      BY <1>1, <1>2, PoppedClause DEF UnitLit, RuleFixed, FixedTVal, SearchOrder, RuleValues
    <3>2. PICK d \in sat : RuleOf[d] = RuleOf[c]
      BY <3>1 DEF SearchOrder, RuleValues
    <3>3. c \in GivenUp /\ d \in GivenUp
      BY <1>2, <3>1, <3>2 DEF GivenUp, AssignedFixedFalse
    <3> QED
      BY <1>2, <1>7, <3>2, <3>3 DEF ListsInOrder
  <2>2. AssignedTrueLit(m, l)
    BY <1>1, <1>2, <1>7, <2>1, HardNotFalse DEF UnitLit, OpenLits
  <2>3. m[VarOf(l)] \in FreeTVal
    BY <1>2, LitValues DEF HardModels
  <2>4. AssignedTrue(assignment'[VarOf(l)]) <=> AssignedTrue(m[VarOf(l)])
    BY <1>2, <2>2, <2>3, FixedValue DEF UpTrueValueOf, AssignedTrueLit, AssignedTrue,
       AssignedFalse, FreeTVal
  <2>5. \A v \in Atoms : v # VarOf(l) => assignment'[v] = assignment[v]
    BY <1>2, FixedValue
  <2> QED
    BY <1>7, <2>4, <2>5 DEF FixedAsIn
<1> QED
  BY <1>2, <1>4, <1>5, <1>6, <1>7, SameRulesOrder

(* A rule is given up: the clause is the first of the rule on the sat list *)
(* as long as the lists are in order.                                      *)
LEMMA RuleFalseOrder ==
    ASSUME TrialInv, SearchOrder, NEW c \in live, FixRuleFalse(c),
           UNCHANGED <<trial, unsatSoft>>
    PROVE  SearchOrder'
<1> USE DEF SearchOrder
<1>1. /\ c \in Clauses /\ RuleOf[c] \in Rules /\ c \notin sat /\ sat \subseteq Clauses
      /\ assignment \in [Atoms -> TVal] /\ ruleAssignment \in [Rules -> TVal]
  BY PoppedClause DEF TrialInv, TableInv, ListTypes
<1>2. /\ AllFixedFalse(c) /\ sat' = sat \cup {c} /\ live' = live \ {c}
      /\ ruleAssignment' = [ruleAssignment EXCEPT ![RuleOf[c]] = "v_up_false"]
      /\ UNCHANGED <<assignment, unsat, watched, ruleWatched>>
  BY DEF FixRuleFalse
<1>3. /\ ruleAssignment'[RuleOf[c]] = "v_up_false"
      /\ \A r \in Rules : r # RuleOf[c] => ruleAssignment'[r] = ruleAssignment[r]
  BY <1>1, <1>2
<1>4. \A d : (AllFixedFalse(d)' <=> AllFixedFalse(d)) /\ (FixedSat(d)' <=> FixedSat(d))
  BY <1>2 DEF AllFixedFalse, OpenLits, FixedSat
<1>5. Settled'
  BY <1>2, <1>4 DEF Settled
<1>6. NothingLost'
  BY <1>2, <1>4 DEF NothingLost, OnList, FalseForGood
<1>7. RuleValues'
  BY <1>2, <1>3, <1>4 DEF RuleValues
<1>8. Entailed'
  <2> SUFFICES ASSUME trial = 0, ListsInOrder' PROVE \A m \in HardModels : FixedAsIn(m)
    BY <1>2 DEF Entailed, HardModels, FixedAsIn
  <2>1. FixedStay
    BY <1>1, <1>2 DEF FixedStay
  <2>2. ASSUME NEW d \in sat, d \in GivenUp' PROVE d \in GivenUp
    <3>1. c \in GivenUp'
      BY <1>1, <1>3 DEF GivenUp, AssignedFixedFalse
    <3>2. RuleOf[d] # RuleOf[c]
      BY <1>1, <2>2, <3>1 DEF ListsInOrder
    <3>3. RuleOf[d] \in Rules
      BY <1>1, WalkSatAssumption
    <3> QED
      BY <1>3, <2>2, <3>2, <3>3 DEF GivenUp
  <2>3. ListsInOrder
    BY <1>1, <1>2, <1>3, <2>1, <2>2, OutOfOrder
  <2> QED
    BY <2>3 DEF Entailed
<1> QED
  BY <1>5, <1>6, <1>7, <1>8

(* The scan drops a clause only when it is false for good, and then its    *)
(* rule is fixed true, so that it is hard.                                 *)
LEMMA ScanOrder ==
    ASSUME TrialInv, SearchOrder, ScanLiveClause, UNCHANGED <<trial, unsatSoft>>
    PROVE  SearchOrder'
<1>1. PICK c \in live :
        \/ InsertFixedSat(c) \/ DropFixedUnsat(c) \/ FixRuleFalse(c) \/ UnitPropagate(c)
        \/ WatchTrueLit(c) \/ WatchRule(c) \/ ListUnsat(c)
  BY DEF ScanLiveClause
<1>2. /\ c \in Clauses /\ Lits[c] \subseteq Literals /\ RuleOf[c] \in Rules
      /\ assignment \in [Atoms -> TVal] /\ sat \subseteq Clauses
      /\ watched \in [Literals -> SUBSET Clauses] /\ ruleWatched \in [Rules -> SUBSET Clauses]
  BY PoppedClause DEF TrialInv, TableInv, ListTypes
<1>3. CASE InsertFixedSat(c) \/ DropFixedUnsat(c) \/ WatchTrueLit(c) \/ WatchRule(c)
           \/ ListUnsat(c)
  <2>1. /\ UNCHANGED <<assignment, ruleAssignment>> /\ live' = live \ {c}
        /\ sat' \in {sat, sat \cup {c}} /\ (c \in sat' \ sat => FixedSat(c))
    BY <1>3, PoppedClause DEF InsertFixedSat, DropFixedUnsat, WatchTrueLit, WatchRule,
       ListUnsat
  <2>2. FixedStay
    BY <1>2, <2>1 DEF FixedStay
  <2>3. \A d \in sat' \ sat : FixedSat(d)'
    BY <2>1 DEF FixedSat
  <2>4. \A d \in Clauses : d # c => (OnList(d) => OnList(d)')
    <3>1. CASE InsertFixedSat(c) \/ DropFixedUnsat(c) \/ ListUnsat(c)
      BY <3>1 DEF InsertFixedSat, DropFixedUnsat, ListUnsat, OnList
    <3>2. CASE WatchTrueLit(c)
      <4>1. PICK l \in Lits[c] : watched' = [watched EXCEPT ![l] = @ \cup {c}]
        BY <3>2 DEF WatchTrueLit
      <4>2. \A k \in Literals : watched[k] \subseteq watched'[k]
        BY <1>2, <4>1
      <4> QED
        BY <3>2, <4>2 DEF WatchTrueLit, OnList
    <3>3. CASE WatchRule(c)
      <4>1. \A r \in Rules : ruleWatched[r] \subseteq ruleWatched'[r]
        BY <1>2, <3>3 DEF WatchRule
      <4> QED
        BY <3>3, <4>1 DEF WatchRule, OnList
    <3> QED
      BY <1>3, <3>1, <3>2, <3>3
  <2>5. OnList(c)' \/ FalseForGood(c)'
    <3>1. CASE InsertFixedSat(c) \/ ListUnsat(c)
      BY <3>1 DEF InsertFixedSat, ListUnsat, OnList
    <3>2. CASE DropFixedUnsat(c)
      <4>1. AllFixedFalse(c)' /\ ruleAssignment[RuleOf[c]] \notin {"v_true", "v_false", "v_up_false"}
        BY <2>1, <3>2 DEF DropFixedUnsat, FixedUnsat, AllFixedFalse, OpenLits,
           AssignedFixedTrue
      <4>2. RuleOf[c] \in Hard
        BY <1>2, <4>1 DEF SearchOrder, RuleValues
      <4> QED
        BY <4>1, <4>2 DEF FalseForGood
    <3>3. CASE WatchTrueLit(c)
      <4>1. PICK l \in Lits[c] : watched' = [watched EXCEPT ![l] = @ \cup {c}]
        BY <3>3 DEF WatchTrueLit
      <4>2. c \in watched'[l] /\ l \in Literals
        BY <1>2, <4>1
      <4> QED
        BY <4>2 DEF OnList
    <3>4. CASE WatchRule(c)
      <4>1. c \in ruleWatched'[RuleOf[c]]
        BY <1>2, <3>4 DEF WatchRule
      <4> QED
        BY <1>2, <4>1 DEF OnList
    <3> QED
      BY <1>3, <3>1, <3>2, <3>3, <3>4
  <2>6. \A v \in Atoms : FixedTVal(assignment'[v]) => FixedTVal(assignment[v])
    BY <2>1
  <2>7. \A d \in Clauses : OnList(d) => OnList(d)' \/ FalseForGood(d)'
    BY <2>4, <2>5
  <2> QED
    BY <1>2, <2>1, <2>2, <2>3, <2>6, <2>7, NothingFixedOrder
<1> QED
  BY <1>1, <1>3, RuleFalseOrder, UnitOrder

-----------------------------------------------------------------------------
(* The actions of the loop.                                                *)

LEMMA InitOrder == Init => OrderInv
BY DEF Init, OrderInv, Searching

(* A trial starts with every clause on the live list and, in the first     *)
(* one, with nothing fixed.                                                *)
LEMMA StartOrder ==
    ASSUME MwInv, OrderInv, StartTrial
    PROVE  OrderInv'
<1>1. PICK S \in SUBSET UnfixedAtoms :
        assignment' = [v \in Atoms |-> IF v \in S THEN NegateTVal(assignment[v])
                                                 ELSE assignment[v]]
  BY DEF StartTrial
<1>2. /\ pc = "trial" /\ pc' = "flip" /\ UNCHANGED <<trial, unsatSoft>>
      /\ \A r \in Rules : ruleAssignment'[r] = IF r \in Hard THEN "v_up_true" ELSE "v_true"
      /\ sat' = {} /\ live' = Clauses
  BY WalkSatAssumption DEF StartTrial, InitLiveClauses, ClausesOf, AssignedTrue
<1>3. Settled' /\ NothingLost'
  BY <1>2 DEF Settled, NothingLost, OnList
<1>4. RuleValues'
  BY <1>2 DEF RuleValues
<1>5. Entailed'
  <2> SUFFICES ASSUME trial = 0 PROVE \A v \in Atoms : ~FixedTVal(assignment'[v])
    BY <1>2 DEF Entailed, FixedAsIn
  <2>1. assignment \in [Atoms -> FreeTVal]
    BY <1>2 DEF OrderInv
  <2>2. \A v \in Atoms : ~FixedTVal(NegateTVal(assignment[v])) /\ ~FixedTVal(assignment[v])
    BY <2>1, NegateFree DEF UnfixedTVal
  <2> QED
    BY <1>1, <2>2
<1> QED
  BY <1>2, <1>3, <1>4, <1>5 DEF OrderInv, SearchOrder

LEMMA FlipAtomOrder ==
    ASSUME TrialInv, SearchOrder, NEW v \in Atoms, FlipVariable(v),
           UNCHANGED <<trial, unsatSoft>>
    PROVE  SearchOrder'
<1>1. assignment \in [Atoms -> TVal] /\ sat \subseteq Clauses /\ ListTypes
  BY DEF TrialInv, TableInv, ListTypes
<1>2. CASE ~UnfixedTVal(assignment[v])
  <2>1. UNCHANGED <<assignment, ruleAssignment, live, unsat, sat, watched, ruleWatched>>
    BY <1>2 DEF FlipVariable, walkVars, lists
  <2> QED
    BY <1>1, <2>1, NothingFixedOrder DEF FixedStay, OnList
<1>3. CASE UnfixedTVal(assignment[v])
  <2>1. /\ assignment' = [assignment EXCEPT ![v] = NegateTVal(@)]
        /\ LinkPropagate(TrueLitOf(v), {})
        /\ UNCHANGED <<ruleAssignment, sat>>
    BY <1>3 DEF FlipVariable
  <2>2. FreeAtomsOnly /\ TrueLitOf(v) \in Literals
    BY <1>1, <1>3, <2>1, FlipFalsifies, TrueLit
  <2>3. FixedStay /\ \A u \in Atoms : FixedTVal(assignment'[u]) => FixedTVal(assignment[u])
    BY <2>2 DEF FreeAtomsOnly, FixedStay
  <2>4. sat' = sat \cup {}
    BY <2>1
  <2>5. \A c \in Clauses : OnList(c) => OnList(c)'
    BY <1>1, <2>1, <2>2, <2>4, LinkKeepsListed
  <2> QED
    BY <1>1, <2>1, <2>3, <2>5, NothingFixedOrder
<1> QED
  BY <1>2, <1>3

(* A rule r is switched off or on.  When it had been given up, its clause  *)
(* stays on the sat list and shows that the lists are out of order.        *)
LEMMA FlipRuleOrder ==
    ASSUME TrialInv, SearchOrder, NEW r \in Rules, NEW val \in {"v_false", "v_true"},
           ruleAssignment' = [ruleAssignment EXCEPT ![r] = val],
           UNCHANGED <<assignment, sat, trial>>,
           \A q \in Rules : ruleAssignment'[q] = "v_false" => q \in unsatSoft',
           \A c \in Clauses : OnList(c) => OnList(c)'
    PROVE  SearchOrder'
<1> USE DEF SearchOrder
<1>1. /\ assignment \in [Atoms -> TVal] /\ ruleAssignment \in [Rules -> TVal]
      /\ sat \subseteq Clauses
  BY DEF TrialInv, TableInv, ListTypes
<1>2. ruleAssignment'[r] = val /\ \A q \in Rules : q # r => ruleAssignment'[q] = ruleAssignment[q]
  BY <1>1
<1>3. \A d : (AllFixedFalse(d)' <=> AllFixedFalse(d)) /\ (FixedSat(d)' <=> FixedSat(d))
  BY DEF AllFixedFalse, OpenLits, FixedSat
<1>4. Settled' /\ NothingLost'
  BY <1>3 DEF Settled, NothingLost, FalseForGood
<1>5. RuleValues'
  <2> SUFFICES ASSUME NEW q \in Rules
               PROVE  /\ ruleAssignment'[q] \in {"v_up_true", "v_true", "v_false", "v_up_false"}
                      /\ ruleAssignment'[q] = "v_up_true" => q \in Hard
                      /\ ruleAssignment'[q] = "v_up_false" =>
                            \E c \in sat : RuleOf[c] = q /\ AllFixedFalse(c)
    BY <1>3 DEF RuleValues
  <2>1. CASE q = r
    BY <1>2, <2>1
  <2>2. CASE q # r
    BY <1>2, <2>2 DEF RuleValues
  <2> QED
    BY <2>1, <2>2
<1>6. Entailed'
  <2> SUFFICES ASSUME trial = 0, ListsInOrder' PROVE \A m \in HardModels : FixedAsIn(m)
    BY DEF Entailed, HardModels, FixedAsIn
  <2>1. FixedStay
    BY <1>1 DEF FixedStay
  <2>2. \A c \in sat : c \in GivenUp' => c \in GivenUp
    BY <1>1, <1>2, WalkSatAssumption DEF GivenUp, AssignedFixedFalse
  <2>3. \A q \in Rules : ruleAssignment[q] = "v_up_false" =>
           ruleAssignment'[q] \in {"v_up_false", "v_false", "v_true"}
    BY <1>2
  <2>4. ListsInOrder
    BY <1>1, <2>1, <2>2, <2>3, OutOfOrder
  <2> QED
    BY <2>4 DEF Entailed
<1> QED
  BY <1>4, <1>5, <1>6

LEMMA RuleToUnsatOrder ==
    ASSUME TrialInv, SearchOrder, FlipRuleToUnsat
    PROVE  SearchOrder'
<1>1. PICK c \in unsat :
        /\ ruleAssignment' = [ruleAssignment EXCEPT ![RuleOf[c]] = "v_false"]
        /\ unsatSoft' = unsatSoft \cup {RuleOf[c]}
  BY DEF FlipRuleToUnsat
<1>2. /\ live = {} /\ live' = unsat
      /\ UNCHANGED <<assignment, sat, watched, ruleWatched, trial>>
  BY DEF FlipRuleToUnsat, MayFlip, Ready
<1>3. RuleOf[c] \in Rules /\ ruleAssignment \in [Rules -> TVal]
  BY WalkSatAssumption DEF TrialInv, TableInv, ListTypes
<1>4. \A q \in Rules : ruleAssignment'[q] = "v_false" => q \in unsatSoft'
  BY <1>1, <1>3 DEF SearchOrder, RuleValues
<1>5. \A d \in Clauses : OnList(d) => OnList(d)'
  BY <1>2 DEF OnList
<1> QED
  BY <1>1, <1>2, <1>3, <1>4, <1>5, FlipRuleOrder

LEMMA RuleToSatOrder ==
    ASSUME TrialInv, SearchOrder, unsatSoft \subseteq Rules, FlipRuleToSat
    PROVE  SearchOrder'
<1>1. PICK r \in unsatSoft :
        /\ ruleAssignment' = [ruleAssignment EXCEPT ![r] = "v_true"]
        /\ unsatSoft' = unsatSoft \ {r}
        /\ live' = ruleWatched[r]
        /\ ruleWatched' = [ruleWatched EXCEPT ![r] = {}]
  BY DEF FlipRuleToSat
<1>2. live = {} /\ UNCHANGED <<assignment, unsat, sat, watched, trial>>
  BY DEF FlipRuleToSat, MayFlip, Ready
<1>3. /\ r \in Rules /\ ruleAssignment \in [Rules -> TVal]
      /\ ruleWatched \in [Rules -> SUBSET Clauses]
  BY DEF TrialInv, TableInv, ListTypes
<1>4. \A q \in Rules : ruleAssignment'[q] = "v_false" => q \in unsatSoft'
  BY <1>1, <1>3 DEF SearchOrder, RuleValues
<1>5. \A q \in Rules : q # r => ruleWatched'[q] = ruleWatched[q]
  BY <1>1, <1>3
<1>6. \A d \in Clauses : OnList(d) => OnList(d)'
  BY <1>1, <1>2, <1>5 DEF OnList
<1> QED
  BY <1>1, <1>2, <1>3, <1>4, <1>6, FlipRuleOrder

(* Steps that leave lists, values and counters alone.                      *)
LEMMA SameOrder ==
    ASSUME UNCHANGED <<assignment, ruleAssignment, live, unsat, sat, watched, ruleWatched,
                       trial, unsatSoft>>,
           SearchOrder
    PROVE  SearchOrder'
BY DEF SearchOrder, Settled, NothingLost, RuleValues, Entailed, OnList, FalseForGood,
   ListsInOrder, GivenUp, FixedAsIn, HardModels, FixedSat, AllFixedFalse, OpenLits

LEMMA NextOrder ==
    ASSUME MwInv, OrderInv, [Next]_vars
    PROVE  OrderInv'
<1>1. InTrial => TrialInv /\ SearchOrder /\ unsatSoft \subseteq Rules
  BY InTrialInv DEF InTrial, OrderInv, Searching
<1>2. ASSUME InTrial, InTrial', SearchOrder', UNCHANGED trial
      PROVE  OrderInv'
  BY <1>2 DEF OrderInv, InTrial
<1>3. CASE Scan
  <2>1. InTrial
    BY <1>3 DEF MwInv, Scan, ScanLiveClause
  <2> QED
    BY <1>1, <1>2, <1>3, <2>1, ScanOrder DEF Scan, loopVars, InTrial
<1>4. CASE FlipAtom
  <2>1. InTrial /\ InTrial' /\ UNCHANGED <<trial, unsatSoft>>
    BY <1>4 DEF FlipAtom, MayFlip, Ready, InTrial
  <2>2. PICK c \in unsat : \E v \in AtomChoices(c) : FlipVariable(v)
    BY <1>4 DEF FlipAtom
  <2>3. PICK v \in AtomChoices(c) : FlipVariable(v)
    BY <2>2
  <2>4. v \in Atoms
    BY DEF AtomChoices, UnfixedVarsOf, GreedyVarsOf, UnfixedAtoms
  <2> QED
    BY <1>1, <1>2, <2>1, <2>3, <2>4, FlipAtomOrder
<1>5. CASE FlipRuleToUnsat
  BY <1>1, <1>2, <1>5, RuleToUnsatOrder DEF FlipRuleToUnsat, MayFlip, Ready, InTrial
<1>6. CASE FlipRuleToSat
  BY <1>1, <1>2, <1>6, RuleToSatOrder DEF FlipRuleToSat, MayFlip, Ready, InTrial
<1>7. CASE EndTrial
  BY <1>7 DEF EndTrial, OrderInv, Searching
<1>8. CASE Finish
  BY <1>8 DEF Finish, OrderInv, Searching
<1>9. CASE FoundAll \/ KeepBest \/ Tick \/ UNCHANGED vars
  <2>1. UNCHANGED <<assignment, ruleAssignment, live, unsat, sat, watched, ruleWatched,
                    trial, unsatSoft>>
    BY <1>9 DEF FoundAll, KeepBest, Tick, vars, loopVars, walkVars, lists
  <2>2. CASE FoundAll \/ KeepBest
    <3>1. InTrial /\ (Searching => SearchOrder)
      BY <2>2 DEF FoundAll, KeepBest, Ready, InTrial, OrderInv
    <3>2. SearchOrder'
      BY <1>1, <2>1, <3>1, SameOrder
    <3>3. pc' = "solved" => unsat' = {} /\ unsatSoft' = {}
      BY <2>1, <2>2 DEF FoundAll, KeepBest, Solved
    <3> QED
      BY <2>1, <2>2, <3>2, <3>3 DEF FoundAll, KeepBest, OrderInv
  <2>3. CASE Tick \/ UNCHANGED vars
    <3>1. UNCHANGED pc
      BY <2>3 DEF Tick, vars, loopVars
    <3>2. Searching => SearchOrder'
      BY <2>1, SameOrder DEF OrderInv
    <3> QED
      BY <2>1, <3>1, <3>2 DEF OrderInv, Searching
  <2> QED
    BY <1>9, <2>2, <2>3
<1> QED
  BY <1>3, <1>4, <1>5, <1>6, <1>7, <1>8, <1>9, StartOrder DEF Next, MwStep

LEMMA InvAlways == Spec => [](MwInv /\ OrderInv)
BY InitMwInv, InitOrder, NextMwInv, NextOrder, PTL DEF Spec

-----------------------------------------------------------------------------
LEMMA OnListListed ==
    ASSUME NEW c
    PROVE  OnList(c) <=> c \in Listed
BY DEF OnList, Listed, WatchedClauses, RuleWatchedClauses

(* A scan loses no clause but those of hard rules that are fixed false     *)
(* (insert_live_clause), whatever is switched off and on, and none as long *)
(* as no rule with several fixed clauses was given up and none that was    *)
(* given up was switched on again.                                         *)
THEOREM MwListsComplete == Spec => []NoClauseLost
<1>1. ASSUME MwInv, OrderInv PROVE NoClauseLost
  <2> SUFFICES ASSUME pc \in {"flip", "keep"}
               PROVE  /\ \A c \in Clauses \ Listed : RuleOf[c] \in Hard /\ AllFixedFalse(c)
                      /\ trial = 0 /\ ListsInOrder => Clauses \subseteq Listed
    BY DEF NoClauseLost
  <2>1. SearchOrder /\ assignment \in [Atoms -> TVal]
    BY <1>1 DEF OrderInv, Searching, MwInv, TableInv, ListTypes
  <2>2. \A c \in Clauses \ Listed : RuleOf[c] \in Hard /\ AllFixedFalse(c)
    BY <2>1, OnListListed DEF SearchOrder, NothingLost, FalseForGood
  <2>3. ASSUME trial = 0, ListsInOrder PROVE Clauses \subseteq Listed
    <3>1. PICK m \in HardModels : FixedAsIn(m)
      BY <2>1, <2>3 DEF SearchOrder, Entailed, ListsInOrder
    <3>2. \A c \in Clauses : RuleOf[c] \in Hard => ~AllFixedFalse(c)
      BY <2>1, <3>1, HardNotFalse DEF AllFixedFalse, OpenLits
    <3> QED
      BY <2>2, <3>2
  <2> QED
    BY <2>2, <2>3
<1> QED
  BY <1>1, InvAlways, PTL

(* The return in the middle of a trial (unsat_clauses and unsat_soft_rules *)
(* are empty) leaves a model of all rules but those that were given up.    *)
THEOREM EarlyReturnSatisfies == Spec => []SolvedSatisfiesAll
<1>1. ASSUME MwInv, OrderInv PROVE SolvedSatisfiesAll
  <2> SUFFICES ASSUME pc = "solved", Consistent, SatListFixed, NEW c \in Clauses \ GivenUp
               PROVE  SatClause(assignment, Lits[c])
    BY DEF SolvedSatisfiesAll
  <2>1. /\ SearchOrder /\ TrialInv /\ live = {} /\ unsat = {} /\ unsatSoft = {}
        /\ assignment \in [Atoms -> TVal] /\ Lits[c] \subseteq Literals /\ RuleOf[c] \in Rules
    BY <1>1, WalkSatAssumption DEF OrderInv, Searching, MwInv, InTrial, TrialInv, TableInv,
       ListTypes
  <2>2. PICK m \in HardModels : FixedAsIn(m)
    BY DEF Consistent
  <2>3. ~FalseForGood(c)
    BY <2>1, <2>2, HardNotFalse DEF FalseForGood, AllFixedFalse, OpenLits
  <2>4. ~AssignedFalse(ruleAssignment[RuleOf[c]])
    <3>1. ruleAssignment[RuleOf[c]] # "v_up_false"
      BY DEF GivenUp, AssignedFixedFalse
    <3> QED
      BY <2>1, <3>1 DEF SearchOrder, RuleValues, AssignedFalse
  <2>5. CASE c \in sat
    <3>1. PICK l \in Lits[c] : AssignedFixedTrueLit(assignment, l)
      BY <2>4, <2>5 DEF SatListFixed, FixedSat
    <3> QED
      BY <2>1, <3>1, LitValues DEF SatClause
  <2>6. ASSUME NEW l \in Literals, c \in watched[l] PROVE SatClause(assignment, Lits[c])
    BY <2>1, <2>6 DEF TrialInv, WatchedByTrueLit, SatClause
  <2>7. ASSUME NEW r \in Rules, c \in ruleWatched[r] PROVE FALSE
    <3>1. RuleOf[c] = r /\ AssignedFalse(ruleAssignment[r])
      BY <2>1, <2>7 DEF TrialInv, TableInv, Apart, ExcusedByFalseRule
    <3> QED
      BY <2>4, <3>1
  <2> QED
    BY <2>1, <2>3, <2>5, <2>6, <2>7 DEF SearchOrder, NothingLost, OnList
<1> QED
  BY <1>1, InvAlways, PTL

-----------------------------------------------------------------------------
(* The weight of what does not hold.                                       *)

Loss == [r \in Rules |-> LossOf(r)]

(* What unsat_weight counts, some of it more than once: a rule that is     *)
(* fixed false and switched off again is added twice.                      *)
Counted == unsatSoft \cup {r \in Soft : AssignedFalse(ruleAssignment[r])}

(* A new trial sets the rules true and resets neither unsat_weight nor     *)
(* unsat_soft_rules.                                                       *)
LossInv ==
    /\ unsatWeight \in Int
    /\ Searching => SumFunctionOnSet(Loss, Counted) <= unsatWeight
    /\ pc = "trial" => SumFunctionOnSet(Loss, unsatSoft) <= unsatWeight

LEMMA RuleSets == \A R \in SUBSET Rules : IsFiniteSet(R)
BY MwSatAssumption, FS_Subset

LEMMA LossValues ==
    /\ Loss \in [Rules -> Int]
    /\ \A r \in Rules : 0 <= Loss[r] /\ Loss[r] = LossOf(r)
    /\ \A r \in Soft : Loss[r] = Weight[r]
<1>1. WeightOf(Soft) \in Nat
  <2>1. Weight \in [Rules -> Int] /\ Soft \in SUBSET Rules /\ \A r \in Soft : 0 <= Weight[r]
    BY WalkSatAssumption DEF Soft
  <2>2. SumFunctionOnSet(Weight, Soft) \in Int /\ 0 <= SumFunctionOnSet(Weight, Soft)
    BY <2>1, RuleSets, SumRemove, SumNonnegative
  <2> QED
    BY <2>2 DEF WeightOf
<1>2. DblMax \in Nat
  <2>1. \A n \in Nat : (NumTrials + 1) * n \in Nat
    BY MwSatAssumption
  <2> QED
    BY <1>1, <2>1 DEF DblMax
<1>3. \A r \in Rules : LossOf(r) \in Nat
  BY <1>2, WalkSatAssumption DEF LossOf
<1>4. \A r \in Soft : LossOf(r) = Weight[r]
  BY DEF Soft, LossOf
<1> QED
  BY <1>3, <1>4 DEF Loss, Soft

LEMMA LossSums ==
    ASSUME NEW S \in SUBSET Rules
    PROVE  /\ SumFunctionOnSet(Loss, S) \in Int
           /\ \A R \in SUBSET S : SumFunctionOnSet(Loss, R) <= SumFunctionOnSet(Loss, S)
           /\ \A r \in S : SumFunctionOnSet(Loss, S \ {r})
                              = SumFunctionOnSet(Loss, S) - Loss[r]
<1> HIDE DEF Loss
<1>1. Loss \in [Rules -> Int] /\ IsFiniteSet(S) /\ \A r \in S : 0 <= Loss[r] /\ Loss[r] \in Int
  BY LossValues, RuleSets
<1>2. SumFunctionOnSet(Loss, S) \in Int
  BY <1>1, SumRemove
<1>3. \A R \in SUBSET S : SumFunctionOnSet(Loss, R) <= SumFunctionOnSet(Loss, S)
  BY <1>1, SumMore
<1>4. \A r \in S : SumFunctionOnSet(Loss, S \ {r}) = SumFunctionOnSet(Loss, S) - Loss[r]
  <2> SUFFICES ASSUME NEW r \in S
               PROVE  SumFunctionOnSet(Loss, S \ {r}) = SumFunctionOnSet(Loss, S) - Loss[r]
    OBVIOUS
  <2>1. SumFunctionOnSet(Loss, S) = Loss[r] + SumFunctionOnSet(Loss, S \ {r})
    BY <1>1, SumRemove
  <2>2. IsFiniteSet(S \ {r}) /\ S \ {r} \in SUBSET Rules
    BY RuleSets
  <2>3. SumFunctionOnSet(Loss, S \ {r}) \in Int /\ Loss[r] \in Int
    BY <1>1, <2>2, SumRemove
  <2> QED
    BY <2>1, <2>3
<1> QED
  BY <1>2, <1>3, <1>4

(* One more rule is counted, and its weight is added.                      *)
LEMMA CountOneMore ==
    ASSUME NEW S \in SUBSET Rules, NEW T, NEW r \in Rules, T \subseteq S \cup {r},
           NEW w \in Int, SumFunctionOnSet(Loss, S) <= w
    PROVE  SumFunctionOnSet(Loss, T) <= w + Loss[r]
<1> DEFINE U == S \cup {r}
<1>1. U \in SUBSET Rules /\ r \in U /\ T \in SUBSET U /\ U \ {r} \in SUBSET S
      /\ T \in SUBSET Rules /\ U \ {r} \in SUBSET Rules
  OBVIOUS
<1> HIDE DEF U
<1>2. SumFunctionOnSet(Loss, T) <= SumFunctionOnSet(Loss, U)
  BY <1>1, LossSums
<1>3. SumFunctionOnSet(Loss, U \ {r}) = SumFunctionOnSet(Loss, U) - Loss[r]
  BY <1>1, LossSums
<1>4. SumFunctionOnSet(Loss, U \ {r}) <= SumFunctionOnSet(Loss, S)
  BY <1>1, LossSums
<1>5. /\ SumFunctionOnSet(Loss, T) \in Int /\ SumFunctionOnSet(Loss, U) \in Int
      /\ SumFunctionOnSet(Loss, U \ {r}) \in Int /\ SumFunctionOnSet(Loss, S) \in Int
  BY <1>1, LossSums
<1>6. Loss[r] \in Int
  BY LossValues
<1> QED
  BY <1>2, <1>3, <1>4, <1>5, <1>6

LEMMA CountedRules ==
    ASSUME unsatSoft \subseteq Rules
    PROVE  Counted \in SUBSET Rules /\ unsatSoft \in SUBSET Counted
BY DEF Counted, Soft

LEMMA InitLoss == Init => LossInv
<1> SUFFICES ASSUME Init PROVE LossInv
  OBVIOUS
<1>1. SumFunctionOnSet(Loss, unsatSoft) = 0 /\ unsatWeight = 0 /\ pc = "trial"
  BY SumEmpty DEF Init
<1> QED
  BY <1>1 DEF LossInv, Searching

LEMMA StartLoss ==
    ASSUME MwInv, LossInv, StartTrial
    PROVE  LossInv'
<1>1. /\ pc = "trial" /\ pc' = "flip" /\ UNCHANGED <<unsatSoft, unsatWeight>>
      /\ \A r \in Rules : ruleAssignment'[r] \in {"v_up_true", "v_true"}
  BY DEF StartTrial, weights
<1>2. Counted' = unsatSoft
  BY <1>1 DEF Counted, Soft, AssignedFalse
<1> QED
  BY <1>1, <1>2 DEF LossInv, Searching

(* A rule that is fixed false while it counts as true is added; one that   *)
(* is switched off is counted already.                                     *)
LEMMA ScanLoss ==
    ASSUME MwInv, LossInv, Scan
    PROVE  LossInv'
<1>1. /\ InTrial /\ TrialInv /\ unsatSoft \subseteq Rules /\ UNCHANGED <<pc, unsatSoft>>
      /\ ruleAssignment \in [Rules -> TVal]
  <2>1. InTrial
    BY DEF MwInv, Scan, ScanLiveClause
  <2> QED
    BY <2>1, InTrialInv DEF Scan, loopVars, TrialInv, TableInv, ListTypes
<1>2. unsatWeight \in Int /\ SumFunctionOnSet(Loss, Counted) <= unsatWeight
  BY <1>1 DEF LossInv, Searching, InTrial
<1>3. PICK c \in live :
        \/ InsertFixedSat(c) \/ DropFixedUnsat(c) \/ FixRuleFalse(c) \/ UnitPropagate(c)
        \/ WatchTrueLit(c) \/ WatchRule(c) \/ ListUnsat(c)
  BY DEF Scan, ScanLiveClause
<1>4. CASE FixRuleFalse(c)
  <2> DEFINE r == RuleOf[c]
  <2>1. r \in Rules
    BY <1>1, PoppedClause
  <2>2. /\ ruleAssignment'[r] = "v_up_false"
        /\ \A q \in Rules : q # r => ruleAssignment'[q] = ruleAssignment[q]
    BY <1>1, <1>4, <2>1 DEF FixRuleFalse
  <2>3. Counted' \subseteq Counted \cup (IF r \in Soft THEN {r} ELSE {})
    BY <1>1, <2>1, <2>2 DEF Counted, Soft
  <2>4. Weight[r] \in Int /\ 0 <= Weight[r] /\ (r \in Soft => Loss[r] = Weight[r])
    BY <2>1, WalkSatAssumption, LossValues
  <2>5. Counted \in SUBSET Rules /\ Counted' \in SUBSET Rules
    BY <1>1, CountedRules DEF Counted, Soft
  <2>6. CASE AssignedTrue(ruleAssignment[r]) /\ r \in Soft
    <3>1. unsatWeight' = unsatWeight + Weight[r]
      BY <1>4, <2>6 DEF FixRuleFalse
    <3>2. SumFunctionOnSet(Loss, Counted') <= unsatWeight + Loss[r]
      BY <1>2, <2>1, <2>3, <2>5, <2>6, CountOneMore
    <3> QED
      BY <1>1, <1>2, <2>4, <2>6, <3>1, <3>2 DEF LossInv, Searching, InTrial, Loss, Counted
  <2>7. CASE ~(AssignedTrue(ruleAssignment[r]) /\ r \in Soft)
    <3>1. unsatWeight' \in {unsatWeight, unsatWeight + Weight[r]}
      BY <1>4 DEF FixRuleFalse
    <3>2. Counted' \subseteq Counted
      <4>1. r \in Soft => AssignedFalse(ruleAssignment[r])
        BY <1>1, <2>1, <2>7 DEF TVal, AssignedTrue, AssignedFalse
      <4> QED
        BY <2>3, <4>1 DEF Counted
    <3>3. /\ SumFunctionOnSet(Loss, Counted') <= SumFunctionOnSet(Loss, Counted)
          /\ SumFunctionOnSet(Loss, Counted') \in Int /\ SumFunctionOnSet(Loss, Counted) \in Int
      BY <2>5, <3>2, LossSums
    <3>4. unsatWeight' \in Int /\ unsatWeight <= unsatWeight'
      BY <1>2, <2>4, <3>1
    <3>5. SumFunctionOnSet(Loss, Counted') <= unsatWeight'
      BY <1>2, <3>3, <3>4
    <3> QED
      BY <1>1, <3>4, <3>5 DEF LossInv, Searching, InTrial, Loss, Counted
  <2> QED
    BY <2>6, <2>7
<1>5. CASE ~FixRuleFalse(c)
  <2>1. UNCHANGED <<ruleAssignment, unsatWeight>>
    BY <1>3, <1>5 DEF InsertFixedSat, DropFixedUnsat, UnitPropagate, WatchTrueLit, WatchRule,
       ListUnsat, weights
  <2>2. UNCHANGED Counted
    BY <1>1, <2>1 DEF Counted
  <2> QED
    BY <1>1, <1>2, <2>1, <2>2 DEF LossInv, Searching, InTrial, Loss
<1> QED
  BY <1>4, <1>5

LEMMA RuleToUnsatLoss ==
    ASSUME MwInv, LossInv, FlipRuleToUnsat
    PROVE  LossInv'
<1>1. /\ InTrial /\ TrialInv /\ unsatSoft \subseteq Rules /\ pc' = "keep"
      /\ ruleAssignment \in [Rules -> TVal]
  <2>1. InTrial
    BY DEF FlipRuleToUnsat, MayFlip, Ready, InTrial
  <2> QED
    BY <2>1, InTrialInv DEF FlipRuleToUnsat, TrialInv, TableInv, ListTypes
<1>2. unsatWeight \in Int /\ SumFunctionOnSet(Loss, Counted) <= unsatWeight
  BY <1>1 DEF LossInv, Searching, InTrial
<1>3. PICK c \in unsat :
        /\ ruleAssignment' = [ruleAssignment EXCEPT ![RuleOf[c]] = "v_false"]
        /\ unsatSoft' = unsatSoft \cup {RuleOf[c]}
        /\ unsatWeight' = unsatWeight + LossOf(RuleOf[c])
  BY DEF FlipRuleToUnsat
<1> DEFINE r == RuleOf[c]
<1>4. r \in Rules /\ Loss[r] = LossOf(r) /\ Loss[r] \in Int
  BY <1>1, WalkSatAssumption, LossValues DEF TrialInv, TableInv, ListTypes
<1>5. Counted' \subseteq Counted \cup {r} /\ Counted \in SUBSET Rules
  BY <1>1, <1>3, <1>4, CountedRules DEF Counted, Soft
<1>6. SumFunctionOnSet(Loss, Counted') <= unsatWeight + Loss[r]
  BY <1>2, <1>4, <1>5, CountOneMore
<1> QED
  BY <1>1, <1>2, <1>3, <1>4, <1>6 DEF LossInv, Searching, Loss, Counted

LEMMA RuleToSatLoss ==
    ASSUME MwInv, LossInv, FlipRuleToSat
    PROVE  LossInv'
<1>1. /\ InTrial /\ TrialInv /\ unsatSoft \subseteq Rules /\ pc' = "keep"
      /\ ruleAssignment \in [Rules -> TVal]
  <2>1. InTrial
    BY DEF FlipRuleToSat, MayFlip, Ready, InTrial
  <2> QED
    BY <2>1, InTrialInv DEF FlipRuleToSat, TrialInv, TableInv, ListTypes
<1>2. unsatWeight \in Int /\ SumFunctionOnSet(Loss, Counted) <= unsatWeight
  BY <1>1 DEF LossInv, Searching, InTrial
<1>3. PICK r \in unsatSoft :
        /\ ruleAssignment' = [ruleAssignment EXCEPT ![r] = "v_true"]
        /\ unsatSoft' = unsatSoft \ {r}
        /\ unsatWeight' = unsatWeight - LossOf(r)
  BY DEF FlipRuleToSat
<1>4. r \in Rules /\ Loss[r] = LossOf(r) /\ Loss[r] \in Int
  BY <1>1, LossValues
<1>5. /\ ruleAssignment'[r] = "v_true"
      /\ \A q \in Rules : q # r => ruleAssignment'[q] = ruleAssignment[q]
  BY <1>1, <1>3, <1>4
<1>6. Counted' = Counted \ {r} /\ r \in Counted /\ Counted \in SUBSET Rules
  BY <1>1, <1>3, <1>5, CountedRules DEF Counted, Soft, AssignedFalse
<1>7. /\ SumFunctionOnSet(Loss, Counted') = SumFunctionOnSet(Loss, Counted) - Loss[r]
      /\ SumFunctionOnSet(Loss, Counted) \in Int
  BY <1>6, LossSums
<1>8. unsatWeight' \in Int /\ SumFunctionOnSet(Loss, Counted') <= unsatWeight'
  BY <1>2, <1>3, <1>4, <1>7
<1> QED
  BY <1>1, <1>8 DEF LossInv, Searching, Loss, Counted

LEMMA NextLoss ==
    ASSUME MwInv, LossInv, [Next]_vars
    PROVE  LossInv'
<1>1. CASE FlipAtom \/ FoundAll \/ KeepBest \/ Tick \/ UNCHANGED vars
  <2>1. UNCHANGED <<ruleAssignment, unsatWeight, unsatSoft>>
    BY <1>1 DEF FlipAtom, FlipVariable, FoundAll, KeepBest, Tick, vars, loopVars, walkVars, weights
  <2>2. UNCHANGED Counted
    BY <2>1 DEF Counted
  <2>3. (Searching' <=> Searching) /\ (pc' = "trial" <=> pc = "trial")
    BY <1>1 DEF FlipAtom, MayFlip, FoundAll, KeepBest, Tick, vars, loopVars, Ready, Searching
  <2> QED
    BY <2>1, <2>2, <2>3 DEF LossInv, Loss
<1>2. CASE EndTrial
  <2>1. Searching /\ pc' = "trial" /\ UNCHANGED <<unsatWeight, unsatSoft>>
    BY <1>2 DEF EndTrial, Ready, Searching, walkVars, weights
  <2>2. unsatSoft \subseteq Rules
    BY DEF MwInv
  <2>3. /\ SumFunctionOnSet(Loss, unsatSoft) <= SumFunctionOnSet(Loss, Counted)
        /\ SumFunctionOnSet(Loss, Counted) \in Int /\ SumFunctionOnSet(Loss, unsatSoft) \in Int
    BY <2>2, CountedRules, LossSums
  <2>4. unsatWeight \in Int /\ SumFunctionOnSet(Loss, unsatSoft) <= unsatWeight
    BY <2>1, <2>3 DEF LossInv
  <2> QED
    BY <2>1, <2>4 DEF LossInv, Searching, Loss
<1>3. CASE Finish
  BY <1>3 DEF Finish, LossInv, Searching, weights
<1> QED
  BY <1>1, <1>2, <1>3, StartLoss, ScanLoss, RuleToUnsatLoss, RuleToSatLoss DEF Next, MwStep

(* The weight mw_sat minimises (unsat_weight) is at least that of the soft *)
(* rules that do not hold once no clause is left unsatisfied, however      *)
(* often rules were switched off and on, or fixed false by the scan while  *)
(* they were true or switched off, in any trial.                           *)
THEOREM MwLossBounded == Spec => []LossIsBounded
<1>1. ASSUME MwInv, OrderInv, LossInv PROVE LossIsBounded
  <2> DEFINE Lost == {r \in Soft : ~SatRule(r)}
  <2> SUFFICES ASSUME Ready, unsat = {}, SatListFixed
               PROVE  WeightOf(Lost) <= unsatWeight
    BY DEF LossIsBounded
  <2>1. /\ SearchOrder /\ TrialInv /\ live = {} /\ unsatSoft \subseteq Rules
        /\ assignment \in [Atoms -> TVal] /\ Searching
    BY <1>1 DEF Ready, OrderInv, Searching, MwInv, TrialInv, TableInv, ListTypes
  <2>2. Lost \subseteq Counted
    <3> SUFFICES ASSUME NEW r \in Soft, NEW c \in Clauses, RuleOf[c] = r,
                        ~SatClause(assignment, Lits[c])
                 PROVE  AssignedFalse(ruleAssignment[r])
      BY DEF SatRule, Counted
    <3>1. OnList(c) /\ Lits[c] \subseteq Literals
      BY <2>1, WalkSatAssumption DEF SearchOrder, NothingLost, FalseForGood, Soft
    <3>2. c \notin sat \/ AssignedFalse(ruleAssignment[r])
      <4>1. ~FixedSat(c)
        BY <2>1, <3>1, LitValues DEF FixedSat, SatClause
      <4> QED
        BY <4>1 DEF SatListFixed
    <3>3. \A l \in Literals : c \notin watched[l]
      BY <2>1 DEF TrialInv, WatchedByTrueLit, SatClause
    <3>4. \A q \in Rules : c \in ruleWatched[q] => AssignedFalse(ruleAssignment[r])
      BY <2>1 DEF TrialInv, TableInv, Apart, ExcusedByFalseRule
    <3> QED
      BY <2>1, <3>1, <3>2, <3>3, <3>4 DEF OnList
  <2>3. Lost \in SUBSET Counted /\ Counted \in SUBSET Rules /\ Lost \in SUBSET Rules
        /\ Lost \in SUBSET Soft
    BY <2>1, <2>2, CountedRules
  <2> HIDE DEF Lost
  <2>4. WeightOf(Lost) = SumFunctionOnSet(Loss, Lost)
    <3>1. Weight \in [Rules -> Int] /\ \A r \in Lost : Weight[r] = Loss[r]
      BY <2>3, WalkSatAssumption, LossValues
    <3> QED
      BY <2>3, <3>1, LossValues, RuleSets, SumSame DEF WeightOf
  <2>5. /\ SumFunctionOnSet(Loss, Lost) <= SumFunctionOnSet(Loss, Counted)
        /\ SumFunctionOnSet(Loss, Lost) \in Int /\ SumFunctionOnSet(Loss, Counted) \in Int
    BY <2>3, LossSums
  <2>6. SumFunctionOnSet(Loss, Counted) <= unsatWeight /\ unsatWeight \in Int
    BY <1>1, <2>1 DEF LossInv
  <2> QED
    BY <2>4, <2>5, <2>6
<1> QED
  BY <1>1, InvAlways, InitLoss, NextLoss, PTL DEF Spec
=============================================================================
