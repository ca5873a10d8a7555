---------------------------- MODULE LazySatProofs ----------------------------
(***************************************************************************)
(* Proofs about LazySat: why it is enough to make the instances that may   *)
(* become false.  An atom that is not active is false in both assignment   *)
(* arrays, and every rule that may be false with the active atoms alone    *)
(* has an instance; so a rule without one is true in both.                 *)
(*                                                                         *)
(* And why a search that makes instances while it runs finds what the      *)
(* eager one looks for: there is a model it might find (Anchor), and no    *)
(* clause it has to satisfy is lost (ChainInv).                            *)
(***************************************************************************)
EXTENDS LazySat, WalkSatProofs

(* An atom becomes true only by being activated, and a backup is a copy of *)
(* an earlier assignment.                                                  *)
InactiveFalse(f) == \A v \in Atoms \ active : AssignedFalse(f[v])

NeededAreMade == \A r \in Rules : MayBeFalse(r, active) => r \in made

LazyInv ==
    /\ assignment \in [Atoms -> TVal]
    /\ other \in [Atoms -> TVal]
    /\ ruleAssignment \in [Rules -> TVal]
    /\ InactiveFalse(assignment)
    /\ InactiveFalse(other)
    /\ NeededAreMade
    /\ KeptWereTrue

-----------------------------------------------------------------------------
(* A clause that cannot be false with the active atoms alone holds a       *)
(* negated literal of an atom that is not active.                          *)
LEMMA DormantRule ==
    ASSUME NEW f, InactiveFalse(f), NEW r \in Rules, ~MayBeFalse(r, active)
    PROVE  SatRule(f, r)
<1> SUFFICES ASSUME NEW c \in ClausesFrom({r}) PROVE SatClause(f, Lits[c])
  BY DEF SatRule
<1>1. PICK v \in Atoms : NegLit(v) \in Lits[c] /\ v \notin active
  BY DEF MayBeFalse
<1>2. AssignedTrueLit(f, NegLit(v))
  BY <1>1 DEF InactiveFalse, AssignedTrueLit, NegLit, IsPos, VarOf
<1> QED
  BY <1>1, <1>2 DEF SatClause

(* Hence the invariant implies DormantAreTrue.                             *)
LEMMA DormantFromInv == LazyInv => DormantAreTrue
BY DormantRule DEF LazyInv, NeededAreMade, DormantAreTrue

(* A change that keeps the plain value of every atom keeps atoms false.    *)
LEMMA SamePlainValue ==
    ASSUME NEW x \in TVal, NEW y \in TVal, UnfixTVal(x) = UnfixTVal(y), AssignedFalse(y)
    PROVE  AssignedFalse(x)
BY DEF TVal, UnfixTVal, AssignedFalse

(* What follows when the tables of atoms and rules are left alone, no atom *)
(* changes its plain value and no rule becomes live.                       *)
LEMMA QuietStep ==
    ASSUME LazyInv, UNCHANGED <<active, made, other>>,
           assignment' \in [Atoms -> TVal],
           \A v \in Atoms : UnfixTVal(assignment'[v]) = UnfixTVal(assignment[v]),
           ruleAssignment' \in [Rules -> TVal],
           mpc' = "solve" =>
               /\ mpc = "solve"
               /\ \A r \in Rules : AssignedTrue(ruleAssignment'[r]) => AssignedTrue(ruleAssignment[r])
    PROVE  LazyInv'
<1>1. InactiveFalse(assignment)'
  <2> SUFFICES ASSUME NEW v \in Atoms \ active PROVE AssignedFalse(assignment'[v])
    BY DEF InactiveFalse
  <2>1. assignment[v] \in TVal /\ assignment'[v] \in TVal /\ AssignedFalse(assignment[v])
    BY DEF LazyInv, InactiveFalse
  <2> QED
    BY <2>1, SamePlainValue
<1>2. InactiveFalse(other)' /\ NeededAreMade'
  BY DEF LazyInv, InactiveFalse, NeededAreMade, MayBeFalse
<1>3. KeptWereTrue'
  BY DEF LazyInv, KeptWereTrue, SatRule
<1> QED
  BY <1>1, <1>2, <1>3 DEF LazyInv

(* The same for a step that leaves the values alone too.                   *)
LEMMA IdleStep ==
    ASSUME LazyInv, UNCHANGED <<active, made, other, assignment, ruleAssignment>>,
           mpc' = "solve" => mpc = "solve"
    PROVE  LazyInv'
BY QuietStep DEF LazyInv

(* A change of value in the code: the atom that becomes true is active     *)
(* after it, and the rules that this might make false have an instance.    *)
LEMMA MakeTrueKeeps ==
    ASSUME LazyInv, NEW l \in Literals, NEW tval \in TVal, NEW popped,
           IsPos(l) \/ AssignedFalse(tval),
           MakeTrue(l, tval, popped), UNCHANGED <<other, mpc>>
    PROVE  LazyInv'
<1> DEFINE v == VarOf(l)
<1>1. v \in Atoms /\ (IsPos(l) => l = PosLit(v))
  BY DEF Literals, LiteralsOf, Signs, VarOf, IsPos, PosLit
<1>2. assignment' = [assignment EXCEPT ![v] = tval]
  BY DEF MakeTrue
<1>3. CASE l = PosLit(v) /\ v \notin active
  <2>1. ActivateAtom(v, (live \ popped) \cup watched[Not(l)] \cup unsat)
    BY <1>3 DEF MakeTrue
  <2>2. active' = active \cup {v} /\ made' = made \cup Fresh(v)
    BY <2>1 DEF ActivateAtom
  <2>3. PICK kept \in SUBSET (Fresh(v) \ Hard) :
            ruleAssignment' = [r \in Rules |->
               IF r \in Fresh(v)
                 THEN IF r \in Hard \cup kept THEN "v_up_true" ELSE "v_up_false"
                 ELSE ruleAssignment[r]]
    BY <2>1 DEF ActivateAtom, PushNewlyActivated
  <2>4. ruleAssignment' \in [Rules -> TVal]
    BY <2>3 DEF LazyInv, TVal
  <2>5. InactiveFalse(assignment)' /\ InactiveFalse(other)'
    BY <1>1, <1>2, <2>2 DEF LazyInv, InactiveFalse
  <2>6. NeededAreMade'
    BY <2>2 DEF LazyInv, NeededAreMade, Fresh, MayBeFalse
  <2>7. KeptWereTrue'
    <3> SUFFICES ASSUME mpc = "solve", NEW r \in Rules, AssignedTrue(ruleAssignment'[r])
                 PROVE  SatRule(other, r)
      BY DEF KeptWereTrue, SatRule
    <3>1. CASE r \in Fresh(v)
      BY <3>1, DormantFromInv DEF DormantAreTrue, Fresh
    <3>2. CASE r \notin Fresh(v)
      BY <2>3, <3>2 DEF LazyInv, KeptWereTrue
    <3> QED
      BY <3>1, <3>2
  <2> QED
    BY <1>1, <1>2, <2>4, <2>5, <2>6, <2>7 DEF LazyInv
<1>4. CASE ~(l = PosLit(v) /\ v \notin active)
  <2>1. UNCHANGED <<ruleAssignment, active, made>>
    BY <1>4 DEF MakeTrue, tableVars
  <2>2. InactiveFalse(assignment)' /\ InactiveFalse(other)'
    BY <1>1, <1>2, <1>4, <2>1 DEF LazyInv, InactiveFalse
  <2>3. NeededAreMade' /\ KeptWereTrue'
    BY <2>1 DEF LazyInv, NeededAreMade, KeptWereTrue, MayBeFalse, SatRule
  <2> QED
    BY <1>1, <1>2, <2>1, <2>2, <2>3 DEF LazyInv
<1> QED
  BY <1>3, <1>4

(* A flip, whoever chose the atom.                                         *)
LEMMA FlipKeeps ==
    ASSUME LazyInv, NEW v \in Atoms, LazyFlip(v), UNCHANGED <<other, mpc>>
    PROVE  LazyInv'
<1>1. CASE UnfixedTVal(assignment[v])
  <2> DEFINE l == Not(TrueLitOf(v))
             t == NegateTVal(assignment[v])
  <2>1. MakeTrue(l, t, {})
    BY <1>1 DEF LazyFlip
  <2>2. l \in Literals /\ t \in TVal /\ (IsPos(l) \/ AssignedFalse(t))
    BY <1>1 DEF UnfixedTVal, FreeTVal, TrueLitOf, AssignedTrue, AssignedFalse, Not, PosLit, NegLit,
       IsPos, NegateTVal, TVal, Literals, LiteralsOf, Signs
  <2> HIDE DEF l, t
  <2> QED
    BY <2>1, <2>2, MakeTrueKeeps
<1>2. CASE ~UnfixedTVal(assignment[v])
  BY <1>2, IdleStep DEF LazyFlip, walkVars, tableVars
<1> QED
  BY <1>1, <1>2

(* One turn of a scan.                                                     *)
LEMMA ScanKeeps == LazyInv /\ LazyScan => LazyInv'
<1> SUFFICES ASSUME LazyInv, LazyScan PROVE LazyInv'
  OBVIOUS
<1>1. UNCHANGED <<other, mpc>>
  BY DEF LazyScan, roundVars
<1>2. ASSUME NEW c \in live, LazyUnitPropagate(c) PROVE LazyInv'
  <2>1. PICK l \in Literals : MakeTrue(l, UpTrueValueOf(l), {c})
    BY <1>2 DEF LazyUnitPropagate
  <2>2. UpTrueValueOf(l) \in TVal /\ (IsPos(l) \/ AssignedFalse(UpTrueValueOf(l)))
    BY DEF UpTrueValueOf, TVal, AssignedFalse
  <2> QED
    BY <1>1, <2>1, <2>2, MakeTrueKeeps
<1>3. ASSUME ScanLiveClause, Unfixed(assignment') = Unfixed(assignment), UNCHANGED tableVars
      PROVE  LazyInv'
  <2>1. \A v \in Atoms : UnfixTVal(assignment'[v]) = UnfixTVal(assignment[v])
    BY <1>3 DEF Unfixed
  <2>2. assignment' \in [Atoms -> TVal]
    <3>1. ASSUME NEW c, NEW l, FixLitTrue(l, c) PROVE assignment' \in [Atoms -> TVal]
      BY <3>1 DEF FixLitTrue, LazyInv, UpTrueValueOf, TVal
    <3> QED
      BY <1>3, <3>1 DEF ScanLiveClause, InsertFixedSat, DropFixedUnsat, FixRuleFalse,
         UnitPropagate, WatchTrueLit, WatchRule, ListUnsat, LazyInv
  <2>3. \/ ruleAssignment' = ruleAssignment
        \/ \E r : ruleAssignment' = [ruleAssignment EXCEPT ![r] = "v_up_false"]
    BY <1>3 DEF ScanLiveClause, InsertFixedSat, DropFixedUnsat, FixRuleFalse,
       UnitPropagate, WatchTrueLit, WatchRule, ListUnsat
  <2>4. /\ ruleAssignment' \in [Rules -> TVal]
        /\ \A r \in Rules : AssignedTrue(ruleAssignment'[r]) => AssignedTrue(ruleAssignment[r])
    BY <2>3 DEF LazyInv, TVal, AssignedTrue
  <2> QED
    BY <1>1, <1>3, <2>1, <2>2, <2>4, QuietStep DEF tableVars
<1> QED
  BY <1>2, <1>3 DEF LazyScan

(* The steps of the search that choose an atom, or none.                   *)
LEMMA AnnealKeeps ==
    ASSUME LazyInv, NEW hot, LazyAnneal(hot), UNCHANGED <<other, mpc>>
    PROVE  LazyInv'
<1>1. CASE \E v \in UnfixedAtoms : LazyFlip(v)
  BY <1>1, FlipKeeps DEF UnfixedAtoms
<1>2. CASE UNCHANGED <<walkVars, tableVars>>
  BY <1>2, IdleStep DEF walkVars, tableVars
<1> QED
  BY <1>1, <1>2 DEF LazyAnneal

LEMMA BodyKeeps ==
    ASSUME LazyInv, LazyBody, UNCHANGED <<other, mpc>>
    PROVE  LazyInv'
<1>1. ASSUME NEW c \in unsat, NEW v \in ClauseVars(c), LazyFlip(v) PROVE LazyInv'
  <2>1. v \in Atoms
    BY <1>1 DEF ClauseVars, GreedyVarsOf, UnfixedVarsOf, UnfixedAtoms
  <2> QED
    BY <1>1, <2>1, FlipKeeps
<1> QED
  BY <1>1, AnnealKeeps DEF LazyBody

(* A search keeps the invariant in each of its steps.                      *)
LEMMA SearchKeeps == LazyInv /\ SearchStep => LazyInv'
<1> SUFFICES ASSUME LazyInv, SearchStep PROVE LazyInv'
  OBVIOUS
<1>1. CASE LazyScan
  BY <1>1, ScanKeeps
<1>2. CASE StartRandom
  BY <1>2, IdleStep DEF StartRandom, walkVars, tableVars, roundVars
<1>3. CASE RandomFlip
  BY <1>3, FlipKeeps DEF RandomFlip, UnfixedAtoms, roundVars
<1>4. CASE EndRandom
  BY <1>4, IdleStep DEF EndRandom, walkVars, tableVars, roundVars
<1>5. CASE LazyWalkStep
  BY <1>5, BodyKeeps DEF LazyWalkStep, roundVars
<1>6. CASE LazyExtraStep
  BY <1>6, AnnealKeeps DEF LazyExtraStep, roundVars
<1>7. CASE (StartWalk \/ StartExtra) /\ UNCHANGED <<tableVars, todo, roundVars>>
  BY <1>7, IdleStep DEF StartWalk, StartExtra, walkVars, tableVars, roundVars
<1>8. CASE Return /\ UNCHANGED <<tableVars, todo, roundVars>>
  <2>1. assignment' = Unfixed(assignment) /\ UNCHANGED <<ruleAssignment, active, made, other, mpc>>
    BY <1>8 DEF Return, tableVars, roundVars
  <2>2. \A x \in TVal : UnfixTVal(x) \in TVal /\ UnfixTVal(UnfixTVal(x)) = UnfixTVal(x)
    BY DEF UnfixTVal, TVal
  <2>3. /\ assignment' \in [Atoms -> TVal]
        /\ \A v \in Atoms : UnfixTVal(assignment'[v]) = UnfixTVal(assignment[v])
    BY <2>1, <2>2 DEF Unfixed, LazyInv
  <2> QED
    BY <2>1, <2>3, QuietStep DEF LazyInv
<1> QED
  BY <1>1, <1>2, <1>3, <1>4, <1>5, <1>6, <1>7, <1>8 DEF SearchStep

-----------------------------------------------------------------------------
(* At the start no atom is active, and what may be false at once is made.  *)
LEMMA LazyStart == LazyInit => LazyInv
BY DEF LazyInit, SolverInit, LazyInv, InactiveFalse, NeededAreMade, KeptWereTrue, TVal,
   AssignedFalse

(* Every step keeps the invariant.                                         *)
LEMMA LazyPreserved == LazyInv /\ [LazyNext]_lazyVars => LazyInv'
<1> SUFFICES ASSUME LazyInv, [LazyNext]_lazyVars PROVE LazyInv'
  OBVIOUS
<1>1. CASE SearchStep
  BY <1>1, SearchKeeps
<1>2. CASE FirstSampleSat
  <2>1. /\ UNCHANGED <<active, made, other, assignment>>
        /\ ruleAssignment' = HardMade /\ mpc' = "first"
    BY <1>2 DEF FirstSampleSat, StartSampleSat, tableVars
  <2>2. HardMade \in [Rules -> TVal]
    BY DEF HardMade, TVal
  <2> QED
    BY <2>1, <2>2, QuietStep DEF LazyInv
<1>3. CASE FirstFound
  BY <1>3, IdleStep DEF FirstFound, vars, walkVars, tableVars
<1>4. CASE StartRound
  <2>1. PICK ra \in KeptInstances : StartSampleSat(assignment, ra, RoundCall)
    BY <1>4 DEF StartRound
  <2>2. /\ UNCHANGED <<active, made, assignment>>
        /\ ruleAssignment' = ra /\ other' = assignment
    BY <1>4, <2>1 DEF StartRound, StartSampleSat, tableVars
  <2>3. /\ ra \in [Rules -> {"v_up_true", "v_up_false"}]
        /\ \A r \in Rules : ra[r] = "v_up_true" => SatRule(assignment, r)
    BY DEF KeptInstances, RuleChoices
  <2>4. KeptWereTrue'
    BY <2>2, <2>3 DEF KeptWereTrue, SatRule, AssignedTrue
  <2>5. NeededAreMade' /\ InactiveFalse(assignment)' /\ InactiveFalse(other)'
    BY <2>2 DEF LazyInv, NeededAreMade, MayBeFalse, InactiveFalse
  <2> QED
    BY <2>2, <2>3, <2>4, <2>5 DEF LazyInv, TVal
<1>5. CASE RoundsOver
  BY <1>5, IdleStep DEF RoundsOver, vars, walkVars, tableVars
<1>6. CASE RoundFailed
  BY <1>6 DEF RoundFailed, tableVars, LazyInv, NeededAreMade, MayBeFalse, InactiveFalse, KeptWereTrue
<1>7. CASE RoundDone
  BY <1>7, IdleStep DEF RoundDone, vars, walkVars, tableVars
<1>8. CASE Tick
  BY <1>8, IdleStep DEF Tick, vars, walkVars, tableVars
<1>9. CASE UNCHANGED lazyVars
  BY <1>9, IdleStep DEF lazyVars, vars, walkVars, tableVars, roundVars
<1> QED
  BY <1>1, <1>2, <1>3, <1>4, <1>5, <1>6, <1>7, <1>8, <1>9 DEF LazyNext

(* The invariant holds throughout, for any rules and any number of calls.  *)
THEOREM LazyInvariance == LazySpec => []LazyInv
<1> QED
  BY LazyStart, LazyPreserved, PTL DEF LazySpec

(* A rule without an instance is true in the assignment and in the backup: *)
(* the search need not know it (activate_rules).                           *)
THEOREM DormantTrue == LazySpec => []DormantAreTrue
BY LazyInvariance, DormantFromInv, PTL

(* The soft rules a search keeps were true in the model its round began    *)
(* with, those that are made during the search included                    *)
(* (push_newly_activated_rule_instance).                                   *)
THEOREM KeptTrue == LazySpec => []KeptWereTrue
<1>1. LazyInv => KeptWereTrue
  BY DEF LazyInv
<1> QED
  BY <1>1, LazyInvariance, PTL

-----------------------------------------------------------------------------
(* A search in lazy mode finds what the eager one looks for.               *)

InSearch == mpc \in {"first", "solve"}

FreeAssignments == [Atoms -> FreeTVal]

(* A clause is on one of the lists; none waits for its rule.               *)
ListedOn(c) == c \in live \/ c \in unsat \/ c \in sat \/ \E l \in Literals : c \in watched[l]

(* A model the search might find: of the hard rules, and, while soft rules *)
(* are included, of all rules that may still be made.  The search may keep *)
(* any of these on a coin toss.                                            *)
Anchor(m) ==
    /\ m \in FreeAssignments
    /\ \A r \in Hard : SatRule(m, r)
    /\ soft => \A r \in Rules \ made : SatRule(m, r)

(* The clauses a scan may still meet are true in that model, and so are    *)
(* the rules that are live; no instance of a hard rule is left out.        *)
ListsFor(m) ==
    /\ live \subseteq Clauses /\ unsat \subseteq Clauses
    /\ watched \in [Literals -> SUBSET Clauses]
    /\ WatchedByTrueLit
    /\ \A c \in live \cup unsat : SatClause(m, Lits[c])
    /\ \A l \in Literals : \A c \in watched[l] : SatClause(m, Lits[c])
    /\ \A r \in Rules : AssignedTrue(ruleAssignment[r]) => SatRule(m, r)
    /\ \A r \in Hard \cap made : AssignedTrue(ruleAssignment[r])

(* What unit propagation has fixed is so in that model.                    *)
Agrees(m) ==
    \A v \in Atoms :
        FixedTVal(assignment[v]) => (AssignedTrue(assignment[v]) <=> AssignedTrue(m[v]))

SearchInv(m) ==
    /\ ListsFor(m)
    /\ sat \subseteq Clauses /\ SatListSettled
    /\ \A c \in ClausesOf(ruleAssignment) : ListedOn(c)
    /\ phase # "idle" => Agrees(m)

(* Between searches the assignment, and during a round the backup, is a    *)
(* model of the hard rules.                                                *)
AtModels ==
    /\ mpc = "round" => \A r \in Hard : SatRule(assignment, r)
    /\ mpc = "solve" => \A r \in Hard : SatRule(other, r)
    /\ \E m \in FreeAssignments : Anchor(m) /\ (InSearch => SearchInv(m))

Between ==
    /\ \A v \in Atoms : ~DbTVal(assignment[v])
    /\ other \in FreeAssignments
    /\ phase = "idle" => live = {} /\ assignment \in FreeAssignments
    /\ ~InSearch => Idle

ChainInv == LazyInv /\ Between /\ (HardModels # {} => AtModels)

-----------------------------------------------------------------------------
(* The rules J that join when a literal becomes true: with their clauses   *)
(* on the live list, and soft ones only if these are included.             *)
LEMMA JoinedRules ==
    ASSUME LazyInv, NEW l, NEW tval, NEW popped, MakeTrue(l, tval, popped),
           \A r \in Hard \cap made : AssignedTrue(ruleAssignment[r])
    PROVE  \E J \in SUBSET (Rules \ made) :
              /\ live' = (live \ popped) \cup watched[Not(l)] \cup unsat \cup ClausesFrom(J)
              /\ \A r \in J : r \in Hard \/ soft
              /\ \A r \in Rules : AssignedTrue(ruleAssignment'[r]) =>
                                     AssignedTrue(ruleAssignment[r]) \/ r \in J
              /\ \A r \in Hard \cap made' : AssignedTrue(ruleAssignment'[r])
<1> DEFINE v == VarOf(l)
           rest == (live \ popped) \cup watched[Not(l)] \cup unsat
<1>1. CASE l = PosLit(v) /\ v \notin active
  <2>1. ActivateAtom(v, rest)
    BY <1>1 DEF MakeTrue
  <2>2. PICK kept \in SUBSET (Fresh(v) \ Hard) :
          /\ kept = {} \/ soft
          /\ ruleAssignment' = [r \in Rules |->
               IF r \in Fresh(v)
                 THEN IF r \in Hard \cup kept THEN "v_up_true" ELSE "v_up_false"
                 ELSE ruleAssignment[r]]
          /\ live' = rest \cup ClausesFrom(Fresh(v) \cap (Hard \cup kept))
    BY <2>1 DEF ActivateAtom, PushNewlyActivated
  <2>3. made' = made \cup Fresh(v) /\ Fresh(v) \subseteq Rules \ made
    BY <2>1 DEF ActivateAtom, Fresh
  <2> DEFINE J == Fresh(v) \cap (Hard \cup kept)
  <2>4. J \in SUBSET (Rules \ made) /\ \A r \in J : r \in Hard \/ soft
    BY <2>2, <2>3
  <2>5. \A r \in Rules : AssignedTrue(ruleAssignment'[r]) =>
                            AssignedTrue(ruleAssignment[r]) \/ r \in J
    BY <2>2 DEF AssignedTrue
  <2>6. \A r \in Hard \cap made' : AssignedTrue(ruleAssignment'[r])
    BY <2>2, <2>3, WalkSatAssumption DEF AssignedTrue
  <2> QED
    BY <2>2, <2>4, <2>5, <2>6
<1>2. CASE ~(l = PosLit(v) /\ v \notin active)
  <2>1. live' = rest /\ UNCHANGED <<ruleAssignment, made>>
    BY <1>2 DEF MakeTrue, tableVars
  <2>2. ClausesFrom({}) = {}
    BY DEF ClausesFrom
  <2> QED
    BY <2>1, <2>2
<1> QED
  BY <1>1, <1>2

(* A literal becomes true: what its negation watched is live again, and    *)
(* what joins is true in the model the search is sure to have.             *)
LEMMA MakeTrueLists ==
    ASSUME LazyInv, NEW m, Anchor(m), SearchInv(m),
           NEW l \in Literals, NEW tval \in TVal, NEW popped,
           AssignedFalseLit(assignment, l), MakeTrue(l, tval, popped),
           AssignedTrueLit(assignment', l)
    PROVE  /\ ListsFor(m)'
           /\ \A c \in ClausesOf(ruleAssignment)' :
                 c \in popped \/ c \in sat \/ c \in live' \/ \E k \in Literals : c \in watched'[k]
<1>1. /\ assignment' = [assignment EXCEPT ![VarOf(l)] = tval]
      /\ watched' = [watched EXCEPT ![Not(l)] = {}]
      /\ unsat' = {}
  BY DEF MakeTrue
<1>2. ListsFor(m)
  BY DEF SearchInv
<1>3. PICK J \in SUBSET (Rules \ made) :
        /\ live' = (live \ popped) \cup watched[Not(l)] \cup unsat \cup ClausesFrom(J)
        /\ \A r \in J : r \in Hard \/ soft
        /\ \A r \in Rules : AssignedTrue(ruleAssignment'[r]) =>
                               AssignedTrue(ruleAssignment[r]) \/ r \in J
        /\ \A r \in Hard \cap made' : AssignedTrue(ruleAssignment'[r])
  BY <1>2, JoinedRules DEF ListsFor
<1>4. \A r \in J : SatRule(m, r)
  BY <1>3 DEF Anchor
<1>5. \A c \in ClausesFrom(J) : c \in Clauses /\ SatClause(m, Lits[c])
  BY <1>4 DEF ClausesFrom, SatRule
<1>6. /\ Not(l) \in Literals
      /\ \A k \in Literals : watched'[k] = IF k = Not(l) THEN {} ELSE watched[k]
  BY <1>1, <1>2, NotLit DEF LazyInv, ListsFor
<1>7. WatchedByTrueLit'
  <2> SUFFICES ASSUME NEW k \in Literals, NEW c \in watched'[k]
               PROVE  k \in Lits[c] /\ AssignedTrueLit(assignment', k)
    BY DEF WatchedByTrueLit
  <2>1. c \in watched[k] /\ k # Not(l)
    BY <1>6
  <2>2. k \in Lits[c] /\ AssignedTrueLit(assignment, k)
    BY <1>2, <2>1 DEF ListsFor, WatchedByTrueLit
  <2>3. CASE VarOf(k) = VarOf(l)
    <3>1. k = l
      BY <2>1, <2>3, NotLit DEF LazyInv
    <3> QED
      BY <2>2, <3>1
  <2>4. CASE VarOf(k) # VarOf(l)
    <3>1. VarOf(k) \in Atoms /\ VarOf(l) \in Atoms
      BY LitValues DEF LazyInv
    <3>2. assignment'[VarOf(k)] = assignment[VarOf(k)]
      BY <1>1, <2>4, <3>1 DEF LazyInv
    <3> QED
      BY <2>2, <3>2, SameAtomSameValue
  <2> QED
    BY <2>3, <2>4
<1>8. ListsFor(m)'
  <2>1. live' \subseteq Clauses /\ unsat' \subseteq Clauses /\ watched' \in [Literals -> SUBSET Clauses]
    BY <1>1, <1>2, <1>3, <1>5, <1>6 DEF ListsFor
  <2>2. \A c \in live' \cup unsat' : SatClause(m, Lits[c])
    BY <1>1, <1>2, <1>3, <1>5, <1>6 DEF ListsFor
  <2>3. \A k \in Literals : \A c \in watched'[k] : SatClause(m, Lits[c])
    BY <1>2, <1>6 DEF ListsFor
  <2>4. \A r \in Rules : AssignedTrue(ruleAssignment'[r]) => SatRule(m, r)
    BY <1>2, <1>3, <1>4 DEF ListsFor
  <2> QED
    BY <1>3, <1>7, <2>1, <2>2, <2>3, <2>4 DEF ListsFor, SatRule
<1>9. ASSUME NEW c \in ClausesOf(ruleAssignment)'
      PROVE  c \in popped \/ c \in sat \/ c \in live' \/ \E k \in Literals : c \in watched'[k]
  <2>1. c \in Clauses /\ RuleOf[c] \in Rules /\ AssignedTrue(ruleAssignment'[RuleOf[c]])
    BY <1>9, WalkSatAssumption DEF ClausesOf
  <2>2. CASE RuleOf[c] \in J
    BY <1>3, <2>1, <2>2 DEF ClausesFrom
  <2>3. CASE RuleOf[c] \notin J
    <3>1. ListedOn(c)
      BY <1>3, <2>1, <2>3 DEF SearchInv, ClausesOf
    <3>2. CASE \E k \in Literals : c \in watched[k]
      <4>1. PICK k \in Literals : c \in watched[k]
        BY <3>2
      <4> QED
        BY <1>3, <1>6, <4>1
    <3> QED
      BY <1>3, <3>1, <3>2 DEF ListedOn
  <2> QED
    BY <2>2, <2>3
<1> QED
  BY <1>8, <1>9


(* A clause that is fixed true stays so as long as fixed values stay.      *)
LEMMA FixedSatStays ==
    ASSUME assignment \in [Atoms -> TVal], NEW c \in Clauses, FixedSat(c),
           \A v \in Atoms : FixedTVal(assignment[v]) => assignment'[v] = assignment[v]
    PROVE  FixedSat(c)'
<1>1. PICK k \in Lits[c] : AssignedFixedTrueLit(assignment, k)
  BY DEF FixedSat
<1>2. k \in Literals
  BY WalkSatAssumption
<1>3. assignment'[VarOf(k)] = assignment[VarOf(k)]
  BY <1>1, <1>2, LitValues
<1> QED
  BY <1>1, <1>3, SameAtomSameValue DEF FixedSat

(* A flip, whoever chose the atom, in the midst of a search.               *)
LEMMA FlipSearch ==
    ASSUME LazyInv, NEW m, Anchor(m), SearchInv(m), phase # "idle", phase' # "idle",
           NEW v \in Atoms, LazyFlip(v)
    PROVE  SearchInv(m)'
<1>1. CASE UnfixedTVal(assignment[v])
  <2> DEFINE t == TrueLitOf(v)
  <2>1. /\ MakeTrue(Not(t), NegateTVal(assignment[v]), {}) /\ sat' = sat
        /\ t \in Literals /\ VarOf(t) = v /\ Not(t) \in Literals /\ VarOf(Not(t)) = v
        /\ NegateTVal(assignment[v]) \in TVal
    BY <1>1, TrueLit, NotLit, NegateFree DEF LazyFlip, LazyInv
  <2>2. assignment' = [assignment EXCEPT ![v] = NegateTVal(@)]
    BY <2>1 DEF MakeTrue
  <2>3. LiteralFalsified(t) /\ FreeAtomsOnly
    BY <1>1, <2>2, FlipFalsifies DEF LazyInv
  <2>4. AssignedFalseLit(assignment, Not(t)) /\ AssignedTrueLit(assignment', Not(t))
    <3>1. AssignedTrueLit(assignment, t)
      BY TrueLit DEF LazyInv
    <3>2. \A f \in [Atoms -> TVal] : /\ AssignedTrueLit(f, Not(t)) <=> AssignedFalseLit(f, t)
                                     /\ AssignedTrueLit(f, t) <=> ~AssignedFalseLit(f, t)
                                     /\ AssignedTrueLit(f, Not(t)) <=> ~AssignedFalseLit(f, Not(t))
      BY <2>1, NotLit, LitValues
    <3> QED
      BY <2>3, <3>1, <3>2 DEF LiteralFalsified, LazyInv
  <2> HIDE DEF t
  <2>5. /\ ListsFor(m)'
        /\ \A c \in ClausesOf(ruleAssignment)' :
              c \in sat \/ c \in live' \/ \E k \in Literals : c \in watched'[k]
    BY <2>1, <2>4, MakeTrueLists
  <2>6. \A u \in Atoms : FixedTVal(assignment[u]) \/ FixedTVal(assignment'[u]) =>
                            assignment'[u] = assignment[u]
    BY <2>3 DEF FreeAtomsOnly
  <2>7. Agrees(m)'
    BY <2>6 DEF SearchInv, Agrees
  <2>8. SatListSettled'
    BY <2>1, <2>6, FixedSatStays DEF SearchInv, SatListSettled, LazyInv
  <2> QED
    BY <2>1, <2>5, <2>7, <2>8 DEF SearchInv, ListedOn
<1>2. CASE ~UnfixedTVal(assignment[v])
  BY <1>2 DEF LazyFlip, walkVars, tableVars, lists, SearchInv, ListsFor, WatchedByTrueLit,
     SatListSettled, FixedSat, ListedOn, Agrees
<1> QED
  BY <1>1, <1>2

(* Not all literals of a clause the search may meet are fixed false.       *)
LEMMA OneLiteralLeft ==
    ASSUME LazyInv, NEW m, Anchor(m), SearchInv(m), phase # "idle", NEW c \in live
    PROVE  /\ c \in Clauses
           /\ \E k \in OpenLits(c) : AssignedTrueLit(m, k)
<1>1. c \in Clauses /\ SatClause(m, Lits[c])
  BY DEF SearchInv, ListsFor
<1>2. PICK k \in Lits[c] : AssignedTrueLit(m, k)
  BY <1>1 DEF SatClause
<1>3. k \in Literals /\ VarOf(k) \in Atoms
  BY <1>1, WalkSatAssumption, LitValues DEF LazyInv
<1>4. ~AssignedFixedFalseLit(assignment, k)
  <2> SUFFICES ASSUME AssignedFixedFalseLit(assignment, k) PROVE FALSE
    OBVIOUS
  <2>1. FixedTVal(assignment[VarOf(k)])
    BY <1>3, LitValues DEF LazyInv
  <2>2. AssignedTrue(assignment[VarOf(k)]) <=> AssignedTrue(m[VarOf(k)])
    BY <1>3, <2>1 DEF SearchInv, Agrees
  <2>3. m[VarOf(k)] \in FreeTVal
    BY <1>3 DEF Anchor, FreeAssignments
  <2> QED
    BY <1>2, <2>2, <2>3 DEF AssignedFixedFalseLit, AssignedTrueLit, AssignedTrue, AssignedFalse,
       AssignedFixedTrue, AssignedFixedFalse, FreeTVal
<1> QED
  BY <1>1, <1>2, <1>4 DEF OpenLits

(* The literal a unit fixes is true in the model.                          *)
LEMMA UnitAgrees ==
    ASSUME LazyInv, NEW m, Anchor(m), SearchInv(m), phase # "idle", NEW c \in live,
           ~FixedSat(c), NEW l \in Literals, UnitLit(c, l),
           assignment' = [assignment EXCEPT ![VarOf(l)] = UpTrueValueOf(l)]
    PROVE  /\ Agrees(m)'
           /\ FixedSat(c)'
           /\ \A d \in Clauses : FixedSat(d) => FixedSat(d)'
<1>1. c \in Clauses /\ l \in Lits[c] /\ AssignedTrueLit(m, l)
  BY OneLiteralLeft DEF UnitLit, OpenLits
<1>2. /\ VarOf(l) \in Atoms
      /\ assignment'[VarOf(l)] = UpTrueValueOf(l)
      /\ \A v \in Atoms : v # VarOf(l) => assignment'[v] = assignment[v]
      /\ AssignedFixedTrueLit(assignment', l)
  BY FixedValue DEF LazyInv
<1>3. ~FixedTVal(assignment[VarOf(l)])
  BY <1>1, LitValues DEF UnitLit, OpenLits, FixedSat, LazyInv
<1>4. m[VarOf(l)] \in FreeTVal
  BY <1>2 DEF Anchor, FreeAssignments
<1>5. AssignedTrue(UpTrueValueOf(l)) <=> AssignedTrue(m[VarOf(l)])
  BY <1>1, <1>4 DEF AssignedTrueLit, UpTrueValueOf, AssignedTrue, AssignedFalse, FreeTVal
<1>6. Agrees(m)'
  BY <1>2, <1>5 DEF SearchInv, Agrees
<1>7. \A v \in Atoms : FixedTVal(assignment[v]) => assignment'[v] = assignment[v]
  BY <1>2, <1>3
<1> QED
  BY <1>1, <1>2, <1>6, <1>7, FixedSatStays DEF FixedSat, LazyInv

(* One turn of a scan: nothing is dropped, no rule is given up.            *)
LEMMA ScanSearch ==
    ASSUME LazyInv, NEW m, Anchor(m), SearchInv(m), phase # "idle", LazyScan
    PROVE  SearchInv(m)'
<1>1. phase' = phase
  BY DEF LazyScan, solverVars
<1>2. ASSUME NEW c \in live, LazyUnitPropagate(c) PROVE SearchInv(m)'
  <2>1. PICK l \in Literals : /\ UnitLit(c, l) /\ ~AssignedTrueLit(assignment, l)
                              /\ MakeTrue(l, UpTrueValueOf(l), {c})
    BY <1>2 DEF LazyUnitPropagate
  <2>2. assignment' = [assignment EXCEPT ![VarOf(l)] = UpTrueValueOf(l)]
    BY <2>1 DEF MakeTrue
  <2>3. /\ Agrees(m)' /\ FixedSat(c)' /\ c \in Clauses
        /\ \A d \in Clauses : FixedSat(d) => FixedSat(d)'
    BY <1>2, <2>1, <2>2, UnitAgrees, OneLiteralLeft DEF LazyUnitPropagate
  <2>4. /\ AssignedFalseLit(assignment, l) /\ AssignedTrueLit(assignment', l)
        /\ UpTrueValueOf(l) \in TVal
    BY <2>1, <2>2, LitValues, FixedValue DEF LazyInv, UpTrueValueOf, TVal
  <2>5. /\ ListsFor(m)'
        /\ \A d \in ClausesOf(ruleAssignment)' :
              d \in {c} \/ d \in sat \/ d \in live' \/ \E k \in Literals : d \in watched'[k]
    BY <2>1, <2>4, MakeTrueLists
  <2>6. sat' = sat \cup {c}
    BY <1>2 DEF LazyUnitPropagate
  <2>7. SatListSettled' /\ sat' \subseteq Clauses
    BY <1>1, <2>3, <2>6 DEF SearchInv, SatListSettled
  <2>8. \A d \in ClausesOf(ruleAssignment)' : ListedOn(d)'
    BY <2>5, <2>6 DEF ListedOn
  <2> QED
    BY <2>3, <2>5, <2>7, <2>8 DEF SearchInv
<1>3. ASSUME ScanLiveClause, Unfixed(assignment') = Unfixed(assignment), UNCHANGED tableVars
      PROVE  SearchInv(m)'
  <2>1. PICK c \in live : \/ InsertFixedSat(c) \/ DropFixedUnsat(c) \/ FixRuleFalse(c)
                          \/ UnitPropagate(c) \/ WatchTrueLit(c) \/ WatchRule(c) \/ ListUnsat(c)
    BY <1>3 DEF ScanLiveClause
  <2>2. c \in Clauses /\ ~AllFixedFalse(c) /\ SatClause(m, Lits[c])
    BY OneLiteralLeft DEF AllFixedFalse, SearchInv, ListsFor
  <2>3. UNCHANGED made
    BY <1>3 DEF tableVars
  <2> USE DEF SearchInv, ListsFor
  <2>4. CASE InsertFixedSat(c)
    <3>1. FixedSat(c)
      BY <2>4 DEF InsertFixedSat
    <3> QED
      BY <1>1, <2>2, <2>3, <2>4, <3>1 DEF InsertFixedSat, WatchedByTrueLit, SatListSettled, FixedSat,
         ListedOn, Agrees
  <2>5. CASE DropFixedUnsat(c) \/ FixRuleFalse(c)
    BY <2>2, <2>5 DEF DropFixedUnsat, FixRuleFalse, FixedUnsat
  <2>6. CASE UnitPropagate(c)
    <3>1. PICK l \in Lits[c] : UnitLit(c, l) /\ FixLitTrue(l, c)
      BY <2>6 DEF UnitPropagate
    <3>2. /\ l \in Literals /\ ~FixedSat(c) /\ sat' = sat \cup {c} /\ UNCHANGED ruleAssignment
          /\ assignment' = [assignment EXCEPT ![VarOf(l)] = UpTrueValueOf(l)]
      BY <2>2, <2>6, <3>1, WalkSatAssumption DEF UnitPropagate, FixLitTrue
    <3>3. /\ Agrees(m)' /\ FixedSat(c)'
          /\ \A d \in Clauses : FixedSat(d) => FixedSat(d)'
      BY <3>1, <3>2, UnitAgrees
    <3>4. /\ VarOf(l) \in Atoms
          /\ assignment'[VarOf(l)] = UpTrueValueOf(l)
          /\ \A v \in Atoms : v # VarOf(l) => assignment'[v] = assignment[v]
      BY <3>2, FixedValue DEF LazyInv
    <3>5. UnfixTVal(assignment'[VarOf(l)]) = UnfixTVal(assignment[VarOf(l)])
      BY <1>3, <3>4 DEF Unfixed
    <3>6. AssignedTrueLit(assignment, l)
      <4>1. assignment[VarOf(l)] \in TVal
        BY <3>4 DEF LazyInv
      <4> QED
        BY <3>4, <3>5, <4>1 DEF UnfixTVal, UpTrueValueOf, AssignedTrueLit, AssignedTrue,
           AssignedFalse, TVal
    <3>7. live' = live \ {c} /\ UNCHANGED <<watched, unsat>>
      BY <3>1, <3>6 DEF FixLitTrue
    <3>8. WatchedByTrueLit'
      <4> SUFFICES ASSUME NEW k \in Literals, NEW d \in watched[k]
                   PROVE  k \in Lits[d] /\ AssignedTrueLit(assignment', k)
        BY <3>7 DEF WatchedByTrueLit
      <4>1. k \in Lits[d] /\ AssignedTrueLit(assignment, k) /\ VarOf(k) \in Atoms
        BY LitValues DEF WatchedByTrueLit, LazyInv
      <4>2. assignment[VarOf(k)] \in TVal /\ assignment'[VarOf(k)] \in TVal
        BY <3>2, <4>1, FixedValue DEF LazyInv
      <4>3. UnfixTVal(assignment'[VarOf(k)]) = UnfixTVal(assignment[VarOf(k)])
        BY <1>3, <4>1 DEF Unfixed
      <4> QED
        BY <4>1, <4>2, <4>3 DEF UnfixTVal, AssignedTrueLit, AssignedTrue, AssignedFalse, TVal
    <3>9. SatListSettled'
      BY <1>1, <3>2, <3>3 DEF SatListSettled
    <3> QED
      BY <2>2, <2>3, <3>2, <3>3, <3>7, <3>8, <3>9 DEF ListedOn
  <2>7. CASE WatchTrueLit(c)
    <3>1. PICK l \in Lits[c] : /\ AssignedTrueLit(assignment, l)
                               /\ watched' = [watched EXCEPT ![l] = @ \cup {c}]
      BY <2>7 DEF WatchTrueLit
    <3>2. /\ l \in Literals /\ live' = live \ {c}
          /\ UNCHANGED <<assignment, ruleAssignment, unsat, sat>>
      BY <2>2, <2>7, WalkSatAssumption DEF WatchTrueLit
    <3>3. \A k \in Literals : watched'[k] = IF k = l THEN watched[k] \cup {c} ELSE watched[k]
      BY <3>1, <3>2
    <3>4. watched' \in [Literals -> SUBSET Clauses]
      BY <2>2, <3>1, <3>2
    <3>5. WatchedByTrueLit'
      BY <3>1, <3>2, <3>3 DEF WatchedByTrueLit
    <3>6. \A d \in ClausesOf(ruleAssignment)' : ListedOn(d)'
      BY <3>2, <3>3 DEF ListedOn
    <3>7. \A k \in Literals : \A d \in watched'[k] : SatClause(m, Lits[d])
      BY <2>2, <3>3
    <3> QED
      BY <1>1, <2>2, <2>3, <3>2, <3>4, <3>5, <3>6, <3>7 DEF SatListSettled, FixedSat, Agrees
  <2>8. CASE WatchRule(c)
    <3>1. ~AssignedTrue(ruleAssignment[RuleOf[c]])
      BY <2>8 DEF WatchRule, AssignedTrue, AssignedFalse
    <3>2. live' = live \ {c} /\ UNCHANGED <<assignment, ruleAssignment, unsat, sat, watched>>
      BY <2>8 DEF WatchRule
    <3>3. \A d \in ClausesOf(ruleAssignment)' : ListedOn(d)'
      BY <3>1, <3>2 DEF ListedOn, ClausesOf
    <3> QED
      BY <1>1, <2>3, <3>2, <3>3 DEF WatchedByTrueLit, SatListSettled, FixedSat, Agrees
  <2>9. CASE ListUnsat(c)
    BY <1>1, <2>2, <2>3, <2>9 DEF ListUnsat, WatchedByTrueLit, SatListSettled, FixedSat, ListedOn, Agrees
  <2> QED
    BY <2>1, <2>4, <2>5, <2>6, <2>7, <2>8, <2>9
<1> QED
  BY <1>2, <1>3 DEF LazyScan


(* The other steps of a search leave the lists alone, or flip one atom.    *)
LEMMA SameListsSearch ==
    ASSUME NEW m, SearchInv(m), phase # "idle", phase' # "idle", UNCHANGED <<walkVars, tableVars>>
    PROVE  SearchInv(m)'
BY DEF walkVars, tableVars, lists, SearchInv, ListsFor, WatchedByTrueLit, SatListSettled, FixedSat,
   ListedOn, Agrees

LEMMA AnnealSearch ==
    ASSUME LazyInv, NEW m, Anchor(m), SearchInv(m), phase # "idle", phase' # "idle",
           NEW hot, LazyAnneal(hot)
    PROVE  SearchInv(m)'
BY FlipSearch, SameListsSearch DEF LazyAnneal, UnfixedAtoms

LEMMA BodySearch ==
    ASSUME LazyInv, NEW m, Anchor(m), SearchInv(m), phase # "idle", phase' # "idle", LazyBody
    PROVE  SearchInv(m)'
<1>1. ASSUME NEW c \in unsat, NEW v \in ClauseVars(c), LazyFlip(v) PROVE SearchInv(m)'
  <2>1. v \in Atoms
    BY <1>1 DEF ClauseVars, GreedyVarsOf, UnfixedVarsOf, UnfixedAtoms
  <2> QED
    BY <1>1, <2>1, FlipSearch
<1> QED
  BY <1>1, AnnealSearch DEF LazyBody

(* On return the marks are dropped and the values stay.                    *)
LEMMA ReturnSearch ==
    ASSUME LazyInv, NEW m, Anchor(m), SearchInv(m), phase # "idle", Return, UNCHANGED tableVars
    PROVE  SearchInv(m)'
<1>1. /\ assignment' = Unfixed(assignment) /\ phase' = "idle"
      /\ UNCHANGED <<ruleAssignment, lists, made>>
  BY DEF Return, tableVars
<1>2. ASSUME NEW k \in Literals, AssignedTrueLit(assignment, k)
      PROVE  AssignedTrueLit(assignment', k)
  <2>1. VarOf(k) \in Atoms /\ assignment[VarOf(k)] \in TVal
    BY LitValues DEF LazyInv
  <2>2. assignment'[VarOf(k)] = UnfixTVal(assignment[VarOf(k)])
    BY <1>1, <2>1 DEF Unfixed
  <2> QED
    BY <1>2, <2>1, <2>2 DEF UnfixTVal, AssignedTrueLit, AssignedTrue, AssignedFalse, TVal
<1>3. WatchedByTrueLit'
  BY <1>1, <1>2 DEF SearchInv, ListsFor, WatchedByTrueLit, lists
<1>4. ASSUME NEW c \in sat PROVE SatClause(assignment', Lits[c])
  <2>1. c \in Clauses /\ FixedSat(c)
    BY DEF SearchInv, SatListSettled
  <2>2. PICK k \in Lits[c] : AssignedFixedTrueLit(assignment, k)
    BY <2>1 DEF FixedSat
  <2>3. k \in Literals
    BY <2>1, WalkSatAssumption
  <2>4. AssignedTrueLit(assignment, k)
    BY <2>2, <2>3, LitValues DEF LazyInv
  <2> QED
    BY <1>2, <2>3, <2>4 DEF SatClause
<1>5. SatListSettled'
  BY <1>1, <1>4 DEF SatListSettled, lists
<1> QED
  BY <1>1, <1>3, <1>5 DEF SearchInv, ListsFor, ListedOn, lists

(* The same model is there after the step: rules are only added to those   *)
(* that are made.                                                          *)
LEMMA AnchorStays ==
    ASSUME NEW m, Anchor(m), UNCHANGED soft, made \subseteq made'
    PROVE  Anchor(m)'
BY DEF Anchor, SatRule

LEMMA MadeGrows == ASSUME SearchStep PROVE made \subseteq made'
<1>1. ASSUME NEW l, NEW tval, NEW popped, MakeTrue(l, tval, popped) PROVE made \subseteq made'
  BY <1>1 DEF MakeTrue, ActivateAtom, tableVars
<1>2. ASSUME NEW v, LazyFlip(v) PROVE made \subseteq made'
  BY <1>1, <1>2 DEF LazyFlip, tableVars
<1>3. ASSUME LazyScan PROVE made \subseteq made'
  BY <1>1, <1>3 DEF LazyScan, LazyUnitPropagate, tableVars
<1>4. ASSUME NEW hot, LazyAnneal(hot) PROVE made \subseteq made'
  BY <1>2, <1>4 DEF LazyAnneal, tableVars
<1>5. ASSUME LazyBody PROVE made \subseteq made'
  BY <1>2, <1>4, <1>5 DEF LazyBody
<1> QED
  BY <1>2, <1>3, <1>4, <1>5 DEF SearchStep, StartRandom, RandomFlip, EndRandom, LazyWalkStep,
     LazyExtraStep, tableVars

(* A step of a search is taken inside one, and leaves the round alone.     *)
LEMMA SearchRuns ==
    ASSUME Between, SearchStep
    PROVE  phase # "idle" /\ InSearch /\ InSearch' /\ UNCHANGED <<soft, mpc, other>>
<1>1. UNCHANGED <<soft, mpc, other>>
  BY DEF SearchStep, LazyScan, StartRandom, RandomFlip, EndRandom, LazyWalkStep, LazyExtraStep, roundVars
<1>2. LazyScan => live # {}
  BY DEF LazyScan, LazyUnitPropagate, ScanLiveClause
<1>3. phase # "idle"
  BY <1>2 DEF Between, SearchStep, StartRandom, RandomFlip, EndRandom, LazyWalkStep,
     LazyExtraStep, StartWalk, StartExtra, Return
<1> QED
  BY <1>1, <1>3 DEF Between, Idle, InSearch

(* Every step of a search.                                                 *)
LEMMA SearchStepSearch ==
    ASSUME LazyInv, Between, NEW m, Anchor(m), SearchInv(m), SearchStep
    PROVE  Anchor(m)' /\ SearchInv(m)'
<1>1. UNCHANGED soft
  BY SearchRuns
<1>2. phase # "idle"
  BY SearchRuns
<1>3. Anchor(m)'
  BY <1>1, AnchorStays, MadeGrows
<1>4. SearchInv(m)'
  <2>1. CASE LazyScan
    BY <1>2, <2>1, ScanSearch
  <2>2. CASE StartRandom \/ EndRandom
    BY <1>2, <2>2, SameListsSearch DEF StartRandom, EndRandom
  <2>3. CASE RandomFlip
    BY <1>2, <2>3, FlipSearch DEF RandomFlip, UnfixedAtoms, solverVars
  <2>4. CASE LazyWalkStep
    BY <1>2, <2>4, BodySearch DEF LazyWalkStep
  <2>5. CASE LazyExtraStep
    BY <1>2, <2>5, AnnealSearch DEF LazyExtraStep
  <2>6. CASE (StartWalk \/ StartExtra) /\ UNCHANGED <<tableVars, todo, roundVars>>
    BY <1>2, <2>6, SameListsSearch DEF StartWalk, StartExtra
  <2>7. CASE Return /\ UNCHANGED <<tableVars, todo, roundVars>>
    BY <1>2, <2>7, ReturnSearch
  <2> QED
    BY <2>1, <2>2, <2>3, <2>4, <2>5, <2>6, <2>7 DEF SearchStep
<1> QED
  BY <1>3, <1>4


(* A search changes an assignment without facts to one without facts, and  *)
(* leaves no mark when it returns.                                         *)
LEMMA NoFacts ==
    ASSUME LazyInv, SearchStep, \A v \in Atoms : ~DbTVal(assignment[v])
    PROVE  \A v \in Atoms : ~DbTVal(assignment'[v])
<1> USE DEF LazyInv
<1>1. ASSUME NEW l \in Literals, NEW tval, NEW popped, MakeTrue(l, tval, popped), ~DbTVal(tval)
      PROVE  \A v \in Atoms : ~DbTVal(assignment'[v])
  BY <1>1 DEF MakeTrue
<1>2. ASSUME NEW v \in Atoms, LazyFlip(v) PROVE \A u \in Atoms : ~DbTVal(assignment'[u])
  <2>1. CASE UnfixedTVal(assignment[v])
    <3>1. ~DbTVal(NegateTVal(assignment[v]))
      BY <2>1 DEF UnfixedTVal, FreeTVal, NegateTVal, DbTVal
    <3>2. Not(TrueLitOf(v)) \in Literals
      BY TrueLit, NotLit
    <3> QED
      BY <1>1, <1>2, <2>1, <3>1, <3>2 DEF LazyFlip
  <2>2. CASE ~UnfixedTVal(assignment[v])
    BY <1>2, <2>2 DEF LazyFlip, walkVars
  <2> QED
    BY <2>1, <2>2
<1>3. \A l : ~DbTVal(UpTrueValueOf(l))
  BY DEF UpTrueValueOf, DbTVal
<1>4. CASE LazyScan
  <2>1. ASSUME NEW c, LazyUnitPropagate(c) PROVE \A v \in Atoms : ~DbTVal(assignment'[v])
    BY <1>1, <1>3, <2>1 DEF LazyUnitPropagate
  <2>2. ASSUME NEW c, NEW l, FixLitTrue(l, c) PROVE \A v \in Atoms : ~DbTVal(assignment'[v])
    BY <1>3, <2>2 DEF FixLitTrue
  <2>3. ScanLiveClause =>
          assignment' = assignment \/ \E c, l : FixLitTrue(l, c)
    BY DEF ScanLiveClause, InsertFixedSat, DropFixedUnsat, FixRuleFalse, UnitPropagate,
       WatchTrueLit, WatchRule, ListUnsat
  <2> QED
    BY <1>4, <2>1, <2>2, <2>3 DEF LazyScan
<1>5. ASSUME NEW hot, LazyAnneal(hot) PROVE \A v \in Atoms : ~DbTVal(assignment'[v])
  BY <1>2, <1>5 DEF LazyAnneal, UnfixedAtoms, walkVars
<1>6. ASSUME LazyBody PROVE \A v \in Atoms : ~DbTVal(assignment'[v])
  BY <1>2, <1>5, <1>6 DEF LazyBody, ClauseVars, GreedyVarsOf, UnfixedVarsOf, UnfixedAtoms
<1>7. CASE Return
  BY <1>7 DEF Return, Unfixed, UnfixTVal, DbTVal
<1>8. CASE RandomFlip
  BY <1>2, <1>8 DEF RandomFlip, UnfixedAtoms
<1> QED
  BY <1>4, <1>5, <1>6, <1>7, <1>8 DEF SearchStep, StartRandom, EndRandom, LazyWalkStep,
     LazyExtraStep, StartWalk, StartExtra, walkVars

LEMMA SearchBetween == ASSUME LazyInv, Between, SearchStep PROVE Between'
<1>1. phase # "idle" /\ InSearch' /\ UNCHANGED other
  BY SearchRuns
<1>2. \A v \in Atoms : ~DbTVal(assignment'[v])
  BY NoFacts DEF Between
<1>3. phase' = "idle" => Return
  BY <1>1 DEF SearchStep, LazyScan, StartRandom, RandomFlip, EndRandom, LazyWalkStep, LazyExtraStep,
     StartWalk, StartExtra, solverVars
<1>4. Return => live' = {} /\ assignment' \in FreeAssignments
  <2> SUFFICES ASSUME Return PROVE live' = {} /\ assignment' \in FreeAssignments
    OBVIOUS
  <2>1. live' = {} /\ assignment' = [v \in Atoms |-> UnfixTVal(assignment[v])]
    BY DEF Return, lists, Unfixed
  <2>2. \A v \in Atoms : assignment[v] \in TVal /\ ~DbTVal(assignment[v])
    BY DEF LazyInv, Between
  <2>3. \A v \in Atoms : UnfixTVal(assignment[v]) \in FreeTVal
    BY <2>2 DEF TVal, DbTVal, UnfixTVal, FreeTVal
  <2> QED
    BY <2>1, <2>3 DEF FreeAssignments
<1> QED
  BY <1>1, <1>2, <1>3, <1>4 DEF Between

-----------------------------------------------------------------------------
(* A search that ends without unsatisfied clauses has found a model of the *)
(* hard rules and of what it kept.                                         *)
LEMMA FoundIsModel ==
    ASSUME LazyInv, NEW m, SearchInv(m), Idle, unsat = {}
    PROVE  \A r \in Rules :
              r \in Hard \/ AssignedTrue(ruleAssignment[r]) => SatRule(assignment, r)
<1>1. ASSUME NEW r \in Rules, AssignedTrue(ruleAssignment[r]), NEW c \in ClausesFrom({r})
      PROVE  SatClause(assignment, Lits[c])
  <2>1. c \in ClausesOf(ruleAssignment)
    BY <1>1 DEF ClausesFrom, ClausesOf
  <2>2. c \in sat \/ \E l \in Literals : c \in watched[l]
    BY <2>1 DEF SearchInv, ListedOn, Idle
  <2>3. CASE c \in sat
    BY <2>3 DEF SearchInv, SatListSettled, Idle
  <2>4. CASE \E l \in Literals : c \in watched[l]
    BY <2>4 DEF SearchInv, ListsFor, WatchedByTrueLit, SatClause
  <2> QED
    BY <2>2, <2>3, <2>4
<1>2. \A r \in Hard : r \in made => AssignedTrue(ruleAssignment[r])
  BY DEF SearchInv, ListsFor
<1>3. \A r \in Rules \ made : SatRule(assignment, r)
  BY DormantFromInv DEF DormantAreTrue
<1> QED
  BY <1>1, <1>2, <1>3 DEF SatRule

(* The lists a search starts with: all clauses of the live rules are to be *)
(* scanned.                                                                *)
LEMMA SearchStarts ==
    ASSUME LazyInv, NEW m \in FreeAssignments, NEW a \in FreeAssignments,
           NEW ra \in RuleChoices, NEW args,
           StartSampleSat(a, ra, args),
           \A r \in Rules : AssignedTrue(ra[r]) => SatRule(m, r),
           \A r \in Hard \cap made : AssignedTrue(ra[r]), UNCHANGED made
    PROVE  SearchInv(m)'
<1>1. /\ assignment' = a /\ ruleAssignment' = ra /\ live' = ClausesOf(ra) /\ unsat' = {}
      /\ sat' = {} /\ watched' = [l \in Literals |-> {}] /\ phase' = "init"
  BY DEF StartSampleSat, InitLiveClauses
<1>2. \A c \in ClausesOf(ra) : c \in Clauses /\ SatClause(m, Lits[c])
  BY WalkSatAssumption DEF ClausesOf, SatRule, ClausesFrom
<1>3. Agrees(m)'
  BY <1>1 DEF Agrees, FreeAssignments, FreeTVal, FixedTVal
<1>4. ListsFor(m)'
  BY <1>1, <1>2 DEF ListsFor, WatchedByTrueLit, SatRule
<1>5. \A c \in ClausesOf(ruleAssignment)' : ListedOn(c)'
  BY <1>1 DEF ListedOn, ClausesOf
<1> QED
  BY <1>1, <1>3, <1>4, <1>5 DEF SearchInv, SatListSettled


-----------------------------------------------------------------------------
LEMMA ChainStart == LazyInit => ChainInv
<1> SUFFICES ASSUME LazyInit PROVE ChainInv
  OBVIOUS
<1>1. LazyInv
  BY LazyStart
<1>2. /\ mpc = "start" /\ Idle /\ soft = FALSE
      /\ assignment = [v \in Atoms |-> "v_false"] /\ other = assignment
  BY DEF LazyInit, SolverInit, Idle
<1>3. Between
  BY <1>2 DEF Between, FreeAssignments, FreeTVal, DbTVal, Idle
<1>4. HardModels # {} => AtModels
  BY <1>2 DEF AtModels, HardModels, Anchor, FreeAssignments, InSearch
<1> QED
  BY <1>1, <1>3, <1>4 DEF ChainInv

(* A round starts from a model of the hard rules, in which what it keeps   *)
(* and all that may still be made is true.                                 *)
LEMMA RoundStarts ==
    ASSUME ChainInv, HardModels # {}, StartRound
    PROVE  AtModels'
<1>1. PICK ra \in KeptInstances : StartSampleSat(assignment, ra, RoundCall)
  BY DEF StartRound
<1>2. /\ UNCHANGED <<assignment, made>> /\ other' = assignment /\ mpc' = "solve"
  BY <1>1 DEF StartRound, StartSampleSat, tableVars
<1>3. assignment \in FreeAssignments /\ LazyInv /\ \A r \in Hard : SatRule(assignment, r)
  BY DEF ChainInv, Between, AtModels, StartRound, InSearch, Idle
<1>4. /\ ra \in RuleChoices
      /\ \A r \in Rules : AssignedTrue(ra[r]) => SatRule(assignment, r)
      /\ \A r \in Hard \cap made : AssignedTrue(ra[r])
  BY <1>3, WalkSatAssumption DEF KeptInstances, RuleChoices, AssignedTrue
<1>5. PICK m \in FreeAssignments : m = assignment
  BY <1>3
<1>6. SearchInv(m)'
  BY <1>1, <1>2, <1>3, <1>4, <1>5, SearchStarts
<1>7. Anchor(m)'
  <2>1. \A r \in Rules \ made : SatRule(m, r)
    BY <1>3, <1>5, DormantFromInv DEF DormantAreTrue
  <2> QED
    BY <1>2, <1>3, <1>5, <2>1 DEF Anchor, SatRule
<1>8. \A r \in Hard : SatRule(other, r)'
  BY <1>2, <1>3 DEF SatRule
<1> QED
  BY <1>2, <1>6, <1>7, <1>8 DEF AtModels

(* The first search keeps all hard rules that are made.                    *)
LEMMA FirstStarts ==
    ASSUME ChainInv, HardModels # {}, FirstSampleSat
    PROVE  AtModels'
<1>1. /\ StartSampleSat(assignment, HardMade, FirstCall)
      /\ UNCHANGED <<soft, made>> /\ mpc' = "first"
  BY DEF FirstSampleSat, tableVars
<1>2. assignment \in FreeAssignments /\ LazyInv
  BY DEF ChainInv, Between, FirstSampleSat, InSearch, Idle
<1>3. PICK m \in FreeAssignments : Anchor(m)
  BY DEF ChainInv, AtModels
<1>4. /\ HardMade \in RuleChoices
      /\ \A r \in Rules : AssignedTrue(HardMade[r]) => SatRule(m, r)
      /\ \A r \in Hard \cap made : AssignedTrue(HardMade[r])
  BY <1>3, WalkSatAssumption DEF HardMade, RuleChoices, AssignedTrue, Anchor
<1>5. SearchInv(m)'
  BY <1>1, <1>2, <1>4, SearchStarts
<1>6. Anchor(m)'
  BY <1>1, <1>3, AnchorStays
<1> QED
  BY <1>1, <1>5, <1>6 DEF AtModels

(* The steps of the loop that start no search.                             *)
LEMMA LoopStep ==
    ASSUME ChainInv, HardModels # {}, UNCHANGED made,
           soft' => soft, mpc' \notin {"first", "solve"},
           mpc' = "round" => \A r \in Hard : SatRule(assignment', r)
    PROVE  AtModels'
<1>1. PICK m \in FreeAssignments : Anchor(m)
  BY DEF ChainInv, AtModels
<1>2. Anchor(m)'
  BY <1>1 DEF Anchor, SatRule
<1> QED
  BY <1>2 DEF AtModels, InSearch, SatRule

LEMMA SearchAtModels ==
    ASSUME ChainInv, HardModels # {}, SearchStep
    PROVE  AtModels'
<1>1. /\ InSearch /\ InSearch' /\ UNCHANGED <<mpc, other>>
  BY SearchRuns DEF ChainInv
<1>2. PICK m \in FreeAssignments : Anchor(m) /\ SearchInv(m)
  BY <1>1 DEF ChainInv, AtModels
<1>3. Anchor(m)' /\ SearchInv(m)'
  BY <1>2, SearchStepSearch DEF ChainInv
<1> QED
  BY <1>1, <1>3 DEF ChainInv, AtModels, InSearch, SatRule

LEMMA Found == ChainInv => RoundIsChainStep
BY FoundIsModel DEF ChainInv, AtModels, RoundIsChainStep, InSearch

LEMMA ChainNext == ChainInv /\ [LazyNext]_lazyVars => ChainInv'
<1> SUFFICES ASSUME ChainInv, [LazyNext]_lazyVars PROVE ChainInv'
  OBVIOUS
<1>1. LazyInv'
  BY LazyPreserved DEF ChainInv
<1>2. RoundIsChainStep
  BY Found
<1>3. CASE SearchStep
  BY <1>1, <1>3, SearchBetween, SearchAtModels DEF ChainInv
<1>4. CASE FirstSampleSat
  <2>1. Between'
    BY <1>4 DEF ChainInv, Between, FirstSampleSat, StartSampleSat, InSearch
  <2> QED
    BY <1>1, <1>4, <2>1, FirstStarts DEF ChainInv
<1>5. CASE StartRound
  <2>1. Between'
    BY <1>5 DEF ChainInv, Between, StartRound, StartSampleSat, InSearch, Idle
  <2> QED
    BY <1>1, <1>5, <2>1, RoundStarts DEF ChainInv
<1>6. CASE FirstFound
  <2>1. /\ UNCHANGED <<made, soft, assignment, other, phase, live>>
        /\ mpc = "first" /\ Idle /\ mpc' \in {"round", "start"} /\ (mpc' = "round" => unsat = {})
    BY <1>6 DEF FirstFound, vars, walkVars, lists, tableVars, solverVars
  <2>2. Between'
    BY <2>1 DEF ChainInv, Between, InSearch, Idle
  <2>3. HardModels # {} => AtModels'
    BY <1>2, <2>1, LoopStep, WalkSatAssumption DEF RoundIsChainStep
  <2> QED
    BY <1>1, <2>2, <2>3 DEF ChainInv
<1>7. CASE RoundsOver
  <2>1. /\ UNCHANGED <<made, soft, assignment, other, phase, live>> /\ mpc = "round" /\ mpc' = "start"
    BY <1>7 DEF RoundsOver, vars, walkVars, lists, tableVars, solverVars
  <2>2. Between'
    BY <2>1 DEF ChainInv, Between, InSearch, Idle
  <2>3. HardModels # {} => AtModels'
    BY <2>1, LoopStep
  <2> QED
    BY <1>1, <2>2, <2>3 DEF ChainInv
<1>8. CASE RoundFailed
  <2>1. /\ UNCHANGED <<made, soft, phase, live>> /\ assignment' = other /\ other' = assignment
        /\ mpc = "solve" /\ Idle /\ mpc' = "round"
    BY <1>8 DEF RoundFailed, lists, tableVars, solverVars
  <2>2. Between'
    BY <2>1 DEF ChainInv, Between, InSearch, Idle, FreeAssignments, FreeTVal, DbTVal
  <2>3. HardModels # {} => AtModels'
    BY <2>1, LoopStep DEF ChainInv, AtModels
  <2> QED
    BY <1>1, <2>2, <2>3 DEF ChainInv
<1>9. CASE RoundDone
  <2>1. /\ UNCHANGED <<made, assignment, other, phase, live>> /\ soft' = FALSE
        /\ mpc = "solve" /\ Idle /\ unsat = {} /\ mpc' = "round"
    BY <1>9 DEF RoundDone, vars, walkVars, lists, tableVars, solverVars
  <2>2. Between'
    BY <2>1 DEF ChainInv, Between, InSearch, Idle
  <2>3. HardModels # {} => AtModels'
    BY <1>2, <2>1, LoopStep, WalkSatAssumption DEF RoundIsChainStep
  <2> QED
    BY <1>1, <2>2, <2>3 DEF ChainInv
<1>10. CASE Tick \/ UNCHANGED lazyVars
  <2>1. UNCHANGED <<made, soft, mpc, other, vars>>
    BY <1>10 DEF Tick, lazyVars, tableVars, roundVars
  <2> QED
    BY <1>1, <2>1 DEF ChainInv, Between, AtModels, Anchor, SearchInv, ListsFor, WatchedByTrueLit,
       SatListSettled, FixedSat, ListedOn, Agrees, InSearch, Idle, SatRule, ClausesOf,
       vars, walkVars, lists, solverVars
<1> QED
  BY <1>3, <1>4, <1>5, <1>6, <1>7, <1>8, <1>9, <1>10 DEF LazyNext

(* Laziness does not show in what a search finds: it is a model of the     *)
(* hard rules and of all that was kept, whatever joined in the midst of a  *)
(* scan, also when the last call has left soft_rules_included set.         *)
THEOREM RoundIsEager == LazySpec => []RoundIsChainStep
<1>1. LazySpec => []ChainInv
  BY ChainStart, ChainNext, PTL DEF LazySpec
<1> QED
  BY <1>1, Found, PTL
=============================================================================
