---------------------------- MODULE WalkSatProofs ----------------------------
(***************************************************************************)
(* What the proofs about SampleSat and MwSat share: the values of literals *)
(* and what a flip and a unit propagation do to them, for any atoms.       *)
(***************************************************************************)
EXTENDS WalkSat, FiniteSetTheorems, TLAPS

-----------------------------------------------------------------------------
(* A part of a finite set, and what is left without it.                    *)
LEMMA PartCount ==
    ASSUME NEW S, IsFiniteSet(S), NEW P, P \subseteq S
    PROVE  /\ IsFiniteSet(P) /\ Cardinality(P) \in Nat
           /\ IsFiniteSet(S \ P) /\ Cardinality(S \ P) \in Nat
           /\ Cardinality(S \ P) = Cardinality(S) - Cardinality(P)
<1>1. S \cap P = P
  OBVIOUS
<1>2. IsFiniteSet(S \ P) /\ Cardinality(S \ P) = Cardinality(S) - Cardinality(S \cap P)
  BY FS_Difference
<1>3. IsFiniteSet(P)
  BY FS_Subset
<1> QED
  BY <1>1, <1>2, <1>3, FS_CardinalityType

-----------------------------------------------------------------------------
(* Truth values and literals.                                              *)

(* A literal is true or false and not both; one that is fixed true is      *)
(* true, one that is fixed false is false (the evaluation of literals in   *)
(* utils.c).                                                               *)
LEMMA LitValues ==
    ASSUME NEW f \in [Atoms -> TVal], NEW l \in Literals
    PROVE  /\ VarOf(l) \in Atoms
           /\ AssignedTrueLit(f, l) <=> ~AssignedFalseLit(f, l)
           /\ AssignedFixedTrueLit(f, l) =>
                AssignedTrueLit(f, l) /\ FixedTVal(f[VarOf(l)])
           /\ AssignedFixedFalseLit(f, l) =>
                AssignedFalseLit(f, l) /\ FixedTVal(f[VarOf(l)])
           /\ FixedTVal(f[VarOf(l)]) =>
                AssignedFixedTrueLit(f, l) \/ AssignedFixedFalseLit(f, l)
<1>1. VarOf(l) \in Atoms
  BY DEF Literals, LiteralsOf, VarOf, Signs
<1>2. f[VarOf(l)] \in TVal
  BY <1>1
<1> QED
  BY <1>1, <1>2 DEF TVal, AssignedTrueLit, AssignedFalseLit, AssignedFixedTrueLit,
     AssignedFixedFalseLit, AssignedTrue, AssignedFalse, AssignedFixedTrue,
     AssignedFixedFalse, FixedTVal

(* The negation of a literal is a literal of the same atom, and has the    *)
(* other value.                                                            *)
LEMMA NotLit ==
    ASSUME NEW f \in [Atoms -> TVal], NEW l \in Literals
    PROVE  /\ Not(l) \in Literals
           /\ VarOf(Not(l)) = VarOf(l)
           /\ Not(Not(l)) = l
           /\ Not(l) # l
           /\ AssignedTrueLit(f, Not(l)) <=> AssignedFalseLit(f, l)
           /\ \A k \in Literals : VarOf(k) = VarOf(l) => k = l \/ k = Not(l)
<1>1. PICK v \in Atoms, s \in Signs : l = <<v, s>>
  BY DEF Literals, LiteralsOf
<1>2. \A k \in Literals : \E u \in Atoms, t \in Signs : k = <<u, t>>
  BY DEF Literals, LiteralsOf
<1> QED
  BY <1>1, <1>2 DEF Literals, LiteralsOf, Signs, Not, VarOf, IsPos, AssignedTrueLit, AssignedFalseLit

(* The value of a literal depends on its atom alone.                       *)
LEMMA SameAtomSameValue ==
    ASSUME NEW f, NEW g, NEW l, f[VarOf(l)] = g[VarOf(l)]
    PROVE  /\ AssignedTrueLit(f, l) <=> AssignedTrueLit(g, l)
           /\ AssignedFalseLit(f, l) <=> AssignedFalseLit(g, l)
           /\ AssignedFixedTrueLit(f, l) <=> AssignedFixedTrueLit(g, l)
           /\ AssignedFixedFalseLit(f, l) <=> AssignedFixedFalseLit(g, l)
BY DEF AssignedTrueLit, AssignedFalseLit, AssignedFixedTrueLit, AssignedFixedFalseLit

(* TrueLitOf(v) is the one literal of v that is true.                      *)
LEMMA TrueLit ==
    ASSUME assignment \in [Atoms -> TVal], NEW v \in Atoms
    PROVE  /\ TrueLitOf(v) \in Literals
           /\ VarOf(TrueLitOf(v)) = v
           /\ AssignedTrueLit(assignment, TrueLitOf(v))
<1>1. assignment[v] \in TVal
  OBVIOUS
<1> QED
  BY <1>1 DEF TrueLitOf, Literals, LiteralsOf, Signs, VarOf, PosLit, NegLit, IsPos, TVal,
     AssignedTrueLit, AssignedTrue, AssignedFalse

-----------------------------------------------------------------------------
(* A literal changes from true to false.                                   *)

(* The literal l changes from true to false, and nothing else does.        *)
LiteralFalsified(l) ==
    /\ assignment' \in [Atoms -> TVal]
    /\ AssignedFalseLit(assignment', l)
    /\ \A v \in Atoms : v # VarOf(l) => assignment'[v] = assignment[v]

LEMMA FalsifiedLits ==
    ASSUME assignment \in [Atoms -> TVal],
           NEW l \in Literals, AssignedTrueLit(assignment, l), LiteralFalsified(l),
           NEW k \in Literals, k # l, AssignedTrueLit(assignment, k)
    PROVE  AssignedTrueLit(assignment', k)
<1>1. CASE VarOf(k) = VarOf(l)
  <2>1. k = Not(l)
    BY <1>1, NotLit
  <2> QED
    BY <2>1, NotLit DEF LiteralFalsified
<1>2. CASE VarOf(k) # VarOf(l)
  <2>1. VarOf(k) \in Atoms
    BY LitValues
  <2>2. assignment'[VarOf(k)] = assignment[VarOf(k)]
    BY <1>2, <2>1 DEF LiteralFalsified
  <2> QED
    BY <2>2, SameAtomSameValue
<1> QED
  BY <1>1, <1>2

-----------------------------------------------------------------------------
(* Steps that change free atoms only.                                      *)

FreeAtomsOnly ==
    /\ assignment' \in [Atoms -> TVal]
    /\ \A v \in Atoms :
          FixedTVal(assignment[v]) \/ FixedTVal(assignment'[v]) =>
              assignment'[v] = assignment[v]

LEMMA FixedLitStays ==
    ASSUME assignment \in [Atoms -> TVal], FreeAtomsOnly,
           NEW l \in Literals, AssignedFixedTrueLit(assignment, l)
    PROVE  AssignedFixedTrueLit(assignment', l)
<1>1. VarOf(l) \in Atoms /\ FixedTVal(assignment[VarOf(l)])
  BY LitValues
<1>2. assignment'[VarOf(l)] = assignment[VarOf(l)]
  BY <1>1 DEF FreeAtomsOnly
<1> QED
  BY <1>2, SameAtomSameValue

LEMMA NegateFree ==
    ASSUME NEW x, UnfixedTVal(x)
    PROVE  /\ ~FixedTVal(x)
           /\ NegateTVal(x) \in TVal
           /\ ~FixedTVal(NegateTVal(x))
           /\ AssignedTrue(x) <=> AssignedFalse(NegateTVal(x))
           /\ AssignedFalse(x) <=> AssignedTrue(NegateTVal(x))
BY DEF UnfixedTVal, FreeTVal, FixedTVal, NegateTVal, TVal, AssignedTrue, AssignedFalse

(* A flip falsifies the true literal of the atom, and changes nothing that *)
(* is fixed.                                                               *)
LEMMA FlipFalsifies ==
    ASSUME assignment \in [Atoms -> TVal], NEW v \in Atoms, UnfixedTVal(assignment[v]),
           assignment' = [assignment EXCEPT ![v] = NegateTVal(@)]
    PROVE  LiteralFalsified(TrueLitOf(v)) /\ FreeAtomsOnly
<1>1. assignment' \in [Atoms -> TVal]
  BY NegateFree
<1>2. /\ assignment'[v] = NegateTVal(assignment[v])
      /\ \A u \in Atoms : u # v => assignment'[u] = assignment[u]
  OBVIOUS
<1>3. AssignedFalseLit(assignment', TrueLitOf(v))
  <2>1. AssignedTrue(assignment[v]) \/ AssignedFalse(assignment[v])
    BY DEF UnfixedTVal, FreeTVal, AssignedTrue, AssignedFalse
  <2> QED
    BY <1>2, <2>1, NegateFree
       DEF TrueLitOf, AssignedFalseLit, IsPos, VarOf, PosLit, NegLit
<1>4. FreeAtomsOnly
  BY <1>1, <1>2, NegateFree DEF FreeAtomsOnly
<1> QED
  BY <1>1, <1>2, <1>3, <1>4, TrueLit DEF LiteralFalsified

-----------------------------------------------------------------------------
(* What fixing a literal does to the assignment.                           *)
LEMMA FixedValue ==
    ASSUME assignment \in [Atoms -> TVal], NEW l \in Literals,
           assignment' = [assignment EXCEPT ![VarOf(l)] = UpTrueValueOf(l)]
    PROVE  /\ VarOf(l) \in Atoms
           /\ assignment' \in [Atoms -> TVal]
           /\ assignment'[VarOf(l)] = UpTrueValueOf(l)
           /\ \A v \in Atoms : v # VarOf(l) => assignment'[v] = assignment[v]
           /\ AssignedFixedTrueLit(assignment', l)
           /\ AssignedTrueLit(assignment', l)
<1>1. VarOf(l) \in Atoms /\ UpTrueValueOf(l) \in TVal
  BY LitValues DEF UpTrueValueOf, TVal
<1>2. /\ assignment' \in [Atoms -> TVal]
      /\ assignment'[VarOf(l)] = UpTrueValueOf(l)
      /\ \A v \in Atoms : v # VarOf(l) => assignment'[v] = assignment[v]
  BY <1>1
<1>3. AssignedFixedTrueLit(assignment', l) /\ AssignedTrueLit(assignment', l)
  BY <1>2 DEF AssignedFixedTrueLit, AssignedTrueLit, UpTrueValueOf, AssignedFixedTrue,
     AssignedFixedFalse, AssignedTrue, AssignedFalse
<1> QED
  BY <1>1, <1>2, <1>3
=============================================================================
