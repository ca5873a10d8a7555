--------------------------- MODULE GroundingProofs ---------------------------
(***************************************************************************)
(* Proofs about SortTable, Grounding and Queries, from the assumptions     *)
(* these modules state and for every value of the constants.               *)
(*                                                                         *)
(*   the sorts: their inductive invariant, the theorems of SortTable       *)
(*   folds, on which every search of ground.c is modelled                  *)
(*   the inductive invariant of the commands                               *)
(*   types, bags, what Instantiate adds to the tables                      *)
(*   the searches: of a fact, of a new constant, of an activated atom      *)
(*   what a formula says, and that a search finds what has come to matter  *)
(*   one lemma per operation of Grounding                                  *)
(*   one lemma per operation of Queries                                    *)
(*   the theorems                                                          *)
(***************************************************************************)
EXTENDS Queries, Sums

-----------------------------------------------------------------------------
(* The sorts: the inductive invariant.                                     *)

(* A recorded supersort has the constants of the sort, every declaration   *)
(* is recorded, and nothing is recorded that was not declared.             *)
Inclusion == \A s \in Sort : \A t \in supersorts[s] : constants[s] \subseteq constants[t]
DeclRecorded == \A s, t \in Sort : <<s, t>> \in decl => t \in supersorts[s]
RecordedSound == \A s \in Sort : \A t \in supersorts[s] : Reaches(s, t)
Declared == \A c \in Const : sort_index[c] # NoSort => c \in constants[sort_index[c]]
MembersSound ==
    \A s \in Sort : \A c \in constants[s] :
        sort_index[c] # NoSort /\ Reaches(sort_index[c], s)

SortInv ==
    /\ SortTypeOK /\ Inclusion /\ DeclRecorded /\ RecordedSound
    /\ Declared /\ MembersSound

-----------------------------------------------------------------------------
(* The sorts that receive a constant form a closed set themselves.         *)
LEMMA ReceiversClosed ==
    ASSUME SortTypeOK, NEW super \in [Sort -> SUBSET Sort], NEW c, NEW t \in Sort,
           NEW s \in Sort, Receives(s, super, c, t), NEW u \in super[s]
    PROVE  c \in constants[u] \/ Receives(u, super, c, t)
BY DEF Receives, ClosedFor

LEMMA SourceReceives ==
    ASSUME NEW super, NEW c, NEW t \in Sort
    PROVE  Receives(t, super, c, t)
BY DEF Receives

(* A closed set that holds the first sort holds every receiver.            *)
LEMMA ReceiversWithin ==
    ASSUME NEW super, NEW c, NEW t \in Sort, NEW T \in SUBSET Sort,
           t \in T, ClosedFor(T, super, c),
           NEW u \in Sort, Receives(u, super, c, t)
    PROVE  u \in T
BY DEF Receives

LEMMA WithConstantsType ==
    ASSUME SortTypeOK, NEW super, NEW C \in SUBSET Const, NEW t
    PROVE  /\ WithConstants(super, C, t) \in [Sort -> SUBSET Const]
           /\ \A u \in Sort : constants[u] \subseteq WithConstants(super, C, t)[u]
BY DEF SortTypeOK, WithConstants

LEMMA ReachesRefl == ASSUME NEW s PROVE Reaches(s, s)
BY DEF Reaches

LEMMA ReachesTrans ==
    ASSUME NEW s, NEW t, NEW u, Reaches(s, t), Reaches(t, u)
    PROVE  Reaches(s, u)
BY DEF Reaches

(* The invariant is what the theorem says.                                 *)
LEMMA InvGivesMembers == SortInv => MembersExact
<1> SUFFICES ASSUME SortInv, NEW s \in Sort
             PROVE  constants[s] = {c \in Const : sort_index[c] # NoSort
                                                  /\ Reaches(sort_index[c], s)}
  BY DEF MembersExact
<1>1. ASSUME NEW c \in Const, sort_index[c] # NoSort, Reaches(sort_index[c], s)
      PROVE  c \in constants[s]
  <2> DEFINE T == {u \in Sort : c \in constants[u]}
  <2>1. sort_index[c] \in T
    BY <1>1 DEF SortInv, SortTypeOK, Declared
  <2>2. ASSUME NEW u \in T, NEW v \in Sort, <<u, v>> \in decl PROVE v \in T
    BY <2>2 DEF SortInv, SortTypeOK, Inclusion, DeclRecorded
  <2>3. T \in SUBSET Sort
    OBVIOUS
  <2>4. s \in T
    BY <1>1, <2>1, <2>2, <2>3 DEF Reaches
  <2> QED BY <2>4
<1>2. ASSUME NEW c \in constants[s]
      PROVE  c \in Const /\ sort_index[c] # NoSort /\ Reaches(sort_index[c], s)
  BY <1>2 DEF SortInv, SortTypeOK, MembersSound
<1> QED BY <1>1, <1>2

-----------------------------------------------------------------------------
LEMMA SortInitInv == SortInit => SortInv
BY DEF SortInit, SortInv, SortTypeOK, Inclusion, DeclRecorded, RecordedSound,
       Declared, MembersSound

LEMMA AddConstInv ==
    ASSUME SortInv, NEW c \in Const, NEW s \in Sort, AddConst(c, s)
    PROVE  SortInv'
<1> USE DEF SortInv
<1>1. SortTypeOK'
  <2>1. constants' \in [Sort -> SUBSET Const]
    BY WithConstantsType DEF AddConst
  <2> QED BY <2>1 DEF AddConst, SortTypeOK, relation
<1>2. \A u, v : Reaches(u, v)' <=> Reaches(u, v)
  BY DEF AddConst, relation, Reaches
<1>3. \A u \in Sort : constants'[u] =
          constants[u] \cup {x \in {c} : Receives(u, supersorts, x, s)}
  BY DEF AddConst, WithConstants
<1>4. Inclusion'
  <2> SUFFICES ASSUME NEW w \in Sort, NEW u \in supersorts[w], NEW x \in constants'[w]
               PROVE  x \in constants'[u]
    BY DEF Inclusion, AddConst, relation
  <2>1. u \in Sort /\ supersorts \in [Sort -> SUBSET Sort]
    BY DEF SortTypeOK
  <2>2. CASE x \in constants[w]
    BY <1>3, <2>1, <2>2 DEF Inclusion
  <2>3. CASE x = c /\ Receives(w, supersorts, c, s)
    BY <1>3, <2>1, <2>3, ReceiversClosed
  <2> QED BY <1>3, <2>2, <2>3
<1>5. DeclRecorded' /\ RecordedSound'
  BY <1>2 DEF AddConst, relation, DeclRecorded, RecordedSound
<1>6. Declared'
  <2>1. c \in constants'[s]
    BY <1>3, SourceReceives
  <2> QED BY <1>3, <2>1 DEF Declared, AddConst, SortTypeOK
<1>7. MembersSound'
  <2> SUFFICES ASSUME NEW w \in Sort, NEW x \in constants'[w]
               PROVE  sort_index'[x] # NoSort /\ Reaches(sort_index'[x], w)
    BY <1>2 DEF MembersSound
  <2>1. CASE x \in constants[w]
    BY <2>1 DEF MembersSound, AddConst, SortTypeOK
  <2>2. CASE x = c /\ Receives(w, supersorts, c, s)
    <3> DEFINE T == {u \in Sort : Reaches(s, u)}
    <3>1. s \in T
      BY ReachesRefl
    <3>2. ClosedFor(T, supersorts, c)
      <4> SUFFICES ASSUME NEW u \in T, NEW v \in supersorts[u] PROVE v \in T
        BY DEF ClosedFor
      <4>1. v \in Sort /\ Reaches(u, v)
        BY DEF SortTypeOK, RecordedSound
      <4> QED BY <4>1, ReachesTrans
    <3>3. w \in T
      BY <2>2, <3>1, <3>2, ReceiversWithin
    <3> QED BY <2>2, <3>3, SortTableAssumption DEF AddConst, SortTypeOK
  <2> QED BY <1>3, <2>1, <2>2
<1> QED BY <1>1, <1>4, <1>5, <1>6, <1>7

LEMMA AddSubsortInv ==
    ASSUME SortInv, NEW s \in Sort, NEW t \in Sort, AddSubsort(s, t)
    PROVE  SortInv'
<1> USE DEF SortInv
<1>1. CASE ~MayDeclareSubsort(s, t)
  <2>1. UNCHANGED <<supersorts, subsorts, decl, constants, sort_index>>
        /\ sorts' = sorts \cup {s, t}
    BY <1>1 DEF AddSubsort, relation
  <2>2. \A u, v : Reaches(u, v)' <=> Reaches(u, v)
    BY <2>1 DEF Reaches
  <2> QED BY <2>1, <2>2 DEF SortTypeOK, Inclusion, DeclRecorded, RecordedSound,
                            Declared, MembersSound
<1>2. CASE MayDeclareSubsort(s, t)
  <2> DEFINE super == [supersorts EXCEPT ![s] = @ \cup supersorts[t] \cup {t}]
             C == constants[s] \ constants[t]
  <2>1. /\ supersorts' = super
        /\ subsorts' = [subsorts EXCEPT ![t] = @ \cup subsorts[s] \cup {s}]
        /\ decl' = decl \cup {<<s, t>>}
        /\ constants' = WithConstants(super, C, t)
        /\ sort_index' = sort_index
        /\ sorts' = sorts \cup {s, t}
    BY <1>2 DEF AddSubsort
  <2>2. /\ super \in [Sort -> SUBSET Sort]
        /\ \A u \in Sort : super[u] = IF u = s THEN supersorts[s] \cup supersorts[t] \cup {t}
                                              ELSE supersorts[u]
    BY DEF SortTypeOK
  <2>3. SortTypeOK'
    <3>1. constants' \in [Sort -> SUBSET Const]
      BY <2>1, WithConstantsType DEF SortTypeOK
    <3>2. supersorts' \in [Sort -> SUBSET Sort] /\ sorts' \subseteq Sort
      BY <2>1, <2>2 DEF SortTypeOK
    <3>3. subsorts' \in [Sort -> SUBSET Sort]
      <4>1. subsorts[t] \cup subsorts[s] \cup {s} \in SUBSET Sort
        BY DEF SortTypeOK
      <4> QED BY <2>1, <4>1 DEF SortTypeOK
    <3>4. decl' \in SUBSET (Sort \X Sort)
      BY <2>1 DEF SortTypeOK
    <3> QED BY <2>1, <3>1, <3>2, <3>3, <3>4 DEF SortTypeOK
  <2>4. \A u \in Sort : constants'[u] = constants[u] \cup {x \in C : Receives(u, super, x, t)}
    BY <2>1 DEF WithConstants
  <2> HIDE DEF super, C
  <2>5. Inclusion'
    <3> SUFFICES ASSUME NEW w \in Sort, NEW u \in super[w], NEW x \in constants'[w]
                 PROVE  x \in constants'[u]
      BY <2>1 DEF Inclusion
    <3>1. u \in Sort
      BY <2>2
    <3>2. CASE x \in constants[w] /\ u \in supersorts[w]
      BY <2>4, <3>1, <3>2 DEF Inclusion
    <3>3. CASE x \in constants[w] /\ w = s /\ u \in supersorts[t] \cup {t}
      <4>1. CASE x \in constants[t]
        BY <2>4, <3>1, <3>3, <4>1 DEF Inclusion
      <4>2. CASE x \notin constants[t]
        <5>1. x \in C
          BY <3>3, <4>2 DEF C
        <5>2. Receives(t, super, x, t)
          BY SourceReceives
        <5>3. CASE u = t
          BY <2>4, <5>1, <5>2, <5>3
        <5>4. CASE u \in supersorts[t]
          <6>1. u \in super[t]
            BY <2>2, <5>4
          <6>2. x \in constants[u] \/ Receives(u, super, x, t)
            BY <2>2, <5>2, <6>1, ReceiversClosed
          <6> QED BY <2>4, <3>1, <5>1, <6>2
        <5> QED BY <3>3, <5>3, <5>4
      <4> QED BY <4>1, <4>2
    <3>4. CASE x \in C /\ Receives(w, super, x, t)
      <4>1. x \in constants[u] \/ Receives(u, super, x, t)
        BY <2>2, <3>4, ReceiversClosed
      <4> QED BY <2>4, <3>1, <3>4, <4>1
    <3> QED BY <2>2, <2>4, <3>2, <3>3, <3>4
  <2>6. DeclRecorded'
    BY <2>1, <2>2 DEF DeclRecorded, SortTypeOK
  <2>7. \A u, v : Reaches(u, v) => Reaches(u, v)'
    BY <2>1 DEF Reaches
  <2>8. Reaches(s, t)'
    BY <2>1 DEF Reaches
  <2>9. \A u, v, w : Reaches(u, v)' /\ Reaches(v, w)' => Reaches(u, w)'
    BY DEF Reaches
  <2>10. RecordedSound'
    <3> SUFFICES ASSUME NEW w \in Sort, NEW u \in super[w] PROVE Reaches(w, u)'
      BY <2>1 DEF RecordedSound
    <3>1. CASE u \in supersorts[w]
      BY <2>7, <3>1 DEF RecordedSound
    <3>2. CASE w = s /\ u = t
      BY <2>8, <3>2
    <3>3. CASE w = s /\ u \in supersorts[t]
      BY <2>7, <2>8, <2>9, <3>3 DEF RecordedSound
    <3> QED BY <2>2, <3>1, <3>2, <3>3
  <2>11. Declared'
    BY <2>1, <2>4 DEF Declared, SortTypeOK
  <2>12. MembersSound'
    <3> SUFFICES ASSUME NEW w \in Sort, NEW x \in constants'[w]
                 PROVE  sort_index[x] # NoSort /\ Reaches(sort_index[x], w)'
      BY <2>1 DEF MembersSound
    <3>1. CASE x \in constants[w]
      BY <2>1, <2>7, <3>1 DEF MembersSound
    <3>2. CASE x \in C /\ Receives(w, super, x, t)
      <4> DEFINE T == {u \in Sort : Reaches(sort_index[x], u)'}
      <4>1. sort_index[x] # NoSort /\ Reaches(sort_index[x], s)
        BY <3>2 DEF C, MembersSound
      <4>2. t \in T
        BY <2>1, <2>7, <2>8, <2>9, <4>1
      <4>3. ClosedFor(T, super, x)
        <5> SUFFICES ASSUME NEW u \in T, NEW v \in super[u] PROVE v \in T
          BY DEF ClosedFor
        <5>1. v \in Sort /\ Reaches(u, v)'
          BY <2>1, <2>2, <2>10 DEF RecordedSound
        <5> QED BY <2>1, <2>9, <5>1
      <4>4. T \in SUBSET Sort
        OBVIOUS
      <4>5. w \in T
        BY <3>2, <4>2, <4>3, <4>4, ReceiversWithin
      <4> QED BY <2>1, <4>1, <4>5
    <3> QED BY <2>4, <3>1, <3>2
  <2> QED BY <2>3, <2>5, <2>6, <2>10, <2>11, <2>12
<1> QED BY <1>1, <1>2

LEMMA SortNextInv == SortInv /\ [SortNext]_sortVars => SortInv'
<1> SUFFICES ASSUME SortInv, [SortNext]_sortVars PROVE SortInv'
  OBVIOUS
<1>1. ASSUME UNCHANGED <<supersorts, subsorts, decl, constants, sort_index>>,
             sorts' \subseteq Sort
      PROVE  SortInv'
  <2>1. \A u, v : Reaches(u, v)' <=> Reaches(u, v)
    BY <1>1 DEF Reaches
  <2> QED BY <1>1, <2>1 DEF SortInv, SortTypeOK, Inclusion, DeclRecorded, RecordedSound,
                            Declared, MembersSound
<1>2. CASE \E s \in Sort : AddSort(s)
  BY <1>1, <1>2 DEF AddSort, SortInv, SortTypeOK, relation
<1>3. CASE \E s, t \in Sort : AddSubsort(s, t)
  BY <1>3, AddSubsortInv
<1>4. CASE \E c \in Const, s \in Sort : AddConst(c, s)
  BY <1>4, AddConstInv
<1>5. CASE UNCHANGED sortVars
  BY <1>1, <1>5 DEF SortInv, SortTypeOK, sortVars, relation
<1> QED BY <1>2, <1>3, <1>4, <1>5 DEF SortNext

(* The tables keep their types.                                            *)
THEOREM SortTypeCorrect == SortSpec => []SortTypeOK
<1>1. SortInv => SortTypeOK
  BY DEF SortInv
<1> QED BY SortInitInv, SortNextInv, <1>1, PTL DEF SortSpec

(* Every sort has exactly the constants that were declared with it or with *)
(* a sort below it (add_subsort, add_const_to_sort), in any order of the   *)
(* declarations, cycles included, although the lists of supersorts that    *)
(* carry the constants are not transitive.                                 *)
THEOREM SortMembers == SortSpec => []MembersExact
BY SortInitInv, SortNextInv, InvGivesMembers, PTL DEF SortSpec

-----------------------------------------------------------------------------
(* Folds over a sequence take the set of its indices apart from the top.   *)
FoldAt(g, step, base, s) ==
    g[s] = IF s = {} THEN base ELSE step[<<g[s \ {Max(s)}], Max(s)>>]

(* A finite set of numbers has a largest one, and a finite set of sets one *)
(* that is in no other.                                                    *)
LEMMA HasMax ==
    ASSUME NEW D \in SUBSET Nat, IsFiniteSet(D), NEW s \in SUBSET D, s # {}
    PROVE  \E x \in s : \A y \in s : x >= y
<1> DEFINE Good == {T \in SUBSET D : T # {} => \E x \in T : \A y \in T : x >= y}
<1>1. ASSUME NEW T \in SUBSET D, \A U \in SUBSET T : U # T => U \in Good
      PROVE  T \in Good
  <2> SUFFICES ASSUME NEW z \in T PROVE \E x \in T : \A y \in T : x >= y
    OBVIOUS
  <2>1. T \ {z} \in Good
    BY <1>1
  <2>2. CASE T \ {z} = {}
    <3>1. z \in Nat /\ T = {z}
      BY <2>2
    <3> QED
      BY <3>1
  <2>3. CASE T \ {z} # {}
    <3>1. PICK x \in T \ {z} : \A y \in T \ {z} : x >= y
      BY <2>1, <2>3
    <3>2. x \in Nat /\ z \in Nat /\ \A y \in T : y \in Nat
      OBVIOUS
    <3>3. CASE x >= z
      BY <3>1, <3>3
    <3>4. CASE z >= x
      <4>1. \A y \in T : z >= y
        BY <3>1, <3>2, <3>4
      <4> QED
        BY <4>1
    <3> QED
      BY <3>2, <3>3, <3>4
  <2> QED
    BY <2>2, <2>3
<1> HIDE DEF Good
<1>2. \A T \in SUBSET D : T \in Good
  BY <1>1, SubsetInduction
<1> QED
  BY <1>2 DEF Good

LEMMA MaxIn ==
    ASSUME NEW D \in SUBSET Nat, IsFiniteSet(D), NEW s \in SUBSET D, s # {}
    PROVE  Max(s) \in s
BY HasMax DEF Max

LEMMA Largest ==
    ASSUME NEW K, IsFiniteSet(K), K # {}
    PROVE  \E s \in K : \A t \in K : s \subseteq t => t = s
<1> DEFINE Good == {T \in SUBSET K : T # {} => \E s \in T : \A t \in T : s \subseteq t => t = s}
<1>1. ASSUME NEW T \in SUBSET K, \A U \in SUBSET T : U # T => U \in Good
      PROVE  T \in Good
  <2> SUFFICES ASSUME NEW z \in T PROVE \E s \in T : \A t \in T : s \subseteq t => t = s
    OBVIOUS
  <2>1. T \ {z} \in Good
    BY <1>1
  <2>2. CASE T \ {z} = {}
    BY <2>2
  <2>3. CASE T \ {z} # {}
    <3>1. PICK s \in T \ {z} : \A t \in T \ {z} : s \subseteq t => t = s
      BY <2>1, <2>3
    <3>2. CASE s \subseteq z
      <4>1. \A t \in T : z \subseteq t => t = z
        BY <3>1, <3>2
      <4> QED
        BY <4>1
    <3> QED
      BY <3>1, <3>2
  <2> QED
    BY <2>2, <2>3
<1> HIDE DEF Good
<1>2. \A T \in SUBSET K : T \in Good
  BY <1>1, SubsetInduction
<1>3. K \in Good
  BY <1>2
<1> QED
  BY <1>3 DEF Good

(* The fold with a step function exists; it is the one that CHOOSE takes.  *)
IsStep(step, Acc, D) == step \in [Acc \X D -> Acc]
IsFold(g, D, Acc, step, base) ==
    /\ g \in [SUBSET D -> Acc]
    /\ \A s \in SUBSET D : FoldAt(g, step, base, s)

LEMMA FoldExists ==
    ASSUME NEW D, NEW Acc, NEW base, NEW step,
           D \in SUBSET Nat, IsFiniteSet(D), base \in Acc, IsStep(step, Acc, D)
    PROVE  \E g : IsFold(g, D, Acc, step, base)
<1>00. step \in [Acc \X D -> Acc]
  BY DEF IsStep
<1>0. PICK SD : SD = SUBSET D
  OBVIOUS
<1> DEFINE Good == {K \in SUBSET SD :
                      \E g \in [SD -> Acc] : \A s \in K : FoldAt(g, step, base, s)}
<1>1. ASSUME NEW K \in SUBSET SD, \A U \in SUBSET K : U # K => U \in Good
      PROVE  K \in Good
  <2>1. CASE K = {}
    <3>1. [s \in SD |-> base] \in [SD -> Acc]
      OBVIOUS
    <3> QED
      BY <2>1, <3>1
  <2>2. CASE K # {}
    <3>1. PICK t \in K : \A u \in K : t \subseteq u => u = t
      <4>1. IsFiniteSet(K)
        <5>1. IsFiniteSet(SD)
          BY <1>0, FS_SUBSET
        <5> QED
          BY <5>1, FS_Subset
      <4>2. \E t \in K : \A u \in K : t \subseteq u => u = t
        BY <2>2, <4>1, Largest
      <4> QED
        BY <4>2
    <3>2. K \ {t} \in Good
      <4>1. K \ {t} \in SUBSET K /\ K \ {t} # K
        OBVIOUS
      <4> QED
        BY <1>1, <4>1
    <3>3. PICK g \in [SD -> Acc] : \A s \in K \ {t} : FoldAt(g, step, base, s)
      BY <3>2
    <3>4. \A s \in SD : s # {} =>
             Max(s) \in s /\ s \ {Max(s)} \in SD /\ s \ {Max(s)} # s /\ Max(s) \in D
      BY <1>0, MaxIn
    <3> DEFINE v == IF t = {} THEN base ELSE step[<<g[t \ {Max(t)}], Max(t)>>]
               h == [g EXCEPT ![t] = v]
    <3>5. v \in Acc
      BY <1>00, <3>4
    <3>6. h \in [SD -> Acc] /\ h[t] = v /\ \A s \in SD : s # t => h[s] = g[s]
      BY <3>5
    <3>7. FoldAt(h, step, base, t)
      BY <3>4, <3>6 DEF FoldAt
    <3>8. ASSUME NEW s \in K \ {t} PROVE FoldAt(h, step, base, s)
      <4>1. h[s] = g[s]
        BY <3>6
      <4>2. s # {} => s \ {Max(s)} # t
        BY <3>1, <3>4
      <4>3. s # {} => h[s \ {Max(s)}] = g[s \ {Max(s)}]
        BY <3>4, <3>6, <4>2
      <4> QED
        BY <3>3, <4>1, <4>3 DEF FoldAt
    <3> HIDE DEF h
    <3> QED
      BY <3>6, <3>7, <3>8
  <2> QED
    BY <2>1, <2>2
<1>2. IsFiniteSet(SD)
  BY <1>0, FS_SUBSET
<1> HIDE DEF Good
<1>3. \A K \in SUBSET SD : K \in Good
  BY <1>1, <1>2, SubsetInduction
<1>4. SD \in Good
  BY <1>3
<1>5. PICK g \in [SD -> Acc] : \A s \in SD : FoldAt(g, step, base, s)
  BY <1>4 DEF Good
<1> QED
  BY <1>0, <1>5 DEF IsFold

-----------------------------------------------------------------------------
(***************************************************************************)
(* The inductive invariant of the commands, and what each part is for:     *)
(*   SortInv      what the sorts know (above);                             *)
(*   TablesTyped  types, a sort for each variable of a rule included;      *)
(*   InstsTyped   an instance is that of a ground formula or of a          *)
(*                substitution in a rule, and its atoms are in the table;  *)
(*   LazyOnce     in lazy mode an instance has been seen, and no other has *)
(*                its substitution;                                        *)
(*   Exact        what was seen, and in eager mode everything, has the     *)
(*                instance it would be given now;                          *)
(*   AtomsComplete, AnswersAsked  two of the properties themselves;        *)
(*   QueriesTyped, QinstsTyped, LitsApart  the same for the queries.       *)
(***************************************************************************)
(* A rule has a sort for each variable of its formula.                     *)
Rule == UNION {[formula : {f}, vsort : [1..NumVars[f] -> Sort]] : f \in Formulas}
Buffers == [1..(MaxVars + 1) -> Const \cup {Open}]

(* An instance is that of a ground formula or that of a substitution in a  *)
(* rule.                                                                   *)
GroundForm(f) == {{GroundLit(l, <<>>) : l \in Range(C)} : C \in Range(Normal[f])}
OfFormula(i) ==
    \E f \in Formulas :
        NumVars[f] = 0 /\ i = [rule |-> 0, subst |-> <<>>, clauses |-> GroundForm(f)]
OfRule(i) ==
    \E n \in DOMAIN rules : \E s \in Substs[rules[n].formula] :
        i = [rule |-> n, subst |-> s, clauses |-> i.clauses]

AtomsOfInst(i) == {l.atom : l \in UNION i.clauses}

TablesTyped ==
    /\ lazy \in BOOLEAN /\ preds \subseteq Pred
    /\ atoms \subseteq AllAtoms /\ active \subseteq atoms
    /\ rules \in Seq(Rule) /\ (rules # <<>> => preds # {})
    /\ seen \subseteq {<<n, s>> : n \in DOMAIN rules, s \in UNION Range(Substs)}
    /\ buffer \in Buffers
    /\ late \subseteq {"sort", "const", "fact"}

InstsTyped ==
    /\ IsABag(insts)
    /\ \A i \in DOMAIN insts : (OfFormula(i) \/ OfRule(i)) /\ AtomsOfInst(i) \subseteq atoms

(* In lazy mode a substitution that has an instance has been seen.         *)
LazyOnce ==
    lazy => \A i \in DOMAIN insts : i.rule # 0 =>
        /\ <<i.rule, i.subst>> \in seen /\ insts[i] = 1
        /\ \A j \in DOMAIN insts : j.rule = i.rule /\ j.subst = i.subst => j = i

(* As long as nothing was declared late an instance of a rule has the      *)
(* clauses it would be given now, and each substitution that was seen, or  *)
(* in eager mode each one at all, has its instance.                        *)
InstsExact ==
    \A i \in DOMAIN insts : i.rule # 0 =>
        insts[i] = 1 /\ i.clauses = InstClauses(rules[i.rule], i.subst)
SubstsDone ==
    \A n \in DOMAIN rules : \A s \in WellSorted(rules[n]) :
        /\ lazy /\ Needed(rules[n], s) => <<n, s>> \in seen
        /\ ~lazy \/ <<n, s>> \in seen =>
              InstClauses(rules[n], s) = {} \/ InstOf(rules, <<n, s>>) \in DOMAIN insts
Exact == late = {} => InstsExact /\ SubstsDone

GroundInv == SortInv /\ TablesTyped /\ InstsTyped /\ LazyOnce /\ Exact /\ AtomsComplete

(* The queries, and the instances of those that are being asked.           *)
Query == {q \in Rule : q.formula \in QueryFormulas}
AtomsOfLits(lits) == {l.atom : l \in UNION {Range(C) : C \in Range(lits)}}

QueriesTyped ==
    /\ queries \in Seq(Query)
    /\ asking \in QueryFormulas \cup {NoQuery, Ended}
QinstsTyped ==
    \A i \in qinsts :
        /\ i = [lits |-> i.lits, subst |-> i.subst, qs |-> i.qs]
        /\ i.qs \subseteq 1..(IF asking = NoQuery THEN Len(queries) ELSE Len(queries) + 1)
        /\ asking # Ended => AtomsOfLits(i.lits) \subseteq atoms
LitsApart == \A i, j \in qinsts : i.lits = j.lits => i = j

Inv == GroundInv /\ QueriesTyped /\ QinstsTyped /\ LitsApart /\ AnswersAsked

-----------------------------------------------------------------------------
(* Formulas: their clauses are sequences of literals that have their atoms.*)
LitsIn(f) == [neg : BOOLEAN, atom : AtomsIn(f)]

LEMMA FormulaTyped ==
    ASSUME NEW f \in Formulas
    PROVE  /\ NumVars[f] \in Nat /\ NumVars[f] <= MaxVars /\ MaxVars \in Nat
           /\ Normal[f] \in {Pos[f], Neg[f]}
           /\ Normal[f] \in Seq(Seq(LitsIn(f))) /\ Pos[f] \in Seq(Seq(LitsIn(f)))
           /\ AtomsIn(f) \subseteq AtomForms(f)
<1>1. NumVars[f] \in Nat /\ NumVars[f] <= MaxVars /\ MaxVars \in Nat
  BY GroundingAssumption
<1>2. Normal[f] \in {Pos[f], Neg[f]}
  BY DEF Normal
<1>3. Pos[f] \in Seq(Seq(LitsIn(f))) /\ Neg[f] \in Seq(Seq(LitsIn(f)))
  BY FormulasAssumption DEF LitsIn
<1>4. Order[f] \in Seq(AtomForms(f))
  BY FormulasAssumption
<1>5. AtomsIn(f) \subseteq AtomForms(f)
  BY <1>4 DEF AtomsIn, Range
<1> QED
  BY <1>1, <1>2, <1>3, <1>5

LEMMA LitTyped ==
    ASSUME NEW f \in Formulas, NEW N \in {Normal[f], Pos[f]}
    PROVE  /\ \A k \in DOMAIN N : N[k] \in Seq(LitsIn(f))
           /\ \A C \in Range(N) : C \in Seq(LitsIn(f))
           /\ \A C \in Range(N) : \A i \in DOMAIN C : C[i] \in LitsIn(f)
           /\ \A C \in Range(N) : \A l \in Range(C) : l \in LitsIn(f)
<1>1. N \in Seq(Seq(LitsIn(f)))
  BY FormulaTyped
<1>2. \A k \in DOMAIN N : N[k] \in Seq(LitsIn(f))
  BY <1>1
<1>3. \A C \in Range(N) : C \in Seq(LitsIn(f))
  BY <1>2 DEF Range
<1>4. \A C \in Seq(LitsIn(f)) : \A i \in DOMAIN C : C[i] \in LitsIn(f)
  OBVIOUS
<1>5. \A C \in Seq(LitsIn(f)) : \A l \in Range(C) : l \in LitsIn(f)
  BY <1>4 DEF Range
<1> QED
  BY <1>2, <1>3, <1>4, <1>5

LEMMA AtomTyped ==
    ASSUME NEW f \in Formulas, NEW s \in Substs[f], NEW l \in LitsIn(f)
    PROVE  AtomOf(l, s) \in AllAtoms /\ AtomOf(l, s)[1] = l.atom[1]
<1>1. PICK p \in Pred : \E args \in [DOMAIN Signature[p] -> Const \cup 1..NumVars[f]] :
         l.atom = <<p, args>>
  <2>1. l.atom \in AtomForms(f)
    BY FormulaTyped DEF LitsIn
  <2> QED
    BY <2>1 DEF AtomForms
<1> PICK args \in [DOMAIN Signature[p] -> Const \cup 1..NumVars[f]] : l.atom = <<p, args>>
  BY <1>1
<1>2. s \in [1..NumVars[f] -> Const]
  BY DEF Substs
<1>3. \A i \in DOMAIN args : ArgOf(args[i], s) \in Const
  BY <1>2 DEF ArgOf
<1> DEFINE ground == [i \in DOMAIN args |-> ArgOf(args[i], s)]
<1>4. ground \in [DOMAIN Signature[p] -> Const]
  BY <1>3
<1>5. AtomOf(l, s) = <<p, ground>>
  BY <1>1 DEF AtomOf, Args
<1> HIDE DEF ground
<1>6. <<p, ground>> \in AllAtoms
  BY <1>4 DEF AllAtoms
<1> QED
  BY <1>1, <1>5, <1>6

LEMMA RuleTyped ==
    ASSUME NEW r \in Rule
    PROVE  r.formula \in Formulas /\ r.vsort \in [Vars(r) -> Sort]
BY DEF Rule, Vars

LEMMA LitAtTyped ==
    ASSUME NEW f \in Formulas, NEW o \in LitsOf[f]
    PROVE  LitAt(f, o) \in LitsIn(f)
<1>1. PICK k \in DOMAIN Normal[f] : \E i \in DOMAIN Normal[f][k] : o = <<k, i>>
  BY DEF LitsOf
<1> PICK i \in DOMAIN Normal[f][k] : o = <<k, i>>
  BY <1>1
<1>2. Normal[f][k] \in Range(Normal[f])
  BY DEF Range
<1>3. Normal[f][k][i] \in LitsIn(f)
  BY <1>2, LitTyped
<1> QED
  BY <1>3 DEF LitAt

-----------------------------------------------------------------------------
(* A finite set of functions.                                              *)
LEMMA FiniteFunctions ==
    ASSUME NEW S, NEW T, IsFiniteSet(S), IsFiniteSet(T)
    PROVE  IsFiniteSet([S -> T])
<1> DEFINE graph == [f \in [S -> T] |-> {<<x, f[x]>> : x \in S}]
<1>1. IsFiniteSet(S \X T)
  BY FS_Product
<1> PICK P : P = SUBSET (S \X T)
  OBVIOUS
<1>2. IsFiniteSet(P)
  BY <1>1, FS_SUBSET
<1>3. graph \in [[S -> T] -> P]
  OBVIOUS
<1>4. ASSUME NEW f \in [S -> T], NEW g \in [S -> T], graph[f] = graph[g]
      PROVE  f = g
  <2>1. ASSUME NEW x \in S PROVE f[x] = g[x]
    <3>1. <<x, f[x]>> \in graph[g]
      BY <1>4
    <3> QED
      BY <3>1
  <2> QED
    BY <2>1
<1> HIDE DEF graph
<1>5. graph \in Injection([S -> T], P)
  BY <1>3, <1>4 DEF Injection, IsInjective
<1> QED
  BY <1>2, <1>5, FS_Injection

LEMMA FiniteImage ==
    ASSUME NEW S, IsFiniteSet(S), NEW T, NEW f \in [S -> T], \A y \in T : \E x \in S : f[x] = y
    PROVE  IsFiniteSet(T)
<1>1. f \in Surjection(S, T)
  BY DEF Surjection
<1> QED
  BY <1>1, FS_Surjection

LEMMA BagPlus ==
    ASSUME NEW A, NEW B, IsABag(A), IsABag(B)
    PROVE  /\ IsABag(A (+) B) /\ DOMAIN (A (+) B) = DOMAIN A \cup DOMAIN B
           /\ \A x \in DOMAIN A : x \notin DOMAIN B => (A (+) B)[x] = A[x]
           /\ \A x \in DOMAIN B : x \notin DOMAIN A => (A (+) B)[x] = B[x]
<1>1. DOMAIN (A (+) B) = DOMAIN A \cup DOMAIN B
  BY DEF (+)
<1>2. /\ \A x \in DOMAIN A : A[x] \in Nat /\ A[x] > 0
      /\ \A x \in DOMAIN B : B[x] \in Nat /\ B[x] > 0
  BY DEF IsABag
<1>3. ASSUME NEW x \in DOMAIN A \cup DOMAIN B
      PROVE  /\ (A (+) B)[x] = (IF x \in DOMAIN A THEN A[x] ELSE 0)
                                 + (IF x \in DOMAIN B THEN B[x] ELSE 0)
             /\ (A (+) B)[x] \in {n \in Nat : n > 0}
  <2>1. (A (+) B)[x] = (IF x \in DOMAIN A THEN A[x] ELSE 0)
                         + (IF x \in DOMAIN B THEN B[x] ELSE 0)
    BY DEF (+)
  <2> QED
    BY <1>2, <2>1
<1>4. A (+) B = [x \in DOMAIN (A (+) B) |-> (A (+) B)[x]]
  BY DEF (+)
<1>5. IsABag(A (+) B)
  BY <1>1, <1>3, <1>4 DEF IsABag
<1>6. \A x \in DOMAIN A : x \notin DOMAIN B => (A (+) B)[x] = A[x]
  BY <1>2, <1>3
<1>7. \A x \in DOMAIN B : x \notin DOMAIN A => (A (+) B)[x] = B[x]
  BY <1>2, <1>3
<1> QED
  BY <1>1, <1>5, <1>6, <1>7

-----------------------------------------------------------------------------
(* The clauses of an instance depend on the facts only, and their atoms    *)
(* are among those that are added.                                         *)
LEMMA DirectTrueMeans ==
    \A l, s : DirectTrue(l, s) <=> IsDirect(l) /\ ~((AtomOf(l, s) \in Facts) = l.neg)
<1> SUFFICES ASSUME NEW l, NEW s
             PROVE  DirectTrue(l, s) <=> IsDirect(l) /\ ~((AtomOf(l, s) \in Facts) = l.neg)
  OBVIOUS
<1>1. AtomOf(l, s)[1] = l.atom[1]
  BY DEF AtomOf
<1>2. IsDirect(l) => (AtomOf(l, s) \in active <=> AtomOf(l, s) \in Facts)
  BY <1>1 DEF IsDirect, Facts
<1>3. CASE IsDirect(l)
  <2>1. LitValue(l, s, active) = IF (AtomOf(l, s) \in active) # l.neg THEN "true" ELSE "false"
    BY <1>3 DEF LitValue
  <2>2. (AtomOf(l, s) \in active) = (AtomOf(l, s) \in Facts)
    BY <1>2, <1>3
  <2>3. LitValue(l, s, active) = IF (AtomOf(l, s) \in Facts) # l.neg THEN "true" ELSE "false"
    BY <2>1, <2>2
  <2>4. (LitValue(l, s, active) = "true") <=> (AtomOf(l, s) \in Facts) # l.neg
    BY <2>3
  <2> QED
    BY <1>3, <2>4 DEF DirectTrue
<1> QED
  BY <1>3 DEF DirectTrue

LEMMA InstClausesSame ==
    ASSUME Facts' = Facts
    PROVE  \A r, s : InstClauses(r, s)' = InstClauses(r, s)
<1>1. \A l, s : DirectTrue(l, s)' <=> DirectTrue(l, s)
  <2>1. (\A l, s : DirectTrue(l, s) <=> IsDirect(l) /\ ~((AtomOf(l, s) \in Facts) = l.neg))'
    BY DirectTrueMeans, PTL
  <2> SUFFICES ASSUME NEW l, NEW s PROVE DirectTrue(l, s)' <=> DirectTrue(l, s)
    OBVIOUS
  <2>2. DirectTrue(l, s) <=> IsDirect(l) /\ ~((AtomOf(l, s) \in Facts) = l.neg)
    BY DirectTrueMeans
  <2>3. DirectTrue(l, s)' <=> IsDirect(l) /\ ~((AtomOf(l, s) \in Facts') = l.neg)
    BY <2>1
  <2> QED
    BY <2>2, <2>3
<1>2. \A C, s : ClauseInst(C, s)' = ClauseInst(C, s)
  BY <1>1 DEF ClauseInst
<1> QED
  BY <1>2 DEF InstClauses

LEMMA ClauseAtoms ==
    ASSUME NEW f \in Formulas, NEW C \in Range(Normal[f]), NEW s \in Substs[f]
    PROVE  /\ {l.atom : l \in ClauseInst(C, s)} \subseteq AddedAtoms(C, s)
           /\ AddedAtoms(C, s) \subseteq AllAtoms
<1>1. \A i \in DOMAIN C : C[i] \in LitsIn(f)
  BY LitTyped
<1>2. AddedAtoms(C, s) \subseteq AllAtoms
  BY <1>1, AtomTyped DEF AddedAtoms
<1>3. ASSUME NEW g \in ClauseInst(C, s) PROVE g.atom \in AddedAtoms(C, s)
  <2>1. /\ \A m \in Range(C) : ~DirectTrue(m, s)
        /\ ClauseInst(C, s) = {GroundLit(l, s) : l \in {m \in Range(C) : ~IsDirect(m)}}
    BY <1>3 DEF ClauseInst
  <2>2. PICK l \in Range(C) : ~IsDirect(l) /\ g = GroundLit(l, s)
    BY <2>1
  <2>3. PICK j \in DOMAIN C : C[j] = l
    BY DEF Range
  <2>4. C \in Seq(LitsIn(f))
    BY LitTyped
  <2>5. \A h \in 1..j : h \in DOMAIN C /\ C[h] \in Range(C)
    BY <2>4 DEF Range
  <2>6. \A h \in 1..j : ~DirectTrue(C[h], s)
    BY <2>1, <2>5
  <2>7. AtomOf(C[j], s) \in AddedAtoms(C, s)
    BY <2>2, <2>3, <2>6 DEF AddedAtoms
  <2>8. g.atom = AtomOf(C[j], s)
    BY <2>2, <2>3 DEF GroundLit
  <2> QED
    BY <2>7, <2>8
<1> QED
  BY <1>2, <1>3

(* Without variables a literal stays what it is.                           *)
LEMMA GroundLits ==
    ASSUME NEW f \in Formulas, NumVars[f] = 0, NEW l \in LitsIn(f)
    PROVE  l.atom \in AllAtoms /\ GroundLit(l, <<>>) = l
<1>1. PICK p \in Pred : \E args \in [DOMAIN Signature[p] -> Const \cup 1..NumVars[f]] :
         l.atom = <<p, args>>
  <2>1. l.atom \in AtomForms(f)
    BY FormulaTyped DEF LitsIn
  <2> QED
    BY <2>1 DEF AtomForms
<1> PICK args \in [DOMAIN Signature[p] -> Const \cup 1..NumVars[f]] : l.atom = <<p, args>>
  BY <1>1
<1>2. args \in [DOMAIN Signature[p] -> Const]
  <2>1. Const \cup 1..NumVars[f] = Const
    OBVIOUS
  <2> QED
    BY <2>1
<1>3. \A i \in DOMAIN args : ArgOf(args[i], <<>>) = args[i]
  BY <1>2 DEF ArgOf
<1>4. AtomOf(l, <<>>) = <<p, [i \in DOMAIN args |-> ArgOf(args[i], <<>>)]>>
  BY DEF AtomOf, Args
<1>5. [i \in DOMAIN args |-> ArgOf(args[i], <<>>)] = args
  BY <1>2, <1>3
<1>6. AtomOf(l, <<>>) = l.atom
  BY <1>4, <1>5
<1>7. l = [neg |-> l.neg, atom |-> l.atom]
  BY DEF LitsIn
<1>8. <<p, args>> \in AllAtoms
  BY <1>2 DEF AllAtoms
<1> QED
  BY <1>6, <1>7, <1>8 DEF GroundLit

-----------------------------------------------------------------------------
(* What a search for instances of the rules rs has found.                  *)
Ways == UNION {({0} \cup (LitChoices[f] \X Targets[f])) \X Substs[f] : f \in Formulas}

Tags == Nat \cup (Nat \X Nat)

FoundSet(rs) ==
    {x \in [rule : DOMAIN rs, subst : UNION Range(Substs), via : Tags \X Ways] :
        x.subst \in Substs[rs[x.rule].formula]}

Searches(rs) == [found : {F \in SUBSET FoundSet(rs) : IsFiniteSet(F)}, buffer : Buffers]

(* The rules are those there were, or these and one more.                  *)
Extends(rs) ==
    /\ rs \in Seq(Rule)
    /\ \A n \in DOMAIN rules : n \in DOMAIN rs /\ rs[n] = rules[n]

Pairs(rs) == {<<n, s>> : n \in DOMAIN rs, s \in UNION Range(Substs)}

LEMMA MadeTyped ==
    ASSUME NEW rs, NEW found \in SUBSET FoundSet(rs), NEW on,
           NEW d \in WorthMaking(rs, found, on)
    PROVE  /\ d = <<d[1], d[2]>> /\ d[1] \in DOMAIN rs /\ d[2] \in Substs[rs[d[1]].formula]
           /\ d \in Pairs(rs) /\ (lazy => d \notin seen)
           /\ \E x \in found : <<x.rule, x.subst>> = d
<1>1. PICK x \in found : d = <<x.rule, x.subst>>
  BY DEF WorthMaking
<1>2. x.rule \in DOMAIN rs /\ x.subst \in Substs[rs[x.rule].formula] /\ x.subst \in UNION Range(Substs)
  BY DEF FoundSet
<1>3. lazy => d \notin seen
  BY DEF WorthMaking
<1>4. d \in Pairs(rs)
  BY <1>1, <1>2 DEF Pairs
<1> QED
  BY <1>1, <1>2, <1>3, <1>4

LEMMA CopiesTyped ==
    ASSUME NEW found, IsFiniteSet(found), NEW d, \E x \in found : <<x.rule, x.subst>> = d
    PROVE  Copies(found, d) \in {n \in Nat : n > 0} /\ (lazy => Copies(found, d) = 1)
<1> DEFINE F == {x \in found : <<x.rule, x.subst>> = d}
<1>1. IsFiniteSet(F) /\ F # {}
  BY FS_Subset
<1>2. Cardinality(F) \in Nat /\ Cardinality(F) # 0
  BY <1>1, FS_CardinalityType, FS_EmptySet
<1> QED
  BY <1>2 DEF Copies

(* The instances that are added, one kind for each pair that is kept.      *)
Kept(rs, search, on) ==
    {d \in WorthMaking(rs, search.found, on) : InstClauses(rs[d[1]], d[2]) # {}}
Added(rs, search, on) ==
    [i \in {InstOf(rs, d) : d \in Kept(rs, search, on)} |-> Copies(search.found, <<i.rule, i.subst>>)]

LEMMA AddedTyped ==
    ASSUME NEW rs, NEW search \in Searches(rs), NEW on
    PROVE  /\ IsABag(Added(rs, search, on))
           /\ DOMAIN Added(rs, search, on) = {InstOf(rs, d) : d \in Kept(rs, search, on)}
           /\ \A d \in Kept(rs, search, on) :
                 Added(rs, search, on)[InstOf(rs, d)] = Copies(search.found, d)
<1> DEFINE I == {InstOf(rs, d) : d \in Kept(rs, search, on)}
<1>1. search.found \in SUBSET FoundSet(rs) /\ IsFiniteSet(search.found)
  BY DEF Searches
<1>2. ASSUME NEW d \in Kept(rs, search, on)
      PROVE  /\ InstOf(rs, d).rule = d[1] /\ InstOf(rs, d).subst = d[2] /\ d = <<d[1], d[2]>>
             /\ Copies(search.found, d) \in {n \in Nat : n > 0}
  BY <1>1, MadeTyped, CopiesTyped DEF Kept, InstOf
<1>3. \A i \in I : Copies(search.found, <<i.rule, i.subst>>) \in {n \in Nat : n > 0}
  BY <1>2
<1>4. DOMAIN Added(rs, search, on) = I
  BY DEF Added
<1>5. \A i \in I : Added(rs, search, on)[i] = Copies(search.found, <<i.rule, i.subst>>)
  BY DEF Added
<1>6. Added(rs, search, on) = [i \in I |-> Added(rs, search, on)[i]]
  BY DEF Added
<1>7. IsABag(Added(rs, search, on))
  BY <1>3, <1>4, <1>5, <1>6 DEF IsABag
<1>8. ASSUME NEW d \in Kept(rs, search, on)
      PROVE  Added(rs, search, on)[InstOf(rs, d)] = Copies(search.found, d)
  <2>1. InstOf(rs, d) \in I
    OBVIOUS
  <2>2. Added(rs, search, on)[InstOf(rs, d)]
          = Copies(search.found, <<InstOf(rs, d).rule, InstOf(rs, d).subst>>)
    BY <1>5, <2>1
  <2> QED
    BY <1>2, <2>2
<1> QED
  BY <1>4, <1>7, <1>8

AddedBy(rs, made) ==
    UNION {UNION {AddedAtoms(C, d[2]) : C \in Range(Clauses(rs[d[1]]))} : d \in made}

LEMMA InstantiateMeans ==
    ASSUME NEW rs, NEW search, NEW on, NEW new, Instantiate(rs, search, on, new)
    PROVE  /\ insts' = insts (+) Added(rs, search, on)
           /\ seen' = IF lazy THEN seen \cup WorthMaking(rs, search.found, on) ELSE seen
           /\ atoms' = atoms \cup new \cup AddedBy(rs, WorthMaking(rs, search.found, on))
           /\ buffer' = search.buffer /\ rules' = rs
BY Zenon DEF Instantiate, AddRuleInstances, Kept, Added, AddedBy

LEMMA InstantiateTables ==
    ASSUME TablesTyped, NEW rs, Extends(rs), NEW search \in Searches(rs), NEW on,
           NEW new \in SUBSET AllAtoms, Instantiate(rs, search, on, new)
    PROVE  /\ rules' \in Seq(Rule) /\ buffer' \in Buffers /\ atoms' \subseteq AllAtoms
           /\ atoms \cup new \subseteq atoms' /\ seen' \subseteq Pairs(rs)
<1>1. search.found \in SUBSET FoundSet(rs) /\ search.buffer \in Buffers
  BY DEF Searches
<1>2. rs \in Seq(Rule)
  BY DEF Extends
<1>3. seen \subseteq Pairs(rs)
  BY DEF TablesTyped, Extends, Pairs
<1>4. seen' \subseteq Pairs(rs)
  BY <1>1, <1>3, InstantiateMeans, MadeTyped
<1>5. ASSUME NEW d \in WorthMaking(rs, search.found, on), NEW C \in Range(Clauses(rs[d[1]]))
      PROVE  AddedAtoms(C, d[2]) \subseteq AllAtoms
  <2>1. d[1] \in DOMAIN rs /\ d[2] \in Substs[rs[d[1]].formula]
    BY <1>1, MadeTyped
  <2>2. rs[d[1]] \in Rule
    BY <1>2, <2>1
  <2>3. rs[d[1]].formula \in Formulas /\ C \in Range(Normal[rs[d[1]].formula])
    BY <2>2, RuleTyped DEF Clauses
  <2> QED
    BY <2>1, <2>3, ClauseAtoms
<1>6. AddedBy(rs, WorthMaking(rs, search.found, on)) \subseteq AllAtoms
  BY <1>5 DEF AddedBy
<1>7. atoms \subseteq AllAtoms
  BY DEF TablesTyped
<1>8. /\ atoms' = atoms \cup new \cup AddedBy(rs, WorthMaking(rs, search.found, on))
      /\ buffer' = search.buffer /\ rules' = rs
  BY InstantiateMeans
<1> QED
  BY <1>1, <1>2, <1>4, <1>6, <1>7, <1>8

LEMMA InstantiateInsts ==
    ASSUME TablesTyped, InstsTyped, NEW rs, Extends(rs), NEW search \in Searches(rs), NEW on,
           NEW new \in SUBSET AllAtoms, Instantiate(rs, search, on, new)
    PROVE  /\ InstsTyped'
           /\ DOMAIN insts' = DOMAIN insts \cup {InstOf(rs, d) : d \in Kept(rs, search, on)}
           /\ \A i \in DOMAIN insts : i \notin DOMAIN Added(rs, search, on) => insts'[i] = insts[i]
           /\ \A d \in Kept(rs, search, on) : InstOf(rs, d) \notin DOMAIN insts =>
                 insts'[InstOf(rs, d)] = Copies(search.found, d)
<1> DEFINE bag == Added(rs, search, on)
<1>1. /\ IsABag(bag) /\ DOMAIN bag = {InstOf(rs, d) : d \in Kept(rs, search, on)}
      /\ \A d \in Kept(rs, search, on) : bag[InstOf(rs, d)] = Copies(search.found, d)
  BY AddedTyped
<1>2. insts' = insts (+) bag /\ rules' = rs
  BY InstantiateMeans
<1> HIDE DEF bag
<1>3. IsABag(insts)
  BY DEF InstsTyped
<1>4. /\ IsABag(insts') /\ DOMAIN insts' = DOMAIN insts \cup DOMAIN bag
      /\ \A x \in DOMAIN insts : x \notin DOMAIN bag => insts'[x] = insts[x]
      /\ \A x \in DOMAIN bag : x \notin DOMAIN insts => insts'[x] = bag[x]
  <2>1. insts' = insts (+) bag /\ IsABag(bag)
    BY <1>1, <1>2
  <2>2. /\ IsABag(insts (+) bag) /\ DOMAIN (insts (+) bag) = DOMAIN insts \cup DOMAIN bag
        /\ \A x \in DOMAIN insts : x \notin DOMAIN bag => (insts (+) bag)[x] = insts[x]
        /\ \A x \in DOMAIN bag : x \notin DOMAIN insts => (insts (+) bag)[x] = bag[x]
    BY <1>3, <2>1, BagPlus
  <2> QED
    BY <2>1, <2>2
<1>5. ASSUME NEW i \in DOMAIN insts
      PROVE  (OfFormula(i) \/ OfRule(i)') /\ AtomsOfInst(i) \subseteq atoms'
  <2>1. (OfFormula(i) \/ OfRule(i)) /\ AtomsOfInst(i) \subseteq atoms
    BY DEF InstsTyped
  <2>2. OfRule(i) => OfRule(i)'
    BY <1>2 DEF OfRule, Extends
  <2>3. atoms \subseteq atoms'
    BY InstantiateTables
  <2> QED
    BY <2>1, <2>2, <2>3
<1>6. ASSUME NEW i, NEW d \in Kept(rs, search, on), i = InstOf(rs, d)
      PROVE  OfRule(i)' /\ AtomsOfInst(i) \subseteq atoms'
  <2>1. /\ d \in WorthMaking(rs, search.found, on) /\ d[1] \in DOMAIN rs
        /\ d[2] \in Substs[rs[d[1]].formula]
    BY MadeTyped DEF Kept, Searches
  <2>2. rs[d[1]] \in Rule
    BY <2>1 DEF Extends
  <2>3. rs[d[1]].formula \in Formulas /\ Clauses(rs[d[1]]) = Normal[rs[d[1]].formula]
    BY <2>2, RuleTyped DEF Clauses
  <2>4. OfRule(i)'
    <3>1. i = [rule |-> d[1], subst |-> d[2], clauses |-> i.clauses]
      BY <1>6 DEF InstOf
    <3> QED
      BY <1>2, <2>1, <3>1 DEF OfRule
  <2>5. AtomsOfInst(i) \subseteq atoms'
    <3>1. ASSUME NEW C \in Range(Clauses(rs[d[1]]))
          PROVE  {l.atom : l \in ClauseInst(C, d[2])} \subseteq AddedAtoms(C, d[2])
      BY <2>1, <2>3, ClauseAtoms
    <3>2. ASSUME NEW C \in Range(Clauses(rs[d[1]])) PROVE AddedAtoms(C, d[2]) \subseteq atoms'
      <4>1. AddedBy(rs, WorthMaking(rs, search.found, on)) \subseteq atoms'
        BY InstantiateMeans
      <4> QED
        BY <2>1, <4>1 DEF AddedBy
    <3>3. i.clauses \subseteq {ClauseInst(C, d[2]) : C \in Range(Clauses(rs[d[1]]))}
      BY <1>6 DEF InstOf, InstClauses
    <3> QED
      BY <3>1, <3>2, <3>3 DEF AtomsOfInst
  <2> QED
    BY <2>4, <2>5
<1>7. InstsTyped'
  <2>1. ASSUME NEW i \in DOMAIN insts'
        PROVE  (OfFormula(i) \/ OfRule(i)') /\ AtomsOfInst(i) \subseteq atoms'
    BY <1>1, <1>4, <1>5, <1>6
  <2> QED
    BY Zenon, <1>4, <2>1 DEF InstsTyped
<1> QED
  BY <1>1, <1>4, <1>7 DEF bag

-----------------------------------------------------------------------------
(* Instances are made once.                                                *)
LEMMA InstOfPair ==
    ASSUME NEW rs, NEW search \in Searches(rs), NEW on, NEW d \in Kept(rs, search, on),
           NEW i, i = InstOf(rs, d)
    PROVE  /\ i.rule = d[1] /\ i.subst = d[2] /\ i.clauses = InstClauses(rs[d[1]], d[2])
           /\ <<i.rule, i.subst>> = d /\ (lazy => d \notin seen)
           /\ d \in WorthMaking(rs, search.found, on)
<1>1. d \in WorthMaking(rs, search.found, on)
  BY DEF Kept
<1>2. d = <<d[1], d[2]>> /\ (lazy => d \notin seen)
  BY <1>1, MadeTyped DEF Searches
<1>3. i = [rule |-> d[1], subst |-> d[2], clauses |-> InstClauses(rs[d[1]], d[2])]
  BY DEF InstOf
<1> QED
  BY <1>1, <1>2, <1>3

LEMMA InstantiateLazyOnce ==
    ASSUME TablesTyped, InstsTyped, LazyOnce, NEW rs, Extends(rs), NEW search \in Searches(rs),
           NEW on, NEW new \in SUBSET AllAtoms, Instantiate(rs, search, on, new), lazy' = lazy
    PROVE  LazyOnce'
<1> SUFFICES ASSUME lazy, NEW i \in DOMAIN insts', i.rule # 0
             PROVE  /\ <<i.rule, i.subst>> \in seen' /\ insts'[i] = 1
                    /\ \A j \in DOMAIN insts' : j.rule = i.rule /\ j.subst = i.subst => j = i
  BY DEF LazyOnce
<1> DEFINE K == Kept(rs, search, on)
<1>1. /\ DOMAIN insts' = DOMAIN insts \cup {InstOf(rs, d) : d \in K}
      /\ \A x \in DOMAIN insts : x \notin DOMAIN Added(rs, search, on) => insts'[x] = insts[x]
      /\ \A d \in K : InstOf(rs, d) \notin DOMAIN insts =>
            insts'[InstOf(rs, d)] = Copies(search.found, d)
  BY InstantiateInsts
<1>2. DOMAIN Added(rs, search, on) = {InstOf(rs, d) : d \in K}
  BY AddedTyped
<1>3. seen' = seen \cup WorthMaking(rs, search.found, on)
  BY InstantiateMeans
<1>4. \A j \in DOMAIN insts : j.rule # 0 => <<j.rule, j.subst>> \in seen /\ insts[j] = 1
  BY DEF LazyOnce
<1>5. \A d \in K : \A j : j = InstOf(rs, d) =>
         <<j.rule, j.subst>> = d /\ d \notin seen /\ d \in WorthMaking(rs, search.found, on)
  BY InstOfPair
<1> HIDE DEF K
<1>6. CASE i \in DOMAIN insts
  <2>1. <<i.rule, i.subst>> \in seen /\ insts[i] = 1
    BY <1>4, <1>6
  <2>2. i \notin DOMAIN Added(rs, search, on)
    BY <1>2, <1>5, <2>1
  <2>3. insts'[i] = 1
    BY <1>1, <1>6, <2>1, <2>2
  <2>4. ASSUME NEW j \in DOMAIN insts', j.rule = i.rule, j.subst = i.subst PROVE j = i
    <3>1. j \in DOMAIN insts
      BY <1>1, <1>5, <2>1, <2>4
    <3> QED
      BY <1>6, <2>4, <3>1 DEF LazyOnce
  <2> QED
    BY <1>3, <2>1, <2>3, <2>4
<1>7. CASE i \notin DOMAIN insts
  <2>1. PICK d \in K : i = InstOf(rs, d)
    BY <1>1, <1>7
  <2>2. <<i.rule, i.subst>> = d /\ d \notin seen /\ d \in WorthMaking(rs, search.found, on)
    BY <1>5, <2>1
  <2>3. insts'[i] = 1
    <3>1. \E x \in search.found : <<x.rule, x.subst>> = d
      BY <2>2, MadeTyped DEF Searches
    <3>2. Copies(search.found, d) = 1
      BY <3>1, CopiesTyped DEF Searches
    <3> QED
      BY <1>1, <1>7, <2>1, <3>2
  <2>4. ASSUME NEW j \in DOMAIN insts', j.rule = i.rule, j.subst = i.subst PROVE j = i
    <3>1. j \notin DOMAIN insts
      BY <1>4, <2>2, <2>4
    <3>2. PICK e \in K : j = InstOf(rs, e)
      BY <1>1, <3>1
    <3>3. e = d
      BY <1>5, <2>2, <2>4, <3>2
    <3> QED
      BY <2>1, <3>2, <3>3
  <2> QED
    BY <1>3, <2>2, <2>3, <2>4
<1> QED
  BY <1>6, <1>7

(* When the facts and the members of the sorts stay the same, and what has *)
(* to be made is made, every substitution that matters keeps its instance. *)
LEMMA InstantiateExact ==
    ASSUME TablesTyped, InstsTyped, LazyOnce, InstsExact, SubstsDone, NEW rs, Extends(rs),
           NEW search \in Searches(rs), NEW on, NEW new \in SUBSET AllAtoms,
           Instantiate(rs, search, on, new), lazy' = lazy, constants' = constants, Facts' = Facts,
           ~lazy => \A d \in WorthMaking(rs, search.found, on) :
                       d[1] \notin DOMAIN rules /\ Copies(search.found, d) = 1,
           \A n \in DOMAIN rs : \A s \in WellSorted(rs[n]) :
              IF lazy THEN Needed(rs[n], s)' => <<n, s>> \in seen \cup WorthMaking(rs, search.found, on)
              ELSE n \in DOMAIN rules \/ <<n, s>> \in WorthMaking(rs, search.found, on)
    PROVE  InstsExact' /\ SubstsDone'
<1> DEFINE K == Kept(rs, search, on)
           M == WorthMaking(rs, search.found, on)
<1>1. /\ DOMAIN insts' = DOMAIN insts \cup {InstOf(rs, d) : d \in K}
      /\ \A x \in DOMAIN insts : x \notin DOMAIN Added(rs, search, on) => insts'[x] = insts[x]
      /\ \A d \in K : InstOf(rs, d) \notin DOMAIN insts =>
            insts'[InstOf(rs, d)] = Copies(search.found, d)
  BY InstantiateInsts
<1>2. DOMAIN Added(rs, search, on) = {InstOf(rs, d) : d \in K}
  BY AddedTyped
<1>3. seen' = IF lazy THEN seen \cup M ELSE seen
  BY InstantiateMeans
<1>4. rules' = rs /\ \A n \in DOMAIN rules : n \in DOMAIN rs /\ rs[n] = rules[n]
  BY InstantiateMeans DEF Extends
<1>5. \A r, s : InstClauses(r, s)' = InstClauses(r, s)
  BY InstClausesSame
<1>6. \A d \in K : \A j : j = InstOf(rs, d) =>
         /\ <<j.rule, j.subst>> = d /\ (lazy => d \notin seen) /\ d \in M
         /\ j.rule = d[1] /\ j.subst = d[2] /\ j.clauses = InstClauses(rs[d[1]], d[2])
  BY InstOfPair
<1>7. \A d \in M : (\E x \in search.found : <<x.rule, x.subst>> = d) /\ d[1] \in DOMAIN rs
  BY MadeTyped DEF Searches
<1>8. \A d \in M : (lazy => Copies(search.found, d) = 1)
  BY <1>7, CopiesTyped DEF Searches
<1>9. \A j \in DOMAIN insts : j.rule # 0 =>
         /\ insts[j] = 1 /\ j.clauses = InstClauses(rules[j.rule], j.subst)
         /\ (lazy => <<j.rule, j.subst>> \in seen) /\ j.rule \in DOMAIN rules
  <2> SUFFICES ASSUME NEW j \in DOMAIN insts, j.rule # 0 PROVE j.rule \in DOMAIN rules
    BY DEF InstsExact, LazyOnce
  <2>1. ~OfFormula(j)
    BY DEF OfFormula
  <2>2. OfRule(j)
    BY <2>1 DEF InstsTyped
  <2> QED
    BY <2>2 DEF OfRule
<1> HIDE DEF K
<1>10. \A d \in K : \A j : j = InstOf(rs, d) => j \notin DOMAIN insts
  <2> SUFFICES ASSUME NEW d \in K, NEW j \in DOMAIN insts, j = InstOf(rs, d) PROVE FALSE
    OBVIOUS
  <2>1. d[1] \in DOMAIN rs /\ j.rule = d[1] /\ <<j.rule, j.subst>> = d /\ (lazy => d \notin seen) /\ d \in M
    BY <1>6, <1>7
  <2>2. d[1] # 0
    BY <2>1 DEF Extends
  <2> QED
    BY <1>9, <2>1, <2>2 DEF M
<1>11. InstsExact'
  <2> SUFFICES ASSUME NEW i \in DOMAIN insts', i.rule # 0
               PROVE  insts'[i] = 1 /\ i.clauses = InstClauses(rs[i.rule], i.subst)'
    BY <1>4 DEF InstsExact
  <2>1. CASE i \in DOMAIN insts
    <3>1. i \notin DOMAIN Added(rs, search, on)
      BY <1>2, <1>10, <2>1
    <3>2. insts'[i] = 1
      BY <1>1, <1>9, <2>1, <3>1
    <3>3. i.clauses = InstClauses(rs[i.rule], i.subst)
      BY <1>4, <1>9, <2>1
    <3> QED
      BY <1>5, <3>2, <3>3
  <2>2. CASE i \notin DOMAIN insts
    <3>1. PICK d \in K : i = InstOf(rs, d)
      BY <1>1, <2>2
    <3>2. insts'[i] = Copies(search.found, d)
      BY <1>1, <2>2, <3>1
    <3>3. Copies(search.found, d) = 1
      BY <1>6, <1>8, <3>1 DEF M
    <3>4. i.clauses = InstClauses(rs[i.rule], i.subst)
      BY <1>6, <3>1
    <3> QED
      BY <1>5, <3>2, <3>3, <3>4
  <2> QED
    BY <2>1, <2>2
<1>12. SubstsDone'
  <2> SUFFICES ASSUME NEW n \in DOMAIN rs, NEW s \in WellSorted(rs[n])'
               PROVE  /\ lazy /\ Needed(rs[n], s)' => <<n, s>> \in seen'
                      /\ ~lazy \/ <<n, s>> \in seen' =>
                            InstClauses(rs[n], s)' = {} \/ InstOf(rs, <<n, s>>)' \in DOMAIN insts'
    BY <1>4 DEF SubstsDone
  <2>1. s \in WellSorted(rs[n])
    BY DEF WellSorted
  <2>2. lazy /\ Needed(rs[n], s)' => <<n, s>> \in seen'
    BY <1>3, <2>1
  <2>3. ASSUME ~lazy \/ <<n, s>> \in seen', InstClauses(rs[n], s)' # {}
        PROVE  InstOf(rs, <<n, s>>)' \in DOMAIN insts'
    <3>1. InstClauses(rs[n], s) # {} /\ InstOf(rs, <<n, s>>)' = InstOf(rs, <<n, s>>)
      BY <1>5, <2>3 DEF InstOf
    <3>2. CASE <<n, s>> \in M
      <4>1. <<n, s>> \in K
        BY <3>1, <3>2 DEF K, Kept
      <4> QED
        BY <1>1, <3>1, <4>1
    <3>3. CASE <<n, s>> \notin M
      <4>1. n \in DOMAIN rules /\ (~lazy \/ <<n, s>> \in seen)
        <5>1. CASE lazy
          <6>1. <<n, s>> \in seen
            BY <1>3, <2>3, <3>3, <5>1
          <6> QED
            BY <6>1 DEF TablesTyped
        <5>2. CASE ~lazy
          BY <2>1, <3>3, <5>2
        <5> QED
          BY <5>1, <5>2
      <4>2. s \in WellSorted(rules[n]) /\ InstClauses(rules[n], s) # {}
        BY <1>4, <2>1, <3>1, <4>1
      <4>3. InstOf(rules, <<n, s>>) \in DOMAIN insts
        BY <4>1, <4>2 DEF SubstsDone
      <4>4. InstOf(rules, <<n, s>>) = InstOf(rs, <<n, s>>)
        BY <1>4, <4>1 DEF InstOf
      <4> QED
        BY <1>1, <3>1, <4>3, <4>4
    <3> QED
      BY <3>2, <3>3
  <2> QED
    BY <2>2, <2>3
<1> QED
  BY <1>11, <1>12

-----------------------------------------------------------------------------
(* The ways to a substitution are finitely many.                           *)
LEMMA LitsOfShape ==
    ASSUME NEW f \in Formulas, NEW o
    PROVE  o \in LitsOf[f] <=> \E k \in DOMAIN Normal[f] : \E i \in DOMAIN Normal[f][k] : o = <<k, i>>
BY DEF LitsOf

LEMMA FiniteChoices ==
    ASSUME NEW f \in Formulas
    PROVE  /\ IsFiniteSet(LitChoices[f]) /\ IsFiniteSet(Targets[f]) /\ IsFiniteSet(Substs[f])
           /\ Targets[f] \subseteq Nat
<1>1. Normal[f] \in Seq(Seq(LitsIn(f)))
  BY FormulaTyped
<1>2. DOMAIN Normal[f] = 1..Len(Normal[f]) /\ Len(Normal[f]) \in Nat
  BY <1>1
<1>3. IsFiniteSet(DOMAIN Normal[f])
  BY <1>2, FS_Interval
<1>4. \A k \in DOMAIN Normal[f] : IsFiniteSet(DOMAIN Normal[f][k])
  <2> SUFFICES ASSUME NEW k \in DOMAIN Normal[f] PROVE IsFiniteSet(DOMAIN Normal[f][k])
    OBVIOUS
  <2>1. DOMAIN Normal[f][k] = 1..Len(Normal[f][k]) /\ Len(Normal[f][k]) \in Nat
    BY <1>1
  <2> QED
    BY <2>1, FS_Interval
<1> DEFINE D == {DOMAIN Normal[f][k] : k \in DOMAIN Normal[f]}
           at == [k \in DOMAIN Normal[f] |-> DOMAIN Normal[f][k]]
<1>5. IsFiniteSet(UNION D)
  <2>1. at \in [DOMAIN Normal[f] -> D] /\ \A y \in D : \E k \in DOMAIN Normal[f] : at[k] = y
    OBVIOUS
  <2> HIDE DEF at
  <2>2. IsFiniteSet(D)
    BY <1>3, <2>1, FiniteImage
  <2>3. \A T \in D : IsFiniteSet(T)
    BY <1>4
  <2> QED
    BY <2>2, <2>3, FS_UNION
<1>6. {o[2] : o \in LitsOf[f]} \subseteq UNION D
  BY LitsOfShape
<1>7. FixedFalse[f] \subseteq DOMAIN Normal[f]
  BY DEF FixedFalse
<1>8. IsFiniteSet([FixedFalse[f] -> {o[2] : o \in LitsOf[f]}])
  BY <1>3, <1>5, <1>6, <1>7, FS_Subset, FiniteFunctions
<1>9. IsFiniteSet(LitChoices[f])
  <2>1. LitChoices[f] \subseteq [FixedFalse[f] -> {o[2] : o \in LitsOf[f]}]
    BY DEF LitChoices
  <2> QED
    BY <1>8, <2>1, FS_Subset
<1>10. IsFiniteSet(Targets[f]) /\ Targets[f] \subseteq Nat
  <2>1. Targets[f] \subseteq DOMAIN Normal[f] \cup {0}
    BY DEF Targets
  <2>2. IsFiniteSet(DOMAIN Normal[f] \cup {0})
    BY <1>3, FS_AddElement
  <2> QED
    BY <1>2, <2>1, <2>2, FS_Subset
<1>11. IsFiniteSet(Substs[f])
  <2>1. IsFiniteSet(1..NumVars[f]) /\ IsFiniteSet(Const)
    BY FormulaTyped, FS_Interval, GroundingAssumption
  <2>2. Substs[f] = [1..NumVars[f] -> Const]
    BY DEF Substs
  <2>3. IsFiniteSet([1..NumVars[f] -> Const])
    BY Zenon, <2>1, FiniteFunctions
  <2> QED
    BY <2>2, <2>3
<1> QED
  BY <1>9, <1>10, <1>11

WaysOf(f) == ({0} \cup (LitChoices[f] \X Targets[f])) \X Substs[f]

LEMMA RoutesTyped ==
    ASSUME NEW r \in Rule, NEW b, NEW given, NEW members, NEW on
    PROVE  /\ IsFiniteSet(Routes(r, b, given, members, on))
           /\ Routes(r, b, given, members, on) \subseteq WaysOf(r.formula)
           /\ IsFiniteSet(BruteRoutes(r, b, members))
           /\ BruteRoutes(r, b, members) \subseteq WaysOf(r.formula)
<1>1. r.formula \in Formulas
  BY RuleTyped
<1> DEFINE f == r.formula
<1>2. IsFiniteSet(WaysOf(f))
  <2>1. IsFiniteSet({0} \cup (LitChoices[f] \X Targets[f]))
    BY <1>1, FiniteChoices, FS_Product, FS_Singleton, FS_Union
  <2> QED
    BY <1>1, <2>1, FiniteChoices, FS_Product DEF WaysOf
<1>3. Routes(r, b, given, members, on) \subseteq WaysOf(f)
  <2> SUFFICES ASSUME NEW y \in Routes(r, b, given, members, on) PROVE y \in WaysOf(f)
    OBVIOUS
  <2>1. PICK x \in LitChoices[f] \X Targets[f] : \E s \in Substs[f] : y = <<x, s>>
    BY DEF Routes
  <2> QED
    BY <2>1 DEF WaysOf
<1>4. BruteRoutes(r, b, members) \subseteq WaysOf(f)
  BY DEF BruteRoutes, WaysOf
<1> QED
  BY <1>2, <1>3, <1>4, FS_Subset

Has(found, d) == \E x \in found : <<x.rule, x.subst>> = d
Finds(found, n, routes) == \A x \in routes : Has(found, <<n, x[2]>>)

LEMMA SearchedTyped ==
    ASSUME NEW rs \in Seq(Rule), NEW acc \in Searches(rs), NEW n \in DOMAIN rs,
           NEW tag \in Tags, NEW b \in Buffers,
           NEW routes \in SUBSET WaysOf(rs[n].formula), IsFiniteSet(routes)
    PROVE  /\ Searched(acc, n, rs[n], tag, b, routes) \in Searches(rs)
           /\ acc.found \subseteq Searched(acc, n, rs[n], tag, b, routes).found
           /\ Finds(Searched(acc, n, rs[n], tag, b, routes).found, n, routes)
<1> DEFINE f == rs[n].formula
           rec == [x \in routes |-> [rule |-> n, subst |-> x[2], via |-> <<tag, x>>]]
           new == {[rule |-> n, subst |-> x[2], via |-> <<tag, x>>] : x \in routes}
           res == Searched(acc, n, rs[n], tag, b, routes)
<1>1. f \in Formulas /\ NumVars[f] \in Nat /\ NumVars[f] <= MaxVars /\ MaxVars \in Nat
  <2>1. rs[n] \in Rule
    OBVIOUS
  <2> QED
    BY <2>1, RuleTyped, FormulaTyped
<1>2. IsFiniteSet(new)
  <2>1. rec \in [routes -> new] /\ \A y \in new : \E x \in routes : rec[x] = y
    OBVIOUS
  <2> HIDE DEF rec, new
  <2> QED
    BY <2>1, FiniteImage
<1>3. new \subseteq FoundSet(rs)
  <2> SUFFICES ASSUME NEW x \in routes
               PROVE  [rule |-> n, subst |-> x[2], via |-> <<tag, x>>] \in FoundSet(rs)
    OBVIOUS
  <2>1. x \in WaysOf(f)
    OBVIOUS
  <2>2. x[2] \in Substs[f]
    BY <2>1 DEF WaysOf
  <2>3. x \in Ways
    BY <1>1, <2>1 DEF Ways, WaysOf
  <2>4. x[2] \in UNION Range(Substs)
    <3>1. DOMAIN Substs = Formulas
      BY DEF Substs
    <3> QED
      BY <1>1, <2>2, <3>1 DEF Range
  <2>5. <<tag, x>> \in Tags \X Ways
    BY <2>3
  <2> QED
    BY <2>2, <2>4, <2>5 DEF FoundSet
<1>4. res = [found |-> acc.found \cup new,
             buffer |-> IF routes = {} THEN b ELSE [b EXCEPT ![NumVars[f] + 1] = Open]]
  BY DEF Searched
<1> HIDE DEF new, res
<1>5. acc.found \in SUBSET FoundSet(rs) /\ IsFiniteSet(acc.found)
  BY DEF Searches
<1>6. IsFiniteSet(acc.found \cup new) /\ acc.found \cup new \in SUBSET FoundSet(rs)
  BY <1>2, <1>3, <1>5, FS_Union
<1>7. [b EXCEPT ![NumVars[f] + 1] = Open] \in Buffers
  BY <1>1 DEF Buffers
<1>8. res \in Searches(rs)
  BY <1>4, <1>6, <1>7 DEF Searches
<1>9. \A x \in routes : \E y \in new : <<y.rule, y.subst>> = <<n, x[2]>>
  <2> SUFFICES ASSUME NEW x \in routes PROVE \E y \in new : <<y.rule, y.subst>> = <<n, x[2]>>
    OBVIOUS
  <2> DEFINE y == [rule |-> n, subst |-> x[2], via |-> <<tag, x>>]
  <2>1. y \in new /\ y.rule = n /\ y.subst = x[2]
    BY DEF new
  <2> QED
    BY <2>1
<1>10. res.found = acc.found \cup new
  BY <1>4
<1> QED
  BY <1>8, <1>9, <1>10 DEF res, Finds, Has

-----------------------------------------------------------------------------
(* Folds with the same steps are the same, and a search that only adds     *)
(* keeps what each step finds.                                             *)
LEMMA FoldSame ==
    ASSUME NEW D \in SUBSET Nat, IsFiniteSet(D), NEW g, NEW h,
           \A s \in SUBSET D : (s # {} => h[s \ {Max(s)}] = g[s \ {Max(s)}]) => h[s] = g[s]
    PROVE  h[D] = g[D]
<1> DEFINE Good == {s \in SUBSET D : h[s] = g[s]}
<1>1. ASSUME NEW s \in SUBSET D, \A U \in SUBSET s : U # s => U \in Good
      PROVE  s \in Good
  <2>1. s # {} => Max(s) \in s
    BY MaxIn
  <2>2. s # {} => s \ {Max(s)} \in SUBSET s /\ s \ {Max(s)} # s
    BY <2>1
  <2> QED
    BY <1>1, <2>2
<1> HIDE DEF Good
<1>2. \A s \in SUBSET D : s \in Good
  BY <1>1, SubsetInduction
<1>3. D \in Good
  BY <1>2
<1> QED
  BY <1>3 DEF Good

StepGrows(step, Acc, D) == \A acc \in Acc, x \in D : acc.found \subseteq step[<<acc, x>>].found

FoldHas(g, step, Acc, base, D) ==
    /\ base.found \subseteq g[D].found
    /\ \A x \in D : \E acc \in Acc : step[<<acc, x>>].found \subseteq g[D].found

(* What a step adds to what has been found stays there.                    *)
LEMMA FoldGrows ==
    ASSUME NEW D, NEW Acc, NEW base, NEW step, NEW g,
           D \in SUBSET Nat, IsFiniteSet(D), base \in Acc,
           IsStep(step, Acc, D), IsFold(g, D, Acc, step, base),
           StepGrows(step, Acc, D)
    PROVE  FoldHas(g, step, Acc, base, D)
<1> USE DEF IsStep, IsFold, StepGrows
<1> DEFINE Good == {s \in SUBSET D :
                      /\ base.found \subseteq g[s].found
                      /\ \A x \in s : \E acc \in Acc : step[<<acc, x>>].found \subseteq g[s].found}
<1>1. ASSUME NEW s \in SUBSET D, \A U \in SUBSET s : U # s => U \in Good
      PROVE  s \in Good
  <2>1. CASE s = {}
    BY <2>1 DEF FoldAt
  <2>2. CASE s # {}
    <3>1. Max(s) \in s
      BY <2>2, MaxIn
    <3> PICK t : t = s \ {Max(s)}
      OBVIOUS
    <3>2. t \in SUBSET s /\ t # s /\ s = t \cup {Max(s)}
      BY <3>1
    <3>3. t \in Good
      BY <1>1, <3>2
    <3>4. g[s] = step[<<g[t], Max(s)>>] /\ g[t] \in Acc /\ g[s] \in Acc /\ Max(s) \in D
      BY <2>2, <3>1, <3>2 DEF FoldAt
    <3>5. g[t].found \subseteq g[s].found
      BY <3>4
    <3>6. ASSUME NEW x \in s
          PROVE  \E acc \in Acc : step[<<acc, x>>].found \subseteq g[s].found
      <4>1. CASE x = Max(s)
        BY <3>4, <4>1
      <4>2. CASE x \in t
        BY <3>3, <3>5, <4>2
      <4> QED
        BY <3>2, <4>1, <4>2
    <3> QED
      BY <3>3, <3>5, <3>6
  <2> QED
    BY <2>1, <2>2
<1> HIDE DEF Good
<1>2. \A s \in SUBSET D : s \in Good
  BY <1>1, SubsetInduction
<1>3. D \in Good
  BY <1>2
<1> QED
  BY <1>3 DEF Good, FoldHas

-----------------------------------------------------------------------------
(* The search of the rules that mention the predicate of a fact.           *)
FactStep(acc, n, p) ==
    IF Mentions(rules[n], p)
      THEN Searched(acc, n, rules[n], 0, acc.buffer, BruteRoutes(rules[n], acc.buffer, constants))
      ELSE acc

FactFold(h, p) ==
    h = [s \in SUBSET (DOMAIN [n \in DOMAIN rules |-> n]) |->
           IF s = {} THEN NewSearch(buffer)
           ELSE FactStep(h[s \ {Max(s)}], [n \in DOMAIN rules |-> n][Max(s)], p)]

LEMMA FactUnfold ==
    ASSUME NEW p
    PROVE  FactSearch(p) = (CHOOSE h : FactFold(h, p))[DOMAIN [n \in DOMAIN rules |-> n]]
BY Zenon DEF FactSearch, FoldLeft, MapThenFoldSet, FactFold, FactStep

LEMMA FiniteDomain ==
    ASSUME NEW q, q \in Seq(Rule) \/ (\E n \in Nat : DOMAIN q = 1..n)
    PROVE  DOMAIN q \in SUBSET Nat /\ IsFiniteSet(DOMAIN q)
<1>1. \E n \in Nat : DOMAIN q = 1..n
  OBVIOUS
<1> QED
  BY <1>1, FS_Interval

LEMMA NewSearchTyped ==
    ASSUME NEW rs, NEW b \in Buffers PROVE NewSearch(b) \in Searches(rs)
BY FS_EmptySet DEF NewSearch, Searches

LEMMA FactStepTyped ==
    ASSUME TablesTyped, NEW p, NEW acc \in Searches(rules), NEW n \in DOMAIN rules
    PROVE  FactStep(acc, n, p) \in Searches(rules)
<1>1. rules \in Seq(Rule) /\ acc.buffer \in Buffers /\ rules[n] \in Rule
  BY DEF TablesTyped, Searches
<1>2. IsFiniteSet(BruteRoutes(rules[n], acc.buffer, constants))
      /\ BruteRoutes(rules[n], acc.buffer, constants) \in SUBSET WaysOf(rules[n].formula)
  BY <1>1, RoutesTyped
<1>3. Searched(acc, n, rules[n], 0, acc.buffer, BruteRoutes(rules[n], acc.buffer, constants))
        \in Searches(rules)
  <2>1. 0 \in Tags
    BY DEF Tags
  <2> QED
    BY <1>1, <1>2, <2>1, SearchedTyped
<1> QED
  BY <1>3 DEF FactStep

LEMMA FactSearchTyped ==
    ASSUME TablesTyped, NEW p
    PROVE  FactSearch(p) \in Searches(rules)
<1> PICK D : D = DOMAIN rules
  OBVIOUS
<1> PICK Acc : Acc = Searches(rules)
  OBVIOUS
<1> PICK base : base = NewSearch(buffer)
  OBVIOUS
<1> DEFINE step == [x \in Acc \X D |-> FactStep(x[1], x[2], p)]
           h == CHOOSE h : FactFold(h, p)
<1>1. D \in SUBSET Nat /\ IsFiniteSet(D)
  BY FiniteDomain DEF TablesTyped
<1>2. base \in Acc
  BY NewSearchTyped DEF TablesTyped
<1>3. IsStep(step, Acc, D)
  BY FactStepTyped DEF IsStep
<1>4. \A acc \in Acc, n \in D : step[<<acc, n>>] = FactStep(acc, n, p)
  OBVIOUS
<1> HIDE DEF step
<1>5. PICK g : IsFold(g, D, Acc, step, base)
  BY <1>1, <1>2, <1>3, FoldExists
<1>6. \A s \in SUBSET D : s # {} =>
         Max(s) \in D /\ s \ {Max(s)} \in SUBSET D /\ [n \in D |-> n][Max(s)] = Max(s)
  BY <1>1, MaxIn
<1>7. DOMAIN [n \in D |-> n] = D
  OBVIOUS
<1>8. FactFold(g, p)
  <2>1. \A s \in SUBSET D :
           g[s] = IF s = {} THEN NewSearch(buffer)
                  ELSE FactStep(g[s \ {Max(s)}], [n \in D |-> n][Max(s)], p)
    BY <1>4, <1>5, <1>6 DEF FoldAt, IsFold
  <2> QED
    BY <1>5, <1>7, <2>1 DEF FactFold, IsFold
<1>9. FactFold(h, p)
  BY <1>8
<1> HIDE DEF h
<1>10. h[D] = g[D]
  <2>1. \A s \in SUBSET D :
           h[s] = IF s = {} THEN base
                  ELSE FactStep(h[s \ {Max(s)}], [n \in D |-> n][Max(s)], p)
    BY <1>7, <1>9 DEF FactFold
  <2>2. \A s \in SUBSET D :
           g[s] = IF s = {} THEN base
                  ELSE FactStep(g[s \ {Max(s)}], [n \in D |-> n][Max(s)], p)
    BY <1>7, <1>8 DEF FactFold
  <2>3. \A s \in SUBSET D : (s # {} => h[s \ {Max(s)}] = g[s \ {Max(s)}]) => h[s] = g[s]
    BY <2>1, <2>2
  <2> QED
    BY <1>1, <2>3, FoldSame
<1>11. FactSearch(p) = h[D]
  BY <1>7, FactUnfold DEF h
<1>12. g[D] \in Acc
  BY <1>5 DEF IsFold
<1> QED
  BY <1>10, <1>11, <1>12

-----------------------------------------------------------------------------
(* The search for the instances of a new constant.                         *)
NewConstStep(acc, x, c, s) ==
    LET n == ((x - 1) \div MaxVars) + 1
        j == ((x - 1) % MaxVars) + 1
        r == rules[n]
        b == NewConstBuffer(r, acc.buffer, j, c)
    IN IF j <= NumVars[r.formula] /\ subsort_p(s, r.vsort[j])
         THEN Searched(acc, n, r, j, b, Routes(r, b, <<0, 0>>, constants', active))
         ELSE acc

Numbers == 1..(Len(rules) * MaxVars)

NewConstFold(h, c, s) ==
    h = [t \in SUBSET (DOMAIN [x \in Numbers |-> x]) |->
           IF t = {} THEN NewSearch(buffer)
           ELSE NewConstStep(h[t \ {Max(t)}], [x \in Numbers |-> x][Max(t)], c, s)]

LEMMA NewConstUnfold ==
    ASSUME NEW c, NEW s
    PROVE  NewConstSearch(c, s) = (CHOOSE h : NewConstFold(h, c, s))[DOMAIN [x \in Numbers |-> x]]
BY Zenon DEF NewConstSearch, FoldLeft, MapThenFoldSet, NewConstFold, NewConstStep, Numbers

LEMMA Divided ==
    ASSUME NEW a \in Nat, NEW m \in Nat, NEW x \in 1..(a * m)
    PROVE  ((x - 1) \div m) + 1 \in 1..a /\ ((x - 1) % m) + 1 \in 1..m
<1>1. m # 0
  <2> SUFFICES ASSUME m = 0 PROVE FALSE
    OBVIOUS
  <2>1. a * 0 = 0
    OBVIOUS
  <2> QED
    BY <2>1
<1>2. a * m \in Nat
  OBVIOUS
<1>3. PICK y \in Nat : y = x - 1 /\ y < a * m
  BY <1>2
<1>4. PICK q \in Nat : q = y \div m
  BY <1>1
<1>5. y % m \in 0..(m - 1) /\ y = m * q + (y % m)
  BY <1>1, <1>4
<1>6. q < a
  <2> SUFFICES ASSUME a <= q PROVE FALSE
    OBVIOUS
  <2>1. a * m <= m * q
    BY <1>1
  <2>2. m * q \in Nat /\ y % m \in Nat
    BY <1>5
  <2> QED
    BY <1>2, <1>3, <1>5, <2>1, <2>2
<1> QED
  BY <1>1, <1>3, <1>4, <1>5, <1>6

LEMMA NewConstBufferTyped ==
    ASSUME NEW r, NEW b \in Buffers, NEW j \in Nat, NEW c \in Const
    PROVE  NewConstBuffer(r, b, j, c) \in Buffers
BY DEF NewConstBuffer, Buffers

LEMMA NewConstStepTyped ==
    ASSUME TablesTyped, NEW acc \in Searches(rules), NEW x \in Numbers, NEW c \in Const, NEW s
    PROVE  NewConstStep(acc, x, c, s) \in Searches(rules)
<1>1. PICK n : n = ((x - 1) \div MaxVars) + 1
  OBVIOUS
<1>2. PICK j : j = ((x - 1) % MaxVars) + 1
  OBVIOUS
<1>3. rules \in Seq(Rule) /\ acc.buffer \in Buffers /\ MaxVars \in Nat
  BY GroundingAssumption DEF TablesTyped, Searches
<1>4. n \in 1..Len(rules) /\ j \in 1..MaxVars
  BY <1>1, <1>2, <1>3, Divided DEF Numbers
<1> PICK b : b = NewConstBuffer(rules[n], acc.buffer, j, c)
  OBVIOUS
<1>5. b \in Buffers
  BY <1>3, <1>4, NewConstBufferTyped
<1>6. rules[n] \in Rule /\ n \in DOMAIN rules
  BY <1>3, <1>4
<1> PICK routes : routes = Routes(rules[n], b, <<0, 0>>, constants', active)
  OBVIOUS
<1>7. IsFiniteSet(routes) /\ routes \in SUBSET WaysOf(rules[n].formula)
  BY <1>6, RoutesTyped
<1>8. Searched(acc, n, rules[n], j, b, routes) \in Searches(rules)
  <2>1. j \in Tags
    BY <1>4 DEF Tags
  <2> QED
    BY <1>3, <1>4, <1>5, <1>6, <1>7, <2>1, SearchedTyped
<1>9. NewConstStep(acc, x, c, s) \in {Searched(acc, n, rules[n], j, b, routes), acc}
  BY <1>1, <1>2 DEF NewConstStep
<1> QED
  BY <1>8, <1>9

LEMMA NewConstSearchTyped ==
    ASSUME TablesTyped, NEW c \in Const, NEW s
    PROVE  NewConstSearch(c, s) \in Searches(rules)
<1> PICK D : D = Numbers
  OBVIOUS
<1> PICK Acc : Acc = Searches(rules)
  OBVIOUS
<1> PICK base : base = NewSearch(buffer)
  OBVIOUS
<1> DEFINE step == [x \in Acc \X D |-> NewConstStep(x[1], x[2], c, s)]
           h == CHOOSE h : NewConstFold(h, c, s)
<1>1. D \in SUBSET Nat /\ IsFiniteSet(D)
  <2>1. Len(rules) * MaxVars \in Nat
    BY GroundingAssumption DEF TablesTyped
  <2> QED
    BY <2>1, FS_Interval DEF Numbers
<1>2. base \in Acc
  BY NewSearchTyped DEF TablesTyped
<1>3. IsStep(step, Acc, D)
  BY NewConstStepTyped DEF IsStep
<1>4. \A acc \in Acc, n \in D : step[<<acc, n>>] = NewConstStep(acc, n, c, s)
  OBVIOUS
<1> HIDE DEF step
<1>5. PICK g : IsFold(g, D, Acc, step, base)
  BY <1>1, <1>2, <1>3, FoldExists
<1>6. \A t \in SUBSET D : t # {} =>
         Max(t) \in D /\ t \ {Max(t)} \in SUBSET D /\ [x \in D |-> x][Max(t)] = Max(t)
  BY <1>1, MaxIn
<1>7. DOMAIN [x \in D |-> x] = D
  OBVIOUS
<1>8. NewConstFold(g, c, s)
  <2>1. \A t \in SUBSET D :
           g[t] = IF t = {} THEN NewSearch(buffer)
                  ELSE NewConstStep(g[t \ {Max(t)}], [x \in D |-> x][Max(t)], c, s)
    BY <1>4, <1>5, <1>6 DEF FoldAt, IsFold
  <2> QED
    BY <1>5, <1>7, <2>1 DEF NewConstFold, IsFold
<1>9. NewConstFold(h, c, s)
  BY <1>8
<1> HIDE DEF h
<1>10. h[D] = g[D]
  <2>1. \A t \in SUBSET D :
           h[t] = IF t = {} THEN base
                  ELSE NewConstStep(h[t \ {Max(t)}], [x \in D |-> x][Max(t)], c, s)
    BY <1>7, <1>9 DEF NewConstFold
  <2>2. \A t \in SUBSET D :
           g[t] = IF t = {} THEN base
                  ELSE NewConstStep(g[t \ {Max(t)}], [x \in D |-> x][Max(t)], c, s)
    BY <1>7, <1>8 DEF NewConstFold
  <2>3. \A t \in SUBSET D : (t # {} => h[t \ {Max(t)}] = g[t \ {Max(t)}]) => h[t] = g[t]
    BY <2>1, <2>2
  <2> QED
    BY <1>1, <2>3, FoldSame
<1>11. NewConstSearch(c, s) = h[D]
  BY <1>7, NewConstUnfold DEF h
<1>12. g[D] \in Acc
  BY <1>5 DEF IsFold
<1> QED
  BY <1>10, <1>11, <1>12

-----------------------------------------------------------------------------
(* Activating an atom: what matching it with a literal finds.              *)
MatchedAt(l, A, v) ==
    {i \in DOMAIN Args(A) : Args(l.atom)[i] = v /\ \A h \in 1..i : Agree(l, A, h)}

LEMMA MatchBufferIs ==
    ASSUME NEW l, NEW A, NEW v \in 1..(MaxVars + 1)
    PROVE  MatchBuffer(l, A)[v] =
             IF MatchedAt(l, A, v) = {} THEN Open
             ELSE Args(A)[CHOOSE j \in MatchedAt(l, A, v) : TRUE]
BY DEF MatchBuffer, MatchedAt, EmptyBuffer

LEMMA AtomArgs ==
    ASSUME NEW A \in AllAtoms
    PROVE  A = <<A[1], Args(A)>> /\ A[1] \in Pred /\ Args(A) \in [DOMAIN Signature[A[1]] -> Const]
<1>1. PICK p \in Pred : \E args \in [DOMAIN Signature[p] -> Const] : A = <<p, args>>
  BY DEF AllAtoms
<1> QED
  BY <1>1 DEF Args

LEMMA MatchBufferTyped ==
    ASSUME NEW l, NEW A \in AllAtoms
    PROVE  MatchBuffer(l, A) \in Buffers
<1>1. DOMAIN MatchBuffer(l, A) = 1..(MaxVars + 1)
      /\ MatchBuffer(l, A) = [v \in 1..(MaxVars + 1) |-> MatchBuffer(l, A)[v]]
  BY DEF MatchBuffer, EmptyBuffer
<1>2. ASSUME NEW v \in 1..(MaxVars + 1)
      PROVE  MatchBuffer(l, A)[v] \in Const \cup {Open}
  <2>1. CASE MatchedAt(l, A, v) = {}
    BY <2>1, MatchBufferIs
  <2>2. CASE MatchedAt(l, A, v) # {}
    <3> PICK i : i = CHOOSE j \in MatchedAt(l, A, v) : TRUE
      OBVIOUS
    <3>1. i \in DOMAIN Args(A)
      BY <2>2 DEF MatchedAt
    <3>2. Args(A)[i] \in Const
      BY <3>1, AtomArgs
    <3> QED
      BY <2>2, <3>2, MatchBufferIs
  <2> QED
    BY <2>1, <2>2
<1> QED
  BY <1>1, <1>2 DEF Buffers

LEMMA ActivateLitTyped ==
    ASSUME TablesTyped, NEW acc \in Searches(rules), NEW n \in DOMAIN rules,
           NEW o \in LitsOf[rules[n].formula], NEW A \in AllAtoms
    PROVE  /\ ActivateLit(acc, n, o, A) \in Searches(rules)
           /\ acc.found \subseteq ActivateLit(acc, n, o, A).found
           /\ LET l == LitAt(rules[n].formula, o) IN
              l.atom[1] = A[1] /\ (\A i \in DOMAIN Args(A) : Agree(l, A, i)) =>
                \A x \in Routes(rules[n], MatchBuffer(l, A), o, constants, active \cup {A}) :
                   Has(ActivateLit(acc, n, o, A).found, <<n, x[2]>>)
<1> PICK r : r = rules[n]
  OBVIOUS
<1> PICK l : l = LitAt(r.formula, o)
  OBVIOUS
<1> PICK b : b = MatchBuffer(l, A)
  OBVIOUS
<1> PICK routes : routes = Routes(r, b, o, constants, active \cup {A})
  OBVIOUS
<1>1. r \in Rule /\ r.formula \in Formulas /\ rules \in Seq(Rule)
  BY RuleTyped DEF TablesTyped
<1>2. o \in Nat \X Nat
  <2>1. PICK k \in DOMAIN Normal[r.formula] :
           \E i \in DOMAIN Normal[r.formula][k] : o = <<k, i>>
    BY <1>1, LitsOfShape
  <2>2. PICK i \in DOMAIN Normal[r.formula][k] : o = <<k, i>>
    BY <2>1
  <2>3. Normal[r.formula] \in Seq(Seq(LitsIn(r.formula)))
    BY <1>1, FormulaTyped
  <2>4. k \in Nat /\ Normal[r.formula][k] \in Seq(LitsIn(r.formula))
    BY <2>3
  <2>5. i \in Nat
    BY <2>4
  <2> QED
    BY <2>2, <2>4, <2>5
<1>3. b \in Buffers
  BY MatchBufferTyped
<1>4. IsFiniteSet(routes) /\ routes \in SUBSET WaysOf(r.formula)
  BY <1>1, RoutesTyped
<1>5. /\ Searched(acc, n, r, o, b, routes) \in Searches(rules)
      /\ acc.found \subseteq Searched(acc, n, r, o, b, routes).found
      /\ Finds(Searched(acc, n, r, o, b, routes).found, n, routes)
  <2>1. o \in Tags /\ routes \in SUBSET WaysOf(rules[n].formula)
    BY <1>2, <1>4 DEF Tags
  <2>2. /\ Searched(acc, n, rules[n], o, b, routes) \in Searches(rules)
        /\ acc.found \subseteq Searched(acc, n, rules[n], o, b, routes).found
        /\ Finds(Searched(acc, n, rules[n], o, b, routes).found, n, routes)
    BY <1>1, <1>3, <1>4, <2>1, SearchedTyped
  <2> QED
    BY <2>2
<1>6. [acc EXCEPT !.buffer = b] \in Searches(rules) /\ [acc EXCEPT !.buffer = b].found = acc.found
  BY <1>3 DEF Searches
<1>7. ActivateLit(acc, n, o, A) =
        IF l.atom[1] # A[1] THEN acc
        ELSE IF \E i \in DOMAIN Args(A) : ~Agree(l, A, i) THEN [acc EXCEPT !.buffer = b]
        ELSE Searched(acc, n, r, o, b, routes)
  BY DEF ActivateLit
<1> QED
  BY <1>5, <1>6, <1>7 DEF Finds

-----------------------------------------------------------------------------
ClauseFold(h, acc, n, k, A) ==
    h = [t \in SUBSET (DOMAIN [i \in DOMAIN Clauses(rules[n])[k] |-> i]) |->
           IF t = {} THEN acc
           ELSE ActivateLit(h[t \ {Max(t)}], n,
                            <<k, [i \in DOMAIN Clauses(rules[n])[k] |-> i][Max(t)]>>, A)]

LEMMA ClauseUnfold ==
    ASSUME NEW acc, NEW n, NEW k, NEW A
    PROVE  ActivateClause(acc, n, k, A)
             = (CHOOSE h : ClauseFold(h, acc, n, k, A))[DOMAIN [i \in DOMAIN Clauses(rules[n])[k] |-> i]]
BY Zenon DEF ActivateClause, FoldLeft, MapThenFoldSet, ClauseFold

RuleFold(h, acc, n, A) ==
    h = [t \in SUBSET (DOMAIN [k \in DOMAIN Clauses(rules[n]) |-> k]) |->
           IF t = {} THEN acc
           ELSE ActivateClause(h[t \ {Max(t)}], n, [k \in DOMAIN Clauses(rules[n]) |-> k][Max(t)], A)]

LEMMA RuleUnfold ==
    ASSUME NEW acc, NEW n, NEW A
    PROVE  ActivateRule(acc, n, A)
             = (CHOOSE h : RuleFold(h, acc, n, A))[DOMAIN [k \in DOMAIN Clauses(rules[n]) |-> k]]
BY Zenon DEF ActivateRule, FoldLeft, MapThenFoldSet, RuleFold

SearchFold(h, A) ==
    h = [t \in SUBSET (DOMAIN [n \in DOMAIN rules |-> n]) |->
           IF t = {} THEN NewSearch(buffer)
           ELSE ActivateRule(h[t \ {Max(t)}], [n \in DOMAIN rules |-> n][Max(t)], A)]

LEMMA SearchUnfold ==
    ASSUME NEW A
    PROVE  ActivateSearch(A) = (CHOOSE h : SearchFold(h, A))[DOMAIN [n \in DOMAIN rules |-> n]]
BY Zenon DEF ActivateSearch, FoldLeft, MapThenFoldSet, SearchFold

LEMMA ClauseDomain ==
    ASSUME TablesTyped, NEW n \in DOMAIN rules
    PROVE  /\ rules[n].formula \in Formulas /\ Clauses(rules[n]) = Normal[rules[n].formula]
           /\ DOMAIN Clauses(rules[n]) \in SUBSET Nat /\ IsFiniteSet(DOMAIN Clauses(rules[n]))
           /\ \A k \in DOMAIN Clauses(rules[n]) :
                 /\ DOMAIN Clauses(rules[n])[k] \in SUBSET Nat
                 /\ IsFiniteSet(DOMAIN Clauses(rules[n])[k])
                 /\ \A i \in DOMAIN Clauses(rules[n])[k] : <<k, i>> \in LitsOf[rules[n].formula]
<1>1. rules[n] \in Rule /\ rules[n].formula \in Formulas /\ Clauses(rules[n]) = Normal[rules[n].formula]
  BY RuleTyped DEF TablesTyped, Clauses
<1> PICK N : N = Normal[rules[n].formula]
  OBVIOUS
<1> PICK L : L = LitsIn(rules[n].formula)
  OBVIOUS
<1>2. N \in Seq(Seq(L))
  BY <1>1, FormulaTyped
<1>3. DOMAIN N = 1..Len(N) /\ Len(N) \in Nat
  BY <1>2
<1>4. \A k \in DOMAIN N : DOMAIN N[k] = 1..Len(N[k]) /\ Len(N[k]) \in Nat
  BY <1>2
<1>5. DOMAIN N \in SUBSET Nat /\ IsFiniteSet(DOMAIN N)
  BY <1>3, FS_Interval
<1>6. \A k \in DOMAIN N : DOMAIN N[k] \in SUBSET Nat /\ IsFiniteSet(DOMAIN N[k])
  <2> SUFFICES ASSUME NEW k \in DOMAIN N
               PROVE  DOMAIN N[k] \in SUBSET Nat /\ IsFiniteSet(DOMAIN N[k])
    OBVIOUS
  <2>1. DOMAIN N[k] = 1..Len(N[k]) /\ Len(N[k]) \in Nat
    BY <1>4
  <2> QED
    BY <2>1, FS_Interval
<1>7. \A k \in DOMAIN N : \A i \in DOMAIN N[k] : <<k, i>> \in LitsOf[rules[n].formula]
  BY <1>1, LitsOfShape
<1> QED
  BY <1>1, <1>5, <1>6, <1>7

LEMMA LitSteps ==
    ASSUME TablesTyped, NEW n \in DOMAIN rules, NEW k \in DOMAIN Clauses(rules[n]), NEW A \in AllAtoms,
           NEW acc \in Searches(rules), NEW i \in DOMAIN Clauses(rules[n])[k]
    PROVE  /\ ActivateLit(acc, n, <<k, i>>, A) \in Searches(rules)
           /\ acc.found \subseteq ActivateLit(acc, n, <<k, i>>, A).found
<1>1. <<k, i>> \in LitsOf[rules[n].formula]
  BY ClauseDomain
<1> QED
  BY <1>1, ActivateLitTyped

LEMMA ActivateClauseTyped ==
    ASSUME TablesTyped, NEW acc \in Searches(rules), NEW n \in DOMAIN rules,
           NEW k \in DOMAIN Clauses(rules[n]), NEW A \in AllAtoms
    PROVE  /\ ActivateClause(acc, n, k, A) \in Searches(rules)
           /\ acc.found \subseteq ActivateClause(acc, n, k, A).found
           /\ \A i \in DOMAIN Clauses(rules[n])[k] : \E acc1 \in Searches(rules) :
                 ActivateLit(acc1, n, <<k, i>>, A).found \subseteq ActivateClause(acc, n, k, A).found
<1>a. PICK D : D = DOMAIN Clauses(rules[n])[k]
  OBVIOUS
<1>b. PICK Acc : Acc = Searches(rules)
  OBVIOUS
<1>c. PICK base : base = acc
  OBVIOUS
<1> DEFINE step == [x \in Acc \X D |-> ActivateLit(x[1], n, <<k, x[2]>>, A)]
           h == CHOOSE h : ClauseFold(h, acc, n, k, A)
<1>1. D \in SUBSET Nat /\ IsFiniteSet(D)
  BY <1>a, ClauseDomain
<1>2. base \in Acc
  BY <1>b, <1>c
<1>3. IsStep(step, Acc, D)
  BY <1>a, <1>b, LitSteps DEF IsStep
<1>4. \A x \in Acc, y \in D : step[<<x, y>>] = ActivateLit(x, n, <<k, y>>, A)
  OBVIOUS
<1> HIDE DEF step
<1>5. PICK g : IsFold(g, D, Acc, step, base)
  BY <1>1, <1>2, <1>3, FoldExists
<1>6. \A t \in SUBSET D : t # {} =>
         Max(t) \in D /\ t \ {Max(t)} \in SUBSET D /\ [x \in D |-> x][Max(t)] = Max(t)
  BY <1>1, MaxIn
<1>7. DOMAIN [x \in D |-> x] = D
  OBVIOUS
<1>8. ClauseFold(g, acc, n, k, A)
  <2>1. \A t \in SUBSET D :
           g[t] = IF t = {} THEN base
                  ELSE ActivateLit(g[t \ {Max(t)}], n, <<k, [x \in D |-> x][Max(t)]>>, A)
    BY <1>4, <1>5, <1>6 DEF FoldAt, IsFold
  <2> QED
    BY <1>a, <1>c, <1>5, <1>7, <2>1 DEF ClauseFold, IsFold
<1>9. ClauseFold(h, acc, n, k, A)
  BY <1>8
<1> HIDE DEF h
<1>10. h[D] = g[D]
  <2>1. \A t \in SUBSET D :
           h[t] = IF t = {} THEN base
                  ELSE ActivateLit(h[t \ {Max(t)}], n, <<k, [x \in D |-> x][Max(t)]>>, A)
    BY <1>a, <1>c, <1>7, <1>9 DEF ClauseFold
  <2>2. \A t \in SUBSET D :
           g[t] = IF t = {} THEN base
                  ELSE ActivateLit(g[t \ {Max(t)}], n, <<k, [x \in D |-> x][Max(t)]>>, A)
    BY <1>a, <1>c, <1>7, <1>8 DEF ClauseFold
  <2>3. \A t \in SUBSET D : (t # {} => h[t \ {Max(t)}] = g[t \ {Max(t)}]) => h[t] = g[t]
    BY <2>1, <2>2
  <2> QED
    BY <1>1, <2>3, FoldSame
<1>11. ActivateClause(acc, n, k, A) = h[D]
  BY <1>a, <1>7, ClauseUnfold DEF h
<1>12. g[D] \in Acc
  BY <1>5 DEF IsFold
<1>13. StepGrows(step, Acc, D)
  <2> SUFFICES ASSUME NEW x \in Acc, NEW y \in D PROVE x.found \subseteq step[<<x, y>>].found
    BY DEF StepGrows
  <2>1. x.found \subseteq ActivateLit(x, n, <<k, y>>, A).found
    BY <1>a, <1>b, LitSteps
  <2> QED
    BY <1>4, <2>1
<1>14. /\ base.found \subseteq g[D].found
       /\ \A y \in D : \E x \in Acc : step[<<x, y>>].found \subseteq g[D].found
  <2>1. FoldHas(g, step, Acc, base, D)
    BY <1>1, <1>2, <1>3, <1>5, <1>13, FoldGrows
  <2> QED
    BY <2>1 DEF FoldHas
<1>15. \A y \in D : \E x \in Acc : ActivateLit(x, n, <<k, y>>, A).found \subseteq g[D].found
  <2> SUFFICES ASSUME NEW y \in D
               PROVE  \E x \in Acc : ActivateLit(x, n, <<k, y>>, A).found \subseteq g[D].found
    OBVIOUS
  <2>1. PICK x \in Acc : step[<<x, y>>].found \subseteq g[D].found
    BY <1>14
  <2>2. step[<<x, y>>] = ActivateLit(x, n, <<k, y>>, A)
    BY <1>4
  <2> QED
    BY <2>1, <2>2
<1> QED
  BY <1>a, <1>b, <1>c, <1>10, <1>11, <1>12, <1>14, <1>15

LEMMA ActivateRuleTyped ==
    ASSUME TablesTyped, NEW acc \in Searches(rules), NEW n \in DOMAIN rules, NEW A \in AllAtoms
    PROVE  /\ ActivateRule(acc, n, A) \in Searches(rules)
           /\ acc.found \subseteq ActivateRule(acc, n, A).found
           /\ \A k \in DOMAIN Clauses(rules[n]) : \E acc1 \in Searches(rules) :
                 ActivateClause(acc1, n, k, A).found \subseteq ActivateRule(acc, n, A).found
<1>a. PICK D : D = DOMAIN Clauses(rules[n])
  OBVIOUS
<1>b. PICK Acc : Acc = Searches(rules)
  OBVIOUS
<1>c. PICK base : base = acc
  OBVIOUS
<1> DEFINE step == [x \in Acc \X D |-> ActivateClause(x[1], n, x[2], A)]
           h == CHOOSE h : RuleFold(h, acc, n, A)
<1>1. D \in SUBSET Nat /\ IsFiniteSet(D)
  BY <1>a, ClauseDomain
<1>2. base \in Acc
  BY <1>b, <1>c
<1>3. IsStep(step, Acc, D)
  BY <1>a, <1>b, ActivateClauseTyped DEF IsStep
<1>4. \A x \in Acc, y \in D : step[<<x, y>>] = ActivateClause(x, n, y, A)
  OBVIOUS
<1> HIDE DEF step
<1>5. PICK g : IsFold(g, D, Acc, step, base)
  BY <1>1, <1>2, <1>3, FoldExists
<1>6. \A t \in SUBSET D : t # {} =>
         Max(t) \in D /\ t \ {Max(t)} \in SUBSET D /\ [x \in D |-> x][Max(t)] = Max(t)
  BY <1>1, MaxIn
<1>7. DOMAIN [x \in D |-> x] = D
  OBVIOUS
<1>8. RuleFold(g, acc, n, A)
  <2>1. \A t \in SUBSET D :
           g[t] = IF t = {} THEN base
                  ELSE ActivateClause(g[t \ {Max(t)}], n, [x \in D |-> x][Max(t)], A)
    BY <1>4, <1>5, <1>6 DEF FoldAt, IsFold
  <2> QED
    BY <1>a, <1>c, <1>5, <1>7, <2>1 DEF RuleFold, IsFold
<1>9. RuleFold(h, acc, n, A)
  BY <1>8
<1> HIDE DEF h
<1>10. h[D] = g[D]
  <2>1. \A t \in SUBSET D :
           h[t] = IF t = {} THEN base
                  ELSE ActivateClause(h[t \ {Max(t)}], n, [x \in D |-> x][Max(t)], A)
    BY <1>a, <1>c, <1>7, <1>9 DEF RuleFold
  <2>2. \A t \in SUBSET D :
           g[t] = IF t = {} THEN base
                  ELSE ActivateClause(g[t \ {Max(t)}], n, [x \in D |-> x][Max(t)], A)
    BY <1>a, <1>c, <1>7, <1>8 DEF RuleFold
  <2>3. \A t \in SUBSET D : (t # {} => h[t \ {Max(t)}] = g[t \ {Max(t)}]) => h[t] = g[t]
    BY <2>1, <2>2
  <2> QED
    BY <1>1, <2>3, FoldSame
<1>11. ActivateRule(acc, n, A) = h[D]
  BY <1>a, <1>7, RuleUnfold DEF h
<1>12. g[D] \in Acc
  BY <1>5 DEF IsFold
<1>13. StepGrows(step, Acc, D)
  <2> SUFFICES ASSUME NEW x \in Acc, NEW y \in D PROVE x.found \subseteq step[<<x, y>>].found
    BY DEF StepGrows
  <2>1. x.found \subseteq ActivateClause(x, n, y, A).found
    BY <1>a, <1>b, ActivateClauseTyped
  <2> QED
    BY <1>4, <2>1
<1>14. /\ base.found \subseteq g[D].found
       /\ \A y \in D : \E x \in Acc : step[<<x, y>>].found \subseteq g[D].found
  <2>1. FoldHas(g, step, Acc, base, D)
    BY <1>1, <1>2, <1>3, <1>5, <1>13, FoldGrows
  <2> QED
    BY <2>1 DEF FoldHas
<1>15. \A y \in D : \E x \in Acc : ActivateClause(x, n, y, A).found \subseteq g[D].found
  <2> SUFFICES ASSUME NEW y \in D
               PROVE  \E x \in Acc : ActivateClause(x, n, y, A).found \subseteq g[D].found
    OBVIOUS
  <2>1. PICK x \in Acc : step[<<x, y>>].found \subseteq g[D].found
    BY <1>14
  <2>2. step[<<x, y>>] = ActivateClause(x, n, y, A)
    BY <1>4
  <2> QED
    BY <2>1, <2>2
<1> QED
  BY <1>a, <1>b, <1>c, <1>10, <1>11, <1>12, <1>14, <1>15

LEMMA ActivateSearchTyped ==
    ASSUME TablesTyped, NEW A \in AllAtoms
    PROVE  /\ ActivateSearch(A) \in Searches(rules)
           /\ \A n \in DOMAIN rules : \E acc1 \in Searches(rules) :
                 ActivateRule(acc1, n, A).found \subseteq ActivateSearch(A).found
<1>a. PICK D : D = DOMAIN rules
  OBVIOUS
<1>b. PICK Acc : Acc = Searches(rules)
  OBVIOUS
<1>c. PICK base : base = NewSearch(buffer)
  OBVIOUS
<1> DEFINE step == [x \in Acc \X D |-> ActivateRule(x[1], x[2], A)]
           h == CHOOSE h : SearchFold(h, A)
<1>1. D \in SUBSET Nat /\ IsFiniteSet(D)
  BY <1>a, FiniteDomain DEF TablesTyped
<1>2. base \in Acc
  BY <1>b, <1>c, NewSearchTyped DEF TablesTyped
<1>3. IsStep(step, Acc, D)
  BY <1>a, <1>b, ActivateRuleTyped DEF IsStep
<1>4. \A x \in Acc, y \in D : step[<<x, y>>] = ActivateRule(x, y, A)
  OBVIOUS
<1> HIDE DEF step
<1>5. PICK g : IsFold(g, D, Acc, step, base)
  BY <1>1, <1>2, <1>3, FoldExists
<1>6. \A t \in SUBSET D : t # {} =>
         Max(t) \in D /\ t \ {Max(t)} \in SUBSET D /\ [x \in D |-> x][Max(t)] = Max(t)
  BY <1>1, MaxIn
<1>7. DOMAIN [x \in D |-> x] = D
  OBVIOUS
<1>8. SearchFold(g, A)
  <2>1. \A t \in SUBSET D :
           g[t] = IF t = {} THEN base
                  ELSE ActivateRule(g[t \ {Max(t)}], [x \in D |-> x][Max(t)], A)
    BY <1>4, <1>5, <1>6 DEF FoldAt, IsFold
  <2> QED
    BY <1>a, <1>c, <1>5, <1>7, <2>1 DEF SearchFold, IsFold
<1>9. SearchFold(h, A)
  BY <1>8
<1> HIDE DEF h
<1>10. h[D] = g[D]
  <2>1. \A t \in SUBSET D :
           h[t] = IF t = {} THEN base
                  ELSE ActivateRule(h[t \ {Max(t)}], [x \in D |-> x][Max(t)], A)
    BY <1>a, <1>c, <1>7, <1>9 DEF SearchFold
  <2>2. \A t \in SUBSET D :
           g[t] = IF t = {} THEN base
                  ELSE ActivateRule(g[t \ {Max(t)}], [x \in D |-> x][Max(t)], A)
    BY <1>a, <1>c, <1>7, <1>8 DEF SearchFold
  <2>3. \A t \in SUBSET D : (t # {} => h[t \ {Max(t)}] = g[t \ {Max(t)}]) => h[t] = g[t]
    BY <2>1, <2>2
  <2> QED
    BY <1>1, <2>3, FoldSame
<1>11. ActivateSearch(A) = h[D]
  BY <1>a, <1>7, SearchUnfold DEF h
<1>12. g[D] \in Acc
  BY <1>5 DEF IsFold
<1>13. StepGrows(step, Acc, D)
  <2> SUFFICES ASSUME NEW x \in Acc, NEW y \in D PROVE x.found \subseteq step[<<x, y>>].found
    BY DEF StepGrows
  <2>1. x.found \subseteq ActivateRule(x, y, A).found
    BY <1>a, <1>b, ActivateRuleTyped
  <2> QED
    BY <1>4, <2>1
<1>14. /\ base.found \subseteq g[D].found
       /\ \A y \in D : \E x \in Acc : step[<<x, y>>].found \subseteq g[D].found
  <2>1. FoldHas(g, step, Acc, base, D)
    BY <1>1, <1>2, <1>3, <1>5, <1>13, FoldGrows
  <2> QED
    BY <2>1 DEF FoldHas
<1>15. \A y \in D : \E x \in Acc : ActivateRule(x, y, A).found \subseteq g[D].found
  <2> SUFFICES ASSUME NEW y \in D
               PROVE  \E x \in Acc : ActivateRule(x, y, A).found \subseteq g[D].found
    OBVIOUS
  <2>1. PICK x \in Acc : step[<<x, y>>].found \subseteq g[D].found
    BY <1>14
  <2>2. step[<<x, y>>] = ActivateRule(x, y, A)
    BY <1>4
  <2> QED
    BY <2>1, <2>2
<1> QED
  BY <1>a, <1>b, <1>c, <1>10, <1>11, <1>12, <1>14, <1>15

(* A literal that the atom matches is tried, whatever was found before.    *)
LEMMA ActivateSearchHas ==
    ASSUME TablesTyped, NEW A \in AllAtoms, NEW n \in DOMAIN rules,
           NEW k \in DOMAIN Clauses(rules[n]), NEW i \in DOMAIN Clauses(rules[n])[k],
           NEW l, l = LitAt(rules[n].formula, <<k, i>>),
           l.atom[1] = A[1], \A h \in DOMAIN Args(A) : Agree(l, A, h),
           NEW x \in Routes(rules[n], MatchBuffer(l, A), <<k, i>>, constants, active \cup {A})
    PROVE  Has(ActivateSearch(A).found, <<n, x[2]>>)
<1>1. PICK acc1 \in Searches(rules) : ActivateRule(acc1, n, A).found \subseteq ActivateSearch(A).found
  BY ActivateSearchTyped
<1>2. PICK acc2 \in Searches(rules) :
         ActivateClause(acc2, n, k, A).found \subseteq ActivateRule(acc1, n, A).found
  BY ActivateRuleTyped
<1>3. PICK acc3 \in Searches(rules) :
         ActivateLit(acc3, n, <<k, i>>, A).found \subseteq ActivateClause(acc2, n, k, A).found
  BY ActivateClauseTyped
<1>4. Has(ActivateLit(acc3, n, <<k, i>>, A).found, <<n, x[2]>>)
  <2>1. <<k, i>> \in LitsOf[rules[n].formula]
    BY ClauseDomain
  <2> QED
    BY <2>1, ActivateLitTyped
<1> QED
  BY <1>1, <1>2, <1>3, <1>4 DEF Has

-----------------------------------------------------------------------------
(* What a formula says, clause by clause.                                  *)
TrueIn(l, s, T) == ~((AtomOf(l, s) \in T \cup Facts) = l.neg)
FalseClause(C, s, T) == \A l \in Range(C) : ~TrueIn(l, s, T)

LEMMA TrueInMeans ==
    ASSUME NEW f \in Formulas, NEW l \in LitsIn(f), NEW s, NEW T
    PROVE  TrueIn(l, s, T) <=> IF l.neg THEN AtomOf(l, s) \notin T \cup Facts
                                        ELSE AtomOf(l, s) \in T \cup Facts
<1>1. l.neg \in BOOLEAN
  BY DEF LitsIn
<1> QED
  BY <1>1 DEF TrueIn

LEMMA HoldsMeans ==
    ASSUME NEW r \in Rule, NEW s, NEW T
    PROVE  Holds(r, s, T) <=> \A k \in DOMAIN Normal[r.formula] : ~FalseClause(Normal[r.formula][k], s, T)
<1> PICK f : f = r.formula
  OBVIOUS
<1> DEFINE U == {A \in AtomsIn(f) : Given(A, s) \in T \cup Facts}
<1>1. f \in Formulas
  BY RuleTyped
<1>2. Holds(r, s, T) <=> ~((U \in Models[f]) = (f \in Negative))
  BY DEF Holds
<1>3. U \in SUBSET AtomsIn(f)
  OBVIOUS
<1>4. /\ U \in Models[f] <=> \A C \in Range(Pos[f]) : Satisfied(C, U)
      /\ U \notin Models[f] <=> \A C \in Range(Neg[f]) : Satisfied(C, U)
  BY <1>1, <1>3, FormulasAssumption
<1>5. Normal[f] = IF f \in Negative THEN Neg[f] ELSE Pos[f]
  BY <1>1 DEF Normal
<1>6. ASSUME NEW l \in LitsIn(f) PROVE (l.atom \in U) = (AtomOf(l, s) \in T \cup Facts)
  <2>1. Given(l.atom, s) = AtomOf(l, s)
    BY DEF Given, AtomOf
  <2>2. l.atom \in AtomsIn(f)
    BY DEF LitsIn
  <2> QED
    BY <2>1, <2>2
<1> HIDE DEF U
<1>7. ASSUME NEW C \in Range(Normal[f]) PROVE Satisfied(C, U) <=> ~FalseClause(C, s, T)
  <2>1. \A l \in Range(C) : l \in LitsIn(f)
    BY <1>1, <1>7, LitTyped
  <2>2. \A l \in Range(C) : ((l.atom \in U) # l.neg) <=> TrueIn(l, s, T)
    BY <1>6, <2>1 DEF TrueIn
  <2> QED
    BY <2>2 DEF Satisfied, FalseClause
<1>8. Holds(r, s, T) <=> \A C \in Range(Normal[f]) : Satisfied(C, U)
  <2>1. CASE f \in Negative
    BY <1>2, <1>4, <1>5, <2>1
  <2>2. CASE f \notin Negative
    BY <1>2, <1>4, <1>5, <2>2
  <2> QED
    BY <2>1, <2>2
<1>9. Holds(r, s, T) <=> \A C \in Range(Normal[f]) : ~FalseClause(C, s, T)
  BY <1>7, <1>8
<1> QED
  BY <1>9 DEF Range

LEMMA HoldsSame ==
    ASSUME Facts' = Facts
    PROVE  \A r, s, T : Holds(r, s, T)' <=> Holds(r, s, T)
BY DEF Holds

(* The atoms that are given by facts and the others.                       *)
LEMMA OpenAtomsApart ==
    ASSUME NEW r \in Rule, NEW s, NEW T \in SUBSET OpenAtoms(r, s), NEW l
    PROVE  /\ IsDirect(l) => AtomOf(l, s) \notin T
           /\ ~IsDirect(l) => AtomOf(l, s) \notin Facts
           /\ \A A \in T : A \notin Facts
<1>1. AtomOf(l, s)[1] = l.atom[1]
  BY DEF AtomOf
<1>2. \A A \in T : A[1] \notin Direct
  BY DEF OpenAtoms, IsDirect, AtomOf
<1> QED
  BY <1>1, <1>2 DEF IsDirect, Facts

(* A clause of a formula that can be true has a literal that is not given  *)
(* by facts when it is false for some atoms.                               *)
LEMMA FalseClauseOpen ==
    ASSUME NEW r \in Rule, NEW s, NEW T0 \in SUBSET OpenAtoms(r, s), Holds(r, s, T0),
           NEW k \in DOMAIN Normal[r.formula], NEW T \in SUBSET OpenAtoms(r, s),
           FalseClause(Normal[r.formula][k], s, T)
    PROVE  \E l \in Range(Normal[r.formula][k]) : ~IsDirect(l)
<1> PICK C : C = Normal[r.formula][k]
  OBVIOUS
<1>1. PICK l \in Range(C) : TrueIn(l, s, T0)
  BY HoldsMeans DEF FalseClause
<1>2. IsDirect(l) => (AtomOf(l, s) \in T0 \cup Facts) = (AtomOf(l, s) \in T \cup Facts)
  BY OpenAtomsApart
<1>3. ~TrueIn(l, s, T)
  BY DEF FalseClause
<1> QED
  BY <1>1, <1>2, <1>3 DEF TrueIn

LEMMA FixedChoice ==
    ASSUME NEW r \in Rule, NEW s, NEW T0 \in SUBSET OpenAtoms(r, s), Holds(r, s, T0)
    PROVE  \E choice \in LitChoices[r.formula] : \A h \in FixedFalse[r.formula] :
              AtomOf(LitAt(r.formula, <<h, choice[h]>>), s) \in Facts
<1> PICK f : f = r.formula
  OBVIOUS
<1>1. f \in Formulas
  BY RuleTyped
<1> DEFINE Good(h, i) == i \in DOMAIN Normal[f][h] /\ AtomOf(Normal[f][h][i], s) \in Facts
           choice == [h \in FixedFalse[f] |-> CHOOSE i : Good(h, i)]
<1>2. \A h \in FixedFalse[f] :
         h \in DOMAIN Normal[f] /\ AllDirect(Normal[f][h]) /\ NoneDefaultTrue(Normal[f][h])
  BY <1>1 DEF FixedFalse
<1>3. ASSUME NEW h \in FixedFalse[f] PROVE \E i : Good(h, i)
  <2>1. ~FalseClause(Normal[f][h], s, T0)
    BY <1>2, HoldsMeans
  <2>2. PICK l \in Range(Normal[f][h]) : TrueIn(l, s, T0)
    BY <2>1 DEF FalseClause
  <2>3. IsDirect(l) /\ ~l.neg
    BY <1>2 DEF AllDirect, NoneDefaultTrue, DefaultTrue
  <2>4. Normal[f][h] \in Range(Normal[f])
    BY <1>2 DEF Range
  <2>5. l \in LitsIn(f)
    BY <1>1, <2>4, LitTyped
  <2>6. AtomOf(l, s) \in T0 \cup Facts
    BY <1>1, <2>2, <2>3, <2>5, TrueInMeans
  <2>7. AtomOf(l, s) \in Facts
    BY <2>3, <2>6, OpenAtomsApart
  <2>8. PICK i \in DOMAIN Normal[f][h] : Normal[f][h][i] = l
    BY DEF Range
  <2> QED
    BY <2>7, <2>8
<1>4. \A h \in FixedFalse[f] : Good(h, choice[h])
  BY <1>3
<1>5. \A h \in FixedFalse[f] : <<h, choice[h]>> \in LitsOf[f]
  BY <1>1, <1>2, <1>4, LitsOfShape
<1>6. choice \in LitChoices[f]
  <2>1. \A h \in FixedFalse[f] : choice[h] \in {o[2] : o \in LitsOf[f]}
    <3> SUFFICES ASSUME NEW h \in FixedFalse[f] PROVE choice[h] \in {o[2] : o \in LitsOf[f]}
      OBVIOUS
    <3> PICK o : o = <<h, choice[h]>>
      OBVIOUS
    <3>1. o \in LitsOf[f] /\ o[2] = choice[h]
      BY <1>5
    <3> QED
      BY <3>1
  <2>2. choice = [h \in FixedFalse[f] |-> choice[h]]
    OBVIOUS
  <2> HIDE DEF choice
  <2>3. choice \in [FixedFalse[f] -> {o[2] : o \in LitsOf[f]}]
    BY <2>1, <2>2
  <2> QED
    BY <1>1, <1>5, <2>3 DEF LitChoices
<1>7. \A h \in FixedFalse[f] : LitAt(f, <<h, choice[h]>>) = Normal[f][h][choice[h]]
  BY DEF LitAt
<1> HIDE DEF choice
<1>8. \A h \in FixedFalse[f] : AtomOf(LitAt(f, <<h, choice[h]>>), s) \in Facts
  BY <1>4, <1>7
<1> QED
  BY <1>6, <1>8

-----------------------------------------------------------------------------
(* The literals of a clause that is false lead to the substitution.        *)
BufferFits(b, r, s) == \A v \in Vars(r) : b[v] # Open => s[v] = b[v]
Reached(routes, s) == \E x \in routes : x[2] = s

(* A substitution that can falsify a clause, and satisfies the formula for *)
(* some atoms, is on a route: its fixed clauses have literals that facts   *)
(* make true, and the negated literals of the clause have atoms that hold. *)
LEMMA RouteFinds ==
    ASSUME NEW r \in Rule, NEW s \in WellSorted(r), NEW T0 \in SUBSET OpenAtoms(r, s), Holds(r, s, T0),
           NEW k \in DOMAIN Normal[r.formula], NEW T \in SUBSET OpenAtoms(r, s),
           FalseClause(Normal[r.formula][k], s, T), NEW on, T \cup Facts \subseteq on,
           NEW b, BufferFits(b, r, s), NEW given
    PROVE  Reached(Routes(r, b, given, constants, on), s)
<1> PICK f : f = r.formula
  OBVIOUS
<1>1. f \in Formulas /\ s \in Substs[f] /\ Normal[f] \in Seq(Seq(LitsIn(f)))
  BY RuleTyped, FormulaTyped DEF WellSorted
<1>2. PICK choice \in LitChoices[f] : \A h \in FixedFalse[f] :
         AtomOf(LitAt(f, <<h, choice[h]>>), s) \in Facts
  BY FixedChoice
<1>3. PICK k0 \in Targets[f] : k0 = 0 \/ k0 = k
  <2>1. PICK l \in Range(Normal[f][k]) : ~IsDirect(l)
    BY FalseClauseOpen
  <2>2. ~AllDirect(Normal[f][k])
    BY <2>1 DEF AllDirect
  <2>3. 0 \in Targets[f] \/ k \in Targets[f]
    BY <1>1, <2>2 DEF Targets
  <2> QED
    BY <2>3
<1> PICK M : M = ToMatch(f, choice, k0, given)
  OBVIOUS
<1>4. ASSUME NEW o \in M PROVE AtomOf(LitAt(f, o), s) \in on
  <2>1. CASE \E h \in FixedFalse[f] : o = <<h, choice[h]>>
    BY <1>2, <2>1
  <2>2. CASE o \in LitsOf[f] /\ o[1] = k0 /\ DefaultTrue(LitAt(f, o))
    <3>1. PICK h \in DOMAIN Normal[f] : \E i \in DOMAIN Normal[f][h] : o = <<h, i>>
      BY <1>1, <2>2, LitsOfShape
    <3> PICK i \in DOMAIN Normal[f][h] : o = <<h, i>>
      BY <3>1
    <3>2. h # 0
      BY <1>1
    <3>3. h = k
      BY <1>3, <2>2, <3>2
    <3> PICK l : l = Normal[f][k][i]
      OBVIOUS
    <3>4. LitAt(f, o) = l /\ l.neg
      BY <2>2, <3>3 DEF LitAt, DefaultTrue
    <3>5. l \in Range(Normal[f][k])
      BY <3>3 DEF Range
    <3>6. ~TrueIn(l, s, T)
      BY <3>5 DEF FalseClause
    <3>7. l \in LitsIn(f)
      BY <1>1, <2>2, <3>4, LitAtTyped
    <3>8. AtomOf(l, s) \in T \cup Facts
      BY <1>1, <3>4, <3>6, <3>7, TrueInMeans
    <3> QED
      BY <3>4, <3>8
  <2>3. \/ \E h \in FixedFalse[f] : o = <<h, choice[h]>>
        \/ o \in LitsOf[f] /\ o[1] = k0 /\ DefaultTrue(LitAt(f, o))
    BY DEF ToMatch
  <2> QED
    BY <2>1, <2>2, <2>3
<1>5. \A bound : Completes(s, r, b, bound, constants)
  BY DEF Completes, WellSorted, BufferFits
<1> PICK x : x = <<choice, k0>>
  OBVIOUS
<1>6. x \in LitChoices[f] \X Targets[f] /\ x[1] = choice /\ x[2] = k0
  OBVIOUS
<1> PICK y : y = <<x, s>>
  OBVIOUS
<1>7. y \in Routes(r, b, given, constants, on)
  <2> DEFINE L(z) == {LitAt(r.formula, o) : o \in ToMatch(r.formula, z[1], z[2], given)}
             bound(z) == UNION {Range(Args(l.atom)) : l \in L(z)}
             Good(z) == {<<z, t>> : t \in {t \in Substs[r.formula] :
                /\ Completes(t, r, b, bound(z), constants)
                /\ \A l \in L(z) : AtomOf(l, t) \in on}}
  <2>1. Routes(r, b, given, constants, on) = UNION {Good(z) : z \in LitChoices[r.formula] \X Targets[r.formula]}
    BY Zenon DEF Routes
  <2>2. \A l \in L(x) : AtomOf(l, s) \in on
    BY <1>4, <1>6
  <2>3. y \in Good(x)
    BY <1>1, <1>5, <2>2
  <2> HIDE DEF Good
  <2> QED
    BY <1>6, <2>1, <2>3
<1> QED
  BY <1>7 DEF Reached

-----------------------------------------------------------------------------
(* Then its instance has a clause, and is worth making.                    *)
LEMMA MayBeFalse ==
    ASSUME NEW r \in Rule, NEW s, NEW T0 \in SUBSET OpenAtoms(r, s), Holds(r, s, T0),
           NEW k \in DOMAIN Normal[r.formula], NEW T \in SUBSET OpenAtoms(r, s),
           FalseClause(Normal[r.formula][k], s, T), NEW on, T \cup Facts \subseteq on,
           \A A \in on : A[1] \in Direct => A \in Facts
    PROVE  Falsifiable(r, s, on) /\ InstClauses(r, s) # {}
<1> PICK f : f = r.formula
  OBVIOUS
<1> PICK C : C = Normal[f][k]
  OBVIOUS
<1>1. f \in Formulas /\ C \in Range(Normal[f])
  BY RuleTyped DEF Range
<1>2. Clauses(r) = Normal[f]
  BY DEF Clauses
<1>3. ASSUME NEW l \in Range(C) PROVE LitValue(l, s, on) # "true"
  <2>1. l \in LitsIn(f) /\ l.neg \in BOOLEAN
    BY <1>1, LitTyped DEF LitsIn
  <2>2. IF l.neg THEN AtomOf(l, s) \in T \cup Facts ELSE AtomOf(l, s) \notin T \cup Facts
    BY <1>1, <2>1, TrueInMeans DEF FalseClause
  <2>3. AtomOf(l, s)[1] = l.atom[1]
    BY DEF AtomOf
  <2>4. CASE l.neg
    <3>1. AtomOf(l, s) \in on
      BY <2>2, <2>4
    <3>2. ((AtomOf(l, s) \in on) # l.neg) = FALSE
      BY <2>4, <3>1
    <3> QED
      BY <3>2 DEF LitValue
  <2>5. CASE ~l.neg /\ AtomOf(l, s) \notin on
    <3>1. ((AtomOf(l, s) \in on) # l.neg) = FALSE
      BY <2>1, <2>5
    <3> QED
      BY <3>1 DEF LitValue
  <2>6. CASE ~l.neg /\ AtomOf(l, s) \in on
    <3>1. ~IsDirect(l)
      BY <2>2, <2>3, <2>6 DEF IsDirect
    <3> QED
      BY <2>6, <3>1 DEF LitValue
  <2> QED
    BY <2>4, <2>5, <2>6
<1>4. Falsifiable(r, s, on)
  BY <1>2, <1>3 DEF Falsifiable
<1>5. PICK l \in Range(C) : ~IsDirect(l)
  BY FalseClauseOpen
<1>6. ASSUME NEW m \in Range(C) PROVE ~DirectTrue(m, s)
  <2>1. ~TrueIn(m, s, T)
    BY DEF FalseClause
  <2>2. IsDirect(m) => (AtomOf(m, s) \in T \cup Facts) = (AtomOf(m, s) \in Facts)
    BY OpenAtomsApart
  <2> QED
    BY <2>1, <2>2, DirectTrueMeans DEF TrueIn
<1>7. GroundLit(l, s) \in ClauseInst(C, s)
  BY <1>5, <1>6 DEF ClauseInst
<1>8. ClauseInst(C, s) \in InstClauses(r, s)
  BY <1>1, <1>2, <1>7 DEF InstClauses
<1> QED
  BY <1>4, <1>8

(* A substitution that is needed falsifies a clause.                       *)
LEMMA NeededMeans ==
    ASSUME NEW r \in Rule, NEW s, Needed(r, s)
    PROVE  \E T0 \in SUBSET OpenAtoms(r, s) : \E T \in SUBSET OpenAtoms(r, s) :
             \E k \in DOMAIN Normal[r.formula] :
               /\ Holds(r, s, T0) /\ FalseClause(Normal[r.formula][k], s, T)
               /\ lazy => T \subseteq active
<1>1. PICK T0 \in SUBSET OpenAtoms(r, s) : Holds(r, s, T0)
  BY DEF Needed
<1>2. PICK T \in SUBSET (IF lazy THEN OpenAtoms(r, s) \cap active ELSE OpenAtoms(r, s)) : ~Holds(r, s, T)
  BY DEF Needed
<1>3. T \in SUBSET OpenAtoms(r, s) /\ (lazy => T \subseteq active)
  BY <1>2
<1>4. PICK k \in DOMAIN Normal[r.formula] : FalseClause(Normal[r.formula][k], s, T)
  BY <1>2, HoldsMeans
<1> QED
  BY <1>1, <1>3, <1>4

LEMMA NeededHasClauses ==
    ASSUME NEW r \in Rule, NEW s, Needed(r, s)
    PROVE  InstClauses(r, s) # {}
<1>1. PICK T0 \in SUBSET OpenAtoms(r, s), T \in SUBSET OpenAtoms(r, s) :
         \E k \in DOMAIN Normal[r.formula] :
            /\ Holds(r, s, T0) /\ FalseClause(Normal[r.formula][k], s, T)
            /\ lazy => T \subseteq active
  BY NeededMeans
<1>2. PICK k \in DOMAIN Normal[r.formula] : FalseClause(Normal[r.formula][k], s, T)
  BY <1>1
<1> PICK on : on = T \cup Facts
  OBVIOUS
<1>3. \A A \in on : A[1] \in Direct => A \in Facts
  BY DEF OpenAtoms, IsDirect, AtomOf
<1> QED
  BY <1>1, <1>2, <1>3, MayBeFalse

(* What a new rule needs in lazy mode is found, and worth making.          *)
LEMMA RuleFinds ==
    ASSUME lazy, NEW r \in Rule, NEW s \in WellSorted(r), Needed(r, s)
    PROVE  /\ \E x \in Routes(r, EmptyBuffer, <<0, 0>>, constants, active) : x[2] = s
           /\ Falsifiable(r, s, active)
<1>1. PICK T0 \in SUBSET OpenAtoms(r, s), T \in SUBSET OpenAtoms(r, s) :
         \E k \in DOMAIN Normal[r.formula] :
            /\ Holds(r, s, T0) /\ FalseClause(Normal[r.formula][k], s, T)
            /\ lazy => T \subseteq active
  BY NeededMeans
<1>2. PICK k \in DOMAIN Normal[r.formula] : FalseClause(Normal[r.formula][k], s, T)
  BY <1>1
<1>3. T \cup Facts \subseteq active /\ \A A \in active : A[1] \in Direct => A \in Facts
  BY <1>1 DEF Facts
<1>4. BufferFits(EmptyBuffer, r, s)
  <2>1. NumVars[r.formula] \in Nat /\ NumVars[r.formula] <= MaxVars /\ MaxVars \in Nat
    BY RuleTyped, FormulaTyped
  <2> QED
    BY <2>1 DEF Vars, EmptyBuffer, BufferFits
<1> PICK b : b = EmptyBuffer
  OBVIOUS
<1> PICK given : given = <<0, 0>>
  OBVIOUS
<1>5. Reached(Routes(r, b, given, constants, active), s)
  BY <1>1, <1>2, <1>3, <1>4, RouteFinds
<1> QED
  BY <1>1, <1>2, <1>3, <1>5, MayBeFalse DEF Reached

(* When a literal becomes the atom, the atom matches it, and the buffer    *)
(* holds what the substitution says.                                       *)
LEMMA Matches ==
    ASSUME NEW f \in Formulas, NEW s \in Substs[f], NEW l \in LitsIn(f),
           NEW A \in AllAtoms, AtomOf(l, s) = A
    PROVE  /\ l.atom[1] = A[1] /\ \A h \in DOMAIN Args(A) : Agree(l, A, h)
           /\ \A v \in 1..NumVars[f] : MatchBuffer(l, A)[v] # Open => s[v] = MatchBuffer(l, A)[v]
<1>1. l.atom[1] = A[1] /\ Args(A) = [i \in DOMAIN Args(l.atom) |-> ArgOf(Args(l.atom)[i], s)]
  BY DEF AtomOf, Args
<1>2. \A h \in DOMAIN Args(A) : Args(A)[h] = ArgOf(Args(l.atom)[h], s)
  BY <1>1
<1>3. \A h \in DOMAIN Args(A) : Agree(l, A, h)
  BY <1>2 DEF Agree, ArgOf
<1>4. ASSUME NEW v \in 1..NumVars[f], MatchBuffer(l, A)[v] # Open
      PROVE  s[v] = MatchBuffer(l, A)[v]
  <2>1. v \in 1..(MaxVars + 1) /\ v \notin Const
    <3>1. NumVars[f] \in Nat /\ NumVars[f] <= MaxVars /\ MaxVars \in Nat
      BY FormulaTyped
    <3>2. v \in 1..MaxVars
      BY <3>1
    <3> QED
      BY <3>1, <3>2, GroundingAssumption
  <2>2. MatchedAt(l, A, v) # {}
    BY <1>4, <2>1, MatchBufferIs
  <2> PICK i : i = CHOOSE j \in MatchedAt(l, A, v) : TRUE
    OBVIOUS
  <2>3. i \in DOMAIN Args(A) /\ Args(l.atom)[i] = v
    BY <2>2 DEF MatchedAt
  <2>4. MatchBuffer(l, A)[v] = Args(A)[i]
    BY <2>1, <2>2, MatchBufferIs
  <2> QED
    BY <1>2, <2>1, <2>3, <2>4 DEF ArgOf
<1> QED
  BY <1>1, <1>3, <1>4

LEMMA ActivateFinds ==
    ASSUME TablesTyped, lazy, NEW A \in AllAtoms, A[1] \notin Direct,
           NEW n \in DOMAIN rules, NEW r, r = rules[n], NEW s \in WellSorted(r),
           NEW T0 \in SUBSET OpenAtoms(r, s), Holds(r, s, T0),
           NEW T \in SUBSET OpenAtoms(r, s), T \subseteq active \cup {A}, ~Holds(r, s, T)
    PROVE  \/ Needed(r, s)
           \/ /\ Has(ActivateSearch(A).found, <<n, s>>)
              /\ Falsifiable(r, s, active \cup {A})
<1> PICK f : f = r.formula
  OBVIOUS
<1>1. r \in Rule /\ f \in Formulas /\ s \in Substs[f]
  BY RuleTyped DEF TablesTyped, WellSorted
<1> PICK U : U = T \ {A}
  OBVIOUS
<1>2. U \in SUBSET (OpenAtoms(r, s) \cap active)
  OBVIOUS
<1>3. CASE ~Holds(r, s, U)
  BY <1>2, <1>3 DEF Needed
<1>4. CASE Holds(r, s, U)
  <2>1. PICK k \in DOMAIN Normal[f] : FalseClause(Normal[f][k], s, T)
    BY <1>1, HoldsMeans
  <2>2. ~FalseClause(Normal[f][k], s, U)
    BY <1>1, <1>4, HoldsMeans
  <2>3. PICK l \in Range(Normal[f][k]) : TrueIn(l, s, U)
    BY <2>2 DEF FalseClause
  <2>4. ~TrueIn(l, s, T)
    BY <2>1 DEF FalseClause
  <2>5. AtomOf(l, s) = A
    BY <2>3, <2>4 DEF TrueIn
  <2>6. PICK i \in DOMAIN Normal[f][k] : Normal[f][k][i] = l
    BY DEF Range
  <2> PICK o : o = <<k, i>>
    OBVIOUS
  <2>7. l = LitAt(f, o) /\ o \in LitsOf[f]
    BY <1>1, <2>6, LitsOfShape DEF LitAt
  <2>8. l \in LitsIn(f)
    BY <1>1, <2>7, LitAtTyped
  <2>b. PICK b : b = MatchBuffer(l, A)
    OBVIOUS
  <2>9. /\ l.atom[1] = A[1] /\ \A h \in DOMAIN Args(A) : Agree(l, A, h)
        /\ \A v \in Vars(r) : b[v] # Open => s[v] = b[v]
    BY <2>b, <1>1, <2>5, <2>8, Matches DEF Vars
  <2>a. PICK on : on = active \cup {A}
    OBVIOUS
  <2>10. T \cup Facts \subseteq on /\ \A B \in on : B[1] \in Direct => B \in Facts
    BY <2>a DEF Facts
  <2>11. PICK x \in Routes(r, b, o, constants, on) : x[2] = s
    <3>1. BufferFits(b, r, s)
      BY <2>9 DEF BufferFits
    <3>2. T \cup Facts \subseteq on
      BY <2>10
    <3>3. k \in DOMAIN Normal[r.formula] /\ FalseClause(Normal[r.formula][k], s, T)
      BY <2>1
    <3>4. r \in Rule
      BY <1>1
    <3>5. Reached(Routes(r, b, o, constants, on), s)
      BY <3>1, <3>2, <3>3, <3>4, RouteFinds
    <3> QED
      BY <3>5 DEF Reached
  <2>12. Has(ActivateSearch(A).found, <<n, x[2]>>)
    <3>1. k \in DOMAIN Clauses(r) /\ i \in DOMAIN Clauses(r)[k]
      BY DEF Clauses
    <3> QED
      BY <2>a, <2>b, <2>7, <2>9, <2>11, <3>1, ActivateSearchHas
  <2>13. Falsifiable(r, s, on)
    BY <1>1, <2>1, <2>10, MayBeFalse
  <2> QED
    BY <2>a, <2>11, <2>12, <2>13
<1> QED
  BY <1>3, <1>4

-----------------------------------------------------------------------------
(* A sequence of sequences, flattened.                                     *)
FlattenFold(h, seqs) ==
    h = [i \in 1..Len(seqs) |-> IF i = 1 THEN seqs[i] ELSE h[i - 1] \o seqs[i]]

LEMMA EmptyLen ==
    ASSUME NEW S, NEW q \in Seq(S)
    PROVE  q = <<>> <=> Len(q) = 0
OBVIOUS

LEMMA ConcatEmpty ==
    ASSUME NEW S, NEW a \in Seq(S), NEW b \in Seq(S), a \o b = <<>>
    PROVE  a = <<>> /\ b = <<>>
<1>1. Len(a \o b) = Len(a) + Len(b) /\ Len(a) \in Nat /\ Len(b) \in Nat
  OBVIOUS
<1>2. Len(<<>>) = 0
  OBVIOUS
<1>3. Len(a) = 0 /\ Len(b) = 0
  BY <1>1, <1>2
<1> QED
  BY <1>3, EmptyLen

LEMMA FlattenTyped ==
    ASSUME NEW S, NEW seqs \in Seq(Seq(S))
    PROVE  /\ FlattenSeq(seqs) \in Seq(S)
           /\ (\E i \in DOMAIN seqs : seqs[i] # <<>>) => FlattenSeq(seqs) # <<>>
<1>1. CASE Len(seqs) = 0
  <2>1. seqs = <<>>
    BY <1>1
  <2>2. FlattenSeq(seqs) = seqs
    BY <1>1 DEF FlattenSeq
  <2>3. \A i \in DOMAIN seqs : FALSE
    BY <2>1
  <2>4. <<>> \in Seq(S)
    OBVIOUS
  <2> QED
    BY <2>1, <2>2, <2>3, <2>4
<1>2. CASE Len(seqs) # 0
  <2> PICK n : n = Len(seqs)
    OBVIOUS
  <2>1. n \in Nat /\ n # 0 /\ DOMAIN seqs = 1..n
    BY <1>2
  <2> DEFINE h == CHOOSE h : FlattenFold(h, seqs)
  <2>2. FlattenSeq(seqs) = h[Len(seqs)]
    BY Zenon, <1>2 DEF FlattenSeq, FlattenFold
  <2>a. PICK D : D = 1..n
    OBVIOUS
  <2>b. PICK Acc : Acc = Seq(S)
    OBVIOUS
  <2> DEFINE step == [x \in Acc \X D |-> IF x[2] = 1 THEN seqs[1] ELSE x[1] \o seqs[x[2]]]
  <2>3. D \in SUBSET Nat /\ IsFiniteSet(D) /\ <<>> \in Acc
    <3>1. IsFiniteSet(D)
      BY <2>1, <2>a, FS_Interval
    <3>2. D \in SUBSET Nat
      BY <2>1, <2>a
    <3>3. <<>> \in Acc
      BY <2>b
    <3> QED
      BY <3>1, <3>2, <3>3
  <2>4. IsStep(step, Acc, D)
    <3>1. \A x \in Acc, y \in D : seqs[1] \in Acc /\ x \o seqs[y] \in Acc
      BY <2>1, <2>a, <2>b
    <3> QED
      BY <3>1 DEF IsStep
  <2>5. \A x \in Acc, y \in D : step[<<x, y>>] = IF y = 1 THEN seqs[1] ELSE x \o seqs[y]
    OBVIOUS
  <2> HIDE DEF step
  <2>6. PICK g : IsFold(g, D, Acc, step, <<>>)
    BY <2>3, <2>4, FoldExists
  <2> DEFINE k == [i \in 1..n |-> g[1..i]]
  <2>7. ASSUME NEW i \in 1..n PROVE k[i] = IF i = 1 THEN seqs[i] ELSE k[i - 1] \o seqs[i]
    <3> PICK t : t = 1..i
      OBVIOUS
    <3>1. t \in SUBSET D /\ t # {}
      <4>1. i \in t
        BY <2>1
      <4>2. t \subseteq D
        BY <2>1, <2>a
      <4> QED
        BY <4>1, <4>2
    <3>2. Max(t) = i
      <4>1. Max(t) \in t
        BY <2>3, <3>1, MaxIn
      <4>2. i \in t /\ \A y \in t : i >= y
        BY <2>1
      <4>3. \E x \in t : \A y \in t : x >= y
        BY <4>2
      <4>4. \A y \in t : Max(t) >= y
        BY <4>3 DEF Max
      <4> QED
        BY <2>1, <4>1, <4>2, <4>4
    <3>3. t \ {i} = 1..(i - 1)
      BY <2>1
    <3>4. g[t] = step[<<g[t \ {i}], i>>] /\ g[t \ {i}] \in Acc
      BY <2>6, <3>1, <3>2 DEF IsFold, FoldAt
    <3>5. i \in D
      BY <2>a
    <3>6. g[t] = IF i = 1 THEN seqs[i] ELSE g[1..(i - 1)] \o seqs[i]
      BY <2>5, <3>3, <3>4, <3>5
    <3>7. i # 1 => i - 1 \in 1..n
      BY <2>1
    <3> QED
      BY <3>6, <3>7
  <2>8. FlattenFold(k, seqs)
    BY <2>7 DEF FlattenFold
  <2>9. FlattenFold(h, seqs)
    BY <2>8
  <2> HIDE DEF h
  <2>10. \A i \in 1..n : h[i] = IF i = 1 THEN seqs[i] ELSE h[i - 1] \o seqs[i]
    BY <2>9 DEF FlattenFold
  <2> DEFINE Fine(i) == h[i] \in Seq(S) /\ ((\E j \in 1..i : seqs[j] # <<>>) => h[i] # <<>>)
             F == {i \in 1..n : Fine(i)}
  <2>11. 1 \in F
    <3>1. 1 \in 1..n /\ h[1] = seqs[1] /\ seqs[1] \in Seq(S)
      BY <2>1, <2>10
    <3>2. \A j \in 1..1 : j = 1
      OBVIOUS
    <3> QED
      BY <3>1, <3>2
  <2>12. ASSUME NEW i \in F, i # n PROVE i + 1 \in F
    <3>0. i \in 1..n /\ Fine(i)
      OBVIOUS
    <3> HIDE DEF Fine
    <3>1. i + 1 \in 1..n /\ i \in Nat /\ i + 1 # 1 /\ (i + 1) - 1 = i
      BY <2>1, <2>12, <3>0
    <3>2. h[i + 1] = h[i] \o seqs[i + 1]
      BY <2>10, <3>1
    <3>3. seqs[i + 1] \in Seq(S) /\ h[i] \in Seq(S)
      BY <2>1, <3>0, <3>1 DEF Fine
    <3>4. h[i + 1] \in Seq(S) /\ Len(h[i + 1]) = Len(h[i]) + Len(seqs[i + 1])
      BY <3>2, <3>3
    <3>a. h[i + 1] = <<>> => h[i] = <<>> /\ seqs[i + 1] = <<>>
      BY <3>2, <3>3, ConcatEmpty
    <3>5. ASSUME NEW j \in 1..(i + 1), seqs[j] # <<>> PROVE h[i + 1] # <<>>
      <4>1. CASE j = i + 1
        BY <3>a, <3>3, <3>4, <3>5, <4>1
      <4>2. CASE j \in 1..i
        <5>1. h[i] # <<>>
          BY <3>0, <3>5, <4>2 DEF Fine
        <5> QED
          BY <3>a, <3>3, <3>4, <5>1
      <4> QED
        BY <3>1, <4>1, <4>2
    <3> QED
      BY <3>1, <3>4, <3>5 DEF Fine
  <2> HIDE DEF F
  <2>13. n \in F
    <3>1. F \in SUBSET D /\ F # {}
      BY <2>11, <2>a DEF F
    <3>2. PICK m \in F : \A y \in F : m >= y
      BY <2>3, <3>1, HasMax
    <3>3. m \in Nat
      BY <2>1, <2>a, <3>1
    <3>4. m = n
      BY <2>12, <3>2, <3>3
    <3> QED
      BY <3>4
  <2>14. Fine(n)
    BY <2>13 DEF F
  <2> QED
    BY <2>1, <2>2, <2>14
<1> QED
  BY <1>1, <1>2

-----------------------------------------------------------------------------
(* The sorts a variable may be given.                                      *)
OccursIn(A, v) == [j \in DOMAIN Args(A) |-> IF Args(A)[j] = v THEN <<Signature[A[1]][j]>> ELSE <<>>]

LEMMA FunctionIsSeq ==
    ASSUME NEW X, NEW n \in Nat, NEW q \in [1..n -> X]
    PROVE  q \in Seq(X)
OBVIOUS

LEMMA OccursTyped ==
    ASSUME NEW f \in Formulas, NEW A \in AtomsIn(f), NEW v
    PROVE  /\ OccursIn(A, v) \in Seq(Seq(Sort))
           /\ v \in Range(A[2]) => \E j \in DOMAIN OccursIn(A, v) : OccursIn(A, v)[j] # <<>>
<1>1. PICK p \in Pred : \E args \in [DOMAIN Signature[p] -> Const \cup 1..NumVars[f]] : A = <<p, args>>
  <2>1. A \in AtomForms(f)
    BY FormulaTyped
  <2> QED
    BY <2>1 DEF AtomForms
<1> PICK args \in [DOMAIN Signature[p] -> Const \cup 1..NumVars[f]] : A = <<p, args>>
  BY <1>1
<1> PICK n : n = Len(Signature[p])
  OBVIOUS
<1>2. Signature[p] \in Seq(Sort) /\ n \in Nat /\ DOMAIN args = 1..n
  BY GroundingAssumption
<1> PICK seqs : seqs = OccursIn(A, v)
  OBVIOUS
<1>3. seqs = [j \in 1..n |-> IF args[j] = v THEN <<Signature[p][j]>> ELSE <<>>]
  BY <1>2 DEF OccursIn, Args
<1>4. \A j \in 1..n : seqs[j] = IF args[j] = v THEN <<Signature[p][j]>> ELSE <<>>
  BY <1>3
<1>5. \A j \in 1..n : Signature[p][j] \in Sort /\ <<Signature[p][j]>> \in Seq(Sort)
  BY <1>2
<1>6. <<>> \in Seq(Sort)
  OBVIOUS
<1>7. \A j \in 1..n : seqs[j] \in Seq(Sort)
  BY <1>4, <1>5, <1>6
<1>8. seqs \in Seq(Seq(Sort))
  <2> PICK X : X = Seq(Sort)
    OBVIOUS
  <2>1. DOMAIN seqs = 1..n /\ seqs = [j \in 1..n |-> seqs[j]]
    BY <1>3
  <2>2. seqs \in [1..n -> X]
    BY <1>7, <2>1
  <2> QED
    BY <1>2, <2>2, FunctionIsSeq
<1>9. ASSUME v \in Range(A[2]) PROVE \E j \in DOMAIN seqs : seqs[j] # <<>>
  <2>1. PICK j \in 1..n : args[j] = v
    BY <1>2, <1>9 DEF Range
  <2>2. seqs[j] = <<Signature[p][j]>>
    BY <1>4, <2>1
  <2>3. j \in DOMAIN seqs /\ <<Signature[p][j]>> # <<>>
    BY <1>3
  <2> QED
    BY <2>2, <2>3
<1> QED
  BY <1>8, <1>9

LEMMA PlacesTyped ==
    ASSUME NEW f \in Formulas, NEW v \in 1..NumVars[f]
    PROVE  Places[f][v] \in Seq(Sort) /\ Places[f][v] # <<>>
<1> PICK n : n = Len(Order[f])
  OBVIOUS
<1>1. Order[f] \in Seq(AtomForms(f)) /\ n \in Nat /\ DOMAIN Order[f] = 1..n
  <2>1. Order[f] \in Seq(AtomForms(f))
    BY FormulasAssumption
  <2> QED
    BY <2>1
<1>2. \A i \in 1..n : Order[f][i] \in AtomsIn(f)
  BY <1>1 DEF AtomsIn, Range
<1> DEFINE seqs == [i \in DOMAIN Order[f] |-> FlattenSeq(OccursIn(Order[f][i], v))]
<1>3. Places[f][v] = Occurrences(f, v)
  BY DEF Places
<1>4. Occurrences(f, v) = FlattenSeq(seqs)
  BY Zenon DEF Occurrences, OccursIn
<1>5. ASSUME NEW i \in 1..n
      PROVE  /\ FlattenSeq(OccursIn(Order[f][i], v)) \in Seq(Sort)
             /\ v \in Range(Order[f][i][2]) => FlattenSeq(OccursIn(Order[f][i], v)) # <<>>
  <2> PICK A : A = Order[f][i]
    OBVIOUS
  <2> PICK q : q = OccursIn(A, v)
    OBVIOUS
  <2>1. A \in AtomsIn(f)
    BY <1>2
  <2>2. q \in Seq(Seq(Sort)) /\ (v \in Range(A[2]) => \E j \in DOMAIN q : q[j] # <<>>)
    BY <2>1, OccursTyped
  <2> QED
    BY <2>2, FlattenTyped
<1>6. \E i \in 1..n : v \in Range(Order[f][i][2])
  <2>1. PICK A \in AtomsIn(f) : v \in Range(A[2])
    BY FormulasAssumption
  <2>2. PICK i \in DOMAIN Order[f] : Order[f][i] = A
    BY DEF AtomsIn, Range
  <2> QED
    BY <1>1, <2>1, <2>2
<1>7. \A i \in 1..n : seqs[i] = FlattenSeq(OccursIn(Order[f][i], v))
  BY <1>1
<1>8. seqs \in Seq(Seq(Sort))
  BY <1>1, <1>5
<1>9. \E i \in DOMAIN seqs : seqs[i] # <<>>
  BY <1>1, <1>5, <1>6, <1>7
<1> HIDE DEF seqs
<1>10. FlattenSeq(seqs) \in Seq(Sort) /\ FlattenSeq(seqs) # <<>>
  BY <1>8, <1>9, FlattenTyped
<1> QED
  BY <1>3, <1>4, <1>10

NarrowStep(S, t) == UNION {GreatestCommonSubsorts(s, t) : s \in S}

NarrowFold(h, f, v) ==
    h = [s \in SUBSET (DOMAIN Tail(Places[f][v])) |->
           IF s = {} THEN {Head(Places[f][v])}
           ELSE NarrowStep(h[s \ {Max(s)}], Tail(Places[f][v])[Max(s)])]

LEMMA NarrowUnfold ==
    ASSUME NEW f, NEW v
    PROVE  VarSorts(f, v) = (CHOOSE h : NarrowFold(h, f, v))[DOMAIN Tail(Places[f][v])]
BY Zenon DEF VarSorts, FoldLeft, MapThenFoldSet, NarrowFold, NarrowStep

LEMMA NarrowTyped ==
    ASSUME SortTypeOK, NEW S \in SUBSET Sort, NEW t \in Sort
    PROVE  NarrowStep(S, t) \in SUBSET Sort
<1>1. \A s \in Sort : GreatestCommonSubsorts(s, t) \subseteq Sort
  BY DEF SortTypeOK, GreatestCommonSubsorts, CommonSubsorts
<1> QED
  BY <1>1 DEF NarrowStep

LEMMA PlacesEnds ==
    ASSUME NEW f \in Formulas, NEW v \in 1..NumVars[f]
    PROVE  /\ Head(Places[f][v]) \in Sort /\ Tail(Places[f][v]) \in Seq(Sort)
           /\ DOMAIN Tail(Places[f][v]) \in SUBSET Nat /\ IsFiniteSet(DOMAIN Tail(Places[f][v]))
           /\ \A i \in DOMAIN Tail(Places[f][v]) : Tail(Places[f][v])[i] \in Sort
<1> PICK q : q = Places[f][v]
  OBVIOUS
<1>1. q \in Seq(Sort) /\ q # <<>>
  BY PlacesTyped
<1>2. Head(q) \in Sort /\ Tail(q) \in Seq(Sort)
  BY <1>1
<1> PICK u : u = Tail(q)
  OBVIOUS
<1>3. u \in Seq(Sort) /\ \E n \in Nat : DOMAIN u = 1..n
  BY <1>2
<1>4. DOMAIN u \in SUBSET Nat /\ IsFiniteSet(DOMAIN u)
  BY <1>3, FiniteDomain
<1> QED
  BY <1>2, <1>3, <1>4

LEMMA VarSortsTyped ==
    ASSUME SortTypeOK, NEW f \in Formulas, NEW v \in 1..NumVars[f]
    PROVE  VarSorts(f, v) \in SUBSET Sort
<1>a. PICK D : D = DOMAIN Tail(Places[f][v])
  OBVIOUS
<1>b. PICK Acc : Acc = SUBSET Sort
  OBVIOUS
<1>c. PICK base : base = {Head(Places[f][v])}
  OBVIOUS
<1> DEFINE step == [x \in Acc \X D |-> NarrowStep(x[1], Tail(Places[f][v])[x[2]])]
           h == CHOOSE h : NarrowFold(h, f, v)
<1>1. D \in SUBSET Nat /\ IsFiniteSet(D)
  BY <1>a, PlacesEnds
<1>2. base \in Acc
  BY <1>b, <1>c, PlacesEnds
<1>3. IsStep(step, Acc, D)
  BY <1>a, <1>b, NarrowTyped, PlacesEnds DEF IsStep
<1>4. \A x \in Acc, y \in D : step[<<x, y>>] = NarrowStep(x, Tail(Places[f][v])[y])
  OBVIOUS
<1> HIDE DEF step
<1>5. PICK g : IsFold(g, D, Acc, step, base)
  BY <1>1, <1>2, <1>3, FoldExists
<1>6. \A t \in SUBSET D : t # {} =>
         Max(t) \in D /\ t \ {Max(t)} \in SUBSET D 
  BY <1>1, MaxIn
<1>7. DOMAIN [x \in D |-> x] = D
  OBVIOUS
<1>8. NarrowFold(g, f, v)
  <2>1. \A t \in SUBSET D :
           g[t] = IF t = {} THEN base
                  ELSE NarrowStep(g[t \ {Max(t)}], Tail(Places[f][v])[Max(t)])
    BY <1>4, <1>5, <1>6 DEF FoldAt, IsFold
  <2> QED
    BY <1>a, <1>c, <1>5, <1>7, <2>1 DEF NarrowFold, IsFold
<1>9. NarrowFold(h, f, v)
  BY <1>8
<1> HIDE DEF h
<1>10. h[D] = g[D]
  <2>1. \A t \in SUBSET D :
           h[t] = IF t = {} THEN base
                  ELSE NarrowStep(h[t \ {Max(t)}], Tail(Places[f][v])[Max(t)])
    BY <1>a, <1>c, <1>7, <1>9 DEF NarrowFold
  <2>2. \A t \in SUBSET D :
           g[t] = IF t = {} THEN base
                  ELSE NarrowStep(g[t \ {Max(t)}], Tail(Places[f][v])[Max(t)])
    BY <1>a, <1>c, <1>7, <1>8 DEF NarrowFold
  <2>3. \A t \in SUBSET D : (t # {} => h[t \ {Max(t)}] = g[t \ {Max(t)}]) => h[t] = g[t]
    BY <2>1, <2>2
  <2> QED
    BY <1>1, <2>3, FoldSame
<1>11. VarSorts(f, v) = h[D]
  BY <1>a, <1>7, NarrowUnfold DEF h
<1>12. g[D] \in Acc
  BY <1>5 DEF IsFold
<1> QED
  BY <1>b, <1>10, <1>11, <1>12

LEMMA RuleMade ==
    ASSUME SortTypeOK, NEW f \in Formulas, NEW vsort \in VarSortings(f)
    PROVE  [formula |-> f, vsort |-> vsort] \in Rule
<1> DEFINE may == [v \in 1..NumVars[f] |-> VarSorts(f, v)]
<1>1. vsort \in [1..NumVars[f] -> UNION Range(may)] /\ \A v \in DOMAIN vsort : vsort[v] \in may[v]
  BY DEF VarSortings
<1>2. \A v \in 1..NumVars[f] : may[v] \in SUBSET Sort
  BY VarSortsTyped
<1>3. vsort \in [1..NumVars[f] -> Sort]
  BY <1>1, <1>2
<1> QED
  BY <1>3 DEF Rule

-----------------------------------------------------------------------------
(* The atoms of the predicates.                                            *)
LEMMA GroundAtomsTyped ==
    ASSUME NEW p \in Pred, NEW members
    PROVE  GroundAtoms(p, members) \subseteq AllAtoms
BY DEF GroundAtoms, AllAtoms

LEMMA ReachesSame ==
    ASSUME UNCHANGED <<supersorts, decl>>
    PROVE  /\ \A s, t : Reaches(s, t)' <=> Reaches(s, t)
           /\ \A s, t : subsort_p(s, t)' <=> subsort_p(s, t)
BY DEF Reaches, subsort_p

LEMMA AtomsStayComplete ==
    ASSUME AtomsComplete, UNCHANGED <<lazy, preds, constants, supersorts, decl>>,
           atoms \subseteq atoms', late \subseteq late'
    PROVE  AtomsComplete'
<1>1. (\A s, t : Reaches(s, t)' <=> Reaches(s, t)) /\ \A s, t : subsort_p(s, t)' <=> subsort_p(s, t)
  BY ReachesSame
<1> SUFFICES ASSUME ~lazy, "sort" \notin late, \A s, t \in Sort : Reaches(s, t) => subsort_p(s, t)
             PROVE  UNION {GroundAtoms(p, constants)' : p \in preds} \subseteq atoms'
  BY <1>1 DEF AtomsComplete
<1>2. UNION {GroundAtoms(p, constants) : p \in preds} \subseteq atoms
  BY DEF AtomsComplete
<1>3. \A p : GroundAtoms(p, constants)' = GroundAtoms(p, constants)
  BY DEF GroundAtoms
<1> QED
  BY <1>2, <1>3

LEMMA PredicateComplete ==
    ASSUME AtomsComplete, NEW p \in Pred, UNCHANGED <<lazy, constants, supersorts, decl, late>>,
           preds' = preds \cup {p},
           atoms' = IF lazy THEN atoms ELSE atoms \cup GroundAtoms(p, constants)
    PROVE  AtomsComplete'
<1>1. (\A s, t : Reaches(s, t)' <=> Reaches(s, t)) /\ \A s, t : subsort_p(s, t)' <=> subsort_p(s, t)
  BY ReachesSame
<1> SUFFICES ASSUME ~lazy, "sort" \notin late, \A s, t \in Sort : Reaches(s, t) => subsort_p(s, t)
             PROVE  UNION {GroundAtoms(q, constants)' : q \in preds'} \subseteq atoms'
  BY <1>1 DEF AtomsComplete
<1>2. UNION {GroundAtoms(q, constants) : q \in preds} \subseteq atoms
  BY DEF AtomsComplete
<1>3. \A q : GroundAtoms(q, constants)' = GroundAtoms(q, constants)
  BY DEF GroundAtoms
<1> QED
  BY <1>2, <1>3

(* An atom that a new constant makes possible has the constant at a place  *)
(* whose sort the constant's sort is known to be below.                    *)
LEMMA NewConstComplete ==
    ASSUME SortInv, SortInv', AtomsComplete, preds \subseteq Pred,
           NEW c \in Const, NEW s \in Sort, AddConst(c, s),
           UNCHANGED <<lazy, preds>>, late \subseteq late',
           atoms \subseteq atoms', ~lazy => NewConstAtoms(c, s) \subseteq atoms'
    PROVE  AtomsComplete'
<1>0. UNCHANGED <<supersorts, decl>> /\ sort_index' = [sort_index EXCEPT ![c] = s]
      /\ constants' = WithConstants(supersorts, {c}, s)
  BY DEF AddConst, relation
<1>1. (\A u, t : Reaches(u, t)' <=> Reaches(u, t)) /\ \A u, t : subsort_p(u, t)' <=> subsort_p(u, t)
  BY <1>0, ReachesSame
<1> SUFFICES ASSUME ~lazy, "sort" \notin late, \A u, t \in Sort : Reaches(u, t) => subsort_p(u, t),
                    NEW p \in preds, NEW A \in GroundAtoms(p, constants')
             PROVE  A \in atoms'
  <2>1. \A p : GroundAtoms(p, constants)' = GroundAtoms(p, constants')
    BY DEF GroundAtoms
  <2> QED
    BY <1>0, <1>1, <2>1 DEF AtomsComplete
<1>2. UNION {GroundAtoms(q, constants) : q \in preds} \subseteq atoms
  BY DEF AtomsComplete
<1>3. PICK args \in [DOMAIN Signature[p] -> Const] :
         A = <<p, args>> /\ \A i \in DOMAIN args : args[i] \in constants'[Signature[p][i]]
  BY DEF GroundAtoms
<1>4. \A i \in DOMAIN args : Signature[p][i] \in Sort
  BY GroundingAssumption
<1>5. MembersExact'
  BY InvGivesMembers, PTL
<1>6. CASE \A i \in DOMAIN args : args[i] \in constants[Signature[p][i]]
  <2>1. A \in GroundAtoms(p, constants)
    BY <1>3, <1>6 DEF GroundAtoms
  <2> QED
    BY <1>2, <2>1
<1>7. ASSUME NEW j \in DOMAIN args, args[j] \notin constants[Signature[p][j]]
      PROVE  A \in atoms'
  <2> PICK t : t = Signature[p][j]
    OBVIOUS
  <2>1. t \in Sort /\ args[j] \in constants'[t]
    BY <1>3, <1>4
  <2>2. constants'[t] = constants[t] \cup {x \in {c} : Receives(t, supersorts, x, s)}
    BY <1>0, <2>1 DEF WithConstants
  <2>3. args[j] = c
    BY <1>7, <2>1, <2>2
  <2>4. Reaches(s, t)
    <3>1. sort_index' [c] = s
      BY <1>0 DEF SortInv, SortTypeOK
    <3>2. c \in constants'[t]
      BY <2>1, <2>3
    <3>3. Reaches(s, t)'
      BY <1>5, <2>1, <3>1, <3>2 DEF MembersExact
    <3> QED
      BY <1>1, <3>3
  <2>5. subsort_p(s, Signature[p][j])
    BY <2>1, <2>4
  <2>6. A \in NewConstAtomsAt(p, j, c)
    <3> PICK members : members = [u \in Sort |-> constants'[u] \cup {c}]
      OBVIOUS
    <3>1. \A i \in DOMAIN args : args[i] \in members[Signature[p][i]]
      BY <1>3, <1>4
    <3>2. A \in GroundAtoms(p, members)
      BY <1>3, <3>1 DEF GroundAtoms
    <3>3. Args(A) = args
      BY <1>3 DEF Args
    <3> QED
      BY <1>3, <2>3, <3>2, <3>3 DEF NewConstAtomsAt
  <2>7. A \in NewConstAtoms(c, s)
    <3>1. j \in {i \in DOMAIN Signature[p] : subsort_p(s, Signature[p][i])}
      BY <2>5
    <3> QED
      BY <2>6, <3>1 DEF NewConstAtoms
  <2> QED
    BY <2>7
<1> QED
  BY <1>6, <1>7

LEMMA NewConstAtomsTyped ==
    ASSUME preds \subseteq Pred, NEW c, NEW s
    PROVE  NewConstAtoms(c, s) \subseteq AllAtoms
<1>1. \A p \in Pred : \A j : NewConstAtomsAt(p, j, c) \subseteq AllAtoms
  BY GroundAtomsTyped DEF NewConstAtomsAt
<1> QED
  BY <1>1 DEF NewConstAtoms

-----------------------------------------------------------------------------
(* Steps that make no instance.                                            *)
LEMMA NothingMade ==
    ASSUME GroundInv, SortInv', UNCHANGED <<lazy, active, rules, insts, seen>>,
           buffer' \in Buffers, atoms \subseteq atoms', atoms' \subseteq AllAtoms,
           preds \subseteq preds', preds' \subseteq Pred,
           late \subseteq late', late' \subseteq {"sort", "const", "fact"},
           constants' = constants \/ rules = <<>>, AtomsComplete'
    PROVE  GroundInv'
<1> USE DEF GroundInv
<1>1. TablesTyped'
  BY DEF TablesTyped
<1>2. InstsTyped'
  <2>1. IsABag(insts')
    BY DEF InstsTyped
  <2>2. ASSUME NEW i \in DOMAIN insts
        PROVE  (OfFormula(i) \/ OfRule(i)') /\ AtomsOfInst(i) \subseteq atoms'
    <3>1. (OfFormula(i) \/ OfRule(i)) /\ AtomsOfInst(i) \subseteq atoms
      BY DEF InstsTyped
    <3> QED
      BY <3>1 DEF OfRule
  <2> QED
    BY Zenon, <2>1, <2>2 DEF InstsTyped
<1>3. LazyOnce'
  BY DEF LazyOnce
<1>4. Exact'
  <2> SUFFICES ASSUME late' = {} PROVE InstsExact' /\ SubstsDone'
    BY DEF Exact
  <2>1. InstsExact /\ SubstsDone
    BY DEF Exact
  <2>2. Facts' = Facts
    BY DEF Facts
  <2>3. \A r, s : InstClauses(r, s)' = InstClauses(r, s)
    BY <2>2, InstClausesSame
  <2>4. InstsExact'
    BY <2>1, <2>3 DEF InstsExact
  <2>5. SubstsDone'
    <3> SUFFICES ASSUME NEW n \in DOMAIN rules, NEW s \in WellSorted(rules[n])'
                 PROVE  /\ lazy /\ Needed(rules[n], s)' => <<n, s>> \in seen
                        /\ ~lazy \/ <<n, s>> \in seen =>
                              InstClauses(rules[n], s)' = {} \/ InstOf(rules, <<n, s>>)' \in DOMAIN insts
      BY DEF SubstsDone
    <3>1. s \in WellSorted(rules[n])
      <4>1. rules # <<>>
        OBVIOUS
      <4> QED
        BY <4>1 DEF WellSorted
    <3>2. Needed(rules[n], s)' => Needed(rules[n], s)
      <4>1. \A r, t, T : Holds(r, t, T)' <=> Holds(r, t, T)
        BY <2>2, HoldsSame
      <4> QED
        BY <4>1 DEF Needed
    <3>3. InstOf(rules, <<n, s>>)' = InstOf(rules, <<n, s>>)
      BY <2>3 DEF InstOf
    <3> QED
      BY <2>1, <2>3, <3>1, <3>2, <3>3 DEF SubstsDone
  <2> QED
    BY <2>4, <2>5
<1> QED
  BY <1>1, <1>2, <1>3, <1>4

LEMMA DeclareSortInv ==
    ASSUME GroundInv, NEW s \in Sort, DeclareSort(s)
    PROVE  GroundInv'
<1>1. SortInv'
  BY SortNextInv DEF GroundInv, DeclareSort, SortNext
<1>2. UNCHANGED <<lazy, preds, atoms, active, rules, insts, seen, buffer, late>>
      /\ UNCHANGED <<supersorts, subsorts, decl, constants>>
  BY DEF DeclareSort, groundVars, AddSort, relation
<1>3. AtomsComplete'
  BY <1>2, AtomsStayComplete DEF GroundInv
<1> QED
  BY <1>1, <1>2, <1>3, NothingMade DEF GroundInv, TablesTyped

LEMMA DeclareSubsortInv ==
    ASSUME GroundInv, NEW s \in Sort, NEW t \in Sort, DeclareSubsort(s, t)
    PROVE  GroundInv'
<1>1. SortInv'
  BY SortNextInv DEF GroundInv, DeclareSubsort, SortNext
<1>2. /\ UNCHANGED <<lazy, preds, atoms, active, rules, insts, seen, buffer>>
      /\ late' = IF preds # {} THEN late \cup {"sort"} ELSE late
  BY DEF DeclareSubsort, Late
<1>3. AtomsComplete'
  <2>1. CASE preds = {}
    BY <1>2, <2>1 DEF AtomsComplete
  <2>2. CASE preds # {}
    BY <1>2, <2>2 DEF AtomsComplete
  <2> QED
    BY <2>1, <2>2
<1>4. late \subseteq late' /\ late' \subseteq {"sort", "const", "fact"}
  BY <1>2 DEF GroundInv, TablesTyped
<1>5. CASE preds = {}
  <2>1. rules = <<>>
    BY <1>5 DEF GroundInv, TablesTyped
  <2> QED
    BY <1>1, <1>2, <1>3, <1>4, <2>1, NothingMade DEF GroundInv, TablesTyped
<1>6. CASE preds # {}
  <2> USE DEF GroundInv
  <2>1. TablesTyped'
    BY <1>2, <1>4 DEF TablesTyped
  <2>2. InstsTyped'
    <3>1. \A i : OfRule(i)' <=> OfRule(i)
      BY <1>2 DEF OfRule
    <3> QED
      BY <1>2, <3>1 DEF InstsTyped
  <2>3. LazyOnce'
    BY <1>2 DEF LazyOnce
  <2>4. Exact'
    BY <1>2, <1>6 DEF Exact
  <2> QED
    BY <1>1, <1>3, <2>1, <2>2, <2>3, <2>4
<1> QED
  BY <1>5, <1>6

LEMMA AddPredicateInv ==
    ASSUME GroundInv, NEW p \in Pred, AddPredicate(p)
    PROVE  GroundInv'
<1>1. /\ UNCHANGED <<lazy, active, rules, insts, seen, buffer, late>>
      /\ UNCHANGED <<sorts, supersorts, subsorts, decl, constants, sort_index>>
      /\ preds' = preds \cup {p}
      /\ atoms' = IF lazy THEN atoms ELSE atoms \cup GroundAtoms(p, constants)
  BY DEF AddPredicate, AddPred, sortVars, relation
<1>2. SortInv'
  BY <1>1, SortNextInv DEF GroundInv, sortVars, relation
<1>3. AtomsComplete'
  BY <1>1, PredicateComplete DEF GroundInv
<1>4. atoms \subseteq atoms' /\ atoms' \subseteq AllAtoms
  BY <1>1, GroundAtomsTyped DEF GroundInv, TablesTyped
<1> QED
  BY <1>1, <1>2, <1>3, <1>4, NothingMade DEF GroundInv, TablesTyped

-----------------------------------------------------------------------------
(* Steps that make instances.                                              *)
LEMMA ExtendsSame == ASSUME TablesTyped PROVE Extends(rules)
BY DEF Extends, TablesTyped

LEMMA BufferOnly ==
    ASSUME NEW rs, NEW search \in Searches(rs), NEW b \in Buffers
    PROVE  [search EXCEPT !.buffer = b] \in Searches(rs)
           /\ [search EXCEPT !.buffer = b].found = search.found
BY DEF Searches

LEMMA NoRuleExact ==
    ASSUME InstsTyped, rules = <<>>
    PROVE  InstsExact /\ SubstsDone
<1>1. \A i \in DOMAIN insts : OfFormula(i) \/ OfRule(i)
  BY DEF InstsTyped
<1>2. \A i : ~OfRule(i)
  BY DEF OfRule
<1>3. \A i : OfFormula(i) => i.rule = 0
  BY DEF OfFormula
<1> QED
  BY <1>1, <1>2, <1>3 DEF InstsExact, SubstsDone

(* What a step after the first rule declares is late.                      *)
LEMMA LateMade ==
    ASSUME TablesTyped, InstsTyped, LazyOnce, NEW search \in Searches(rules), NEW on,
           NEW new \in SUBSET AllAtoms, Instantiate(rules, search, on, new),
           UNCHANGED <<lazy, preds>>, NEW more \in SUBSET AllAtoms, more \subseteq new,
           active' = active \cup more,
           NEW what \in {"const", "fact"}, Late(what, rules # <<>>)
    PROVE  /\ TablesTyped' /\ InstsTyped' /\ LazyOnce' /\ Exact'
           /\ atoms \cup new \subseteq atoms' /\ late \subseteq late'
<1>1. Extends(rules)
  BY ExtendsSame
<1>2. /\ rules' \in Seq(Rule) /\ buffer' \in Buffers /\ atoms' \subseteq AllAtoms
      /\ atoms \cup new \subseteq atoms' /\ seen' \subseteq Pairs(rules)
  BY <1>1, InstantiateTables
<1>3. rules' = rules
  BY InstantiateMeans
<1>4. late \subseteq late' /\ late' \subseteq {"sort", "const", "fact"} /\ (late' = {} => rules = <<>>)
  <2>1. late \subseteq {"sort", "const", "fact"} /\ what \in {"sort", "const", "fact"}
    BY DEF TablesTyped
  <2>2. CASE rules = <<>>
    BY <2>1, <2>2 DEF Late
  <2>3. CASE rules # <<>>
    <3>1. late' = late \cup {what}
      BY <2>3 DEF Late
    <3> QED
      BY <2>1, <3>1
  <2> QED
    BY <2>2, <2>3
<1>5. TablesTyped'
  <2>1. active \subseteq atoms /\ lazy \in BOOLEAN /\ preds \subseteq Pred /\ (rules # <<>> => preds # {})
    BY DEF TablesTyped
  <2> QED
    BY <1>2, <1>3, <1>4, <2>1 DEF TablesTyped, Pairs
<1>6. InstsTyped'
  BY <1>1, InstantiateInsts
<1>7. LazyOnce'
  BY <1>1, InstantiateLazyOnce
<1>8. Exact'
  <2>1. (InstsTyped /\ rules = <<>> => InstsExact /\ SubstsDone)'
    BY NoRuleExact, PTL
  <2> QED
    BY <1>3, <1>4, <1>6, <2>1 DEF Exact
<1> QED
  BY <1>2, <1>4, <1>5, <1>6, <1>7, <1>8

LEMMA AssertAtomInv ==
    ASSUME GroundInv, NEW A \in AllAtoms, AssertAtom(A)
    PROVE  GroundInv'
<1> PICK search : search = IF A \in atoms THEN NewSearch(buffer) ELSE FactSearch(A[1])
  OBVIOUS
<1> PICK new : new = {A}
  OBVIOUS
<1> USE DEF GroundInv
<1>1. /\ Instantiate(rules, search, active, new) /\ active' = active \cup new
      /\ Late("fact", rules # <<>>)
      /\ UNCHANGED <<sorts, supersorts, subsorts, decl, constants, sort_index, lazy, preds>>
  BY DEF AssertAtom, sortVars, relation
<1>2. search \in Searches(rules)
  BY NewSearchTyped, FactSearchTyped DEF TablesTyped
<1>3. new \in SUBSET AllAtoms
  OBVIOUS
<1>4. /\ TablesTyped' /\ InstsTyped' /\ LazyOnce' /\ Exact'
      /\ atoms \cup new \subseteq atoms' /\ late \subseteq late'
  BY <1>1, <1>2, <1>3, LateMade
<1>5. SortInv'
  BY <1>1, SortNextInv DEF sortVars, relation
<1>6. AtomsComplete'
  BY <1>1, <1>4, AtomsStayComplete
<1> QED
  BY <1>4, <1>5, <1>6

LEMMA AddConstantInv ==
    ASSUME GroundInv, NEW c \in Const, NEW s \in Sort, NEW end \in Buffers,
           NEW new \in SUBSET AllAtoms, AddConstant(c, s, end, new)
    PROVE  /\ GroundInv' /\ atoms \cup new \subseteq atoms'
           /\ UNCHANGED <<lazy, preds, active, rules>>
<1> PICK search : search = [NewConstSearch(c, s) EXCEPT !.buffer = end]
  OBVIOUS
<1> PICK all : all = new \cup IF lazy THEN {} ELSE NewConstAtoms(c, s)
  OBVIOUS
<1> USE DEF GroundInv
<1>1. /\ Instantiate(rules, search, active, all) /\ active' = active \cup {}
      /\ Late("const", rules # <<>>) /\ AddConst(c, s)
      /\ UNCHANGED <<lazy, preds, active>>
  BY DEF AddConstant
<1>2. search \in Searches(rules)
  BY NewConstSearchTyped, BufferOnly
<1>3. all \in SUBSET AllAtoms
  BY NewConstAtomsTyped DEF TablesTyped
<1>4. /\ TablesTyped' /\ InstsTyped' /\ LazyOnce' /\ Exact'
      /\ atoms \cup all \subseteq atoms' /\ late \subseteq late'
  <2>1. {} \in SUBSET AllAtoms /\ {} \subseteq all
    OBVIOUS
  <2> QED
    BY <1>1, <1>2, <1>3, <2>1, LateMade
<1>5. SortInv'
  BY <1>1, SortNextInv DEF SortNext
<1>6. AtomsComplete'
  <2>1. ~lazy => NewConstAtoms(c, s) \subseteq atoms'
    BY <1>4
  <2> QED
    BY <1>1, <1>4, <1>5, <2>1, NewConstComplete DEF TablesTyped
<1>7. rules' = rules
  BY <1>1, InstantiateMeans
<1> QED
  BY <1>1, <1>4, <1>5, <1>6, <1>7

LEMMA ActivateInv ==
    ASSUME GroundInv, NEW A \in AllAtoms, Activate(A)
    PROVE  GroundInv' /\ atoms \subseteq atoms'
<1> PICK search : search = ActivateSearch(A)
  OBVIOUS
<1>a. PICK on : on = active \cup {A}
  OBVIOUS
<1> PICK new : new = {A}
  OBVIOUS
<1> USE DEF GroundInv
<1>1. /\ Instantiate(rules, search, on, new) /\ active' = on /\ lazy /\ A[1] \notin Direct
      /\ UNCHANGED <<sorts, supersorts, subsorts, decl, constants, sort_index, lazy, preds, late>>
  BY <1>a DEF Activate, sortVars, relation
<1>2. search \in Searches(rules) /\ new \in SUBSET AllAtoms /\ Extends(rules)
  BY ActivateSearchTyped, ExtendsSame
<1>3. /\ rules' \in Seq(Rule) /\ buffer' \in Buffers /\ atoms' \subseteq AllAtoms
      /\ atoms \cup new \subseteq atoms' /\ seen' \subseteq Pairs(rules)
  BY <1>1, <1>2, InstantiateTables
<1>4. rules' = rules
  BY <1>1, InstantiateMeans
<1>5. TablesTyped'
  <2>1. active \subseteq atoms /\ lazy \in BOOLEAN /\ preds \subseteq Pred /\ (rules # <<>> => preds # {})
        /\ late \subseteq {"sort", "const", "fact"}
    BY DEF TablesTyped
  <2> QED
    BY <1>a, <1>1, <1>3, <1>4, <2>1 DEF TablesTyped, Pairs
<1>6. InstsTyped'
  BY <1>1, <1>2, InstantiateInsts
<1>7. LazyOnce'
  BY <1>1, <1>2, InstantiateLazyOnce
<1>8. Exact'
  <2> SUFFICES ASSUME late = {} PROVE InstsExact' /\ SubstsDone'
    BY <1>1 DEF Exact
  <2>1. InstsExact /\ SubstsDone
    BY DEF Exact
  <2>2. Facts' = Facts
    BY <1>a, <1>1 DEF Facts
  <2> PICK rs : rs = rules
    OBVIOUS
  <2>3. ASSUME NEW n \in DOMAIN rs, NEW s \in WellSorted(rs[n])
        PROVE  IF lazy THEN Needed(rs[n], s)' => <<n, s>> \in seen \cup WorthMaking(rs, search.found, on)
               ELSE n \in DOMAIN rules \/ <<n, s>> \in WorthMaking(rs, search.found, on)
    <3> SUFFICES ASSUME Needed(rs[n], s)', <<n, s>> \notin seen
                 PROVE  <<n, s>> \in WorthMaking(rs, search.found, on)
      BY <1>1
    <3> PICK r : r = rs[n]
      OBVIOUS
    <3>1. \A T : Holds(r, s, T)' <=> Holds(r, s, T)
      BY <2>2, HoldsSame
    <3>2. PICK T0 \in SUBSET OpenAtoms(r, s) : Holds(r, s, T0)
      BY <3>1 DEF Needed
    <3>3. PICK T \in SUBSET (OpenAtoms(r, s) \cap on) : ~Holds(r, s, T)
      BY <1>1, <3>1 DEF Needed
    <3>4. ~Needed(r, s)
      BY <1>1, <2>1 DEF SubstsDone
    <3>5. Has(search.found, <<n, s>>) /\ Falsifiable(r, s, on)
      <4>1. T \in SUBSET OpenAtoms(r, s) /\ T \subseteq active \cup {A}
        BY <1>a
      <4> QED
        BY <1>a, <1>1, <3>2, <3>3, <3>4, <4>1, ActivateFinds
    <3>6. \A d : d = <<n, s>> => d[1] = n /\ d[2] = s
      OBVIOUS
    <3> PICK d : d = <<n, s>>
      OBVIOUS
    <3>7. d[1] = n /\ d[2] = s /\ Has(search.found, d) /\ d \notin seen
      BY <3>5
    <3>8. d \in WorthMaking(rs, search.found, on)
      BY <3>5, <3>7 DEF WorthMaking, Has
    <3> QED
      BY <3>8
  <2> QED
    BY <1>1, <1>2, <2>1, <2>2, <2>3, InstantiateExact
<1>9. SortInv'
  BY <1>1, SortNextInv DEF sortVars, relation
<1>10. AtomsComplete'
  BY <1>1, <1>3, AtomsStayComplete
<1> QED
  BY <1>3, <1>5, <1>6, <1>7, <1>8, <1>9, <1>10

-----------------------------------------------------------------------------
(* The search that grounds a new rule r, the last one of rs.               *)
LEMMA AppendExtends ==
    ASSUME TablesTyped, NEW r \in Rule, NEW rs, rs = Append(rules, r)
    PROVE  /\ Extends(rs) /\ Len(rules) + 1 \in DOMAIN rs /\ Len(rules) + 1 \notin DOMAIN rules
           /\ rs[Len(rules) + 1] = r
           /\ \A n \in DOMAIN rs : n \in DOMAIN rules \/ n = Len(rules) + 1
<1>1. rules \in Seq(Rule)
  BY DEF TablesTyped
<1> QED
  BY <1>1 DEF Extends

LEMMA BruteHas ==
    ASSUME NEW r \in Rule, NEW s \in WellSorted(r)
    PROVE  <<0, s>> \in BruteRoutes(r, EmptyBuffer, constants)
<1>1. \A v \in Vars(r) : EmptyBuffer[v] = Open
  <2>1. NumVars[r.formula] \in Nat /\ NumVars[r.formula] <= MaxVars /\ MaxVars \in Nat
    BY RuleTyped, FormulaTyped
  <2> QED
    BY <2>1 DEF Vars, EmptyBuffer
<1>2. s \in Substs[r.formula] /\ Completes(s, r, EmptyBuffer, {}, constants)
  BY <1>1 DEF WellSorted, Completes
<1> QED
  BY <1>2 DEF BruteRoutes

Brute(routes) == \A x \in routes : x = <<0, x[2]>>
FoundBy(found, n, routes) ==
    found = {[rule |-> n, subst |-> x[2], via |-> <<0, x>>] : x \in routes}

LEMMA BruteOnce ==
    ASSUME NEW n, NEW routes, Brute(routes), NEW found, FoundBy(found, n, routes),
           NEW d, Has(found, d)
    PROVE  Cardinality({x \in found : <<x.rule, x.subst>> = d}) = 1
<1> USE DEF FoundBy, Has
<1>1. PICK y \in found : <<y.rule, y.subst>> = d
  OBVIOUS
<1>2. \A x \in routes : x = <<0, x[2]>>
  BY DEF Brute
<1>3. ASSUME NEW z \in found, <<z.rule, z.subst>> = d PROVE z = y
  <2>1. PICK x1 \in routes : y = [rule |-> n, subst |-> x1[2], via |-> <<0, x1>>]
    OBVIOUS
  <2>2. PICK x2 \in routes : z = [rule |-> n, subst |-> x2[2], via |-> <<0, x2>>]
    OBVIOUS
  <2>3. y.subst = x1[2] /\ z.subst = x2[2]
    BY <2>1, <2>2
  <2>4. y.subst = z.subst
    BY <1>1, <1>3
  <2>5. x1 = x2
    BY <1>2, <2>3, <2>4
  <2> QED
    BY <2>1, <2>2, <2>5
<1>4. {x \in found : <<x.rule, x.subst>> = d} = {y}
  BY <1>1, <1>3
<1> QED
  BY <1>4, FS_Singleton

LEMMA AddRuleInv ==
    ASSUME GroundInv, NEW f \in Formulas, AddRule(f)
    PROVE  GroundInv'
<1> USE DEF GroundInv
<1>0. PICK vsort \in VarSortings(f) :
         LET r == [formula |-> f, vsort |-> vsort]
             routes == IF lazy THEN Routes(r, EmptyBuffer, <<0, 0>>, constants, active)
                               ELSE BruteRoutes(r, EmptyBuffer, constants)
             search == Searched(NewSearch(EmptyBuffer), Len(rules) + 1, r, 0, EmptyBuffer, routes)
         IN Instantiate(Append(rules, r), search, active, {})
  BY Zenon DEF AddRule
<1>a. PICK r : r = [formula |-> f, vsort |-> vsort]
  OBVIOUS
<1>b. PICK routes : routes = IF lazy THEN Routes(r, EmptyBuffer, <<0, 0>>, constants, active)
                                     ELSE BruteRoutes(r, EmptyBuffer, constants)
  OBVIOUS
<1>c. PICK n1 : n1 = Len(rules) + 1
  OBVIOUS
<1>d. PICK search : search = Searched(NewSearch(EmptyBuffer), n1, r, 0, EmptyBuffer, routes)
  OBVIOUS
<1>e. PICK rs : rs = Append(rules, r)
  OBVIOUS
<1>f. PICK new : new = {}
  OBVIOUS
<1>1. Instantiate(rs, search, active, new) /\ new \in SUBSET AllAtoms
  BY <1>0, <1>a, <1>b, <1>c, <1>d, <1>e, <1>f
<1>2. /\ UNCHANGED <<sorts, supersorts, subsorts, decl, constants, sort_index, lazy, preds, active, late>>
      /\ NumVars[f] > 0 /\ WellFormed(f)
  BY DEF AddRule, sortVars, relation
<1>3. r \in Rule /\ r.formula = f
  BY <1>a, RuleMade DEF SortInv
<1>4. /\ Extends(rs) /\ n1 \in DOMAIN rs /\ n1 \notin DOMAIN rules /\ rs[n1] = r
      /\ \A n \in DOMAIN rs : n \in DOMAIN rules \/ n = n1
  BY <1>3, <1>c, <1>e, AppendExtends
<1>5. EmptyBuffer \in Buffers
  BY DEF EmptyBuffer, Buffers
<1>6. IsFiniteSet(routes) /\ routes \in SUBSET WaysOf(rs[n1].formula)
  BY <1>3, <1>4, <1>b, RoutesTyped
<1>7. /\ search \in Searches(rs) /\ Finds(search.found, n1, routes)
      /\ search.found = {[rule |-> n1, subst |-> x[2], via |-> <<0, x>>] : x \in routes}
  <2>1. NewSearch(EmptyBuffer) \in Searches(rs)
    BY <1>5, NewSearchTyped
  <2>2. 0 \in Tags /\ rs \in Seq(Rule) /\ search = Searched(NewSearch(EmptyBuffer), n1, rs[n1], 0, EmptyBuffer, routes)
    BY <1>4, <1>d DEF Tags, Extends
  <2>3. search \in Searches(rs) /\ Finds(search.found, n1, routes)
    BY <1>4, <1>5, <1>6, <2>1, <2>2, SearchedTyped
  <2>4. search.found = {[rule |-> n1, subst |-> x[2], via |-> <<0, x>>] : x \in routes}
    BY <1>d DEF Searched, NewSearch
  <2> QED
    BY <2>3, <2>4
<1>8. /\ rules' \in Seq(Rule) /\ buffer' \in Buffers /\ atoms' \subseteq AllAtoms
      /\ atoms \cup new \subseteq atoms' /\ seen' \subseteq Pairs(rs)
  BY <1>1, <1>4, <1>7, InstantiateTables
<1>9. rules' = rs
  BY <1>1, InstantiateMeans
<1>10. preds # {}
  <2>1. 1 \in 1..NumVars[f]
    BY <1>2, FormulaTyped
  <2>2. \A v \in 1..NumVars[f] : \E A \in AtomsIn(f) : v \in Range(A[2])
    BY FormulasAssumption
  <2>3. \E A \in AtomsIn(f) : TRUE
    BY <2>1, <2>2
  <2> QED
    BY <1>2, <2>3 DEF WellFormed
<1>11. TablesTyped'
  <2>1. active \subseteq atoms /\ lazy \in BOOLEAN /\ preds \subseteq Pred
        /\ late \subseteq {"sort", "const", "fact"}
    BY DEF TablesTyped
  <2> QED
    BY <1>2, <1>8, <1>9, <1>10, <2>1 DEF TablesTyped, Pairs
<1>12. InstsTyped'
  BY <1>1, <1>4, <1>7, InstantiateInsts
<1>13. LazyOnce'
  BY <1>1, <1>2, <1>4, <1>7, InstantiateLazyOnce
<1>14. Exact'
  <2> SUFFICES ASSUME late = {} PROVE InstsExact' /\ SubstsDone'
    BY <1>2 DEF Exact
  <2>1. InstsExact /\ SubstsDone
    BY DEF Exact
  <2>2. Facts' = Facts
    BY <1>2 DEF Facts
  <2>3. ASSUME NEW s \in WellSorted(r), ~lazy \/ Needed(r, s)
        PROVE  \E d : d = <<n1, s>> /\ ((lazy /\ d \in seen) \/ d \in WorthMaking(rs, search.found, active))
    <3> PICK d : d = <<n1, s>>
      OBVIOUS
    <3>1. d[1] = n1 /\ d[2] = s
      OBVIOUS
    <3>2. PICK x \in routes : x[2] = s
      <4>1. CASE lazy
        BY <1>3, <1>b, <2>3, <4>1, RuleFinds
      <4>2. CASE ~lazy
        <5>1. <<0, s>> \in routes
          BY <1>3, <1>b, <4>2, BruteHas
        <5> QED
          BY <5>1
      <4> QED
        BY <4>1, <4>2
    <3>3. Has(search.found, d)
      BY <1>7, <3>2 DEF Finds
    <3>4. lazy => Falsifiable(rs[n1], s, active)
      BY <1>3, <1>4, <2>3, RuleFinds
    <3> QED
      BY <3>1, <3>3, <3>4 DEF Has, WorthMaking
  <2>4. ASSUME NEW n \in DOMAIN rs, NEW s \in WellSorted(rs[n])
        PROVE  IF lazy THEN Needed(rs[n], s)' => <<n, s>> \in seen \cup WorthMaking(rs, search.found, active)
               ELSE n \in DOMAIN rules \/ <<n, s>> \in WorthMaking(rs, search.found, active)
    <3>1. Needed(rs[n], s)' => Needed(rs[n], s)
      <4>1. \A t, T : Holds(rs[n], t, T)' <=> Holds(rs[n], t, T)
        BY <2>2, HoldsSame
      <4> QED
        BY <1>2, <4>1 DEF Needed
    <3>2. CASE n = n1
      BY <1>4, <2>3, <3>1, <3>2
    <3>3. CASE n \in DOMAIN rules
      <4>1. rs[n] = rules[n]
        BY <1>4, <3>3 DEF Extends
      <4> QED
        BY <2>1, <3>1, <3>3, <4>1 DEF SubstsDone
    <3> QED
      BY <1>4, <3>2, <3>3
  <2>5. ~lazy => \A d \in WorthMaking(rs, search.found, active) :
                    d[1] \notin DOMAIN rules /\ Copies(search.found, d) = 1
    <3> SUFFICES ASSUME ~lazy, NEW d \in WorthMaking(rs, search.found, active)
                 PROVE  d[1] \notin DOMAIN rules /\ Copies(search.found, d) = 1
      OBVIOUS
    <3>1. PICK x \in search.found : d = <<x.rule, x.subst>>
      BY DEF WorthMaking
    <3>2. d[1] = n1
      BY <1>7, <3>1
    <3>3. routes = BruteRoutes(r, EmptyBuffer, constants)
      BY <1>b
    <3>a. PICK found : found = search.found
      OBVIOUS
    <3>b. FoundBy(found, n1, routes)
      BY <1>7, <3>a DEF FoundBy
    <3>c. Has(found, d)
      BY <3>a, <3>1 DEF Has
    <3>d. Brute(routes)
      BY <3>3 DEF Brute, BruteRoutes
    <3>e. Cardinality({y \in found : <<y.rule, y.subst>> = d}) = 1
      BY <3>b, <3>c, <3>d, BruteOnce
    <3>4. Cardinality({y \in search.found : <<y.rule, y.subst>> = d}) = 1
      BY <3>a, <3>e
    <3> QED
      BY <1>4, <3>2, <3>4 DEF Copies
  <2> QED
    BY <1>1, <1>2, <1>4, <1>7, <2>1, <2>2, <2>4, <2>5, InstantiateExact
<1>15. SortInv'
  BY <1>2, SortNextInv DEF sortVars, relation
<1>16. AtomsComplete'
  BY <1>2, <1>8, AtomsStayComplete
<1> QED
  BY <1>11, <1>12, <1>13, <1>14, <1>15, <1>16

-----------------------------------------------------------------------------
(* A ground formula adds an instance of no rule.                           *)
LEMMA GroundFormAtoms ==
    ASSUME NEW f \in Formulas, NumVars[f] = 0
    PROVE  {l.atom : l \in UNION GroundForm(f)} \subseteq AllAtoms
<1> SUFFICES ASSUME NEW C \in Range(Normal[f]), NEW l \in Range(C)
             PROVE  GroundLit(l, <<>>).atom \in AllAtoms
  BY DEF GroundForm
<1>1. l \in LitsIn(f)
  BY LitTyped
<1>2. GroundLit(l, <<>>) = l /\ l.atom \in AllAtoms
  BY <1>1, GroundLits
<1> QED
  BY <1>2

LEMMA AddGroundRuleInv ==
    ASSUME GroundInv, NEW f \in Formulas, AddGroundRule(f)
    PROVE  GroundInv'
<1> USE DEF GroundInv
<1>a. PICK i : i = [rule |-> 0, subst |-> <<>>, clauses |-> GroundForm(f)]
  OBVIOUS
<1>1. /\ UNCHANGED <<sorts, supersorts, subsorts, decl, constants, sort_index>>
      /\ UNCHANGED <<lazy, preds, active, rules, seen, buffer, late>>
      /\ NumVars[f] = 0 /\ insts' = insts (+) SetToBag({i})
      /\ atoms' = atoms \cup {l.atom : l \in UNION GroundForm(f)}
  BY <1>a DEF AddGroundRule, AddRuleInstances, GroundForm, sortVars, relation
<1> PICK bag : bag = SetToBag({i})
  OBVIOUS
<1>2. IsABag(bag) /\ DOMAIN bag = {i}
  <2>1. bag = [e \in {i} |-> 1]
    BY DEF SetToBag
  <2>2. DOMAIN bag = {i} /\ \A e \in {i} : bag[e] \in {n \in Nat : n > 0}
    BY <2>1
  <2> QED
    BY <2>1, <2>2 DEF IsABag
<1>3. IsABag(insts)
  BY DEF InstsTyped
<1>4. /\ IsABag(insts') /\ DOMAIN insts' = DOMAIN insts \cup {i}
      /\ \A x \in DOMAIN insts : x # i => insts'[x] = insts[x]
  <2>1. /\ IsABag(insts (+) bag) /\ DOMAIN (insts (+) bag) = DOMAIN insts \cup DOMAIN bag
        /\ \A x \in DOMAIN insts : x \notin DOMAIN bag => (insts (+) bag)[x] = insts[x]
    BY <1>2, <1>3, BagPlus
  <2>2. insts' = insts (+) bag
    BY <1>1
  <2> QED
    BY <1>2, <2>1, <2>2
<1>5. i.rule = 0 /\ i.clauses = GroundForm(f) /\ OfFormula(i)
  BY <1>a, <1>1 DEF OfFormula
<1>6. atoms \subseteq atoms' /\ atoms' \subseteq AllAtoms
  BY <1>1, GroundFormAtoms DEF TablesTyped
<1>7. TablesTyped'
  BY <1>1, <1>6 DEF TablesTyped
<1>8. InstsTyped'
  <2>1. ASSUME NEW j \in DOMAIN insts'
        PROVE  (OfFormula(j) \/ OfRule(j)') /\ AtomsOfInst(j) \subseteq atoms'
    <3>1. CASE j = i
      <4>1. AtomsOfInst(j) \subseteq atoms'
        BY <1>1, <1>5, <3>1 DEF AtomsOfInst
      <4> QED
        BY <1>5, <3>1, <4>1
    <3>2. CASE j \in DOMAIN insts
      <4>1. (OfFormula(j) \/ OfRule(j)) /\ AtomsOfInst(j) \subseteq atoms
        BY <3>2 DEF InstsTyped
      <4> QED
        BY <1>1, <1>6, <4>1 DEF OfRule
    <3> QED
      BY <1>4, <3>1, <3>2
  <2> QED
    BY Zenon, <1>4, <2>1 DEF InstsTyped
<1>9. \A j \in DOMAIN insts' : j.rule # 0 => j \in DOMAIN insts /\ insts'[j] = insts[j]
  BY <1>4, <1>5
<1>10. LazyOnce'
  BY <1>1, <1>9 DEF LazyOnce
<1>11. Exact'
  <2> SUFFICES ASSUME late = {} PROVE InstsExact' /\ SubstsDone'
    BY <1>1 DEF Exact
  <2>1. InstsExact /\ SubstsDone
    BY DEF Exact
  <2>2. Facts' = Facts
    BY <1>1 DEF Facts
  <2>3. \A r, s : InstClauses(r, s)' = InstClauses(r, s)
    BY <2>2, InstClausesSame
  <2>4. InstsExact'
    BY <1>1, <1>9, <2>1, <2>3 DEF InstsExact
  <2>5. SubstsDone'
    <3> SUFFICES ASSUME NEW n \in DOMAIN rules, NEW s \in WellSorted(rules[n])
                 PROVE  /\ lazy /\ Needed(rules[n], s)' => <<n, s>> \in seen
                        /\ ~lazy \/ <<n, s>> \in seen =>
                              InstClauses(rules[n], s)' = {} \/ InstOf(rules, <<n, s>>)' \in DOMAIN insts'
      BY <1>1 DEF SubstsDone, WellSorted
    <3>2. Needed(rules[n], s)' => Needed(rules[n], s)
      <4>1. \A r, t, T : Holds(r, t, T)' <=> Holds(r, t, T)
        BY <2>2, HoldsSame
      <4> QED
        BY <1>1, <4>1 DEF Needed
    <3>3. InstOf(rules, <<n, s>>)' = InstOf(rules, <<n, s>>)
      BY <1>1, <2>3 DEF InstOf
    <3> QED
      <4>1. /\ lazy /\ Needed(rules[n], s) => <<n, s>> \in seen
            /\ ~lazy \/ <<n, s>> \in seen =>
                  InstClauses(rules[n], s) = {} \/ InstOf(rules, <<n, s>>) \in DOMAIN insts
        BY <2>1 DEF SubstsDone
      <4>2. DOMAIN insts \subseteq DOMAIN insts'
        BY <1>4
      <4>3. InstClauses(rules[n], s)' = InstClauses(rules[n], s)
        BY <1>1, <2>3
      <4> QED
        BY <3>2, <3>3, <4>1, <4>2, <4>3
  <2> QED
    BY <2>4, <2>5
<1>12. SortInv'
  BY <1>1, SortNextInv DEF sortVars, relation
<1>13. AtomsComplete'
  BY <1>1, <1>6, AtomsStayComplete
<1> QED
  BY <1>7, <1>8, <1>10, <1>11, <1>12, <1>13

LEMMA GroundInitInv == GroundInit => GroundInv
<1> SUFFICES ASSUME GroundInit PROVE GroundInv
  OBVIOUS
<1> USE DEF GroundInit
<1>1. SortInv
  BY SortInitInv
<1>2. TablesTyped
  <2>1. EmptyBuffer \in Buffers
    BY DEF EmptyBuffer, Buffers
  <2>2. rules \in Seq(Rule) /\ lazy \in BOOLEAN
    BY GroundingAssumption
  <2> QED
    BY <2>1, <2>2 DEF TablesTyped
<1>3. IsABag(insts) /\ DOMAIN insts = {}
  BY DEF EmptyBag, SetToBag, IsABag
<1>4. InstsTyped /\ LazyOnce
  BY <1>3 DEF InstsTyped, LazyOnce
<1>5. Exact
  BY <1>4, NoRuleExact DEF Exact
<1>6. AtomsComplete
  BY DEF AtomsComplete
<1> QED
  BY <1>1, <1>2, <1>4, <1>5, <1>6 DEF GroundInv

-----------------------------------------------------------------------------
(* An instance says what its formula says.                                 *)
LitHolds(l, T) == ~((l.atom \in T) = l.neg)

LEMMA ClauseInstMeans ==
    ASSUME NEW r \in Rule, NEW s, NEW T0 \in SUBSET OpenAtoms(r, s), Holds(r, s, T0),
           NEW k \in DOMAIN Normal[r.formula], NEW C, C = Normal[r.formula][k],
           NEW T \in SUBSET OpenAtoms(r, s)
    PROVE  FalseClause(C, s, T) <=> ClauseInst(C, s) # {} /\ \A g \in ClauseInst(C, s) : ~LitHolds(g, T)
<1>1. CASE \E l \in Range(C) : DirectTrue(l, s)
  <2>1. PICK l \in Range(C) : DirectTrue(l, s)
    BY <1>1
  <2>2. ClauseInst(C, s) = {}
    BY <1>1 DEF ClauseInst
  <2>3. IsDirect(l) /\ ~((AtomOf(l, s) \in Facts) = l.neg)
    BY <2>1, DirectTrueMeans
  <2>4. AtomOf(l, s) \notin T
    BY <2>3, OpenAtomsApart
  <2>5. TrueIn(l, s, T)
    BY <2>3, <2>4 DEF TrueIn
  <2> QED
    BY <2>2, <2>5 DEF FalseClause
<1>2. CASE \A l \in Range(C) : ~DirectTrue(l, s)
  <2>1. ClauseInst(C, s) = {GroundLit(l, s) : l \in {m \in Range(C) : ~IsDirect(m)}}
    BY <1>2 DEF ClauseInst
  <2>2. ASSUME NEW l \in Range(C), IsDirect(l) PROVE ~TrueIn(l, s, T) /\ ~TrueIn(l, s, T0)
    <3>1. (AtomOf(l, s) \in Facts) = l.neg
      BY <1>2, <2>2, DirectTrueMeans
    <3>2. AtomOf(l, s) \notin T /\ AtomOf(l, s) \notin T0
      BY <2>2, OpenAtomsApart
    <3> QED
      BY <3>1, <3>2 DEF TrueIn
  <2>3. ASSUME NEW l \in Range(C), ~IsDirect(l)
        PROVE  TrueIn(l, s, T) <=> LitHolds(GroundLit(l, s), T)
    <3>1. AtomOf(l, s) \notin Facts
      BY <2>3, OpenAtomsApart
    <3>2. GroundLit(l, s).atom = AtomOf(l, s) /\ GroundLit(l, s).neg = l.neg
      BY DEF GroundLit
    <3>3. (AtomOf(l, s) \in T \cup Facts) = (AtomOf(l, s) \in T)
      BY <3>1
    <3> QED
      BY <3>2, <3>3 DEF TrueIn, LitHolds
  <2>4. FalseClause(C, s, T) <=> \A g \in ClauseInst(C, s) : ~LitHolds(g, T)
    BY <2>1, <2>2, <2>3 DEF FalseClause
  <2>5. ClauseInst(C, s) # {}
    <3> SUFFICES ASSUME ClauseInst(C, s) = {} PROVE FALSE
      OBVIOUS
    <3>1. \A l \in Range(C) : IsDirect(l)
      BY <2>1
    <3>2. FalseClause(C, s, T0)
      BY <2>2, <3>1 DEF FalseClause
    <3> QED
      BY <3>2, HoldsMeans
  <2> QED
    BY <2>4, <2>5
<1> QED
  BY <1>1, <1>2

LEMMA InstanceMeans ==
    ASSUME NEW r \in Rule, NEW s, NEW T0 \in SUBSET OpenAtoms(r, s), Holds(r, s, T0),
           NEW T \in SUBSET OpenAtoms(r, s), NEW i, i.clauses = InstClauses(r, s)
    PROVE  ClausesHold(i, T) <=> Holds(r, s, T)
<1> PICK f : f = r.formula
  OBVIOUS
<1>1. ClausesHold(i, T) <=> \A D \in InstClauses(r, s) : \E g \in D : LitHolds(g, T)
  BY DEF ClausesHold, LitHolds
<1>2. InstClauses(r, s) = {ClauseInst(C, s) : C \in Range(Normal[f])} \ {{}}
  BY DEF InstClauses, Clauses
<1>3. ClausesHold(i, T) <=>
         \A C \in Range(Normal[f]) : ClauseInst(C, s) = {} \/ \E g \in ClauseInst(C, s) : LitHolds(g, T)
  BY <1>1, <1>2
<1>4. ASSUME NEW k \in DOMAIN Normal[f]
      PROVE  FalseClause(Normal[f][k], s, T) <=>
                /\ ClauseInst(Normal[f][k], s) # {}
                /\ \A g \in ClauseInst(Normal[f][k], s) : ~LitHolds(g, T)
  <2> PICK C : C = Normal[f][k]
    OBVIOUS
  <2> QED
    BY ClauseInstMeans
<1>5. Holds(r, s, T) <=> \A k \in DOMAIN Normal[f] : ~FalseClause(Normal[f][k], s, T)
  BY HoldsMeans
<1> QED
  BY <1>3, <1>4, <1>5 DEF Range

LEMMA FormulaInstanceMeans ==
    ASSUME NEW f \in Formulas, NumVars[f] = 0, NEW T \in SUBSET AtomsIn(f),
           NEW i, i.clauses = GroundForm(f)
    PROVE  ClausesHold(i, T) <=> ~((T \in Models[f]) = (f \in Negative))
<1>1. ASSUME NEW C \in Range(Normal[f])
      PROVE  {GroundLit(l, <<>>) : l \in Range(C)} = Range(C)
  <2>1. \A l \in Range(C) : GroundLit(l, <<>>) = l
    BY GroundLits, LitTyped
  <2> QED
    BY <2>1
<1>2. ClausesHold(i, T) <=> \A C \in Range(Normal[f]) : \E l \in Range(C) : LitHolds(l, T)
  <2>1. ClausesHold(i, T) <=> \A D \in GroundForm(f) : \E l \in D : LitHolds(l, T)
    BY DEF ClausesHold, LitHolds
  <2> QED
    BY <1>1, <2>1 DEF GroundForm
<1>3. ClausesHold(i, T) <=> \A C \in Range(Normal[f]) : Satisfied(C, T)
  BY <1>2 DEF Satisfied, LitHolds
<1>4. /\ T \in Models[f] <=> \A C \in Range(Pos[f]) : Satisfied(C, T)
      /\ T \notin Models[f] <=> \A C \in Range(Neg[f]) : Satisfied(C, T)
  BY FormulasAssumption
<1>5. Normal[f] = IF f \in Negative THEN Neg[f] ELSE Pos[f]
  BY DEF Normal
<1>6. CASE f \in Negative
  BY <1>3, <1>4, <1>5, <1>6
<1>7. CASE f \notin Negative
  BY <1>3, <1>4, <1>5, <1>7
<1> QED
  BY <1>6, <1>7

LEMMA InvGivesNeededOnce == GroundInv => NeededOnce
<1> SUFFICES ASSUME GroundInv PROVE NeededOnce
  OBVIOUS
<1> USE DEF GroundInv
<1>1. \A j \in DOMAIN insts : OfFormula(j) \/ OfRule(j)
  BY DEF InstsTyped
<1>2. \A j : OfRule(j) => j.rule \in DOMAIN rules /\ j.rule # 0 /\ j = [rule |-> j.rule, subst |-> j.subst, clauses |-> j.clauses]
  BY DEF OfRule, TablesTyped
<1>3. \A j : OfFormula(j) => j.rule = 0
  BY DEF OfFormula
<1>4. BagToSet(insts) = DOMAIN insts
  BY DEF BagToSet
<1>5. ASSUME late = {}, NEW n \in DOMAIN rules, NEW s \in WellSorted(rules[n]), Needed(rules[n], s)
      PROVE  \E i \in InstancesOf(n, s) :
                /\ insts[i] = 1 /\ InstancesOf(n, s) = {i}
                /\ \A T \in SUBSET OpenAtoms(rules[n], s) :
                      ClausesHold(i, T) = Holds(rules[n], s, T)
  <2> PICK r : r = rules[n]
    OBVIOUS
  <2>1. InstsExact /\ SubstsDone /\ r \in Rule
    BY <1>5 DEF Exact, TablesTyped
  <2>2. InstClauses(r, s) # {}
    BY <1>5, <2>1, NeededHasClauses
  <2>a. PICK i : i = InstOf(rules, <<n, s>>)
    OBVIOUS
  <2>3. i \in DOMAIN insts
    BY <1>5, <2>a, <2>1, <2>2 DEF SubstsDone, TablesTyped
  <2>4. i = [rule |-> n, subst |-> s, clauses |-> InstClauses(r, s)]
    BY <2>a DEF InstOf
  <2>5. n # 0
    BY DEF TablesTyped
  <2>6. insts[i] = 1
    BY <2>1, <2>3, <2>4, <2>5 DEF InstsExact
  <2>7. ASSUME NEW j \in InstancesOf(n, s) PROVE j = i
    <3>1. j \in DOMAIN insts /\ j.rule = n /\ j.subst = s
      BY <1>4 DEF InstancesOf
    <3>2. j.clauses = InstClauses(r, s)
      BY <2>1, <2>5, <3>1 DEF InstsExact
    <3> QED
      BY <1>1, <1>2, <1>3, <2>4, <2>5, <3>1, <3>2
  <2>8. i \in InstancesOf(n, s)
    BY <1>4, <2>3, <2>4 DEF InstancesOf
  <2>9. PICK T0 \in SUBSET OpenAtoms(r, s) : Holds(r, s, T0)
    BY <1>5 DEF Needed
  <2>10. ASSUME NEW T \in SUBSET OpenAtoms(r, s) PROVE ClausesHold(i, T) <=> Holds(r, s, T)
    <3>1. i.clauses = InstClauses(r, s)
      BY <2>4
    <3> QED
      BY <2>1, <2>9, <3>1, InstanceMeans
  <2>11. \A T \in SUBSET OpenAtoms(r, s) : ClausesHold(i, T) = Holds(r, s, T)
    <3> SUFFICES ASSUME NEW T \in SUBSET OpenAtoms(r, s) PROVE ClausesHold(i, T) = Holds(r, s, T)
      OBVIOUS
    <3>1. ClausesHold(i, T) <=> Holds(r, s, T)
      BY <2>10
    <3> QED
      BY <3>1 DEF ClausesHold, Holds
  <2> QED
    BY <2>6, <2>7, <2>8, <2>11
<1>6. ASSUME NEW i \in DOMAIN insts, i.rule = 0
      PROVE  \E f \in Formulas : NumVars[f] = 0 /\ \A T \in SUBSET AtomsIn(f) :
                ClausesHold(i, T) = ((T \in Models[f]) # (f \in Negative))
  <2>1. PICK f \in Formulas :
           NumVars[f] = 0 /\ i = [rule |-> 0, subst |-> <<>>, clauses |-> GroundForm(f)]
    BY <1>1, <1>2, <1>6 DEF OfFormula
  <2>2. i.clauses = GroundForm(f)
    BY <2>1
  <2>3. ASSUME NEW T \in SUBSET AtomsIn(f)
        PROVE  ClausesHold(i, T) = ((T \in Models[f]) # (f \in Negative))
    <3>1. ClausesHold(i, T) <=> ~((T \in Models[f]) = (f \in Negative))
      BY <2>1, <2>2, FormulaInstanceMeans
    <3> QED
      BY <3>1 DEF ClausesHold
  <2> QED
    BY <2>1, <2>3
<1>7. ASSUME lazy, NEW i \in DOMAIN insts, i.rule # 0
      PROVE  insts[i] = 1 /\ InstancesOf(i.rule, i.subst) = {i}
  BY <1>4, <1>7 DEF LazyOnce, InstancesOf
<1> QED
  BY <1>4, <1>5, <1>6, <1>7 DEF NeededOnce

-----------------------------------------------------------------------------
(* Queries and their instances.                                            *)
LEMMA QueryTyped ==
    ASSUME NEW q \in Query
    PROVE  /\ q \in Rule /\ q.formula \in QueryFormulas /\ q.formula \in Formulas
           /\ Asked[q.formula] = Pos[q.formula]
BY QueriesAssumption DEF Query, Asked

LEMMA QueryAtomsTyped ==
    ASSUME NEW q \in Query, NEW s \in Substs[q.formula]
    PROVE  AtomsOf(q, s) \subseteq AllAtoms /\ AtomsOfLits(QueryLits(q, s)) = AtomsOf(q, s)
<1> PICK f : f = q.formula
  OBVIOUS
<1>1. f \in Formulas /\ Asked[f] = Pos[f]
  BY QueryTyped
<1>2. AtomsOfLits(QueryLits(q, s)) = AtomsOf(q, s)
  BY DEF AtomsOfLits, AtomsOf
<1> PICK lits : lits = QueryLits(q, s)
  OBVIOUS
<1>3. lits = [k \in DOMAIN Pos[f] |-> [i \in DOMAIN Pos[f][k] |-> GroundLit(Pos[f][k][i], s)]]
  BY <1>1 DEF QueryLits
<1>4. ASSUME NEW C \in Range(lits), NEW g \in Range(C) PROVE g.atom \in AllAtoms
  <2>1. PICK k \in DOMAIN Pos[f] : C = [i \in DOMAIN Pos[f][k] |-> GroundLit(Pos[f][k][i], s)]
    BY <1>3 DEF Range
  <2>2. PICK i \in DOMAIN Pos[f][k] : g = GroundLit(Pos[f][k][i], s)
    BY <2>1 DEF Range
  <2> PICK l : l = Pos[f][k][i]
    OBVIOUS
  <2>3. Pos[f][k] \in Range(Pos[f])
    BY DEF Range
  <2>4. l \in LitsIn(f)
    BY <1>1, <2>3, LitTyped
  <2>5. AtomOf(l, s) \in AllAtoms
    BY <1>1, <2>4, AtomTyped
  <2> QED
    BY <2>2, <2>5 DEF GroundLit
<1>5. AtomsOf(q, s) \subseteq AllAtoms
  BY <1>4 DEF AtomsOf
<1> QED
  BY <1>2, <1>5

(* Every variable occurs in a clause, so the literals tell substitutions   *)
(* apart.                                                                  *)
LEMMA QueryLitsDiffer ==
    ASSUME NEW q \in Query, NEW s \in Substs[q.formula], NEW t \in Substs[q.formula],
           QueryLits(q, s) = QueryLits(q, t)
    PROVE  s = t
<1> PICK f : f = q.formula
  OBVIOUS
<1>1. f \in Formulas /\ Asked[f] = Pos[f]
  BY QueryTyped
<1>2. s \in [1..NumVars[f] -> Const] /\ t \in [1..NumVars[f] -> Const]
  BY <1>1 DEF Substs
<1>3. ASSUME NEW v \in 1..NumVars[f] PROVE s[v] = t[v]
  <2>1. PICK A \in AtomsIn(f) : v \in Range(A[2])
    BY <1>1, FormulasAssumption
  <2>2. PICK C \in Range(Pos[f]) : \E l \in Range(C) : l.atom = A
    BY <1>1, FormulasAssumption
  <2>3. PICK l \in Range(C) : l.atom = A
    BY <2>2
  <2>4. PICK k \in DOMAIN Pos[f] : Pos[f][k] = C
    BY DEF Range
  <2>5. PICK i \in DOMAIN Pos[f][k] : Pos[f][k][i] = l
    BY <2>4 DEF Range
  <2>6. QueryLits(q, s)[k][i] = GroundLit(l, s) /\ QueryLits(q, t)[k][i] = GroundLit(l, t)
    BY <1>1, <2>5 DEF QueryLits
  <2>7. AtomOf(l, s) = AtomOf(l, t)
    BY <2>6 DEF GroundLit
  <2>8. PICK j \in DOMAIN A[2] : A[2][j] = v
    BY <2>1 DEF Range
  <2>9. Args(l.atom) = A[2]
    BY <2>3 DEF Args
  <2>10. ArgOf(v, s) = ArgOf(v, t)
    <3>1. AtomOf(l, s)[2][j] = ArgOf(v, s)
      BY <2>8, <2>9 DEF AtomOf
    <3>2. AtomOf(l, t)[2][j] = ArgOf(v, t)
      BY <2>8, <2>9 DEF AtomOf
    <3> QED
      BY <2>7, <3>1, <3>2
  <2>11. v \notin Const
    <3>1. v \in 1..MaxVars
      BY <1>1, FormulaTyped
    <3> QED
      BY <3>1, GroundingAssumption
  <2> QED
    BY <2>10, <2>11 DEF ArgOf
<1> PICK D : D = 1..NumVars[f]
  OBVIOUS
<1>4. s \in [D -> Const] /\ t \in [D -> Const]
  BY <1>2
<1>5. \A v \in D : s[v] = t[v]
  BY <1>3
<1>6. s = [v \in D |-> s[v]]
  BY <1>4
<1>7. t = [v \in D |-> t[v]]
  BY <1>4
<1>8. [v \in D |-> s[v]] = [v \in D |-> t[v]]
  BY <1>5
<1> QED
  BY ONLY <1>6, <1>7, <1>8, Zenon

-----------------------------------------------------------------------------
(* What filing instances under the index n of a query changes.             *)
Shape(i) == i = [lits |-> i.lits, subst |-> i.subst, qs |-> i.qs]
Apart(found) == \A i, j \in found : i.lits = j.lits => i = j
Shaped(found) == \A i \in found : Shape(i)
Made(q, S) == {QueryLits(q, s) : s \in S}

FiledUnder(found, q, n, S, res) ==
    \A i \in res :
        \/ i \in found /\ i.lits \notin Made(q, S)
        \/ /\ i.lits \in Made(q, S)
           /\ \E j \in found : j.lits = i.lits /\ j.subst = i.subst /\ i.qs = j.qs \cup {n}
        \/ /\ \E s \in S : i.lits = QueryLits(q, s) /\ i.subst = s
           /\ i.qs = {n} /\ \A j \in found : j.lits # i.lits

LEMMA FiledMeans ==
    ASSUME NEW q \in Query, NEW n, NEW S \in SUBSET Substs[q.formula], NEW found,
           Shaped(found), Apart(found), NEW res, res = Filed(found, q, n, S)
    PROVE  /\ Shaped(res) /\ Apart(res) /\ FiledUnder(found, q, n, S, res)
           /\ \A s \in S : \E i \in res : i.lits = QueryLits(q, s)
<1> DEFINE old == {IF i.lits \in Made(q, S) THEN [i EXCEPT !.qs = @ \cup {n}] ELSE i : i \in found}
           new == {[lits |-> QueryLits(q, s), subst |-> s, qs |-> {n}] :
                      s \in {t \in S : \A i \in found : i.lits # QueryLits(q, t)}}
<1>1. res = old \cup new
  BY DEF Filed, Made
<1>2. ASSUME NEW i \in old
      PROVE  /\ Shape(i)
             /\ \E j \in found : /\ j.lits = i.lits /\ j.subst = i.subst
                                 /\ i.lits \in Made(q, S) => i.qs = j.qs \cup {n}
                                 /\ i.lits \notin Made(q, S) => i = j
  <2>1. PICK j \in found : i = IF j.lits \in Made(q, S) THEN [j EXCEPT !.qs = @ \cup {n}] ELSE j
    OBVIOUS
  <2>2. j = [lits |-> j.lits, subst |-> j.subst, qs |-> j.qs]
    BY DEF Shaped, Shape
  <2>3. CASE j.lits \in Made(q, S)
    <3>1. i = [lits |-> j.lits, subst |-> j.subst, qs |-> j.qs \cup {n}]
      BY <2>1, <2>2, <2>3
    <3>2. i.lits = j.lits /\ i.subst = j.subst /\ i.qs = j.qs \cup {n}
      BY <3>1
    <3> QED
      BY <2>3, <3>1, <3>2 DEF Shape
  <2>4. CASE j.lits \notin Made(q, S)
    BY <2>1, <2>2, <2>4 DEF Shape
  <2> QED
    BY <2>3, <2>4
<1>3. ASSUME NEW i \in new
      PROVE  /\ Shape(i) /\ i.qs = {n} /\ \A j \in found : j.lits # i.lits
             /\ \E s \in S : i.lits = QueryLits(q, s) /\ i.subst = s
  <2>1. PICK s \in {t \in S : \A j \in found : j.lits # QueryLits(q, t)} :
           i = [lits |-> QueryLits(q, s), subst |-> s, qs |-> {n}]
    OBVIOUS
  <2>2. i.lits = QueryLits(q, s) /\ i.subst = s /\ i.qs = {n}
    BY <2>1
  <2> QED
    BY <2>1, <2>2 DEF Shape
<1>4. ASSUME NEW s \in S PROVE \E i \in old \cup new : i.lits = QueryLits(q, s)
  <2>1. CASE \E j \in found : j.lits = QueryLits(q, s)
    <3>1. PICK j \in found : j.lits = QueryLits(q, s)
      BY <2>1
    <3> PICK i : i = [j EXCEPT !.qs = @ \cup {n}]
      OBVIOUS
    <3>2. j = [lits |-> j.lits, subst |-> j.subst, qs |-> j.qs]
      BY DEF Shaped, Shape
    <3>3. i.lits = j.lits
      BY <3>2
    <3>4. i \in old
      BY <3>1 DEF Made
    <3> QED
      BY <3>1, <3>3, <3>4
  <2>2. CASE \A j \in found : j.lits # QueryLits(q, s)
    <3> PICK i : i = [lits |-> QueryLits(q, s), subst |-> s, qs |-> {n}]
      OBVIOUS
    <3>1. i \in new /\ i.lits = QueryLits(q, s)
      BY <2>2
    <3> QED
      BY <3>1
  <2> QED
    BY <2>1, <2>2
<1> HIDE DEF old, new
<1>5. Shaped(res)
  BY <1>1, <1>2, <1>3 DEF Shaped
<1>6. FiledUnder(found, q, n, S, res)
  BY <1>1, <1>2, <1>3 DEF FiledUnder
<1>7. Apart(res)
  <2> SUFFICES ASSUME NEW i \in res, NEW j \in res, i.lits = j.lits PROVE i = j
    BY DEF Apart
  <2>1. Shape(i) /\ Shape(j)
    BY <1>5 DEF Shaped
  <2>2. CASE i \in old /\ j \in old
    <3>1. PICK i0 \in found : /\ i0.lits = i.lits /\ i0.subst = i.subst
                              /\ i.lits \in Made(q, S) => i.qs = i0.qs \cup {n}
                              /\ i.lits \notin Made(q, S) => i = i0
      BY <1>2, <2>2
    <3>2. PICK j0 \in found : /\ j0.lits = j.lits /\ j0.subst = j.subst
                              /\ j.lits \in Made(q, S) => j.qs = j0.qs \cup {n}
                              /\ j.lits \notin Made(q, S) => j = j0
      BY <1>2, <2>2
    <3>3. i0 = j0
      BY <3>1, <3>2 DEF Apart
    <3> QED
      BY <2>1, <3>1, <3>2, <3>3 DEF Shape
  <2>3. CASE i \in new /\ j \in new
    <3>1. PICK s \in S : i.lits = QueryLits(q, s) /\ i.subst = s /\ i.qs = {n}
      BY <1>3, <2>3
    <3>2. PICK t \in S : j.lits = QueryLits(q, t) /\ j.subst = t /\ j.qs = {n}
      BY <1>3, <2>3
    <3>3. s = t
      BY <3>1, <3>2, QueryLitsDiffer
    <3> QED
      BY <2>1, <3>1, <3>2, <3>3 DEF Shape
  <2>4. CASE i \in old /\ j \in new
    BY <1>2, <1>3, <2>4
  <2>5. CASE i \in new /\ j \in old
    BY <1>2, <1>3, <2>5
  <2> QED
    BY <1>1, <2>2, <2>3, <2>4, <2>5
<1> QED
  BY <1>1, <1>4, <1>5, <1>6, <1>7

-----------------------------------------------------------------------------
(* What the answers promise, in parts.                                     *)
Asking == queries[Len(queries)]
Own(i) == i.qs \cap {Len(queries), Len(queries) + 1} # {}

OwnBoth == \A i \in qinsts : Own(i) => {Len(queries), Len(queries) + 1} \subseteq i.qs
OwnSound == \A i \in qinsts : Own(i) => \E s \in WellSorted(Asking) : i.lits = QueryLits(Asking, s)
OwnAll ==
    (\A s, t \in Sort : Reaches(s, t) => subsort_p(s, t)) =>
        \A s \in WellSorted(Asking) : MayBeFixed(Asking, s, atoms) \/
            \E i \in qinsts : Own(i) /\ i.lits = QueryLits(Asking, s)

Answered == LitsApart /\ OwnBoth /\ OwnSound /\ OwnAll

LEMMA AnswersMeans == AnswersAsked <=> (asking \in Formulas => Answered)
<1> DEFINE own == {i \in qinsts : i.qs \cap {Len(queries), Len(queries) + 1} # {}}
           known == \A s, t \in Sort : Reaches(s, t) => subsort_p(s, t)
           lits(S) == {QueryLits(Asking, s) : s \in S}
           open == {s \in WellSorted(Asking) : ~MayBeFixed(Asking, s, atoms)}
<1>1. OwnBoth <=> \A i \in own : {Len(queries), Len(queries) + 1} \subseteq i.qs
  BY DEF OwnBoth, Own
<1>2. OwnSound <=> {i.lits : i \in own} \subseteq lits(WellSorted(Asking))
  BY DEF OwnSound, Own
<1>3. OwnAll <=> (known => lits(open) \subseteq {i.lits : i \in own})
  BY DEF OwnAll, Own
<1>4. AnswersAsked <=> (asking \in Formulas =>
          /\ LitsApart
          /\ \A i \in own : {Len(queries), Len(queries) + 1} \subseteq i.qs
          /\ {i.lits : i \in own} \subseteq lits(WellSorted(Asking))
          /\ known => lits(open) \subseteq {i.lits : i \in own})
  BY DEF AnswersAsked, LitsApart, Asking
<1> HIDE DEF own, known, lits, open
<1> QED
  BY <1>1, <1>2, <1>3, <1>4 DEF Answered

-----------------------------------------------------------------------------
(* Substitutions for the variables of a query, and their atoms.            *)
LEMMA AskedSubsts ==
    ASSUME NEW q \in Query
    PROVE  QuerySubsts(q, EmptyBuffer, constants) = WellSorted(q)
<1>1. Vars(q) \subseteq 1..(MaxVars + 1)
  BY QueryTyped, FormulaTyped DEF Vars
<1>2. \A v \in Vars(q) : EmptyBuffer[v] = Open
  BY <1>1 DEF EmptyBuffer
<1>3. \A s : Completes(s, q, EmptyBuffer, {}, constants) <=> \A v \in Vars(q) : s[v] \in constants[q.vsort[v]]
  BY <1>2 DEF Completes
<1> QED
  BY <1>3 DEF QuerySubsts, WellSorted

LEMMA WellSortedFits ==
    ASSUME SortInv, NEW q \in Query, NEW s \in WellSorted(q),
           \A t, u \in Sort : Reaches(t, u) => subsort_p(t, u)
    PROVE  SortsFit(q, s, sort_index)
<1>1. q.vsort \in [Vars(q) -> Sort]
  BY QueryTyped, RuleTyped
<1>2. ASSUME NEW v \in Vars(q) PROVE subsort_p(sort_index[s[v]], q.vsort[v])
  <2> PICK u \in Sort : u = q.vsort[v]
    BY <1>1
  <2> PICK c : c = s[v]
    OBVIOUS
  <2>1. c \in constants[u]
    BY DEF WellSorted
  <2>2. sort_index[c] # NoSort /\ Reaches(sort_index[c], u) /\ c \in Const
    BY <2>1 DEF SortInv, MembersSound, SortTypeOK
  <2>3. sort_index[c] \in Sort
    BY <2>2 DEF SortInv, SortTypeOK
  <2> QED
    BY <2>2, <2>3
<1> QED
  BY <1>2 DEF SortsFit

LEMMA FixedGrows ==
    ASSUME NEW q, NEW s, NEW S, NEW T, S \subseteq T, MayBeFixed(q, s, S)
    PROVE  MayBeFixed(q, s, T)
BY DEF MayBeFixed

LEMMA NewAtomsTyped ==
    ASSUME NEW q \in Query, NEW S \in SUBSET Substs[q.formula]
    PROVE  NewAtoms(q, S) \subseteq AllAtoms
BY QueryAtomsTyped DEF NewAtoms

LEMMA AtomsThere ==
    ASSUME NEW q, NEW S, NEW s \in S, NEW T, NewAtoms(q, S) \subseteq T, ~AtomMissing(q, s, T)
    PROVE  AtomsOf(q, s) \subseteq T
<1>1. CASE Checked(q)
  BY <1>1 DEF AtomMissing
<1>2. CASE ~Checked(q)
  BY <1>2 DEF NewAtoms
<1> QED
  BY <1>1, <1>2

-----------------------------------------------------------------------------
(* Filing the instances of a new query, under the two indices it has.      *)
FiledTwice(found, q, n, S, res) ==
    /\ \A i \in res :
          \/ i \in found /\ i.lits \notin Made(q, S)
          \/ i.lits \in Made(q, S) /\ {n, n + 1} \subseteq i.qs /\ i.qs \subseteq 1..(n + 1)
    /\ \A s \in S : \E i \in res : i.lits = QueryLits(q, s) /\ n \in i.qs

LEMMA AskFiled ==
    ASSUME NEW q \in Query, NEW n \in Nat, n > 0, NEW S \in SUBSET Substs[q.formula],
           NEW found, Shaped(found), Apart(found), \A i \in found : i.qs \subseteq 1..(n - 1),
           NEW res, res = Filed(Filed(found, q, n, S), q, n + 1, S)
    PROVE  Shaped(res) /\ Apart(res) /\ FiledTwice(found, q, n, S, res)
<1> PICK once : once = Filed(found, q, n, S)
  OBVIOUS
<1>a. PICK m : m = n + 1
  OBVIOUS
<1>1. /\ Shaped(once) /\ Apart(once) /\ FiledUnder(found, q, n, S, once)
      /\ \A s \in S : \E i \in once : i.lits = QueryLits(q, s)
  BY FiledMeans
<1>2. res = Filed(once, q, m, S)
  BY <1>a
<1>3. /\ Shaped(res) /\ Apart(res) /\ FiledUnder(once, q, m, S, res)
      /\ \A s \in S : \E i \in res : i.lits = QueryLits(q, s)
  BY <1>1, <1>2, FiledMeans
<1>4. ASSUME NEW j \in once, j.lits \in Made(q, S) PROVE n \in j.qs /\ j.qs \subseteq 1..n
  <2>1. j.qs = {n} \/ \E i \in found : j.qs = i.qs \cup {n}
    BY <1>1, <1>4 DEF FiledUnder
  <2> QED
    BY <2>1
<1>5. ASSUME NEW i \in res, i.lits \in Made(q, S)
      PROVE  {n, m} \subseteq i.qs /\ i.qs \subseteq 1..m
  <2>1. PICK s \in S : i.lits = QueryLits(q, s)
    BY <1>5 DEF Made
  <2>2. PICK j \in once : j.lits = i.lits
    BY <1>1, <2>1
  <2>3. PICK h \in once : h.lits = i.lits /\ i.qs = h.qs \cup {m}
    BY <1>3, <1>5, <2>2 DEF FiledUnder
  <2>4. n \in h.qs /\ h.qs \subseteq 1..n
    BY <1>4, <1>5, <2>3
  <2> QED
    BY <1>a, <2>3, <2>4
<1>6. ASSUME NEW i \in res, i.lits \notin Made(q, S) PROVE i \in found
  <2>1. i \in once
    <3>1. \A s \in S : QueryLits(q, s) \in Made(q, S)
      BY DEF Made
    <3> QED
      BY <1>3, <1>6, <3>1 DEF FiledUnder
  <2>2. \A s \in S : QueryLits(q, s) \in Made(q, S)
    BY DEF Made
  <2> QED
    BY <1>1, <1>6, <2>1, <2>2 DEF FiledUnder
<1>7. ASSUME NEW s \in S PROVE \E i \in res : i.lits = QueryLits(q, s) /\ n \in i.qs
  <2>1. PICK i \in res : i.lits = QueryLits(q, s)
    BY <1>3
  <2>2. i.lits \in Made(q, S)
    BY <2>1 DEF Made
  <2> QED
    BY <1>5, <2>1, <2>2
<1> QED
  BY <1>a, <1>3, <1>5, <1>6, <1>7 DEF FiledTwice

-----------------------------------------------------------------------------
(* The ask command: a new query whose instances are filed under it.        *)
AskMeans(q, S, fit, f) ==
    /\ q \in Query /\ q.formula = f
    /\ S \subseteq WellSorted(q) /\ fit \subseteq S /\ fit \subseteq Substs[q.formula]
    /\ \A s \in WellSorted(q) : SortsFit(q, s, sort_index) => s \in fit \/ MayBeFixed(q, s, atoms)
    /\ queries' = Append(queries, q)
    /\ asking' = IF \E s \in S : AtomMissing(q, s, atoms) THEN Ended ELSE f
    /\ qinsts' = Filed(Filed(qinsts, q, Len(queries) + 1, fit), q, Len(queries) + 2, fit)
    /\ atoms' = atoms \cup NewAtoms(q, fit)

LEMMA AskStep ==
    ASSUME SortTypeOK, queries \in Seq(Query), NEW f \in QueryFormulas, Ask(f)
    PROVE  \E q, S, fit : AskMeans(q, S, fit, f)
<1>1. PICK q \in {[formula |-> f, vsort |-> x] : x \in VarSortings(f)} :
       \E fixed \in SUBSET {s \in QuerySubsts(q, EmptyBuffer, constants) : MayBeFixed(q, s, atoms)} :
        LET S == QuerySubsts(q, EmptyBuffer, constants) \ fixed
            fit == {s \in S : SortsFit(q, s, sort_index)}
            n == Len(queries) + 1
        IN
        /\ queries' = Append(queries, q)
        /\ asking' = IF \E s \in S : AtomMissing(q, s, atoms) THEN Ended ELSE f
        /\ qinsts' = Filed(Filed(qinsts, q, n, fit), q, n + 1, fit)
        /\ atoms' = atoms \cup NewAtoms(q, fit)
  BY DEF Ask
<1>2. q \in Query /\ q.formula = f
  <2>1. f \in Formulas
    BY QueriesAssumption
  <2>2. PICK x \in VarSortings(f) : q = [formula |-> f, vsort |-> x]
    OBVIOUS
  <2>3. q \in Rule
    BY <2>1, <2>2, RuleMade
  <2>4. q.formula = f
    BY <2>2
  <2> QED
    BY <2>3, <2>4 DEF Query
<1>3. QuerySubsts(q, EmptyBuffer, constants) = WellSorted(q)
  BY <1>2, AskedSubsts
<1>4. PICK fixed \in SUBSET {s \in WellSorted(q) : MayBeFixed(q, s, atoms)} :
        LET S == WellSorted(q) \ fixed
            fit == {s \in S : SortsFit(q, s, sort_index)}
            n == Len(queries) + 1
        IN
        /\ queries' = Append(queries, q)
        /\ asking' = IF \E s \in S : AtomMissing(q, s, atoms) THEN Ended ELSE f
        /\ qinsts' = Filed(Filed(qinsts, q, n, fit), q, n + 1, fit)
        /\ atoms' = atoms \cup NewAtoms(q, fit)
  BY <1>1, <1>3
<1>a. PICK S : S = WellSorted(q) \ fixed
  OBVIOUS
<1>b. PICK fit : fit = {s \in S : SortsFit(q, s, sort_index)}
  OBVIOUS
<1>5. /\ queries' = Append(queries, q)
      /\ asking' = IF \E s \in S : AtomMissing(q, s, atoms) THEN Ended ELSE f
      /\ qinsts' = Filed(Filed(qinsts, q, Len(queries) + 1, fit), q, Len(queries) + 1 + 1, fit)
      /\ atoms' = atoms \cup NewAtoms(q, fit)
  BY <1>a, <1>b, <1>4
<1>6. Len(queries) + 1 + 1 = Len(queries) + 2
  OBVIOUS
<1>7. S \subseteq WellSorted(q) /\ fit \subseteq S /\ fit \subseteq Substs[q.formula]
  BY <1>a, <1>b DEF WellSorted
<1>8. \A s \in WellSorted(q) : SortsFit(q, s, sort_index) => s \in fit \/ MayBeFixed(q, s, atoms)
  BY <1>a, <1>b
<1>9. AskMeans(q, S, fit, f)
  BY <1>2, <1>5, <1>6, <1>7, <1>8 DEF AskMeans
<1> QED
  BY <1>9

LEMMA AskGround ==
    ASSUME Inv, NEW f \in QueryFormulas, Ask(f), NEW q, NEW S, NEW fit, AskMeans(q, S, fit, f)
    PROVE  GroundInv' /\ atoms \subseteq atoms' /\ SortInv' /\ UNCHANGED <<constants, sort_index, lazy>>
<1>1. UNCHANGED <<sorts, supersorts, subsorts, constants, sort_index, decl, lazy, preds, active, rules, insts, seen, late>>
  BY DEF Ask, sortVars, relation
<1>2. buffer' \in Buffers
  BY DEF Ask, Inv, GroundInv, TablesTyped, Buffers, EmptyBuffer
<1>3. NewAtoms(q, fit) \subseteq AllAtoms
  BY NewAtomsTyped DEF AskMeans
<1>4. atoms \subseteq atoms' /\ atoms' \subseteq AllAtoms
  BY <1>3 DEF AskMeans, Inv, GroundInv, TablesTyped
<1>5. SortInv'
  <2>1. SortInv
    BY DEF Inv, GroundInv
  <2> QED
    BY <1>1, <2>1 DEF SortInv, SortTypeOK, Inclusion, DeclRecorded, RecordedSound, Declared, MembersSound, Reaches
<1>6. AtomsComplete'
  BY <1>1, <1>4, AtomsStayComplete DEF Inv, GroundInv
<1>7. GroundInv'
  <2>1. GroundInv
    BY DEF Inv
  <2>2. preds \subseteq Pred /\ late \subseteq {"sort", "const", "fact"}
    BY DEF Inv, GroundInv, TablesTyped
  <2> QED
    BY <1>1, <1>2, <1>4, <1>5, <1>6, <2>1, <2>2, NothingMade
<1> QED
  BY <1>1, <1>4, <1>5, <1>7

LEMMA AskInv ==
    ASSUME Inv, NEW f \in QueryFormulas, Ask(f)
    PROVE  Inv'
<1>1. SortTypeOK /\ queries \in Seq(Query) /\ asking = NoQuery
  BY DEF Inv, GroundInv, SortInv, QueriesTyped, Ask
<1>2. PICK q, S, fit : AskMeans(q, S, fit, f)
  BY <1>1, AskStep
<1>3. GroundInv' /\ atoms \subseteq atoms' /\ SortInv' /\ UNCHANGED <<constants, sort_index, lazy>>
  BY <1>2, AskGround
<1>a. PICK n : n = Len(queries) + 1
  OBVIOUS
<1>4. n \in Nat /\ n > 0 /\ Len(queries) = n - 1
  BY <1>1, <1>a
<1>5. /\ q \in Query /\ fit \in SUBSET Substs[q.formula] /\ q.formula = f
      /\ S \subseteq WellSorted(q) /\ fit \subseteq S
  BY <1>2 DEF AskMeans
<1>b. PICK res : res = qinsts'
  OBVIOUS
<1>6. res = Filed(Filed(qinsts, q, n, fit), q, n + 1, fit)
  <2>1. Len(queries) + 2 = n + 1
    BY <1>1, <1>a
  <2> QED
    BY <1>2, <1>a, <1>b, <2>1 DEF AskMeans
<1>7. Shaped(qinsts) /\ Apart(qinsts) /\ \A i \in qinsts : i.qs \subseteq 1..(n - 1)
  BY <1>1, <1>4 DEF Inv, QinstsTyped, LitsApart, Shaped, Shape, Apart
<1>8. Shaped(res) /\ Apart(res) /\ FiledTwice(qinsts, q, n, fit, res)
  BY <1>4, <1>5, <1>6, <1>7, AskFiled
<1>9. queries' \in Seq(Query) /\ Len(queries') = n /\ queries'[n] = q
  BY <1>1, <1>2, <1>5, <1>a DEF AskMeans
<1>10. asking' \in {f, Ended} /\ (asking' # Ended => \A s \in S : ~AtomMissing(q, s, atoms))
  <2>1. f # Ended
    BY QueriesAssumption
  <2> QED
    BY <1>2, <2>1 DEF AskMeans
<1>11. f \in Formulas /\ NoQuery \notin Formulas /\ Ended \notin Formulas /\ NoQuery # Ended
  BY QueriesAssumption
<1>12. QueriesTyped'
  BY <1>9, <1>10 DEF QueriesTyped
<1>13. LitsApart'
  BY <1>8, <1>b DEF LitsApart, Apart
<1>14. QinstsTyped'
  <2>1. ASSUME NEW i \in res
        PROVE  /\ Shape(i) /\ i.qs \subseteq 1..(n + 1)
               /\ asking' # Ended => AtomsOfLits(i.lits) \subseteq atoms'
    <3>1. CASE i \in qinsts
      <4>1. asking # Ended
        BY <1>1, <1>11
      <4>2. Shape(i) /\ i.qs \subseteq 1..(n - 1) /\ AtomsOfLits(i.lits) \subseteq atoms
        BY <1>1, <1>4, <3>1, <4>1 DEF Inv, QinstsTyped, Shape
      <4> QED
        BY <1>3, <1>4, <4>2
    <3>2. CASE i.lits \in Made(q, fit) /\ i.qs \subseteq 1..(n + 1)
      <4>1. Shape(i)
        BY <1>8 DEF Shaped
      <4>2. PICK s \in fit : i.lits = QueryLits(q, s)
        BY <3>2 DEF Made
      <4>3. AtomsOfLits(i.lits) = AtomsOf(q, s)
        BY <1>5, <4>2, QueryAtomsTyped
      <4>4. ASSUME asking' # Ended PROVE AtomsOf(q, s) \subseteq atoms'
        <5>1. ~AtomMissing(q, s, atoms)
          BY <1>5, <1>10, <4>4
        <5>2. CASE Checked(q)
          <6>1. AtomsOf(q, s) \subseteq atoms
            BY <5>1, <5>2 DEF AtomMissing
          <6> QED
            BY <6>1, <1>3
        <5>3. CASE ~Checked(q)
          <6>1. AtomsOf(q, s) \subseteq NewAtoms(q, fit)
            BY <5>3 DEF NewAtoms
          <6>2. NewAtoms(q, fit) \subseteq atoms'
            BY <1>2 DEF AskMeans
          <6> QED
            BY <6>1, <6>2
        <5> QED
          BY <5>2, <5>3
      <4> QED
        BY <3>2, <4>1, <4>3, <4>4
    <3> QED
      BY <1>8, <3>1, <3>2 DEF FiledTwice
  <2>2. (IF asking' = NoQuery THEN Len(queries') ELSE Len(queries') + 1) = n + 1
    BY <1>9, <1>10, <1>11
  <2> QED
    BY <1>b, <2>1, <2>2 DEF QinstsTyped, Shape, AtomsOfLits
<1>15. AnswersAsked'
  <2>1. (AnswersAsked <=> (asking \in Formulas => Answered))'
    BY AnswersMeans, PTL
  <2>2. ASSUME asking' \in Formulas PROVE Answered'
    <3>1. \A s \in S : ~AtomMissing(q, s, atoms)
      BY <1>10, <1>11, <2>2
    <3>2. Asking' = q
      BY <1>9 DEF Asking
    <3>3. ASSUME NEW i PROVE Own(i)' <=> i.qs \cap {n, n + 1} # {}
      BY <1>9 DEF Own
    <3>4. ASSUME NEW i \in res, i.qs \cap {n, n + 1} # {}
          PROVE  i.lits \in Made(q, fit) /\ {n, n + 1} \subseteq i.qs
      <4>1. i \in qinsts => i.qs \subseteq 1..(n - 1)
        BY <1>7
      <4>2. i \notin qinsts
        BY <1>4, <3>4, <4>1
      <4> QED
        BY <1>8, <4>2 DEF FiledTwice
    <3>5. WellSorted(q)' = WellSorted(q)
      BY <1>3 DEF WellSorted
    <3>6. OwnBoth'
      BY <1>b, <1>9, <3>3, <3>4 DEF OwnBoth
    <3>7. OwnSound'
      <4>1. ASSUME NEW i \in res, Own(i)' PROVE \E s \in WellSorted(q) : i.lits = QueryLits(q, s)
        <5>1. i.lits \in Made(q, fit)
          BY <3>3, <3>4, <4>1
        <5> QED
          BY <1>5, <5>1 DEF Made
      <4> QED
        BY <1>b, <3>2, <3>5, <4>1 DEF OwnSound
    <3>8. OwnAll'
      <4>1. ASSUME \A t, u \in Sort : Reaches(t, u)' => subsort_p(t, u)'
            PROVE  \A t, u \in Sort : Reaches(t, u) => subsort_p(t, u)
        <5>1. UNCHANGED <<supersorts, decl>>
          BY DEF Ask, sortVars, relation
        <5> QED
          BY <4>1, <5>1, ReachesSame
      <4>2. ASSUME \A t, u \in Sort : Reaches(t, u)' => subsort_p(t, u)', NEW s \in WellSorted(q)
            PROVE  \/ MayBeFixed(q, s, atoms)'
                   \/ \E i \in res : Own(i)' /\ i.lits = QueryLits(q, s)
        <5>1. SortsFit(q, s, sort_index)
          BY <1>5, <4>1, <4>2, WellSortedFits DEF Inv, GroundInv
        <5>2. CASE s \in fit
          <6>1. PICK i \in res : i.lits = QueryLits(q, s) /\ n \in i.qs
            BY <1>8, <5>2 DEF FiledTwice
          <6>2. Own(i)'
            BY <3>3, <6>1
          <6> QED
            BY <6>1, <6>2
        <5>3. CASE MayBeFixed(q, s, atoms)
          <6> PICK later : later = atoms'
            OBVIOUS
          <6>1. MayBeFixed(q, s, later)
            BY <1>3, <5>3, FixedGrows
          <6>2. MayBeFixed(q, s, atoms)'
            BY <1>3, <6>1 DEF MayBeFixed, Checked
          <6> QED
            BY <6>2
        <5> QED
          BY <1>2, <5>1, <5>2, <5>3 DEF AskMeans
      <4> QED
        BY <1>b, <3>2, <3>5, <4>2 DEF OwnAll
    <3> QED
      BY <1>13, <3>6, <3>7, <3>8 DEF Answered
  <2> QED
    BY <2>1, <2>2
<1> QED
  BY <1>3, <1>12, <1>13, <1>14, <1>15 DEF Inv

-----------------------------------------------------------------------------
(* A new constant: what the queries are tried with, and the buffer.        *)
Tried == UNION {{n} \X SUBSET Substs[queries[n].formula] : n \in DOMAIN queries}
Tries == [tried : Seq(Tried), buffer : Buffers]

LEMMA TriedMeans ==
    ASSUME queries \in Seq(Query), NEW x \in Tried
    PROVE  /\ x = <<x[1], x[2]>> /\ x[1] \in DOMAIN queries /\ queries[x[1]] \in Query
           /\ x[2] \in SUBSET Substs[queries[x[1]].formula]
<1>1. PICK n \in DOMAIN queries : x \in {n} \X SUBSET Substs[queries[n].formula]
  BY DEF Tried
<1>2. x = <<x[1], x[2]>> /\ x[1] = n /\ x[2] \in SUBSET Substs[queries[n].formula]
  BY <1>1
<1>3. queries[n] \in Query
  OBVIOUS
<1> QED
  BY <1>2, <1>3

LEMMA QueryStepTyped ==
    ASSUME queries \in Seq(Query), NEW acc \in Tries, NEW c \in Const, NEW s,
           NEW n \in DOMAIN queries, NEW j \in 1..MaxVars
    PROVE  QueryStep(acc, c, s, n, j) \in Tries
<1> PICK q \in Query : q = queries[n]
  OBVIOUS
<1>1. acc = [tried |-> acc.tried, buffer |-> acc.buffer] /\ acc.tried \in Seq(Tried) /\ acc.buffer \in Buffers
  BY DEF Tries
<1> PICK b : b = NewConstBuffer(q, acc.buffer, j, c)
  OBVIOUS
<1>2. b \in Buffers
  BY <1>1, NewConstBufferTyped
<1> PICK S : S = QuerySubsts(q, b, constants')
  OBVIOUS
<1>3. S \in SUBSET Substs[q.formula]
  BY DEF QuerySubsts
<1>4. <<n, S>> \in Tried
  BY <1>3 DEF Tried
<1> PICK b1 : b1 = IF S = {} THEN b ELSE [b EXCEPT ![NumVars[q.formula] + 1] = Open]
  OBVIOUS
<1>5. b1 \in Buffers
  BY <1>2 DEF Buffers
<1>6. [tried |-> Append(acc.tried, <<n, S>>), buffer |-> b1] \in Tries
  BY <1>1, <1>4, <1>5 DEF Tries
<1>7. QueryStep(acc, c, s, n, j) \in {acc, [tried |-> Append(acc.tried, <<n, S>>), buffer |-> b1]}
  BY DEF QueryStep
<1> QED
  BY <1>6, <1>7

LEMMA VariablesDomain == 1..MaxVars \in SUBSET Nat /\ IsFiniteSet(1..MaxVars)
<1>1. MaxVars \in Nat /\ 0 \in Int /\ 1 \in Int /\ MaxVars \in Int
  BY GroundingAssumption
<1> QED
  BY <1>1, FS_Interval

StepsFold(h, acc, c, s, n) ==
    h = [t \in SUBSET (DOMAIN [j \in 1..MaxVars |-> j]) |->
           IF t = {} THEN acc
           ELSE QueryStep(h[t \ {Max(t)}], c, s, n, [j \in 1..MaxVars |-> j][Max(t)])]

LEMMA StepsUnfold ==
    ASSUME NEW acc, NEW c, NEW s, NEW n
    PROVE  QuerySteps(acc, c, s, n)
             = (CHOOSE h : StepsFold(h, acc, c, s, n))[DOMAIN [j \in 1..MaxVars |-> j]]
BY Zenon DEF QuerySteps, FoldLeft, MapThenFoldSet, StepsFold

LEMMA QueryStepsTyped ==
    ASSUME queries \in Seq(Query), NEW acc \in Tries, NEW c \in Const, NEW s, NEW n \in DOMAIN queries
    PROVE  QuerySteps(acc, c, s, n) \in Tries
<1>a. PICK D : D = 1..MaxVars
  OBVIOUS
<1>b. PICK Acc : Acc = Tries
  OBVIOUS
<1>c. PICK base : base = acc
  OBVIOUS
<1> DEFINE step == [x \in Acc \X D |-> QueryStep(x[1], c, s, n, x[2])]
           h == CHOOSE h : StepsFold(h, acc, c, s, n)
<1>1. D \in SUBSET Nat /\ IsFiniteSet(D)
  BY <1>a, VariablesDomain
<1>2. base \in Acc
  BY <1>b, <1>c
<1>3. IsStep(step, Acc, D)
  BY <1>a, <1>b, QueryStepTyped DEF IsStep
<1>4. \A x \in Acc, y \in D : step[<<x, y>>] = QueryStep(x, c, s, n, y)
  OBVIOUS
<1> HIDE DEF step
<1>5. PICK g : IsFold(g, D, Acc, step, base)
  BY <1>1, <1>2, <1>3, FoldExists
<1>6. \A t \in SUBSET D : t # {} =>
         Max(t) \in D /\ t \ {Max(t)} \in SUBSET D /\ [x \in D |-> x][Max(t)] = Max(t)
  BY <1>1, MaxIn
<1>7. DOMAIN [x \in D |-> x] = D
  OBVIOUS
<1>8. StepsFold(g, acc, c, s, n)
  <2>1. \A t \in SUBSET D :
           g[t] = IF t = {} THEN base
                  ELSE QueryStep(g[t \ {Max(t)}], c, s, n, [x \in D |-> x][Max(t)])
    BY <1>4, <1>5, <1>6 DEF FoldAt, IsFold
  <2> QED
    BY <1>a, <1>c, <1>5, <1>7, <2>1 DEF StepsFold, IsFold
<1>9. StepsFold(h, acc, c, s, n)
  BY <1>8
<1> HIDE DEF h
<1>10. h[D] = g[D]
  <2>1. \A t \in SUBSET D :
           h[t] = IF t = {} THEN base
                  ELSE QueryStep(h[t \ {Max(t)}], c, s, n, [x \in D |-> x][Max(t)])
    BY <1>a, <1>c, <1>7, <1>9 DEF StepsFold
  <2>2. \A t \in SUBSET D :
           g[t] = IF t = {} THEN base
                  ELSE QueryStep(g[t \ {Max(t)}], c, s, n, [x \in D |-> x][Max(t)])
    BY <1>a, <1>c, <1>7, <1>8 DEF StepsFold
  <2>3. \A t \in SUBSET D : (t # {} => h[t \ {Max(t)}] = g[t \ {Max(t)}]) => h[t] = g[t]
    BY <2>1, <2>2
  <2> QED
    BY <1>1, <2>3, FoldSame
<1>11. QuerySteps(acc, c, s, n) = h[D]
  BY <1>a, <1>7, StepsUnfold DEF h
<1>12. g[D] \in Acc
  BY <1>5 DEF IsFold
<1> QED
  BY <1>b, <1>10, <1>11, <1>12

QueriesFold(h, c, s) ==
    h = [t \in SUBSET (DOMAIN [n \in DOMAIN queries |-> n]) |->
           IF t = {} THEN [tried |-> <<>>, buffer |-> NewConstSearch(c, s).buffer]
           ELSE QuerySteps(h[t \ {Max(t)}], c, s, [n \in DOMAIN queries |-> n][Max(t)])]

LEMMA QueriesUnfold ==
    ASSUME NEW c, NEW s
    PROVE  NewConstQueries(c, s) = (CHOOSE h : QueriesFold(h, c, s))[DOMAIN [n \in DOMAIN queries |-> n]]
BY Zenon DEF NewConstQueries, FoldLeft, MapThenFoldSet, QueriesFold

LEMMA QueriesDomain ==
    ASSUME queries \in Seq(Query)
    PROVE  DOMAIN queries \in SUBSET Nat /\ IsFiniteSet(DOMAIN queries)
<1>1. DOMAIN queries = 1..Len(queries) /\ Len(queries) \in Nat
  OBVIOUS
<1> QED
  BY <1>1, FiniteDomain

LEMMA FirstTry ==
    ASSUME TablesTyped, NEW c \in Const, NEW s
    PROVE  [tried |-> <<>>, buffer |-> NewConstSearch(c, s).buffer] \in Tries
<1>1. NewConstSearch(c, s) \in Searches(rules)
  BY NewConstSearchTyped
<1>2. NewConstSearch(c, s).buffer \in Buffers
  BY <1>1 DEF Searches
<1> QED
  BY <1>2 DEF Tries

LEMMA NewConstQueriesTyped ==
    ASSUME TablesTyped, queries \in Seq(Query), NEW c \in Const, NEW s
    PROVE  NewConstQueries(c, s) \in Tries
<1>a. PICK D : D = DOMAIN queries
  OBVIOUS
<1>b. PICK Acc : Acc = Tries
  OBVIOUS
<1>c. PICK base : base = [tried |-> <<>>, buffer |-> NewConstSearch(c, s).buffer]
  OBVIOUS
<1> DEFINE step == [x \in Acc \X D |-> QuerySteps(x[1], c, s, x[2])]
           h == CHOOSE h : QueriesFold(h, c, s)
<1>1. D \in SUBSET Nat /\ IsFiniteSet(D)
  BY <1>a, QueriesDomain
<1>2. base \in Acc
  BY <1>b, <1>c, FirstTry
<1>3. IsStep(step, Acc, D)
  BY <1>a, <1>b, QueryStepsTyped DEF IsStep
<1>4. \A x \in Acc, y \in D : step[<<x, y>>] = QuerySteps(x, c, s, y)
  OBVIOUS
<1> HIDE DEF step
<1>5. PICK g : IsFold(g, D, Acc, step, base)
  BY <1>1, <1>2, <1>3, FoldExists
<1>6. \A t \in SUBSET D : t # {} =>
         Max(t) \in D /\ t \ {Max(t)} \in SUBSET D /\ [x \in D |-> x][Max(t)] = Max(t)
  BY <1>1, MaxIn
<1>7. DOMAIN [x \in D |-> x] = D
  OBVIOUS
<1>8. QueriesFold(g, c, s)
  <2>1. \A t \in SUBSET D :
           g[t] = IF t = {} THEN base
                  ELSE QuerySteps(g[t \ {Max(t)}], c, s, [x \in D |-> x][Max(t)])
    BY <1>4, <1>5, <1>6 DEF FoldAt, IsFold
  <2> QED
    BY <1>a, <1>c, <1>5, <1>7, <2>1 DEF QueriesFold, IsFold
<1>9. QueriesFold(h, c, s)
  BY <1>8
<1> HIDE DEF h
<1>10. h[D] = g[D]
  <2>1. \A t \in SUBSET D :
           h[t] = IF t = {} THEN base
                  ELSE QuerySteps(h[t \ {Max(t)}], c, s, [x \in D |-> x][Max(t)])
    BY <1>a, <1>c, <1>7, <1>9 DEF QueriesFold
  <2>2. \A t \in SUBSET D :
           g[t] = IF t = {} THEN base
                  ELSE QuerySteps(g[t \ {Max(t)}], c, s, [x \in D |-> x][Max(t)])
    BY <1>a, <1>c, <1>7, <1>8 DEF QueriesFold
  <2>3. \A t \in SUBSET D : (t # {} => h[t \ {Max(t)}] = g[t \ {Max(t)}]) => h[t] = g[t]
    BY <2>1, <2>2
  <2> QED
    BY <1>1, <2>3, FoldSame
<1>11. NewConstQueries(c, s) = h[D]
  BY <1>a, <1>7, QueriesUnfold DEF h
<1>12. g[D] \in Acc
  BY <1>5 DEF IsFold
<1> QED
  BY <1>b, <1>10, <1>11, <1>12

-----------------------------------------------------------------------------
(* Filing what a new constant made of the queries.                         *)
Filings(known, substs) ==
    {F \in SUBSET [lits : known, subst : substs, qs : SUBSET (1..Len(queries))] : Apart(F)}

Keep(x, fixed, sortOf) == {t \in Fit(x[1], x[2], sortOf) : <<x[1], t>> \notin fixed}
FileStep(found, x, fixed, sortOf) == Filed(found, queries[x[1]], x[1], Keep(x, fixed, sortOf))
KeptIn(tried, fixed, sortOf, known, substs) ==
    \A x \in Range(tried) : \A t \in Keep(x, fixed, sortOf) :
        QueryLits(queries[x[1]], t) \in known /\ t \in substs

LEMMA FileStepTyped ==
    ASSUME queries \in Seq(Query), NEW known, NEW substs, NEW found \in Filings(known, substs),
           NEW tried \in Seq(Tried), NEW fixed, NEW sortOf,
           KeptIn(tried, fixed, sortOf, known, substs), NEW k \in DOMAIN tried
    PROVE  FileStep(found, tried[k], fixed, sortOf) \in Filings(known, substs)
<1> PICK x \in Tried : x = tried[k]
  OBVIOUS
<1>1. x = <<x[1], x[2]>> /\ x[1] \in DOMAIN queries /\ queries[x[1]] \in Query
      /\ x[2] \in SUBSET Substs[queries[x[1]].formula]
  BY TriedMeans
<1> PICK n : n = x[1]
  OBVIOUS
<1> PICK q \in Query : q = queries[n]
  BY <1>1
<1> PICK S : S = Keep(x, fixed, sortOf)
  OBVIOUS
<1>2. S \in SUBSET Substs[q.formula]
  BY <1>1 DEF Keep, Fit
<1>3. n \in 1..Len(queries)
  BY <1>1
<1>4. \A t \in S : QueryLits(q, t) \in known /\ t \in substs
  <2>1. x \in Range(tried)
    BY DEF Range
  <2> QED
    BY <2>1 DEF KeptIn
<1>5. Shaped(found) /\ Apart(found)
  BY DEF Filings, Shaped, Shape
<1> PICK res : res = Filed(found, q, n, S)
  OBVIOUS
<1>6. Shaped(res) /\ Apart(res) /\ FiledUnder(found, q, n, S, res)
  BY <1>2, <1>5, FiledMeans
<1>7. ASSUME NEW i \in found
      PROVE  i.lits \in known /\ i.subst \in substs /\ i.qs \in SUBSET (1..Len(queries))
  BY DEF Filings
<1>8. ASSUME NEW i \in res
      PROVE  i.lits \in known /\ i.subst \in substs /\ i.qs \in SUBSET (1..Len(queries))
  <2>1. CASE i \in found
    BY <1>7, <2>1
  <2>2. CASE \E j \in found : j.lits = i.lits /\ j.subst = i.subst /\ i.qs = j.qs \cup {n}
    BY <1>3, <1>7, <2>2
  <2>3. CASE i.qs = {n} /\ \E s \in S : i.lits = QueryLits(q, s) /\ i.subst = s
    BY <1>3, <1>4, <2>3
  <2> QED
    BY <1>6, <2>1, <2>2, <2>3 DEF FiledUnder
<1>9. ASSUME NEW i \in res
      PROVE  i \in [lits : known, subst : substs, qs : SUBSET (1..Len(queries))]
  <2>1. i = [lits |-> i.lits, subst |-> i.subst, qs |-> i.qs]
    BY <1>6 DEF Shaped, Shape
  <2> QED
    BY <1>8, <2>1
<1>10. res \in Filings(known, substs)
  BY <1>6, <1>9 DEF Filings
<1> QED
  BY <1>10 DEF FileStep

FilesFold(h, tried, fixed, sortOf) ==
    h = [t \in SUBSET (DOMAIN tried) |->
           IF t = {} THEN qinsts ELSE FileStep(h[t \ {Max(t)}], tried[Max(t)], fixed, sortOf)]

LEMMA FilesUnfold ==
    ASSUME NEW tried, NEW fixed, NEW sortOf
    PROVE  FiledTried(tried, fixed, sortOf) = (CHOOSE h : FilesFold(h, tried, fixed, sortOf))[DOMAIN tried]
BY Zenon DEF FiledTried, FoldLeft, MapThenFoldSet, FilesFold, FileStep, Keep

LEMMA TriedDomain ==
    ASSUME NEW tried \in Seq(Tried)
    PROVE  DOMAIN tried \in SUBSET Nat /\ IsFiniteSet(DOMAIN tried)
<1>1. DOMAIN tried = 1..Len(tried) /\ Len(tried) \in Nat
  OBVIOUS
<1> QED
  BY <1>1, FiniteDomain

LEMMA FiledTriedTyped ==
    ASSUME queries \in Seq(Query), NEW known, NEW substs, qinsts \in Filings(known, substs),
           NEW tried \in Seq(Tried), NEW fixed, NEW sortOf,
           KeptIn(tried, fixed, sortOf, known, substs)
    PROVE  FiledTried(tried, fixed, sortOf) \in Filings(known, substs)
<1>a. PICK D : D = DOMAIN tried
  OBVIOUS
<1>b. PICK Acc : Acc = Filings(known, substs)
  OBVIOUS
<1>c. PICK base : base = qinsts
  OBVIOUS
<1> DEFINE step == [x \in Acc \X D |-> FileStep(x[1], tried[x[2]], fixed, sortOf)]
           h == CHOOSE h : FilesFold(h, tried, fixed, sortOf)
<1>1. D \in SUBSET Nat /\ IsFiniteSet(D)
  BY <1>a, TriedDomain
<1>2. base \in Acc
  BY <1>b, <1>c
<1>3. IsStep(step, Acc, D)
  BY <1>a, <1>b, FileStepTyped DEF IsStep
<1>4. \A x \in Acc, y \in D : step[<<x, y>>] = FileStep(x, tried[y], fixed, sortOf)
  OBVIOUS
<1> HIDE DEF step
<1>5. PICK g : IsFold(g, D, Acc, step, base)
  BY <1>1, <1>2, <1>3, FoldExists
<1>6. \A t \in SUBSET D : t # {} =>
         Max(t) \in D /\ t \ {Max(t)} \in SUBSET D 
  BY <1>1, MaxIn
<1>7. DOMAIN [x \in D |-> x] = D
  OBVIOUS
<1>8. FilesFold(g, tried, fixed, sortOf)
  <2>1. \A t \in SUBSET D :
           g[t] = IF t = {} THEN base
                  ELSE FileStep(g[t \ {Max(t)}], tried[Max(t)], fixed, sortOf)
    BY <1>4, <1>5, <1>6 DEF FoldAt, IsFold
  <2> QED
    BY <1>a, <1>c, <1>5, <1>7, <2>1 DEF FilesFold, IsFold
<1>9. FilesFold(h, tried, fixed, sortOf)
  BY <1>8
<1> HIDE DEF h
<1>10. h[D] = g[D]
  <2>1. \A t \in SUBSET D :
           h[t] = IF t = {} THEN base
                  ELSE FileStep(h[t \ {Max(t)}], tried[Max(t)], fixed, sortOf)
    BY <1>a, <1>c, <1>7, <1>9 DEF FilesFold
  <2>2. \A t \in SUBSET D :
           g[t] = IF t = {} THEN base
                  ELSE FileStep(g[t \ {Max(t)}], tried[Max(t)], fixed, sortOf)
    BY <1>a, <1>c, <1>7, <1>8 DEF FilesFold
  <2>3. \A t \in SUBSET D : (t # {} => h[t \ {Max(t)}] = g[t \ {Max(t)}]) => h[t] = g[t]
    BY <2>1, <2>2
  <2> QED
    BY <1>1, <2>3, FoldSame
<1>11. FiledTried(tried, fixed, sortOf) = h[D]
  BY <1>a, <1>7, FilesUnfold DEF h
<1>12. g[D] \in Acc
  BY <1>5 DEF IsFold
<1> QED
  BY <1>b, <1>10, <1>11, <1>12

-----------------------------------------------------------------------------
(* A new constant keeps the invariant.                                     *)
LEMMA AnswersVacuous ==
    ASSUME asking' \notin Formulas
    PROVE  AnswersAsked'
<1>1. (AnswersAsked <=> (asking \in Formulas => Answered))'
  BY AnswersMeans, PTL
<1> QED
  BY <1>1

(* The constant command, in parts.                                         *)
MadeAtoms(tried, sortOf) == UNION {NewAtoms(queries[x[1]], Fit(x[1], x[2], sortOf)) : x \in Range(tried)}
TriedPairs(tried) == UNION {{<<x[1], t>> : t \in x[2]} : x \in Range(tried)}

DeclareMeans(c, s, search, fixed, sortOf, table, end) ==
    /\ search = NewConstQueries(c, s)
    /\ sortOf = sort_index' /\ table = atoms' /\ end = asking'
    /\ AddConstant(c, s, search.buffer, MadeAtoms(search.tried, sortOf))
    /\ qinsts' = FiledTried(search.tried, fixed, sortOf)
    /\ end = IF \E x \in TriedPairs(search.tried) \ fixed : AtomMissing(queries[x[1]], x[2], table)
               THEN Ended ELSE NoQuery
    /\ UNCHANGED queries

LEMMA DeclareStep ==
    ASSUME NEW c, NEW s, DeclareConstant(c, s)
    PROVE  \E search, fixed, sortOf, table, end : DeclareMeans(c, s, search, fixed, sortOf, table, end)
<1>a. PICK search : search = NewConstQueries(c, s)
  OBVIOUS
<1>b. PICK sortOf : sortOf = sort_index'
  OBVIOUS
<1>c. PICK table : table = atoms'
  OBVIOUS
<1>d. PICK end : end = asking'
  OBVIOUS
<1>1. AddConstant(c, s, search.buffer, MadeAtoms(search.tried, sortOf))
  BY <1>a, <1>b DEF DeclareConstant, MadeAtoms
<1>2. PICK fixed :
        /\ qinsts' = FiledTried(search.tried, fixed, sortOf)
        /\ end = IF \E x \in TriedPairs(search.tried) \ fixed : AtomMissing(queries[x[1]], x[2], table)
                   THEN Ended ELSE NoQuery
  BY <1>a, <1>b, <1>c, <1>d DEF DeclareConstant, TriedPairs
<1>3. UNCHANGED queries
  BY DEF DeclareConstant
<1>4. DeclareMeans(c, s, search, fixed, sortOf, table, end)
  BY <1>a, <1>b, <1>c, <1>d, <1>1, <1>2, <1>3 DEF DeclareMeans
<1> QED
  BY <1>4

LEMMA MadeAtomsTyped ==
    ASSUME queries \in Seq(Query), NEW tried \in Seq(Tried), NEW sortOf
    PROVE  MadeAtoms(tried, sortOf) \subseteq AllAtoms
<1> SUFFICES ASSUME NEW x \in Range(tried)
             PROVE  NewAtoms(queries[x[1]], Fit(x[1], x[2], sortOf)) \subseteq AllAtoms
  BY DEF MadeAtoms
<1>1. x \in Tried
  BY DEF Range
<1>2. queries[x[1]] \in Query /\ x[2] \in SUBSET Substs[queries[x[1]].formula]
  BY <1>1, TriedMeans
<1> PICK q \in Query : q = queries[x[1]]
  BY <1>2
<1> PICK S : S = Fit(x[1], x[2], sortOf)
  OBVIOUS
<1>3. S \in SUBSET Substs[q.formula]
  BY <1>2 DEF Fit
<1> QED
  BY <1>3, NewAtomsTyped

LEMMA DeclareConstantInv ==
    ASSUME Inv, NEW c \in Const, NEW s \in Sort, DeclareConstant(c, s)
    PROVE  Inv'
<1>1. /\ TablesTyped /\ GroundInv /\ queries \in Seq(Query) /\ asking = NoQuery
      /\ NoQuery # Ended /\ NoQuery \notin Formulas /\ Ended \notin Formulas
  BY QueriesAssumption DEF Inv, GroundInv, QueriesTyped, DeclareConstant
<1>2. PICK search, fixed, sortOf, table, end : DeclareMeans(c, s, search, fixed, sortOf, table, end)
  BY DeclareStep
<1>3. search \in Tries
  BY <1>1, <1>2, NewConstQueriesTyped DEF DeclareMeans
<1> PICK tried \in Seq(Tried) : tried = search.tried
  BY <1>3 DEF Tries
<1> PICK new : new = MadeAtoms(tried, sortOf)
  OBVIOUS
<1>4. new \in SUBSET AllAtoms
  BY <1>1, MadeAtomsTyped
<1>5. GroundInv' /\ atoms \cup new \subseteq atoms' /\ lazy' = lazy
  <2>1. search.buffer \in Buffers
    BY <1>3 DEF Tries
  <2> PICK b \in Buffers : b = search.buffer
    BY <2>1
  <2>2. AddConstant(c, s, b, new)
    BY <1>2 DEF DeclareMeans
  <2> QED
    BY <1>1, <1>4, <2>2, AddConstantInv
<1>6. /\ end = asking' /\ table = atoms' /\ queries' = queries
      /\ qinsts' = FiledTried(tried, fixed, sortOf)
  BY <1>2 DEF DeclareMeans
<1>7. end \in {NoQuery, Ended}
  BY <1>2 DEF DeclareMeans
<1>8. end # Ended => \A x \in TriedPairs(tried) \ fixed : ~AtomMissing(queries[x[1]], x[2], table)
  BY <1>1, <1>2 DEF DeclareMeans
<1> DEFINE lits == {i.lits : i \in qinsts}
                     \cup UNION {{QueryLits(queries[n], t) : t \in Substs[queries[n].formula]} : n \in DOMAIN queries}
           known == {l \in lits : end # Ended => AtomsOfLits(l) \subseteq table}
           substs == {i.subst : i \in qinsts} \cup UNION {Substs[queries[n].formula] : n \in DOMAIN queries}
<1>9. qinsts \in Filings(known, substs)
  <2>1. ASSUME NEW i \in qinsts
        PROVE  i \in [lits : known, subst : substs, qs : SUBSET (1..Len(queries))]
    <3>1. i = [lits |-> i.lits, subst |-> i.subst, qs |-> i.qs] /\ i.qs \subseteq 1..Len(queries)
      BY <1>1 DEF Inv, QinstsTyped
    <3>2. AtomsOfLits(i.lits) \subseteq table
      BY <1>1, <1>5, <1>6 DEF Inv, QinstsTyped
    <3>3. i.lits \in known /\ i.subst \in substs
      BY <3>2
    <3> QED
      BY <3>1, <3>3
  <2>2. Apart(qinsts)
    BY DEF Inv, LitsApart, Apart
  <2> QED
    BY <2>1, <2>2 DEF Filings
<1>10. KeptIn(tried, fixed, sortOf, known, substs)
  <2> SUFFICES ASSUME NEW x \in Range(tried), NEW t \in Keep(x, fixed, sortOf)
               PROVE  QueryLits(queries[x[1]], t) \in known /\ t \in substs
    BY DEF KeptIn
  <2>1. x \in Tried
    BY DEF Range
  <2>2. x = <<x[1], x[2]>> /\ x[1] \in DOMAIN queries /\ queries[x[1]] \in Query
        /\ x[2] \in SUBSET Substs[queries[x[1]].formula]
    BY <1>1, <2>1, TriedMeans
  <2> PICK n \in DOMAIN queries : n = x[1]
    BY <2>2
  <2> PICK q \in Query : q = queries[n]
    BY <2>2
  <2>3. t \in Fit(n, x[2], sortOf) /\ t \in x[2] /\ <<n, t>> \notin fixed
    BY DEF Keep, Fit
  <2>4. t \in Substs[q.formula] /\ t \in Substs[queries[n].formula]
    BY <2>2, <2>3
  <2>5. QueryLits(q, t) \in lits /\ t \in substs
    BY <2>4
  <2>6. ASSUME end # Ended PROVE AtomsOfLits(QueryLits(q, t)) \subseteq table
    <3>1. <<n, t>> \in TriedPairs(tried) \ fixed
      BY <2>3 DEF TriedPairs
    <3>2. ~AtomMissing(q, t, table)
      <4>1. \A y \in TriedPairs(tried) \ fixed : ~AtomMissing(queries[y[1]], y[2], table)
        BY <1>8, <2>6
      <4> PICK y \in TriedPairs(tried) \ fixed : y = <<n, t>>
        BY <3>1
      <4>2. ~AtomMissing(queries[y[1]], y[2], table)
        BY <4>1
      <4>3. queries[y[1]] = q /\ y[2] = t
        OBVIOUS
      <4> QED
        BY <4>2, <4>3
    <3>3. NewAtoms(q, Fit(n, x[2], sortOf)) \subseteq table
      <4>1. NewAtoms(q, Fit(n, x[2], sortOf)) \subseteq new
        BY DEF MadeAtoms
      <4> QED
        BY <1>5, <1>6, <4>1
    <3>4. AtomsOf(q, t) \subseteq table
      BY <2>3, <3>2, <3>3, AtomsThere
    <3>5. AtomsOfLits(QueryLits(q, t)) = AtomsOf(q, t)
      BY <2>4, QueryAtomsTyped
    <3> QED
      BY <3>4, <3>5
  <2> QED
    BY <2>5, <2>6
<1> HIDE DEF lits, substs
<1>11. qinsts' \in Filings(known, substs)
  <2>1. FiledTried(tried, fixed, sortOf) \in Filings(known, substs)
    <3> HIDE DEF known
    <3> QED
      BY <1>1, <1>9, <1>10, FiledTriedTyped
  <2> QED
    BY <1>6, <2>1
<1>12. QinstsTyped' /\ LitsApart'
  <2>1. \A i \in qinsts' : /\ i = [lits |-> i.lits, subst |-> i.subst, qs |-> i.qs]
                           /\ i.qs \subseteq 1..Len(queries)
                           /\ end # Ended => AtomsOfLits(i.lits) \subseteq table
    BY <1>11 DEF Filings
  <2>2. Len(queries) \in Nat /\ 1..Len(queries) \subseteq 1..(Len(queries) + 1)
    BY <1>1
  <2>3. QinstsTyped'
    BY <1>6, <2>1, <2>2 DEF QinstsTyped, AtomsOfLits
  <2>4. LitsApart'
    BY <1>11 DEF Filings, Apart, LitsApart
  <2> QED
    BY <2>3, <2>4
<1>13. QueriesTyped'
  BY <1>1, <1>6, <1>7 DEF QueriesTyped
<1>14. AnswersAsked'
  BY <1>1, <1>6, <1>7, AnswersVacuous
<1> QED
  BY <1>5, <1>12, <1>13, <1>14 DEF Inv

-----------------------------------------------------------------------------
(* Steps that leave the queries alone.                                     *)
LEMMA SameGround ==
    ASSUME GroundInv, UNCHANGED <<sortVars, groundVars>>
    PROVE  GroundInv'
<1>1. UNCHANGED <<sorts, supersorts, subsorts, constants, sort_index, decl, lazy, preds, atoms,
                  active, rules, insts, seen, buffer, late>>
  BY DEF sortVars, relation, groundVars
<1>2. SortInv'
  <2>1. SortInv
    BY DEF GroundInv
  <2> QED
    BY <1>1, <2>1 DEF SortInv, SortTypeOK, Inclusion, DeclRecorded, RecordedSound, Declared, MembersSound, Reaches
<1>3. AtomsComplete'
  BY <1>1, AtomsStayComplete DEF GroundInv
<1>4. buffer \in Buffers /\ atoms \subseteq AllAtoms /\ preds \subseteq Pred
      /\ late \subseteq {"sort", "const", "fact"}
  BY DEF GroundInv, TablesTyped
<1> QED
  BY <1>1, <1>2, <1>3, <1>4, NothingMade

LEMMA QueriesStay ==
    ASSUME Inv, GroundInv', atoms \subseteq atoms', UNCHANGED queryVars,
           asking \in Formulas => UNCHANGED <<supersorts, decl, constants, lazy>>
    PROVE  Inv'
<1>1. UNCHANGED <<queries, qinsts, asking>>
  BY DEF queryVars
<1>2. QueriesTyped' /\ QinstsTyped' /\ LitsApart'
  BY <1>1 DEF Inv, QueriesTyped, QinstsTyped, LitsApart, AtomsOfLits
<1>3. AnswersAsked'
  <2>1. CASE asking \notin Formulas
    BY <1>1, <2>1, AnswersVacuous
  <2>2. CASE asking \in Formulas
    <3>1. Answered
      BY <2>2, AnswersMeans DEF Inv
    <3>2. UNCHANGED <<supersorts, decl, constants, lazy>>
      BY <2>2
    <3>a. PICK q : q = Asking
      OBVIOUS
    <3>3. Asking' = q /\ \A i : Own(i)' <=> Own(i)
      BY <1>1, <3>a DEF Asking, Own
    <3>4. WellSorted(q)' = WellSorted(q)
      BY <3>2 DEF WellSorted
    <3>5. OwnBoth'
      BY <1>1, <3>1 DEF Answered, OwnBoth, Own
    <3>6. OwnSound'
      <4>1. \A i \in qinsts : Own(i) => \E s \in WellSorted(q) : i.lits = QueryLits(q, s)
        BY <3>a, <3>1 DEF Answered, OwnSound
      <4> QED
        BY <1>1, <3>3, <3>4, <4>1 DEF OwnSound
    <3>7. OwnAll'
      <4>1. ASSUME \A t, u \in Sort : Reaches(t, u)' => subsort_p(t, u)', NEW s \in WellSorted(q)
            PROVE  \/ MayBeFixed(q, s, atoms)'
                   \/ \E i \in qinsts : Own(i) /\ i.lits = QueryLits(q, s)
        <5>1. \A t, u \in Sort : Reaches(t, u) => subsort_p(t, u)
          BY <3>2, <4>1, ReachesSame
        <5>2. MayBeFixed(q, s, atoms) \/ \E i \in qinsts : Own(i) /\ i.lits = QueryLits(q, s)
          BY <3>a, <3>1, <5>1 DEF Answered, OwnAll
        <5>3. ASSUME MayBeFixed(q, s, atoms) PROVE MayBeFixed(q, s, atoms)'
          <6> PICK later : later = atoms'
            OBVIOUS
          <6>1. MayBeFixed(q, s, later)
            BY <5>3, FixedGrows
          <6> QED
            BY <3>2, <6>1 DEF MayBeFixed, Checked
        <5> QED
          BY <5>2, <5>3
      <4> QED
        BY <1>1, <3>3, <3>4, <4>1 DEF OwnAll
    <3>8. Answered'
      BY <1>2, <3>5, <3>6, <3>7 DEF Answered
    <3>9. (AnswersAsked <=> (asking \in Formulas => Answered))'
      BY AnswersMeans, PTL
    <3> QED
      BY <3>8, <3>9
  <2> QED
    BY <2>1, <2>2
<1> QED
  BY <1>2, <1>3 DEF Inv

LEMMA CommandInv ==
    ASSUME Inv, Command
    PROVE  Inv'
<1>1. asking = NoQuery /\ UNCHANGED queryVars /\ asking \notin Formulas /\ GroundInv
  BY QueriesAssumption DEF Command, Inv
<1>2. ASSUME NEW s \in Sort, DeclareSort(s) PROVE GroundInv' /\ atoms \subseteq atoms'
  BY <1>1, <1>2, DeclareSortInv DEF DeclareSort, groundVars
<1>3. ASSUME NEW s \in Sort, NEW t \in Sort, DeclareSubsort(s, t)
      PROVE  GroundInv' /\ atoms \subseteq atoms'
  BY <1>1, <1>3, DeclareSubsortInv DEF DeclareSubsort
<1>4. ASSUME NEW p \in Pred, AddPredicate(p) PROVE GroundInv' /\ atoms \subseteq atoms'
  BY <1>1, <1>4, AddPredicateInv DEF AddPredicate
<1>5. ASSUME NEW f \in Formulas, AddRule(f) PROVE GroundInv' /\ atoms \subseteq atoms'
  <2>1. atoms \subseteq atoms'
    BY <1>5 DEF AddRule, Instantiate
  <2> QED
    BY <1>1, <1>5, <2>1, AddRuleInv
<1>6. ASSUME NEW f \in Formulas, AddGroundRule(f) PROVE GroundInv' /\ atoms \subseteq atoms'
  BY <1>1, <1>6, AddGroundRuleInv DEF AddGroundRule
<1>7. ASSUME NEW A \in AllAtoms, AssertAtom(A) PROVE GroundInv' /\ atoms \subseteq atoms'
  <2>1. atoms \subseteq atoms'
    BY <1>7 DEF AssertAtom, Instantiate
  <2> QED
    BY <1>1, <1>7, <2>1, AssertAtomInv
<1>8. GroundInv' /\ atoms \subseteq atoms'
  BY <1>2, <1>3, <1>4, <1>5, <1>6, <1>7 DEF Command
<1> QED
  BY <1>1, <1>8, QueriesStay

LEMMA SampleInv ==
    ASSUME Inv, Sample
    PROVE  Inv'
<1>1. PICK A \in AllAtoms : Activate(A)
  BY DEF Sample
<1>2. GroundInv' /\ atoms \subseteq atoms'
  BY <1>1, ActivateInv DEF Inv
<1>3. UNCHANGED <<supersorts, decl, constants, lazy>>
  BY <1>1 DEF Activate, sortVars, relation
<1>4. UNCHANGED queryVars
  BY DEF Sample
<1> QED
  BY <1>2, <1>3, <1>4, QueriesStay

LEMMA ReplyInv ==
    ASSUME Inv, Reply
    PROVE  Inv'
<1>1. GroundInv'
  BY SameGround DEF Inv, Reply
<1>2. asking' = NoQuery /\ qinsts' = {} /\ queries' = queries
  BY DEF Reply
<1>3. QueriesTyped' /\ QinstsTyped' /\ LitsApart'
  BY <1>2 DEF Inv, QueriesTyped, QinstsTyped, LitsApart
<1>4. asking' \notin Formulas
  BY <1>2, QueriesAssumption
<1>5. AnswersAsked'
  BY <1>4, AnswersVacuous
<1> QED
  BY <1>1, <1>3, <1>5 DEF Inv

LEMMA StutterInv ==
    ASSUME Inv, UNCHANGED vars
    PROVE  Inv'
<1>1. UNCHANGED <<sortVars, groundVars>> /\ UNCHANGED queryVars
  BY DEF vars
<1>2. GroundInv'
  BY <1>1, SameGround DEF Inv
<1>3. atoms' = atoms /\ UNCHANGED <<supersorts, decl, constants, lazy>>
  BY <1>1 DEF sortVars, relation, groundVars
<1> QED
  BY <1>1, <1>2, <1>3, QueriesStay

LEMMA InitInv ==
    ASSUME Init
    PROVE  Inv
<1>1. GroundInv
  BY GroundInitInv DEF Init
<1>2. queries = <<>> /\ qinsts = {} /\ asking = NoQuery
  BY DEF Init
<1>3. QueriesTyped /\ QinstsTyped /\ LitsApart
  BY <1>2 DEF QueriesTyped, QinstsTyped, LitsApart
<1>4. AnswersAsked
  BY <1>2, QueriesAssumption DEF AnswersAsked
<1> QED
  BY <1>1, <1>3, <1>4 DEF Inv

(* One step per action of Next, and the stuttering step.                   *)
LEMMA InvStep == Inv /\ [Next]_vars => Inv'
<1> SUFFICES ASSUME Inv, [Next]_vars PROVE Inv'
  OBVIOUS
<1>1. CASE Command
  BY <1>1, CommandInv
<1>2. CASE Sample
  BY <1>2, SampleInv
<1>3. ASSUME NEW c \in Const, NEW s \in Sort, DeclareConstant(c, s) PROVE Inv'
  BY <1>3, DeclareConstantInv
<1>4. ASSUME NEW f \in QueryFormulas, Ask(f) PROVE Inv'
  BY <1>4, AskInv
<1>5. CASE Reply
  BY <1>5, ReplyInv
<1>6. CASE UNCHANGED vars
  BY <1>6, StutterInv
<1> QED
  BY <1>1, <1>2, <1>3, <1>4, <1>5, <1>6 DEF Next

(* No command, in any order and in eager or lazy mode, breaks the          *)
(* inductive invariant.                                                    *)
THEOREM TablesInvariant == Spec => []Inv
<1>1. Init => Inv
  BY InitInv
<1> QED
  BY <1>1, InvStep, PTL DEF Spec

-----------------------------------------------------------------------------
(* The invariant has the types among its parts.                            *)
LEMMA InvGivesTypeOK == Inv => TypeOK
<1> SUFFICES ASSUME Inv PROVE TypeOK
  OBVIOUS
<1>1. GroundTypeOK
  <2>1. SortTypeOK
    BY DEF Inv, GroundInv, SortInv
  <2>2. TablesTyped /\ InstsTyped
    BY DEF Inv, GroundInv
  <2>3. ASSUME NEW i \in BagToSet(insts)
        PROVE  i.rule \in 0..Len(rules) /\ {l.atom : l \in UNION i.clauses} \subseteq atoms
    <3>1. (OfFormula(i) \/ OfRule(i)) /\ AtomsOfInst(i) \subseteq atoms
      BY <2>2 DEF InstsTyped, BagToSet
    <3>2. i.rule = 0 \/ i.rule \in DOMAIN rules
      BY <3>1 DEF OfFormula, OfRule
    <3>3. rules \in Seq(Rule)
      BY <2>2 DEF TablesTyped
    <3>4. DOMAIN rules = 1..Len(rules) /\ Len(rules) \in Nat
      BY <3>3
    <3> QED
      BY <3>1, <3>2, <3>4 DEF AtomsOfInst
  <2> QED
    BY <2>1, <2>2, <2>3 DEF GroundTypeOK, TablesTyped, InstsTyped, Buffers
<1>2. \A n \in DOMAIN queries : queries[n].formula \in QueryFormulas
  <2> SUFFICES ASSUME NEW n \in DOMAIN queries PROVE queries[n].formula \in QueryFormulas
    OBVIOUS
  <2>1. queries[n] \in Query
    BY DEF Inv, QueriesTyped
  <2> QED
    BY <2>1, QueryTyped
<1>3. ASSUME NEW i \in qinsts
      PROVE  /\ i.qs \subseteq 1..(Len(queries) + 1)
             /\ asking # Ended => {l.atom : l \in UNION {Range(C) : C \in Range(i.lits)}} \subseteq atoms
  <2>1. Len(queries) \in Nat /\ 1..Len(queries) \subseteq 1..(Len(queries) + 1)
    BY DEF Inv, QueriesTyped
  <2> QED
    BY <2>1 DEF Inv, QinstsTyped, AtomsOfLits
<1>4. asking \in QueryFormulas \cup {NoQuery, Ended}
  BY DEF Inv, QueriesTyped
<1> QED
  BY <1>1, <1>2, <1>3, <1>4 DEF TypeOK

(* The tables keep their types (add_sort to add_cnf_query): the instances  *)
(* of rules and of queries are about rules and queries in the tables, and  *)
(* their atoms are in the table of atoms as long as the process runs.      *)
THEOREM TablesTypeCorrect == Spec => []TypeOK
BY TablesInvariant, InvGivesTypeOK, PTL

(* A sort has exactly the constants declared with it or below it, whatever *)
(* the other commands do in between.                                       *)
THEOREM MembersStayExact == Spec => []MembersExact
<1>1. Inv => MembersExact
  BY InvGivesMembers DEF Inv, GroundInv
<1> QED
  BY <1>1, TablesInvariant, PTL

(* In eager mode every ground atom of a declared predicate is in the       *)
(* table, whether add_pred or add_const came last (all_pred_instances,     *)
(* create_new_const_atoms), if the sorts came first and each knows all of  *)
(* its supersorts.                                                         *)
THEOREM AllAtomsThere == Spec => []AtomsComplete
<1>1. Inv => AtomsComplete
  BY DEF Inv, GroundInv
<1> QED
  BY <1>1, TablesInvariant, PTL

(* Every substitution that matters has exactly one instance, which says    *)
(* what the formula says, when nothing was declared late; in lazy mode no  *)
(* instance is ever made twice (smart_clause_instance_rec, activate_atom,  *)
(* subst_hash).                                                            *)
THEOREM InstancesNeededOnce == Spec => []NeededOnce
<1>1. Inv => NeededOnce
  BY InvGivesNeededOnce DEF Inv
<1> QED
  BY <1>1, TablesInvariant, PTL

(* The instances filed under the query being asked are its own, once each, *)
(* and none that matters is missing, although instances are shared, atoms  *)
(* are activated while samples are drawn, and earlier queries stay in the  *)
(* table (add_subst_query_instance).                                       *)
THEOREM AnswersAreAsked == Spec => []AnswersAsked
<1>1. Inv => AnswersAsked
  BY DEF Inv
<1> QED
  BY <1>1, TablesInvariant, PTL
=============================================================================
