--------------------------------- MODULE Cnf ---------------------------------
(***************************************************************************)
(* Clausal normal form of a formula (cnf_pos and cnf_neg in src/src/cnf.c) *)
(* and the truth value of a formula, which it has to agree with.           *)
(*                                                                         *)
(* A formula is <<"atom", A>>, <<"not", f>> or <<op, f, g>>; its normal    *)
(* form is a sequence of clauses, a clause is a sequence of literals       *)
(* [neg, atom].  Nothing is simplified.                                    *)
(***************************************************************************)
EXTENDS Sequences, SequencesExt

Literal(A, neg) == <<<<[neg |-> neg, atom |-> A]>>>>

CnfUnion(c1, c2) == c1 \o c2

(* Each clause of one form joined with each clause of the other.           *)
CnfProduct(c1, c2) ==
    FlattenSeq([i \in DOMAIN c1 |->
        [j \in DOMAIN c2 |-> c1[i] \o c2[j]]])

RECURSIVE CnfPos(_), CnfNeg(_)

CnfPos(f) ==
    CASE f[1] = "atom" -> Literal(f[2], FALSE)
      [] f[1] = "not" -> CnfNeg(f[2])
      [] f[1] = "or" -> CnfProduct(CnfPos(f[2]), CnfPos(f[3]))
      [] f[1] = "implies" -> CnfProduct(CnfNeg(f[2]), CnfPos(f[3]))
      [] f[1] = "and" -> CnfUnion(CnfPos(f[2]), CnfPos(f[3]))
      [] f[1] = "xor" -> CnfProduct(CnfUnion(CnfPos(f[2]), CnfNeg(f[3])),
                                    CnfUnion(CnfNeg(f[2]), CnfPos(f[3])))
      [] f[1] = "iff" -> CnfUnion(CnfProduct(CnfPos(f[2]), CnfNeg(f[3])),
                                  CnfProduct(CnfNeg(f[2]), CnfPos(f[3])))

CnfNeg(f) ==
    CASE f[1] = "atom" -> Literal(f[2], TRUE)
      [] f[1] = "not" -> CnfPos(f[2])
      [] f[1] = "or" -> CnfUnion(CnfNeg(f[2]), CnfNeg(f[3]))
      [] f[1] = "implies" -> CnfUnion(CnfPos(f[2]), CnfNeg(f[3]))
      [] f[1] = "and" -> CnfProduct(CnfNeg(f[2]), CnfNeg(f[3]))
      [] f[1] = "xor" -> CnfUnion(CnfProduct(CnfNeg(f[2]), CnfPos(f[3])),
                                  CnfProduct(CnfPos(f[2]), CnfNeg(f[3])))
      [] f[1] = "iff" -> CnfUnion(CnfProduct(CnfPos(f[2]), CnfPos(f[3])),
                                  CnfProduct(CnfNeg(f[2]), CnfNeg(f[3])))

-----------------------------------------------------------------------------
RECURSIVE Truth(_, _), Visited(_)

(* What the connectives mean when the atoms of the set T are true.         *)
Truth(f, T) ==
    CASE f[1] = "atom" -> f[2] \in T
      [] f[1] = "not" -> ~Truth(f[2], T)
      [] f[1] = "or" -> Truth(f[2], T) \/ Truth(f[3], T)
      [] f[1] = "implies" -> Truth(f[2], T) => Truth(f[3], T)
      [] f[1] = "and" -> Truth(f[2], T) /\ Truth(f[3], T)
      [] f[1] = "xor" -> Truth(f[2], T) # Truth(f[3], T)
      [] f[1] = "iff" -> Truth(f[2], T) = Truth(f[3], T)

(* The atoms in the order in which they are first turned into literals.    *)
Visited(f) ==
    CASE f[1] = "atom" -> <<f[2]>>
      [] f[1] = "not" -> Visited(f[2])
      [] OTHER -> Visited(f[2]) \o Visited(f[3])

-----------------------------------------------------------------------------
(* The formulas over two atoms with connectives nested up to two deep.     *)
Compound(F) ==
    F \cup {<<"not", g>> : g \in F}
      \cup {<<x[1], x[2], x[3]>> : x \in {"or", "and", "implies", "xor", "iff"} \X F \X F}

SmallFormulas == Compound(Compound({<<"atom", "a">>, <<"atom", "b">>}))

ClausesTrue(N, T) == \A C \in Range(N) : \E l \in Range(C) : (l.atom \in T) # l.neg
AtomsOfClauses(N) == {l.atom : l \in UNION {Range(C) : C \in Range(N)}}

(* For each of them the normal forms have the atoms of the formula, and    *)
(* are true when it is, respectively when it is not.                       *)
ASSUME CnfAgrees ==
    \A f \in SmallFormulas :
        LET pos == CnfPos(f)
            neg == CnfNeg(f)
        IN
        /\ AtomsOfClauses(pos) = Range(Visited(f)) /\ AtomsOfClauses(neg) = Range(Visited(f))
        /\ \A T \in SUBSET {"a", "b"} :
              ClausesTrue(pos, T) = Truth(f, T) /\ ClausesTrue(neg, T) # Truth(f, T)
=============================================================================
