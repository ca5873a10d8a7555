----------------------------- MODULE MCLazySat -----------------------------
(* A small network for LazySat.  Only rule 1 has an instance at first; what *)
(* it makes true brings in the others, with atoms that are new then, and    *)
(* atom d is in no rule at all.                                             *)
EXTENDS LazySat

CONSTANTS a, b, c, d

MCAtoms == {a, b, c, d}
MCRules == 1..5
MCClauses == 1..6

(* Rules 1 to 3 are hard: a or b; a implies c; b neither with a nor with c, *)
(* a rule of two clauses.  Soft rule 4 is against c, soft rule 5 wants a    *)
(* where b is.                                                              *)
MCLits == [n \in MCClauses |->
             CASE n = 1 -> {PosLit(a), PosLit(b)}
               [] n = 2 -> {NegLit(a), PosLit(c)}
               [] n = 3 -> {NegLit(b), NegLit(a)}
               [] n = 4 -> {NegLit(b), NegLit(c)}
               [] n = 5 -> {NegLit(c)}
               [] n = 6 -> {NegLit(b), PosLit(a)}]

MCRuleOf == [n \in MCClauses |-> CASE n \in {1, 2} -> n [] n \in {3, 4} -> 3
                                   [] n = 5 -> 4 [] n = 6 -> 5]
MCHard == {1, 2, 3}
MCWeight == [r \in MCRules |-> IF r \in MCHard THEN 0 ELSE 1]
=============================================================================
