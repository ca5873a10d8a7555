------------------------------- MODULE MCMwSat -------------------------------
(* A small weighted problem for MwSat: soft rules that exclude each other   *)
(* next to hard rules that fix most of the atoms, some of them only after   *)
(* a few flips.                                                             *)
EXTENDS MwSat

CONSTANTS a, b, c, d

MCAtoms == {a, b, c, d}
MCRules == 1..5
MCClauses == 1..7

(* Rules 1 and 2 are hard: c holds, not d, and d or b.  Rule 3 wants a and  *)
(* not b, in two clauses; rule 4 wants not a; rule 5 is rule 1 denied.      *)
MCLits == [n \in MCClauses |->
             CASE n = 1 -> {PosLit(c)}
               [] n = 2 -> {NegLit(c), NegLit(d)}
               [] n = 3 -> {NegLit(c), PosLit(d), PosLit(b)}
               [] n = 4 -> {PosLit(a)}
               [] n = 5 -> {NegLit(b)}
               [] n = 6 -> {NegLit(a)}
               [] n = 7 -> {NegLit(c)}]

(* The same with rules 3 and 4 that can hold together.                     *)
MCLitsJoint == [MCLits EXCEPT ![5] = {NegLit(b), PosLit(a)},
                              ![6] = {NegLit(a), PosLit(c)}]

MCRuleOf == [n \in MCClauses |-> CASE n = 1 -> 1 [] n \in {2, 3} -> 2
                                   [] n \in {4, 5} -> 3 [] n = 6 -> 4 [] n = 7 -> 5]
MCHard == {1, 2}

(* The same with rule 4 hard: the hard rules have one model.                *)
MCHardAll == {1, 2, 4}

MCWeight == [r \in MCRules |-> CASE r \in {3, 5} -> 1 [] r = 4 -> 2 [] OTHER -> 0]
=============================================================================
