------------------------------ MODULE MCMcSat ------------------------------
(* A small Markov logic network for McSat: the hard rules leave the free    *)
(* atoms three models, and the soft rules pull in different directions.     *)
EXTENDS McSat

CONSTANTS a, b, c, d

MCAtoms == {a, b, c, d}
MCRules == 1..4
MCClauses == 1..6

(* Rule 1 is hard: the fact d wants one of a, b, c.  Rule 2 is hard, in     *)
(* three clauses: no two of them.  Rules 3 and 4 are soft.                  *)
MCLits == [n \in MCClauses |->
             CASE n = 1 -> {PosLit(a), PosLit(b), PosLit(c), NegLit(d)}
               [] n = 2 -> {NegLit(a), NegLit(b)}
               [] n = 3 -> {NegLit(a), NegLit(c)}
               [] n = 4 -> {NegLit(b), NegLit(c)}
               [] n = 5 -> {PosLit(a)}
               [] n = 6 -> {PosLit(b), NegLit(a)}]

MCRuleOf == [n \in MCClauses |-> CASE n = 1 -> 1 [] n \in 2..4 -> 2
                                   [] n = 5 -> 3 [] n = 6 -> 4]
MCHard == {1, 2}
MCWeight == [r \in MCRules |-> CASE r = 3 -> 1 [] r = 4 -> 2 [] OTHER -> 0]
MCDbTrue == {d}
=============================================================================
