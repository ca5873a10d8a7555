---------------------------- MODULE MCSampleSat ----------------------------
(* Small clause sets for SampleSat.  Any subset of the rules may be live in *)
(* a call, so one constant rule set stands for many inputs: satisfiable and *)
(* contradictory ones, chains of units, and the empty one.                  *)
EXTENDS SampleSat

CONSTANTS a, b, c, d

MCAtoms == {a, b, c, d}
MCRules == 1..4
MCClauses == 1..5

(* Rule 1 forces a through the database atom d, rule 2 carries it on to b,  *)
(* rule 3 contradicts them in two clauses, and rule 4 holds an atom and its *)
(* negation, as an instance of an XOR does.                                 *)
MCLits == [i \in MCClauses |->
             CASE i = 1 -> {PosLit(a), NegLit(d)}
               [] i = 2 -> {NegLit(a), PosLit(b)}
               [] i = 3 -> {NegLit(b), PosLit(c)}
               [] i = 4 -> {NegLit(b), NegLit(c), NegLit(d)}
               [] i = 5 -> {PosLit(b), PosLit(c), NegLit(c)}]

MCRuleOf == [i \in MCClauses |-> CASE i \in {1, 2} -> i
                                   [] i \in {3, 4} -> 3
                                   [] i = 5 -> 4]

MCWeight == [r \in MCRules |-> 0]

MCHard == MCRules
MCDbTrue == {d}
=============================================================================
