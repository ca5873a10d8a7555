----------------------------- MODULE MCGrounding -----------------------------
EXTENDS Queries, Cnf

CONSTANTS SA, SB, ST, ca, cb, D, Q
CONSTANTS Join, Both, Fixed

MCSignature == (D :> <<SA>>) @@ (Q :> <<ST>>)

At(p, x) == <<"atom", <<p, <<x>>>>>>

Some == <<"or", At(D, ca), At(D, cb)>>

(* A join with a negative weight, a rule with a clause that facts may      *)
(* falsify, and a ground rule with all the other connectives.              *)
MCTree ==
    (Join :> <<"and", <<"and", At(Q, 1), At(D, 2)>>, <<"not", At(Q, 2)>>>>)
    @@ (Both :> <<"and", At(D, 1), <<"xor", At(Q, 1), <<"not", At(D, 1)>>>>>>)
    @@ (Fixed :> <<"iff", <<"or", At(Q, ca), At(Q, cb)>>,
                   <<"xor", Some, <<"implies", Some, <<"and", At(D, ca), At(D, cb)>>>>>>>>)

MCNumVars == [f \in Formulas |-> IF f = Join THEN 2 ELSE IF f = Both THEN 1 ELSE 0]

MCOrder == [f \in Formulas |-> Visited(MCTree[f])]
MCModels ==
    [f \in Formulas |-> {T \in SUBSET Range(Visited(MCTree[f])) : Truth(MCTree[f], T)}]
MCPos == [f \in Formulas |-> CnfPos(MCTree[f])]
MCNeg == [f \in Formulas |-> CnfNeg(MCTree[f])]

(* The two constants are alike, also in the rule that names them.          *)
MCSymmetry == Permutations({ca, cb})
=============================================================================
