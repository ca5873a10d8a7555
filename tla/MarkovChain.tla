----------------------------- MODULE MarkovChain -----------------------------
(***************************************************************************)
(* What MC-SAT promises (mc_sat_internal in src/src/mcmc.c), whatever way  *)
(* a model of the chosen clauses is searched for: start from a model of    *)
(* the hard rules; in each round keep the hard rules and some of the soft  *)
(* rules the current model satisfies, move to a model of what was kept, or *)
(* stay when none is found; count a model at some of the moves.            *)
(***************************************************************************)
EXTENDS TruthValues, Naturals

CONSTANTS Atoms, Rules, Clauses, Lits, RuleOf, Hard, DbTrue, DbFalse

VARIABLES model, kept, samples, status

chainVars == <<model, kept, samples, status>>

Values ==
    {m \in [Atoms -> FreeTVal] :
        /\ \A v \in DbTrue : m[v] = "v_true"
        /\ \A v \in DbFalse : m[v] = "v_false"}

Satisfies(m, R) == \A c \in Clauses : RuleOf[c] \in R => SatClause(m, Lits[c])

SatisfiedRules(m) == {r \in Rules : Satisfies(m, {r})}

Init ==
    /\ model \in Values
    /\ kept = Hard
    /\ samples = 0
    /\ status = "init"

(* The chain starts only at a model of the hard rules.                     *)
FindFirst ==
    /\ status = "init"
    /\ model' \in {m \in Values : Satisfies(m, Hard)}
    /\ status' = "at"
    /\ UNCHANGED <<kept, samples>>

Keep ==
    /\ status = "at"
    /\ \E K \in SUBSET SatisfiedRules(model) : Hard \subseteq K /\ kept' = K
    /\ status' = "moving"
    /\ UNCHANGED <<model, samples>>

Move ==
    /\ status = "moving"
    /\ model' \in {m \in Values : Satisfies(m, kept)}
    /\ samples' \in {samples, samples + 1}
    /\ status' = "at"
    /\ UNCHANGED kept

Stay ==
    /\ status = "moving"
    /\ status' = "at"
    /\ UNCHANGED <<model, kept, samples>>

(* No first model is found.                                                *)
GiveUp ==
    /\ status = "init"
    /\ model' \in Values
    /\ status' = "done"
    /\ UNCHANGED <<kept, samples>>

(* All the rounds are done, or time is up.                                 *)
Finish ==
    /\ status = "at"
    /\ status' = "done"
    /\ UNCHANGED <<model, kept, samples>>

Next == FindFirst \/ Keep \/ Move \/ Stay \/ GiveUp \/ Finish

Spec == Init /\ [][Next]_chainVars
=============================================================================
