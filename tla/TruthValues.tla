----------------------------- MODULE TruthValues -----------------------------
(***************************************************************************)
(* Truth values and literals (src/src/tables.h, utils.h, utils.c).         *)
(*                                                                         *)
(* An atom carries a truth value together with the reason it may not be    *)
(* changed: a plain value is free, an "up" value was fixed by unit         *)
(* propagation for the duration of one SampleSAT call, a "db" value was    *)
(* fixed by the input database for good.  The same six values are used for *)
(* the auxiliary variable of a rule instance.                              *)
(*                                                                         *)
(* The code packs the literal of atom x into the integers 2x and 2x+1;     *)
(* here it is the pair of the atom and its sign.                           *)
(***************************************************************************)

TVal == {"v_false", "v_true", "v_up_false", "v_up_true", "v_db_false", "v_db_true"}

FreeTVal == {"v_false", "v_true"}

AssignedTrue(v)  == v \in {"v_true", "v_up_true", "v_db_true"}
AssignedFalse(v) == v \in {"v_false", "v_up_false", "v_db_false"}

DbTVal(v)      == v \in {"v_db_true", "v_db_false"}
FixedTVal(v)   == v \in {"v_up_true", "v_up_false", "v_db_true", "v_db_false"}
UnfixedTVal(v) == v \in FreeTVal

AssignedFixedTrue(v)  == v \in {"v_db_true", "v_up_true"}
AssignedFixedFalse(v) == v \in {"v_db_false", "v_up_false"}

(* Drops the mark of unit propagation, keeps that of the database. *)
UnfixTVal(v) == CASE v = "v_up_true"  -> "v_true"
                  [] v = "v_up_false" -> "v_false"
                  [] OTHER            -> v

NegateTVal(v) == CASE v = "v_true"     -> "v_false"
                   [] v = "v_false"    -> "v_true"
                   [] v = "v_up_true"  -> "v_up_false"
                   [] v = "v_up_false" -> "v_up_true"
                   [] v = "v_db_true"  -> "v_db_false"
                   [] v = "v_db_false" -> "v_db_true"

-----------------------------------------------------------------------------
Signs == {"pos", "neg"}

LiteralsOf(atoms) == atoms \X Signs

PosLit(x) == <<x, "pos">>
NegLit(x) == <<x, "neg">>
VarOf(l)  == l[1]
IsPos(l)  == l[2] = "pos"
Not(l)    == <<l[1], IF l[2] = "pos" THEN "neg" ELSE "pos">>

AssignedTrueLit(assignment, l) ==
    IF IsPos(l) THEN AssignedTrue(assignment[VarOf(l)])
                ELSE AssignedFalse(assignment[VarOf(l)])

AssignedFalseLit(assignment, l) ==
    IF IsPos(l) THEN AssignedFalse(assignment[VarOf(l)])
                ELSE AssignedTrue(assignment[VarOf(l)])

AssignedFixedTrueLit(assignment, l) ==
    IF IsPos(l) THEN AssignedFixedTrue(assignment[VarOf(l)])
                ELSE AssignedFixedFalse(assignment[VarOf(l)])

AssignedFixedFalseLit(assignment, l) ==
    IF IsPos(l) THEN AssignedFixedFalse(assignment[VarOf(l)])
                ELSE AssignedFixedTrue(assignment[VarOf(l)])

(* The fixed value that makes a literal true.                              *)
UpTrueValueOf(l) == IF IsPos(l) THEN "v_up_true" ELSE "v_up_false"

(* A clause is the set of its literals. *)
SatClause(assignment, lits) == \E l \in lits : AssignedTrueLit(assignment, l)
=============================================================================
