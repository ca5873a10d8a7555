------------------------------ MODULE SortTable ------------------------------
(***************************************************************************)
(* The sort and constant tables (src/src/tables.c): sorts, the subsort     *)
(* relation, and the constants of every sort.                              *)
(*                                                                         *)
(* Each sort lists its supersorts and its subsorts.  A declaration adds    *)
(* the supersorts of the new supersort to the subsort, and the subsorts of *)
(* the new subsort to the supersort, but tells nobody else, so neither     *)
(* list is transitive and they are not each other's inverse.  Constants,   *)
(* in contrast, are pushed from sort to sort, as far as they go.           *)
(***************************************************************************)
EXTENDS Naturals, FiniteSets

CONSTANTS
    Sort,      \* sort names
    Const,     \* constant names
    NoSort     \* a sort index of -1

ASSUME SortTableAssumption == NoSort \notin Sort

VARIABLES
    sorts,        \* the sorts in sort_name_index
    supersorts,   \* the supersorts array of each sort
    subsorts,     \* the subsorts array of each sort
    constants,    \* the constants array of each sort
    sort_index,   \* the sort a constant was declared with
    decl          \* history: the subsort declarations that took effect

relation == <<supersorts, subsorts, decl>>
sortVars == <<sorts, relation, constants, sort_index>>

SortInit ==
    /\ sorts = {}
    /\ supersorts = [s \in Sort |-> {}]
    /\ subsorts = [s \in Sort |-> {}]
    /\ constants = [s \in Sort |-> {}]
    /\ sort_index = [c \in Const |-> NoSort]
    /\ decl = {}

-----------------------------------------------------------------------------
(* add_const_to_sort: the sorts that receive the constant c when it is     *)
(* added to sort t.  It moves on to supersorts until it meets a sort that  *)
(* has it.                                                                 *)
ClosedFor(T, super, c) ==
    \A s \in T : \A u \in super[s] : c \in constants[u] \/ u \in T

(* Mistake: only the direct supersort gets the constants.                  *)
ReceivesDirectly(u, super, c, t) == u = t \/ u \in supersorts[t]

Receives(u, super, c, t) ==
    \A T \in SUBSET Sort : t \in T /\ ClosedFor(T, super, c) => u \in T

(* add_subsort_consts_to_supersort *)
WithConstants(super, C, t) ==
    [u \in Sort |-> constants[u] \cup {c \in C : Receives(u, super, c, t)}]

(* The declaration says something new and nothing wrong.                   *)
MayDeclareSubsort(s, t) ==
    /\ s # t
    /\ s \notin subsorts[t]
    /\ s \notin supersorts[t]
    /\ t \notin subsorts[s]

AddSort(s) ==
    /\ sorts' = sorts \cup {s}
    /\ UNCHANGED <<relation, constants, sort_index>>

(* Both sorts are declared, whatever becomes of the declaration.           *)
AddSubsort(s, t) ==
    /\ sorts' = sorts \cup {s, t}
    /\ IF MayDeclareSubsort(s, t)
         THEN LET super == [supersorts EXCEPT ![s] = @ \cup supersorts[t] \cup {t}] IN
              /\ supersorts' = super
              /\ subsorts' = [subsorts EXCEPT ![t] = @ \cup subsorts[s] \cup {s}]
              /\ decl' = decl \cup {<<s, t>>}
              /\ constants' = WithConstants(super, constants[s] \ constants[t], t)
         ELSE UNCHANGED <<relation, constants>>
    /\ UNCHANGED sort_index

(* add_const_internal for a name that is not a constant yet.               *)
AddConst(c, s) ==
    /\ s \in sorts /\ sort_index[c] = NoSort
    /\ sort_index' = [sort_index EXCEPT ![c] = s]
    /\ constants' = WithConstants(supersorts, {c}, s)
    /\ UNCHANGED <<sorts, relation>>

SortNext ==
    \/ \E s \in Sort : AddSort(s)
    \/ \E s, t \in Sort : AddSubsort(s, t)
    \/ \E c \in Const, s \in Sort : AddConst(c, s)

SortSpec == SortInit /\ [][SortNext]_sortVars

-----------------------------------------------------------------------------
subsort_p(s, t) == s = t \/ t \in supersorts[s]

(* greatest_common_subsort of two sorts: the results it may have, none if  *)
(* the result is -1.                                                       *)
CommonSubsorts(s, t) == subsorts[s] \cap subsorts[t]

GreatestCommonSubsorts(s, t) ==
    IF subsort_p(s, t) THEN {s}
    ELSE IF subsort_p(t, s) THEN {t}
    ELSE {u \in CommonSubsorts(s, t) :
            \A v \in CommonSubsorts(s, t) : subsort_p(u, v) => subsort_p(v, u)}

-----------------------------------------------------------------------------
SortTypeOK ==
    /\ sorts \subseteq Sort
    /\ supersorts \in [Sort -> SUBSET Sort]
    /\ subsorts \in [Sort -> SUBSET Sort]
    /\ constants \in [Sort -> SUBSET Const]
    /\ sort_index \in [Const -> Sort \cup {NoSort}]
    /\ decl \in SUBSET (Sort \X Sort)

(* A chain of declarations leads from sort s to sort t.                    *)
Reaches(s, t) ==
    \A T \in SUBSET Sort :
        s \in T /\ (\A u \in T, v \in Sort : <<u, v>> \in decl => v \in T) => t \in T

(* What the manual says of a subsort declaration, that every constant of   *)
(* the subsort is one of the supersort: a sort has exactly the constants   *)
(* declared with it or with a sort below it, through any number of         *)
(* declarations, in whatever order sorts and constants were declared.      *)
MembersExact ==
    \A s \in Sort :
        constants[s] = {c \in Const : sort_index[c] # NoSort /\ Reaches(sort_index[c], s)}
=============================================================================
