------------------------------- MODULE Queries -------------------------------
(***************************************************************************)
(* Queries (add_cnf_query and ask_cnf of src/src/cnf.c, the ask command of *)
(* input.c, and the query instances of ground.c), on top of Grounding.     *)
(*                                                                         *)
(* The command puts the query in query_table, for good, and its instances  *)
(* in query_instance_table; makes them a second time for ask_cnf, which    *)
(* finds them there; draws samples, which in lazy mode activates atoms;    *)
(* prints what the table of instances holds, and empties it.  A constant   *)
(* declared later makes instances of all the queries in query_table.       *)
(* The build is one with NDEBUG.  The assignment is not part of the state: *)
(* what unit propagation has fixed is a choice.                            *)
(***************************************************************************)
EXTENDS Grounding

CONSTANTS
    QueryFormulas,  \* the formulas that may be asked
    MaxFormulas,    \* bound on the queries and rules together
    NoQuery,        \* no ask command is being executed
    Ended           \* the process has ended

ASSUME QueriesAssumption ==
    /\ QueryFormulas \subseteq Formulas
    /\ MaxFormulas \in Nat
    /\ NoQuery \notin Formulas /\ Ended \notin Formulas /\ NoQuery # Ended

VARIABLES
    queries,   \* query_table
    qinsts,    \* query_instance_table; qs stands for query_indices
    asking     \* the formula of the ask command that is being executed

queryVars == <<queries, qinsts, asking>>
vars == <<sortVars, groundVars, queryVars>>

Init == GroundInit /\ queries = <<>> /\ qinsts = {} /\ asking = NoQuery

-----------------------------------------------------------------------------
(* The clauses of a query, which has no weight.                            *)
Asked == [f \in QueryFormulas |-> Pos[f]]

QueryLits(q, s) ==
    [k \in DOMAIN Asked[q.formula] |->
        [i \in DOMAIN Asked[q.formula][k] |-> GroundLit(Asked[q.formula][k][i], s)]]

AtomsOf(q, s) == {l.atom : l \in UNION {Range(C) : C \in Range(QueryLits(q, s))}}

(* all_query_instances_rec from what the buffer holds.                     *)
QuerySubsts(q, b, members) ==
    {s \in Substs[q.formula] : Completes(s, q, b, {}, members)}

(* substit_query: the constant's sort is the variable's or is known to be  *)
(* below it.                                                               *)
SortsFit(q, s, sortOf) == \A v \in Vars(q) : subsort_p(sortOf[s[v]], q.vsort[v])

(* Mistake: an instance that is there already is taken for the asked one's. *)
FiledOnce(found, q, n, S) ==
    found \cup {[lits |-> QueryLits(q, s), subst |-> s, qs |-> {n}] :
                    s \in {t \in S : \A i \in found : i.lits # QueryLits(q, t)}}

(* add_subst_query_instance: an instance that is there already is shared.  *)
Filed(found, q, n, S) ==
    LET made == {QueryLits(q, s) : s \in S} IN
    {IF i.lits \in made THEN [i EXCEPT !.qs = @ \cup {n}] ELSE i : i \in found}
    \cup {[lits |-> QueryLits(q, s), subst |-> s, qs |-> {n}] :
             s \in {t \in S : \A i \in found : i.lits # QueryLits(q, t)}}

(* check_query_instance in lazy mode: an instance may be left out for a    *)
(* literal that is fixed to be true; an atom before it that is not in the  *)
(* table is added by the assertion only, and looked up in vain.            *)
Checked(q) == lazy /\ NumVars[q.formula] > 0

MayBeFixed(q, s, table) ==
    LET lits == FlattenSeq(QueryLits(q, s)) IN
    /\ Checked(q)
    /\ \E i \in DOMAIN lits : ~IsDirect(lits[i]) /\ \A h \in 1..i : lits[h].atom \in table

AtomMissing(q, s, table) == Checked(q) /\ ~(AtomsOf(q, s) \subseteq table)

NewAtoms(q, S) == IF Checked(q) THEN {} ELSE UNION {AtomsOf(q, s) : s \in S}

-----------------------------------------------------------------------------
(* The ask command up to the samples.                                      *)
Ask(f) ==
    /\ asking = NoQuery /\ Len(queries) + Len(rules) < MaxFormulas
    /\ WellFormed(f)
    /\ \E q \in {[formula |-> f, vsort |-> x] : x \in VarSortings(f)} :
       \E fixed \in SUBSET {s \in QuerySubsts(q, EmptyBuffer, constants) : MayBeFixed(q, s, atoms)} :
        LET S == QuerySubsts(q, EmptyBuffer, constants) \ fixed
            fit == {s \in S : SortsFit(q, s, sort_index)}
            n == Len(queries) + 1
        IN
        /\ queries' = Append(queries, q)
        /\ asking' = IF \E s \in S : AtomMissing(q, s, atoms) THEN Ended ELSE f
        /\ qinsts' = Filed(Filed(qinsts, q, n, fit), q, n + 1, fit)
        /\ atoms' = atoms \cup NewAtoms(q, fit)
    /\ buffer' = IF NumVars[f] = 0 THEN buffer ELSE EmptyBuffer
    /\ UNCHANGED <<sortVars, lazy, preds, active, rules, insts, seen, late>>

(* The answers are printed; the query stays, its instances do not.         *)
Reply ==
    /\ asking \in Formulas
    /\ asking' = NoQuery
    /\ qinsts' = {}
    /\ UNCHANGED <<sortVars, groundVars, queries>>

(* create_new_const_query_instances, after the rules: query n is tried     *)
(* with the substitutions S for each <<n, S>> of tried.                    *)
QueryStep(acc, c, s, n, j) ==
    LET q == queries[n]
        b == NewConstBuffer(q, acc.buffer, j, c)
        S == QuerySubsts(q, b, constants')
    IN IF j > NumVars[q.formula] \/ q.vsort[j] # s THEN acc
       ELSE [tried |-> Append(acc.tried, <<n, S>>),
             buffer |-> IF S = {} THEN b ELSE [b EXCEPT ![NumVars[q.formula] + 1] = Open]]

QuerySteps(acc, c, s, n) ==
    FoldLeft(LAMBDA acc1, j : QueryStep(acc1, c, s, n, j), acc, [j \in 1..MaxVars |-> j])

NewConstQueries(c, s) ==
    FoldLeft(LAMBDA acc, n : QuerySteps(acc, c, s, n),
             [tried |-> <<>>, buffer |-> NewConstSearch(c, s).buffer],
             [n \in DOMAIN queries |-> n])

Fit(n, S, sortOf) == {t \in S : SortsFit(queries[n], t, sortOf)}

FiledTried(tried, fixed, sortOf) ==
    FoldLeft(LAMBDA found, x :
                 Filed(found, queries[x[1]], x[1],
                       {t \in Fit(x[1], x[2], sortOf) : <<x[1], t>> \notin fixed}),
             qinsts, tried)

DeclareConstant(c, s) ==
    LET search == NewConstQueries(c, s)
        pairs == UNION {{<<x[1], t>> : t \in x[2]} : x \in Range(search.tried)}
    IN
    /\ asking = NoQuery
    /\ AddConstant(c, s, search.buffer,
                   UNION {NewAtoms(queries[x[1]], Fit(x[1], x[2], sort_index')) :
                             x \in Range(search.tried)})
    /\ \E fixed \in SUBSET {x \in pairs : MayBeFixed(queries[x[1]], x[2], atoms')} :
        /\ qinsts' = FiledTried(search.tried, fixed, sort_index')
        /\ asking' = IF \E x \in pairs \ fixed : AtomMissing(queries[x[1]], x[2], atoms')
                       THEN Ended ELSE NoQuery
    /\ UNCHANGED queries

(* The other commands, between two ask commands.                           *)
Command ==
    /\ asking = NoQuery
    /\ \/ \E s \in Sort : DeclareSort(s)
       \/ \E s, t \in Sort : DeclareSubsort(s, t)
       \/ \E p \in Pred : AddPredicate(p)
       \/ \E f \in Formulas : Len(queries) + Len(rules) < MaxFormulas /\ AddRule(f)
       \/ \E f \in Formulas : AddGroundRule(f)
       \/ \E A \in AllAtoms : AssertAtom(A)
    /\ UNCHANGED queryVars

(* A search, for samples as such or for a query, activates an atom.        *)
Sample ==
    /\ asking # Ended
    /\ \E A \in AllAtoms : Activate(A)
    /\ UNCHANGED queryVars

Next ==
    \/ Command
    \/ Sample
    \/ \E c \in Const, s \in Sort : DeclareConstant(c, s)
    \/ \E f \in QueryFormulas : Ask(f)
    \/ Reply

Spec == Init /\ [][Next]_vars

-----------------------------------------------------------------------------
TypeOK ==
    /\ GroundTypeOK
    /\ \A n \in DOMAIN queries : queries[n].formula \in QueryFormulas
    /\ \A i \in qinsts :
          /\ i.qs \subseteq 1..(Len(queries) + 1)
          /\ asking # Ended =>
                {l.atom : l \in UNION {Range(C) : C \in Range(i.lits)}} \subseteq atoms
    /\ asking \in QueryFormulas \cup {NoQuery, Ended}

(* The instances that are filed under the query being asked, by the index  *)
(* it has in query_table or by the one that ask_cnf gives it, are its own, *)
(* each once, although instances are shared and those of earlier queries   *)
(* may be in the table.  Each well sorted substitution has its instance    *)
(* unless a literal may be fixed to be true, as long as each sort knows    *)
(* all of its supersorts.                                                  *)
AnswersAsked ==
    asking \in Formulas =>
        LET n == Len(queries)
            own == {i \in qinsts : i.qs \cap {n, n + 1} # {}}
            Lits(S) == {QueryLits(queries[n], s) : s \in S}
            all == WellSorted(queries[n])
        IN /\ \A i, j \in qinsts : i.lits = j.lits => i = j
           /\ \A i \in own : {n, n + 1} \subseteq i.qs
           /\ {i.lits : i \in own} \subseteq Lits(all)
           /\ (\A s, t \in Sort : Reaches(s, t) => subsort_p(s, t)) =>
                 Lits({s \in all : ~MayBeFixed(queries[n], s, atoms)}) \subseteq {i.lits : i \in own}
=============================================================================
