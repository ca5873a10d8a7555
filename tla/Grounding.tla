------------------------------ MODULE Grounding ------------------------------
(***************************************************************************)
(* Grounding (src/src/ground.c, with the commands of input.c and cnf.c     *)
(* that call it): the atoms and the instances of rules that follow from    *)
(* sorts, constants, predicates, facts and rules, given in any order.      *)
(* Queries adds the queries, and puts the commands together.               *)
(*                                                                         *)
(* In eager mode all atoms and all instances are made at once.  In lazy    *)
(* mode an instance is made when a clause of it may be false, the atoms    *)
(* that are not active being false; a search that makes an atom true       *)
(* activates it, which makes the instances it matters for.                 *)
(*                                                                         *)
(* A literal is [neg, atom], its atom <<predicate, arguments>>; in a rule  *)
(* an argument is the number of a variable or a constant.  A substitution  *)
(* gives each variable a constant; substit_buffer holds one that may be    *)
(* partial, and is shared by all the rules.  Every default value is false, *)
(* as in pred_default_value, and no atom of a formula repeats a variable.  *)
(* What a formula says and its clauses (module Cnf) are parameters.        *)
(***************************************************************************)
EXTENDS SortTable, Sequences, SequencesExt, Bags, TLC

CONSTANTS
    Pred,        \* predicate names
    Direct,      \* those declared direct: given by facts
    Signature,   \* the sorts of their arguments
    Formulas,    \* the weighted formulas that may be added, by name
    NumVars,     \* their numbers of variables
    Order,       \* their atoms, in the order they are made literals in
    Models,      \* what they say: the sets of their atoms that make them true
    Pos, Neg,    \* their clauses, and those of their negations
    Negative,    \* those that have a negative weight
    MaxVars,     \* bound on the variables of a formula
    MaxRules,    \* bound on the rules
    MaxDecls,    \* bound on the subsort declarations
    LazyModes,   \* the values lazy_mcsat() may have
    Open         \* an entry of substit_buffer that is not set (INT32_MIN)

ASSUME GroundingAssumption ==
    /\ Direct \subseteq Pred
    /\ \A p \in Pred : Signature[p] \in Seq(Sort)
    /\ MaxVars \in Nat /\ NumVars \in [Formulas -> 0..MaxVars]
    /\ LazyModes \subseteq BOOLEAN
    /\ IsFiniteSet(Const) /\ Const \cap (1..MaxVars) = {}
    /\ Open \notin Const

(* A formula has its variables and declared predicates with the right      *)
(* number of arguments, its clauses have its atoms, and they are all true  *)
(* exactly when it is, respectively when it is not.                        *)
AtomForms(f) ==
    UNION {{<<p, args>> : args \in [DOMAIN Signature[p] -> Const \cup 1..NumVars[f]]} : p \in Pred}

AtomsIn(f) == Range(Order[f])
Satisfied(C, T) == \E l \in Range(C) : (l.atom \in T) # l.neg

ASSUME FormulasAssumption ==
    \A f \in Formulas :
        /\ Order[f] \in Seq(AtomForms(f))
        /\ \A v \in 1..NumVars[f] : \E A \in AtomsIn(f) : v \in Range(A[2])
        /\ {Pos[f], Neg[f]} \subseteq Seq(Seq([neg : BOOLEAN, atom : AtomsIn(f)]))
        /\ \A N \in {Pos[f], Neg[f]} : \A A \in AtomsIn(f) :
              \E C \in Range(N) : \E l \in Range(C) : l.atom = A
        /\ \A T \in SUBSET AtomsIn(f) :
              /\ T \in Models[f] <=> \A C \in Range(Pos[f]) : Satisfied(C, T)
              /\ T \notin Models[f] <=> \A C \in Range(Neg[f]) : Satisfied(C, T)

VARIABLES
    lazy,      \* lazy_mcsat()
    preds,     \* the predicates in pred_table
    atoms,     \* the atoms in atom_table
    active,    \* those that are active; of direct ones, those that hold
    rules,     \* the samp_rules of rule_table
    insts,     \* rule_inst_table, a bag
    seen,      \* subst_hash of the rules
    buffer,    \* substit_buffer
    late       \* history: what was declared after something that depends on it

groundVars == <<lazy, preds, atoms, active, rules, insts, seen, buffer, late>>

EmptyBuffer == [v \in 1..(MaxVars + 1) |-> Open]

GroundInit ==
    /\ SortInit
    /\ lazy \in LazyModes
    /\ preds = {} /\ atoms = {} /\ active = {}
    /\ rules = <<>> /\ insts = EmptyBag /\ seen = {}
    /\ buffer = EmptyBuffer
    /\ late = {}

-----------------------------------------------------------------------------
(* Literals under a substitution (rule_atom_to_samp_atom).                 *)
Args(A) == A[2]
ArgOf(x, s) == IF x \in Const THEN x ELSE s[x]
AtomOf(l, s) == <<l.atom[1], [i \in DOMAIN Args(l.atom) |-> ArgOf(Args(l.atom)[i], s)]>>

IsDirect(l) == l.atom[1] \in Direct

(* A samp_rule has the clauses of its formula or of the negation.          *)
Normal ==
    [f \in Formulas |-> IF f \in Negative THEN Neg[f] ELSE Pos[f]]

Clauses(r) == Normal[r.formula]
Vars(r) == 1..NumVars[r.formula]

(* rule_literal_default_value is 1.                                        *)
DefaultTrue(l) == l.neg

(* get_rule_literal_tval when the atoms of the set on are active.          *)
LitValue(l, s, on) ==
    IF AtomOf(l, s) \in on /\ ~IsDirect(l) THEN "open"
    ELSE IF (AtomOf(l, s) \in on) # l.neg THEN "true" ELSE "false"

(* check_rule_instance_falsifiable: a clause whose direct literals are all *)
(* false is no exception, since check_clause_falsifiable returns a bool.   *)
Falsifiable(r, s, on) ==
    \E k \in DOMAIN Clauses(r) :
        \A l \in Range(Clauses(r)[k]) : LitValue(l, s, on) # "true"

(* rule_clause_to_samp_clause: direct literals are evaluated; a clause     *)
(* that one of them satisfies, or that has no others, is left out.  The    *)
(* atoms of the literals before the satisfying one are added nevertheless. *)
DirectTrue(l, s) == IsDirect(l) /\ LitValue(l, s, active) = "true"
GroundLit(l, s) == [neg |-> l.neg, atom |-> AtomOf(l, s)]

ClauseInst(C, s) ==
    IF \E l \in Range(C) : DirectTrue(l, s) THEN {}
    ELSE {GroundLit(l, s) : l \in {m \in Range(C) : ~IsDirect(m)}}

(* Mistake: the atoms of negated literals are not added.                   *)
AddedPositive(C, s) == {AtomOf(l, s) : l \in {m \in Range(C) : ~IsDirect(m) /\ ~m.neg}}

AddedAtoms(C, s) ==
    {AtomOf(C[i], s) : i \in {j \in DOMAIN C :
        ~IsDirect(C[j]) /\ \A h \in 1..j : ~DirectTrue(C[h], s)}}

(* samp_rule_to_rule_instance *)
InstClauses(r, s) == {ClauseInst(C, s) : C \in Range(Clauses(r))} \ {{}}

-----------------------------------------------------------------------------
(* all_rule_instances_rec: every way to fill what is open in the buffer;   *)
(* a variable that a literal has been matched for needs no filling.        *)
Completes(s, r, b, bound, members) ==
    \A v \in Vars(r) :
        IF b[v] # Open THEN s[v] = b[v]
        ELSE v \in bound \/ s[v] \in members[r.vsort[v]]

Substs == [f \in Formulas |-> [1..NumVars[f] -> Const]]

(* smart_clause_instance_rec and what it calls.  Each clause that is false *)
(* as long as facts are missing is tried for a literal that a fact makes   *)
(* true.  Then, for one unfixed clause at a time, its literals that are    *)
(* true by default are matched with active atoms, and the rest is filled.  *)
(* When some clause has no such literal everything is filled at once.      *)
AllDirect(C) == \A l \in Range(C) : IsDirect(l)
NoneDefaultTrue(C) == \A l \in Range(C) : ~DefaultTrue(l)

FixedFalse ==
    [f \in Formulas |->
        {k \in DOMAIN Normal[f] : AllDirect(Normal[f][k]) /\ NoneDefaultTrue(Normal[f][k])}]

Targets ==
    [f \in Formulas |->
        LET unfixed == {k \in DOMAIN Normal[f] : ~AllDirect(Normal[f][k])} IN
        IF \E k \in unfixed : NoneDefaultTrue(Normal[f][k]) THEN {0} ELSE unfixed]

LitsOf ==
    [f \in Formulas |-> UNION {{<<k, i>> : i \in DOMAIN Normal[f][k]} : k \in DOMAIN Normal[f]}]

LitAt(f, o) == Normal[f][o[1]][o[2]]

LitChoices ==
    [f \in Formulas |->
        {choice \in [FixedFalse[f] -> {o[2] : o \in LitsOf[f]}] :
            \A h \in FixedFalse[f] : <<h, choice[h]>> \in LitsOf[f]}]

(* Mistake: literals that are false by default are matched too.            *)
ToMatchAll(f, choice, k, given) ==
    {<<h, choice[h]>> : h \in FixedFalse[f]} \cup {o \in LitsOf[f] : o[1] = k /\ o # given}

(* The literals to match on the way to clause k; given is the one that the *)
(* activated atom has been matched with.                                   *)
ToMatch(f, choice, k, given) ==
    {<<h, choice[h]>> : h \in FixedFalse[f]}
    \cup {o \in LitsOf[f] : o[1] = k /\ DefaultTrue(LitAt(f, o)) /\ o # given}

(* The ways to a substitution: one that is reached twice is instantiated   *)
(* twice.                                                                  *)
Routes(r, b, given, members, on) ==
    LET f == r.formula IN
    UNION {
        LET L == {LitAt(f, o) : o \in ToMatch(f, x[1], x[2], given)}
            bound == UNION {Range(Args(l.atom)) : l \in L}
        IN {<<x, s>> : s \in {t \in Substs[f] :
                /\ Completes(t, r, b, bound, members)
                /\ \A l \in L : AtomOf(l, t) \in on}}
        : x \in LitChoices[f] \X Targets[f]}

BruteRoutes(r, b, members) ==
    {<<0, s>> : s \in {t \in Substs[r.formula] : Completes(t, r, b, {}, members)}}

(* A search: the routes found so far and the buffer.  The end of a         *)
(* substitution clears the entry after it.                                 *)
NewSearch(b) == [found |-> {}, buffer |-> b]

Searched(acc, n, r, tag, b, routes) ==
    [found |-> acc.found \cup {[rule |-> n, subst |-> x[2], via |-> <<tag, x>>] : x \in routes},
     buffer |-> IF routes = {} THEN b ELSE [b EXCEPT ![NumVars[r.formula] + 1] = Open]]

(* substit_rule for all that has been found.                               *)
WorthMaking(rs, found, on) ==
    {d \in {<<x.rule, x.subst>> : x \in found} :
        lazy => d \notin seen /\ Falsifiable(rs[d[1]], d[2], on)}

Copies(found, d) ==
    IF lazy THEN 1 ELSE Cardinality({x \in found : <<x.rule, x.subst>> = d})

InstOf(rs, d) == [rule |-> d[1], subst |-> d[2], clauses |-> InstClauses(rs[d[1]], d[2])]

(* add_internal_rule_instance: the same instance may be added again.       *)
AddRuleInstances(bag) == insts' = insts (+) bag

Instantiate(rs, search, on, new) ==
    LET made == WorthMaking(rs, search.found, on)
        kept == {d \in made : InstClauses(rs[d[1]], d[2]) # {}}
    IN
    /\ AddRuleInstances([i \in {InstOf(rs, d) : d \in kept} |->
                            Copies(search.found, <<i.rule, i.subst>>)])
    /\ seen' = IF lazy THEN seen \cup made ELSE seen
    /\ atoms' = atoms \cup new
                \cup UNION {UNION {AddedAtoms(C, d[2]) : C \in Range(Clauses(rs[d[1]]))} : d \in made}
    /\ buffer' = search.buffer
    /\ rules' = rs

-----------------------------------------------------------------------------
Late(what, is) == late' = IF is THEN late \cup {what} ELSE late

(* Sorts and subsorts are declared; nothing is grounded again.             *)
DeclareSort(s) ==
    /\ s \notin sorts
    /\ AddSort(s)
    /\ UNCHANGED groundVars

DeclareSubsort(s, t) ==
    /\ Cardinality(decl) < MaxDecls
    /\ MayDeclareSubsort(s, t)
    /\ AddSubsort(s, t)
    /\ Late("sort", preds # {})
    /\ UNCHANGED <<lazy, preds, atoms, active, rules, insts, seen, buffer>>

(* The ground atoms of a predicate.                                        *)
GroundAtoms(p, members) ==
    {<<p, args>> : args \in {x \in [DOMAIN Signature[p] -> Const] :
                               \A i \in DOMAIN x : x[i] \in members[Signature[p][i]]}}

(* add_pred: a new name with a signature of sorts that are known.          *)
AddPred(p) ==
    /\ p \notin preds
    /\ Range(Signature[p]) \subseteq sorts
    /\ preds' = preds \cup {p}

(* add_predicate: in eager mode all_pred_instances.                        *)
AddPredicate(p) ==
    /\ AddPred(p)
    /\ atoms' = IF lazy THEN atoms ELSE atoms \cup GroundAtoms(p, constants)
    /\ UNCHANGED <<sortVars, lazy, active, rules, insts, seen, buffer, late>>

(* new_const_atoms_at: the atoms of p with the new constant at place j.    *)
NewConstAtomsAt(p, j, c) ==
    {A \in GroundAtoms(p, [u \in Sort |-> constants'[u] \cup {c}]) :
        /\ Args(A)[j] = c
        /\ \A i \in DOMAIN Args(A) \ {j} : Args(A)[i] \in constants'[Signature[p][i]]}

(* Mistake: only atoms for arguments of exactly the constant's sort, as in *)
(* create_new_const_query_instances.                                       *)
NewConstAtomsExact(c, s) ==
    UNION {UNION {NewConstAtomsAt(p, j, c) : j \in {i \in DOMAIN Signature[p] : s = Signature[p][i]}}
           : p \in preds}

(* create_new_const_atoms *)
NewConstAtoms(c, s) ==
    UNION {UNION {NewConstAtomsAt(p, j, c) :
                    j \in {i \in DOMAIN Signature[p] : subsort_p(s, Signature[p][i])}}
           : p \in preds}

(* create_new_const_rule_instances: for every rule and every variable that *)
(* the constant fits.  The loop that should clear the entries of the other *)
(* variables clears the entry of this one.                                 *)
NewConstBuffer(r, b, j, c) == [b EXCEPT ![j] = IF NumVars[r.formula] > 1 THEN Open ELSE c]

NewConstSearch(c, s) ==
    FoldLeft(LAMBDA acc, x :
        LET n == ((x - 1) \div MaxVars) + 1
            j == ((x - 1) % MaxVars) + 1
            r == rules[n]
            b == NewConstBuffer(r, acc.buffer, j, c)
        IN IF j <= NumVars[r.formula] /\ subsort_p(s, r.vsort[j])
             THEN Searched(acc, n, r, j, b, Routes(r, b, <<0, 0>>, constants', active))
             ELSE acc,
        NewSearch(buffer), [x \in 1..(Len(rules) * MaxVars) |-> x])

(* add_constant; end is the buffer and new the atoms after the queries.    *)
AddConstant(c, s, end, new) ==
    /\ AddConst(c, s)
    /\ Instantiate(rules, [NewConstSearch(c, s) EXCEPT !.buffer = end], active,
                   new \cup IF lazy THEN {} ELSE NewConstAtoms(c, s))
    /\ Late("const", rules # <<>>)
    /\ UNCHANGED <<lazy, preds, active>>

-----------------------------------------------------------------------------
(* atom_to_rule_literal: what the formula uses is declared, its constants  *)
(* have the right sort, and the sort of a variable is narrowed down from   *)
(* one place it stands in to the next.                                     *)
Occurrences(f, v) ==
    FlattenSeq([i \in DOMAIN Order[f] |->
        LET A == Order[f][i] IN
        FlattenSeq([j \in DOMAIN Args(A) |->
            IF Args(A)[j] = v THEN <<Signature[A[1]][j]>> ELSE <<>>])])

Places == [f \in Formulas |-> [v \in 1..NumVars[f] |-> Occurrences(f, v)]]

VarSorts(f, v) ==
    FoldLeft(LAMBDA S, t : UNION {GreatestCommonSubsorts(s, t) : s \in S},
             {Head(Places[f][v])}, Tail(Places[f][v]))

VarSortings(f) ==
    LET may == [v \in 1..NumVars[f] |-> VarSorts(f, v)] IN
    {x \in [1..NumVars[f] -> UNION Range(may)] : \A v \in DOMAIN x : x[v] \in may[v]}

WellFormed(f) ==
    \A A \in AtomsIn(f) :
        /\ A[1] \in preds
        /\ \A j \in DOMAIN Args(A) :
             Args(A)[j] \in Const => Args(A)[j] \in constants[Signature[A[1]][j]]

(* add_cnf for a formula with variables.                                   *)
AddRule(f) ==
    /\ NumVars[f] > 0 /\ Len(rules) < MaxRules
    /\ WellFormed(f)
    /\ \E vsort \in VarSortings(f) :
            LET r == [formula |-> f, vsort |-> vsort]
                routes == IF lazy THEN Routes(r, EmptyBuffer, <<0, 0>>, constants, active)
                                  ELSE BruteRoutes(r, EmptyBuffer, constants)
                search == Searched(NewSearch(EmptyBuffer), Len(rules) + 1, r, 0, EmptyBuffer, routes)
            IN Instantiate(Append(rules, r), search, active, {})
    /\ UNCHANGED <<sortVars, lazy, preds, active, late>>

(* add_cnf for a formula without variables: an instance at once, in which  *)
(* direct literals stay.                                                   *)
AddGroundRule(f) ==
    LET ground == {{GroundLit(l, <<>>) : l \in Range(C)} : C \in Range(Normal[f])}
        i == [rule |-> 0, subst |-> <<>>, clauses |-> ground]
    IN
    /\ NumVars[f] = 0 /\ BagCardinality(insts) < MaxRules
    /\ WellFormed(f)
    /\ AddRuleInstances(SetToBag({i}))
    /\ atoms' = atoms \cup {l.atom : l \in UNION ground}
    /\ UNCHANGED <<sortVars, lazy, preds, active, rules, seen, buffer, late>>

Mentions(r, p) == \E o \in LitsOf[r.formula] : LitAt(r.formula, o).atom[1] = p

(* assert_atom, add_atom and add_internal_atom: a new atom grounds the     *)
(* rules that mention its predicate, with whatever the buffer holds, and   *)
(* becomes true after that.  Its arguments need not fit the signature.     *)
FactSearch(p) ==
    FoldLeft(LAMBDA acc, n :
        IF Mentions(rules[n], p)
          THEN Searched(acc, n, rules[n], 0, acc.buffer, BruteRoutes(rules[n], acc.buffer, constants))
          ELSE acc,
        NewSearch(buffer), [n \in DOMAIN rules |-> n])

AssertAtom(A) ==
    /\ A[1] \in preds \cap Direct /\ A \notin active
    /\ \A j \in DOMAIN Args(A) : sort_index[Args(A)[j]] # NoSort
    /\ Instantiate(rules, IF A \in atoms THEN NewSearch(buffer) ELSE FactSearch(A[1]), active, {A})
    /\ active' = active \cup {A}
    /\ Late("fact", rules # <<>>)
    /\ UNCHANGED <<sortVars, lazy, preds>>

(* match_atom_in_rule_atom: the buffer holds the arguments up to a         *)
(* constant that differs.                                                  *)
Agree(l, A, i) == Args(l.atom)[i] \in Const => Args(l.atom)[i] = Args(A)[i]

MatchBuffer(l, A) ==
    [v \in DOMAIN EmptyBuffer |->
        LET at == {i \in DOMAIN Args(A) :
                     Args(l.atom)[i] = v /\ \A h \in 1..i : Agree(l, A, h)}
        IN IF at = {} THEN Open ELSE Args(A)[CHOOSE i \in at : TRUE]]

(* activate_rules *)
ActivateLit(acc, n, o, A) ==
    LET r == rules[n]
        l == LitAt(r.formula, o)
        b == MatchBuffer(l, A)
    IN IF l.atom[1] # A[1] THEN acc
       ELSE IF \E i \in DOMAIN Args(A) : ~Agree(l, A, i) THEN [acc EXCEPT !.buffer = b]
       ELSE Searched(acc, n, r, o, b, Routes(r, b, o, constants, active \cup {A}))

ActivateClause(acc, n, k, A) ==
    FoldLeft(LAMBDA acc2, i : ActivateLit(acc2, n, <<k, i>>, A),
             acc, [i \in DOMAIN Clauses(rules[n])[k] |-> i])

ActivateRule(acc, n, A) ==
    FoldLeft(LAMBDA acc1, k : ActivateClause(acc1, n, k, A),
             acc, [k \in DOMAIN Clauses(rules[n]) |-> k])

ActivateSearch(A) ==
    FoldLeft(LAMBDA acc, n : ActivateRule(acc, n, A),
             NewSearch(buffer), [n \in DOMAIN rules |-> n])

(* activate_atom: a search makes an atom true, or picks one that is not in *)
(* the table yet (choose_random_atom).                                     *)
Activate(A) ==
    /\ lazy /\ A[1] \in preds \ Direct /\ A \notin active
    /\ A \in atoms \/ A \in GroundAtoms(A[1], constants)
    /\ Instantiate(rules, ActivateSearch(A), active \cup {A}, {A})
    /\ active' = active \cup {A}
    /\ UNCHANGED <<sortVars, lazy, preds, late>>

-----------------------------------------------------------------------------
AllAtoms == UNION {{<<p, args>> : args \in [DOMAIN Signature[p] -> Const]} : p \in Pred}

-----------------------------------------------------------------------------
GroundTypeOK ==
    /\ SortTypeOK
    /\ preds \subseteq Pred
    /\ atoms \subseteq AllAtoms /\ active \subseteq atoms
    /\ IsABag(insts)
    /\ \A i \in BagToSet(insts) : i.rule \in 0..Len(rules) /\ {l.atom : l \in UNION i.clauses} \subseteq atoms
    /\ seen \subseteq {<<n, s>> : n \in DOMAIN rules, s \in UNION Range(Substs)}
    /\ buffer \in [1..(MaxVars + 1) -> Const \cup {Open}]
    /\ late \subseteq {"sort", "const", "fact"}

WellSorted(r) == {s \in Substs[r.formula] : \A v \in Vars(r) : s[v] \in constants[r.vsort[v]]}

(* The atoms of a formula under a substitution that are not given by facts.*)
OpenAtoms(r, s) == {AtomOf(l, s) : l \in {m \in UNION {Range(C) : C \in Range(Clauses(r))} : ~IsDirect(m)}}

(* The formula a rule stands for is true, of all atoms those of T being    *)
(* true beside the facts.                                                  *)
Facts == {A \in active : A[1] \in Direct}
Given(A, s) == AtomOf([neg |-> FALSE, atom |-> A], s)
Holds(r, s, T) ==
    ({A \in AtomsIn(r.formula) : Given(A, s) \in T \cup Facts} \in Models[r.formula])
        # (r.formula \in Negative)

ClausesHold(i, T) == \A C \in i.clauses : \E l \in C : (l.atom \in T) # l.neg

(* A substitution whose instance the program has to have: given the facts  *)
(* the formula can be true, and it can be false, which in lazy mode needs  *)
(* to be so with all inactive atoms false.                                 *)
Needed(r, s) ==
    LET free == OpenAtoms(r, s) IN
    /\ \E T \in SUBSET free : Holds(r, s, T)
    /\ \E T \in SUBSET (IF lazy THEN free \cap active ELSE free) : ~Holds(r, s, T)

InstancesOf(n, s) == {i \in BagToSet(insts) : i.rule = n /\ i.subst = s}

(* Each instance once: when sorts, constants and facts came before the     *)
(* rules they matter for, every well sorted substitution that matters has  *)
(* exactly one instance, which says the same as the formula (or its        *)
(* negation, for a negative weight); so does the one of a ground formula.  *)
(* In lazy mode, where instances are made as the search goes on, no        *)
(* instance is ever made twice.                                            *)
NeededOnce ==
    /\ late = {} =>
         \A n \in DOMAIN rules : \A s \in WellSorted(rules[n]) :
            Needed(rules[n], s) =>
                \E i \in InstancesOf(n, s) :
                    /\ insts[i] = 1 /\ InstancesOf(n, s) = {i}
                    /\ \A T \in SUBSET OpenAtoms(rules[n], s) :
                          ClausesHold(i, T) = Holds(rules[n], s, T)
    /\ \A i \in BagToSet(insts) : i.rule = 0 =>
         \E f \in Formulas : NumVars[f] = 0 /\ \A T \in SUBSET AtomsIn(f) :
            ClausesHold(i, T) = ((T \in Models[f]) # (f \in Negative))
    /\ lazy => \A i \in BagToSet(insts) : i.rule # 0 =>
                  insts[i] = 1 /\ InstancesOf(i.rule, i.subst) = {i}

(* In eager mode every ground atom is in the table, whether its predicate  *)
(* or its constants came first; as long as the sorts came before both and  *)
(* each sort knows all of its supersorts.                                  *)
AtomsComplete ==
    ~lazy /\ "sort" \notin late
      /\ (\A s, t \in Sort : Reaches(s, t) => subsort_p(s, t))
      => UNION {GroundAtoms(p, constants) : p \in preds} \subseteq atoms

(* A rule is the axiom that it holds for all its constants (pce.adoc):     *)
(* in eager mode there is one instance for each substitution that matters, *)
(* whether constants are declared before or after the rule.                *)
RuleIsAxiom ==
    ~lazy /\ late \subseteq {"const"} =>
        \A n \in DOMAIN rules : \A s \in WellSorted(rules[n]) :
            Needed(rules[n], s) => \E i \in InstancesOf(n, s) : insts[i] = 1

=============================================================================
