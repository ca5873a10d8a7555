# A TLA+ verification of PCE

PCE, the Probabilistic Consistency Engine, does inference in Markov logic
networks: weighted clauses ("rules") over ground atoms, some of the atoms facts
of a database. It samples worlds with MC-SAT, whose steps are solved with
SampleSAT, and reports how often an atom, or a query, was true in the samples.
MaxWalkSAT looks for a single best world instead. The clauses come from
formulas over sorts, constants and predicates, which a session or an XML-RPC
client declares one by one, and which are turned into instances as they come.

This directory holds TLA+ models of that program, configurations that check them
with TLC, and proofs checked with TLAPS. Paths are relative to the repository
(`src/src/walksat.c` is `walksat.c` below). Which lines a definition stands for
is recorded in `PROJECT.json` under `map`.

## 1. The system

| component | where | state | operations |
|---|---|---|---|
| truth values, literals | `tables.h`, `utils.h`, `utils.c` | none | six values: `false`/`true` times free, fixed by unit propagation (`up`), fixed by the database (`db`); negation, evaluation of a clause |
| clause lists | `walksat.c`, `tables.h` | two assignment arrays, the values of the rules, the live, unsat and sat lists, a watched list per literal and per rule, `num_unfixed_vars`, `unsat_weight`, `sat_weight` | initialise, scan with unit propagation, update an atom, flip, cost of a flip |
| SampleSAT | `samplesat.c` | its flip counters | `first_sample_sat`, `sample_sat`: scan, randomise, walk, extra flips, drop the marks |
| MC-SAT | `mcmc.c` | round, backup assignment, samples, `pmodel` | initial model, rounds on a part of the satisfied rules, samples, Gibbs steps, timeout |
| MaxWalkSAT | `walksat.c` | trial, flip, `unsat_soft_rules`, best cost and assignment | flip an atom, switch a soft rule off or on, keep the best |
| sample counts | `mcmc.c`, `tables.c`, `print.c`, `cnf.c`, `input.c` | `num_samples`, `pmodel` and `sampling_nums` per atom, `pmodel` and `sampling_num` per query instance, a copy of it all per thread | run in place, run in threads, merge, add an atom, assert a fact, reset, answer, print |
| sort and constant tables | `tables.c` | sorts with lists of supersorts, subsorts and constants; the sort of each constant | declare a sort, a subsort, a constant |
| grounding, lazy activation | `ground.c`, `cnf.c`, `input.c` | atoms, active atoms, rules, rule instances, the substitutions seen, one substitution buffer | add a constant, a rule, a fact; activate an atom |
| queries | `cnf.c`, `ground.c`, `input.c` | the queries, their instances with the queries they belong to | ask: file the instances, sample, print, empty the table |
| clausal form | `cnf.c` | none | formulas to clauses |
| hash maps | `hash_map.c`, `array_hash_map.c` | cells, number of keys and of deleted marks | get, find, remove, resize |
| server | `xpce.c` | a mutex, the parser's list of variables, message buffers, the answer buffer | one handler per XML-RPC method |
| clause list as linked list | `clause_list.c` | head, tail, link, length | push, pop, concatenate, remove |
| assertion sources | `tables.c` | who asserted which fact or clause | add, retract |
| parser, commands, printing | `yacc.y`, `parser.c`, `input.c`, `print.c` | read buffers, output buffers | text to commands, tables to text |
| weight learning | `weight_learning.c`, `training_data.c` | weights | gradient ascent that calls `mc_sat` |

How they interact. Everything is a call, and the state is one `samp_table_t`
passed along. `mc_sat` calls SampleSAT once for an initial model and once per
round; between two rounds it makes rules alive or dead, and backs the assignment
up. SampleSAT and MaxWalkSAT share the operations on the clause lists. Threads
exist in two places: `mc_sat` may run several samplers, each on a deep copy of
the table, and merge their counts; the XML-RPC server runs each request in a
thread of its own and serialises most of the work with a mutex. The commands
fill the sort, predicate and atom tables; grounding reads them and fills the
table of rule instances, which is what the samplers work on, and in lazy mode a
sampler that flips an atom calls grounding back, in the middle of a flip or a scan. The hash maps are what
grounding uses to remember which atoms and which substitutions it has made. There is no persistence, and no message passing but the server's.

What is hard, and what makes each part correct:

* **Clause lists.** A clause has one link and moves between seven kinds of
  list, and a change of a value in the middle of a scan puts clauses back on the
  list that is being scanned. Correct means: a clause is in one list at most; a
  watched clause is watched by a true literal; the unsat list holds false
  clauses; what leaves the lists that flips look at is settled; no clause is
  lost; the count of free atoms is right; what is fixed is entailed.
* **SampleSAT.** Its answer is a model when there is one and the unsat list is
  empty; it always has an atom to flip; its cost is the real one; it returns.
* **MC-SAT.** It implements a Markov chain whose states are models of the hard
  rules, whatever searches fail in between; it draws the number of samples it
  was asked for; it ends.
* **MaxWalkSAT.** Switched-off rules excuse exactly their own clauses; the
  weight it minimises bounds what the assignment loses; a call that stops early
  has satisfied everything.
* **Counts.** A reported number is a frequency in the right set of samples, over
  several runs, threads, resets, and atoms added late.
* **Sorts.** A constant is pushed to all sorts above its own, through lists that
  are neither transitive nor inverse to each other. Correct means: each sort has
  exactly the constants it should, in whatever order things were declared.
* **Grounding.** Four searches (all substitutions, those facts allow, those with
  a new constant, those an activated atom matters for) make instances, at times
  nobody planned, with a buffer they share. Correct means: each substitution
  that matters has exactly one instance, and it says what the formula says.
* **Queries.** The table of instances is shared by all queries and filled twice
  for each; a constant declared later fills it again. Correct means: what is
  filed under the query being asked is its own instances, each once.
* **Hash maps.** Searches rest on deleted marks and on an empty cell at the end;
  a count of marks that is only an upper bound decides when to rebuild. Correct
  means: a search ends, and the table is a partial function.
* **Server.** Correct means: requests take effect one at a time, each with its
  own formula and its own answer, and each is answered, with its errors.

`PROJECT.json` lists the hazards at their lines.

## 2. The modules

    TruthValues ─ WalkSat ┬─ SampleSat ┬─ McSat ┬─ MCMcSat
                          │            │        └─ McSatProofs   (with WalkSatProofs)
                          │            ├─ LazySat ┬─ MCLazySat
                          │            │          └─ LazySatProofs   (with WalkSatProofs)
                          │            └─ MCSampleSat
                          ├─ MwSat ┬─ MCMwSat
                          │        └─ MwSatProofs   (with WalkSatProofs, Sums)
                          └─ WalkSatProofs
    TruthValues ─ MarkovChain   (abstract; McSat implements it)
    SampleCounts ┬─ MCSampleCounts
                 └─ TableProofs   (with HashMap, Sums)
    SortTable ── Grounding ── Queries ┬─ MCGrounding     (with Cnf)
                                      └─ GroundingProofs   (with Sums)
    IntMap  (abstract)        HashMap ┬─ MCHashMap   (implements IntMap)
                                      └─ TableProofs
    SerialServer (abstract)   Server ┬─ MCServer     (implements SerialServer)
                                     └─ ServerProofs

**TruthValues** (`tables.h`, `utils.h`, `utils.c`). The values, the tests on
them (`assigned_fixed_true_lit` and so on) and `SatClause`. `v_undef` is left
out: an atom in the table never has it.

**WalkSat** (`walksat.c`). The clause lists as variables and the operations on
them. A list is a *set* of clauses, so a scan may take any of them first: what
is checked holds for every order. `Scan` is one iteration of
`scan_live_clauses`, with everything it calls (`insert_live_clause`,
`update_atom_tval`, `link_propagate`); the loop around it is a phase of the
caller, which is possible because nothing else happens until `live` is empty.
`FlipVariable`, `InitLiveClauses` and the costs are operators for the modules
that extend this one. A unit that is found makes its literal true *inside* the
scan step, and moves the clauses of the opposite literal back to `live`, as the
code does.

**SampleSat** (`samplesat.c`). One call is `CallSampleSat`, scans (`init`),
`Randomize` (`settle`), `StartWalk` and `WalkStep` (`walk`), `ExtraStep`
(`extra`) and `Return`. The module leaves its caller open: a call may start from
any values of the free atoms with any set of rules alive, which includes all
calls the program makes.

**McSat** (`mc_sat_internal`, `perturb_assignment`, `gibbs_sample` of `mcmc.c`).
The caller, with a program counter `mpc` of its own. It acts only while the
solver is idle or its lists are scanned. The two assignment arrays of the code
are `assignment` (the current one) and `other`.

**MarkovChain**. The abstract specification: at a model of the hard rules; keep
the hard rules and some satisfied soft ones; move to a model of what was kept,
or stay. It knows nothing of lists, flips or backups. `McSat!Chain` is the
refinement mapping: during a search the chain is still where the backup is.

**LazySat** (`mc_sat_internal`, `sample_sat`, `update_atom_tval`,
`activate_atom`, `push_newly_activated_rule_instance`, `choose_random_atom`).
MC-SAT in lazy mode, without Gibbs steps: the rounds again, around a search that
makes rule instances while it runs. `Rules` are the instances the eager mode would
make; `made` are those that are in the table. `MakeTrue` is `update_atom_tval`
when a value changes: an atom that becomes true for the first time is activated,
inside a flip, inside the random start, or inside unit propagation in the midst of
a scan, and the clauses of the `Fresh` instances join `live`. The random start is a
loop of its own here (`StartRandom`, `RandomFlip`, `EndRandom`), because it runs
through atoms that it adds on the way, and scans nothing before it is through.
What `activate_rules` finds is taken from Grounding: `NeededOnce` there shows that
its searches find each instance that may be false, once.

**MwSat** (`mw_sat` of `walksat.c`). One call from the start of the program,
with atoms that are all free. `StartTrial`, `Scan`, three kinds of flip (an
atom; a soft rule switched off, or on), `FoundAll`, `KeepBest`, `EndTrial`,
`Finish`.

**SampleCounts** (`mc_sat`, `mc_sat_thread`, `clone_samp_table`,
`merge_atom_tables`, `merge_query_instance_tables`, `add_internal_atom`, `assert_atom`,
`ask_cnf`, the reset command, `print_atoms`, `atom_probability`, `query_probability`).
What a sample is comes from outside: the facts, and any of the atoms whose predicate
is not direct. Facts may be asserted between any two runs, of atoms that are new and
of atoms that were counted as false so far (`AssertAtom`). `AtomSamples` is the column
`#samples` of `print_atoms`, `AtomProbability` the column `prob`. The history variables
`drawn`, `truth`, `born`, `before` and `hits` count what really happened; the
code never sees them.

**SortTable** (`add_sort`, `add_subsort`, `add_subsort_consts_to_supersort`,
`add_const_to_sort`, `subsort_p`, `greatest_common_subsort` of `tables.c`). The
three lists of each sort are sets. `add_const_to_sort` is recursive and stops at
a sort that has the constant; `Receives` is what that recursion reaches, stated
as a least fixed point, so that it can be proved about. `greatest_common_subsort`
is ambiguous when a sort has several maximal common subsorts; the model returns
any of them. `decl` is a history of the declarations.

**Cnf** (`cnf_pos`, `cnf_neg`, `cnf_product`, `cnf_union` of `cnf.c`). A recursive
translation, and the truth of a formula to compare it with: `CnfAgrees` compares them
for every formula over two atoms with connectives nested two deep.

**Grounding** (`ground.c`, and the parts of `input.c`, `tables.c` and `cnf.c`
that call it). One operation per command, put together in Queries: `DeclareSort`, `DeclareSubsort`,
`AddPredicate`, `AddConstant`, `AddRule`, `AddGroundRule`, `AssertAtom`, and
`Activate` for what a search in lazy mode calls. An action does everything the
command does, all the instances it makes included. The recursive searches of
`ground.c` become sets of routes: `BruteRoutes` is
`all_rule_instances_rec`, `Routes` is `smart_all_rule_instances` with the
literals it chooses to match; each route is one way to reach a substitution,
`Searched` keeps those that the table of seen substitutions lets through, and
hands on the buffer as the search leaves it. What a formula says and its clauses are
parameters (`Models`, `Pos`, `Neg`, and `Order` for its atoms as the code comes by
them), with the law that relates them as an assumption
(`FormulasAssumption`); MCGrounding takes them from Cnf. So nothing that is proved
here depends on how the clauses are made. `insts` is a bag, because the
question is whether an instance is made twice. `late` is a history of what was
declared after something that depends on it.

**Queries** (`add_cnf_query`, `ask_cnf`, and the query half of `ground.c`). `Ask`
is the ask command up to its samples: the query is put in `query_table`, and its
instances are filed under the index it has there, and once more by `ask_cnf`,
whose query is in no table, under the index after the last. `Sample` is what the
samples do to the tables; `Reply` prints and empties the table of instances.
`DeclareConstant` is the whole of `add_constant`: atoms, rule instances, then
the instances of every query ever asked, with the same buffer.
`check_query_instance` leaves out, in lazy mode, an instance with a literal that
unit propagation has fixed to be true: the assignment is not part of the state,
so the model leaves out any that may have one. If an atom is missing it adds it
inside `#ifndef NDEBUG` and reads the entry it has not found: `asking = Ended`.

**HashMap** (`hash_map.c`, `array_hash_map.c`). The cells, the two counters, and
`hmap_get`, `hmap_find`, `hmap_erase`, `hmap_remove_random`, `hmap_extend`,
`hmap_cleanup`, `hmap_reset`. The hash function is a variable that is chosen in
the initial state: what is checked holds for every one. **IntMap** is what it
implements: a partial function.

**Server** (`xpce.c`). One program counter per request. A handler checks its
arguments, parses its formula (`StartParse`, `PushNewVar`, `EndParse`: the
parser collects variables in a static vector and no lock is held), takes the
mutex, does its work (a query in three steps, as `ask_cnf`, `mc_sat` and the
loop that reads the answers are separate calls), unlocks, and builds the reply.
Reset works without the mutex, in two steps. Comparing a variable with the NULL
that another parse has put at the end of the vector ends the process; so may a
reset while a thread works on the tables. **SerialServer** is the promise: one
state, requests one at a time. `wild` is a history flag: unlocked work (two
formulas being parsed, a reset while the mutex is held) has overlapped. Nothing
is promised after that.

**WalkSatProofs**. What the operations on the clause lists do, as lemmas.
**Sums**. What a sum over a finite set is, as lemmas. **McSatProofs** (SampleSat and McSat),
**MwSatProofs**, **LazySatProofs**, **TableProofs** (SampleCounts
and HashMap), **GroundingProofs** (SortTable, Grounding and Queries), **ServerProofs**.
The theorems.

Conventions. A random choice is a choice among what has a positive probability;
its probability is left open. Names are the source's, in camel case. A
definition whose comment starts with *Mistake* is a wrong version of the
definition below it (a dropped guard, a missing reset, a swapped order). The
specifications never use them: they are what `PROJECT.json` substitutes to show
that every property notices an error in the code it speaks about.

## 3. What is checked

TLC checks deadlock in `samplesat` and `hashmap`, where a call may always
follow. In the other runs the modelled call, or the bounded number of runs,
requests or declarations, comes to an end, so their configurations switch the
check off; `CallReturns`, `McSatReturns` and `Answered` show that what must end
does so at the end and nowhere else.

| run | distinct states | what it shows |
|---|---|---|
| `samplesat` | 51,173 | the lists, unit propagation, the cost and the answer of one call after another; a call returns |
| `mcsat` | 332,119 | MC-SAT with failed rounds and a timeout; without Gibbs steps it implements `MarkovChain` and samples only models of the hard rules, with them a *proposed* model satisfies the hard rules; it draws what it was asked for, and ends |
| `lazy` | 99,500 | MC-SAT in lazy mode, two calls: what has no instance is true; what is kept was true before; a model that is found is one the eager search might have found |
| `mwsat` | 256,573 | two trials with soft rules that can hold together and one the hard rules exclude: lists, the clauses that are dropped, excused clauses, the weight in either trial, and an early return has satisfied all rules that are not given up |
| `counts` | 1,745,010 | two runs in place or threaded, eager or lazy, resets, queries and asserted facts in between: a newcomer's counts, and a query's answer unless a merge is refused, are those of the right samples; an atom was true in no more samples than there were, in all if it always was, in none if it never was, and its printed probability is between 0 and 1 |
| `grounding` | 248,378 | sorts, subsorts, constants, predicates, facts, rules, activations and queries in any order: members of sorts, exactly one instance where one is needed, which is equivalent to the formula, all atoms in the table, and the instances of the query asked, each once |
| `hashmap` | 16,742 | for every hash function: searches end, the table grows for keys and not for marks, and it implements `IntMap` |
| `server` | 345,606 | three requests of any kind: the mutex is held exactly during work on the tables; until unlocked work overlaps, the server implements `SerialServer` and each handler has its own formula; every request is answered |
| `gibbs_hard`, `mwsat_drop`, `counts_twice`, `ground_axiom` | | the disagreements of section 5 |

**Bounds, and why they are enough.**

* `samplesat`: 4 atoms (one a fact), 4 rules, 5 clauses, *any* subset of the
  rules alive, any initial values. Among the 16 clause sets are satisfiable
  ones, contradictory ones, chains of units three long that reach through a
  database atom, a rule with two clauses, one with a clause that holds an atom and
  its negation, and the empty set. `MaxFlips = 2`:
  with one flip no flip is made on lists that a flip has changed.
  `MaxExtraFlips = 2` likewise. Calls follow each other without bound, so what
  a call leaves behind is what the next finds.
* `mcsat`: the hard rules have three models of the three free atoms and the two
  soft rules pull apart, so rounds differ in what they keep. `BurnIn = 1`, `SampInterval = 2`,
  `MaxSamples = 2` give rounds without a sample before, between and after the
  samples. One flip is too few for some rounds, so failed and repeated rounds
  occur. With Gibbs steps there are two in a round, so that a step starts from
  what a rejected one left.
* `lazy`: one rule of five has an instance at first; what it makes true brings in
  the others one after another, hard ones and soft ones, with one clause and with
  two; one atom is in no rule, and is met by `choose_random_atom` only. Two calls,
  so that the second meets what the first has made and the flag it may have left
  set; rounds fail without bound, and the clock may run out at any time.
* `mwsat`: hard rules that fix most atoms, soft rules of which some can hold
  together and one is excluded, `NumTrials = 2` and `MaxFlips = 2`: a rule is
  switched off, on again, and a second trial starts on what the first has left.
* `counts`: two threads, two runs (the copies of the second bring counts along),
  two samples (threads may return with different numbers of them), one atom that may
  be asserted and one that may not; both may appear at any time, and the first may
  become a fact before any run. `MaxRuns` and `MaxSamples` bound all
  counters. The threads differ by their counts only and are symmetric.
* `grounding`: three sorts (so a declaration can join two chains), two constants,
  a predicate given by facts and one that is open, three formulas: a join of two
  variables with a negative weight, a rule with a clause that facts decide, and a
  ground rule that nests the other connectives, so that `or`, `and`, `xor` and
  `implies` are translated with and without a negation. `MaxRules = 1`, as rules
  meet only in the shared buffer; `MaxFormulas = 2`: a query and a rule, or two
  queries, the second of which may find instances a constant has made for the
  first; `MaxDecls = 2` subsort declarations. Commands come in any order. The
  query asked is the second formula (`QueryFormulas`); with the join or the ground
  rule as the query, which takes longer, the properties hold too. The two
  constants are symmetric, also in the ground rule that names them.
* `hashmap`: five keys and two hash values (3, the last cell of the smallest
  table, and 14), in tables of 4 to 16 cells: collisions, searches that wrap
  around, a rebuild in place, two doublings. `MaxSize` bounds the growth. The
  keys differ only by their hash, the values not at all: both are symmetric.
* `server`: the first request may be any call, the second one that clashes with
  it (a declaration of constants, a query, a reset), the third a query with
  another variable. Three threads are what it takes to have a parser, the holder
  of the mutex and a reset at once.

**Fairness.** SampleSAT, MC-SAT and MaxWalkSAT run in one thread that takes no
lock and waits for nothing: weak fairness of the step of the call
(`SolverStep`, `McStep`, `MwStep`). Nothing is assumed of which choice a step
makes, so the liveness results do not rest on luck: they hold for the unluckiest
random numbers. Weak fairness of `Tick` says that time passes. `McSatReturns`
needs it: a round that finds no model is repeated with the same counter
(`mcmc.c:478`), and without a timeout unlucky rounds could go on for ever. The
caller of SampleSAT is not fair: it may stop calling. In Server every handler
runs in a thread of its own: weak fairness of each handler, none of the arrival
of requests. Weak fairness is enough for the mutex although a waiting thread is
disabled again and again: each request takes the mutex a finite number of times,
so it is free for good at the end. The other modules have no liveness property; LazySat shares the loops whose end
`CallReturns` shows.

## 4. What is proved

`McSatProofs` proves thirteen theorems of `Spec` of SampleSat, for any atoms,
rules, clauses, database and flip bounds. They assume `WalkSatAssumption`
(finite atoms, clauses, rules, hard rules among the rules, clauses of literals)
and `SampleSatAssumption` (the database does not contradict itself, bounds are
naturals). It proves five more of `McSpec`, for any rules, rounds and samples
(`McSatAssumption`: naturals, an interval of at least one, and an atom that may be
perturbed); two of them for a run without Gibbs steps, and three under
`HardHaveModel` (the hard rules have a model that agrees with the database).
`LazySatProofs` proves four of `LazySpec`, for any rules, rounds and calls
(`LazySatAssumption`: naturals, and no facts). `MwSatProofs` proves seven of `Spec` of MwSat, for any
rules, weights, trials, flips and timeout, under `WalkSatAssumption` and
`MwSatAssumption` (naturals, and finitely many rules).
`TableProofs` proves four of `Spec` of SampleCounts, for any atoms, threads,
samples and runs (`SampleCountsAssumption`), and three of
`HashSpec` and its refinement, for any keys, values, hash function, size of a new
table and bound on its growth (`HashMapAssumption`: hashes are naturals, the size is not
zero, the marks are different and not keys, and `Empty`, which also stands for no value,
is none). `GroundingProofs` proves two of `SortSpec`, for any sorts and constants
(`SortTableAssumption`: no sort is the mark for none), and six of `Spec` of Queries,
for any sorts, constants, predicates, formulas, queries and bounds:
`GroundingAssumption` (finitely many constants, which are no numbers of
variables; signatures are sequences of sorts), `FormulasAssumption` (each variable of a formula is in an atom
of it, its clauses are made of its atoms and use all of them, and those of the formula, or of its
negation, are true when it is, or is not) and `QueriesAssumption` (queries are
formulas, the marks are none). `ServerProofs` proves two of
`Spec` of Server and its refinement, for any number of requests and any calls (`ServerAssumption`: known methods, names that are not `Null`, and
`Nothing` is no call). TLC evaluates all the assumptions, for `FormulasAssumption` with
the clauses `cnf_pos` and `cnf_neg` make of the formulas of the run.

| theorem | property |
|---|---|
| `TypeCorrect` | `TypeOK` |
| `ListsDisjoint` | `OneListPerClause` |
| `WatchedIsTrue` | `WatchedByTrueLit` |
| `UnsatIsFalse` | `UnsatListFalse` (proved only; part of `ListsMatch` in `mwsat`) |
| `FixedSound` | `FixedIsEntailed` |
| `SatSettled` | `SatListSettled` |
| `ListsComplete` | `NoClauseLost` |
| `AnswerIsModel` | `ReturnedModel` |
| `CandidateExists` | `WalkHasCandidate` |
| `FixedStays` | `FixedStaysFixed` (proved only) |
| `CountExact` | `NumUnfixedExact` |
| `CostExact` | `CostIsExact` |
| `Invariance` | `IndInv`, on which the others rest |
| `SamplesAreModels` | `SamplesSatisfyHard` |
| `McSatImplementsChain` | `ImplementsChain` |
| `GibbsInvariance` | `GibbsInv`, on which the next rests |
| `ProposalIsModel` | `ProposalSatisfiesHard` |
| `SamplesDrawn` | `DrawsMaxSamples` |
| `LazyInvariance` | `LazyInv`, on which the next two rest |
| `DormantTrue` | `DormantAreTrue` |
| `KeptTrue` | `KeptWereTrue` |
| `RoundIsEager` | `RoundIsChainStep` |
| `MwInvariance` | `MwInv`, on which the next three rest |
| `MwListsDisjoint` | `OneListPerClause` |
| `MwListsMatch` | `ListsMatch` |
| `MwExcused` | `ExcusedByFalseRule` |
| `MwListsComplete` | `NoClauseLost` |
| `EarlyReturnSatisfies` | `SolvedSatisfiesAll` |
| `MwLossBounded` | `LossIsBounded` |
| `CountsInvariance` | `CountsInv`, on which the next three rest |
| `EstimatesAreProbabilities` | `AtomEstimates` |
| `AnswersAreFrequencies` | `AnswerIsFrequency` |
| `NewcomersAreExact` | `NewcomersExact` |
| `SortTypeCorrect` | `SortTypeOK` |
| `SortMembers` | `MembersExact`, of `SortSpec` |
| `TablesInvariant` | `Inv` of GroundingProofs, on which the next five rest |
| `TablesTypeCorrect` | `TypeOK` of Queries |
| `MembersStayExact` | `MembersExact`, of `Spec` of Queries |
| `AllAtomsThere` | `AtomsComplete` |
| `InstancesNeededOnce` | `NeededOnce` |
| `AnswersAreAsked` | `AnswersAsked` |
| `HashInvariance` | `HashInv`, on which the next three rest |
| `SearchesEnd` | `ProbesEnd` |
| `GrowthForKeys` | `GrowsForKeys` |
| `HashMapIsMap` | `ImplementsMap` |
| `MutexSafe` | `MutexHeld` |
| `OwnFormula` | `FormulaIsOwn` |
| `ServerIsSerial` | `ImplementsSerial` |

**SampleSat.** None of the safety properties is inductive alone. `IndInv` has a part for
states inside a call (`CallInv`) and one for states between calls (`IdleInv`):

* `ListInv`: the lists are typed, apart, hold clauses of live rules only,
  watched clauses are watched by a true literal of theirs, unsat ones are false,
  and no rule is switched or watched (that is MaxWalkSAT's business).
* `NotLost`, `Entailed`, `SatFixed`: if the live clauses have a model then all
  of them are on a list; what is fixed has its value in every model; a clause on
  the sat list has a literal fixed true.
* `DbKept` and, between calls, `NoMarks`: the database's values stand, and
  nothing else is fixed.

The parts need each other. Unit propagation is sound (`Entailed`) because a
clause that is scanned belongs to a live rule; a clause is dropped only when all
its literals are fixed false, and then `Entailed` makes it false in every model,
so there is none (`NotLost`); the answer is a model because `NotLost` puts every
clause on a list, and `live` and `unsat` are empty, so that it is watched or on the sat
list. On return the marks are dropped: `SatFixed` turns into "satisfied", which is
why `SatListSettled` has two cases.

The proof goes operation by operation: what an operation on the lists does
(`LinkPropagateLists`, `FlipFalsifies`, `LitValues`, `NotLit`), that each
outcome of a scan keeps `CallInv` (`SatKeepsCallInv`, `DropKeepsCallInv`,
`WatchKeepsCallInv`, `UnsatKeepsCallInv`, `UnitKeepsCallInv`), then flips,
randomisation, start and return, and `NextIndInv` puts them together.
`FixedStays` and `CountExact` are separate step arguments on top of `IndInv`.
`CostExact` needs no invariant beyond `IndInv`: for a state in which the walk picks an
atom it compares, clause by clause, what `cost_flip_unfixed_variable` counts with
what the flip makes false (`FlippedClause`). The two differ by the clauses that
hold the atom and its negation (`Overcounted`).

**McSat.** `McInv` says where the run stands, and rests on `IndInv` during a
search. In a round the kept rules are hard rules and rules that the backup
`other` satisfies (`KeptRulesHold`), so the rules of the search have a model
(`RoundHasModel`), and `NotLost` of SampleSat turns "nothing is unsatisfied" into
"a model was found" (`FoundModel`). Between searches the lists may be those of an
assignment that was given up, but the assignment itself is a model of the hard
rules (`AtModel`): found, or restored from the backup. `HardHaveModel` is needed
for the first search only: hard rules that contradict each other may lose a
clause in unit propagation, and that search does not notice. The
clauses of `mcsat` have such a model. For the refinement each step of MC-SAT is shown to be a step of `MarkovChain` or to
leave its variables alone.

With Gibbs steps `McInv` fails: a rejected step leaves lists of one assignment and
takes another back. `GibbsInv` says what survives. Every search must start from
an assignment without marks of unit propagation (`AtRest`), or `Entailed` would
be wrong from the start; but a rejected flip puts clauses on `live` outside any
search, and a scan there could fix a value. It cannot: only a clause with two
literals open to the database (`TwoOpen`) ever gets on the unsat list or is
watched (`ListsOpen`), so none that such a scan meets is a unit. The search of a
Gibbs step then satisfies `IndInv`, and the proposal is a model as before.

`DrawsMaxSamples` is arithmetic of the loop (`mcmc.c:452-484`). The bound on the
rounds comes from the samples asked for, the test for a sample from the
round; `DrawnBefore` counts the multiples of the interval from `BurnIn` on as a
difference of divisions that round up. `CeilingNext` steps it by one round,
`DrawnCount` evaluates it at the bound, and `DrawInv` carries it through rounds
that fail and are repeated, and through Gibbs steps.

**SampleCounts.** A copy starts with the counts of the main table, so after a merge each
count is there once for the main table and once for each thread. `CountsInv` says of which
differences this is harmless. `QueryInv` and `NewcomerInv` relate *sums over the
threads*: what the copies have sampled is what they missed plus what the history
has drawn since. They hold when the copies are made, as the query or the
atom has missed every sample so far, and each sample moves both sides by one
(`SumPlus`, `SumChanged`). `EstimateInv` is pointwise (`CountedIn`), because the merge may
refuse the counts of some threads: it adds over any set of copies (`SumBound`), also
the equations of an atom that was true in every sample or in none (`SumPlus`,
`SumZero`). By the first, an atom that was a fact from the start was true in all samples;
one that becomes a fact after it has been counted as false satisfies neither, and the
bounds all the same. `QueryInv` claims nothing of an answer when a merge was refused
(`Refused`).
The merges use `SumFunctionOnSet`, a fold that takes one element of a set after
another, in no particular order. The lemmas on sums (`SumsExist` to `SumChanged`) are
proved by induction over finite sets. The library's induction theorems take
the predicate as an operator, which the provers cannot instantiate;
`SubsetInduction` takes it as a *set* of subsets, and follows from the
well-foundedness of strict inclusion on finite sets.

**LazySat.** That a rule without an instance is true cannot be seen from the
assignment, which changes with every step; it follows from two facts about the
table. `InactiveFalse`: an atom that is not active is false, in *both* assignment
arrays, since a restored backup is an assignment of the past, when fewer atoms were
active. `NeededAreMade`: each rule that may be false with the active atoms has an
instance, which `ActivateAtom` restores in the same step that activates an atom. A
rule with an inactive atom in each clause is then true. `KeptWereTrue` follows from the same
facts: a rule that joins a search had no instance before, so it was true in the
backup, and the coin toss keeps no rule a round of the eager mode could not have kept.

`RoundIsChainStep` says that a search which ends without unsatisfied clauses has a
model of the hard rules and of all it kept, those it made on the way included. As in
SampleSat a clause is dropped only when it is fixed false, so there must be a model
that it is measured against; but here the rules of the search grow while it runs.
`ChainInv` holds a model of everything the search *might* still take up
(`Anchor`): the backup, in which the rules without an instance are true and may be
kept on a coin toss. In the first search only the hard rules count, so any model of
theirs is an anchor; unless an earlier call was cut short and left
`soft_rules_included` set. Then this first search keeps soft rules too, and the
anchor is the model the last round of that call began with: every rule that had no
instance then was true in it, and only those can still be made. `ListsFor` carries the
anchor through a scan in the midst of which clauses join
(`MakeTrueLists`, `ScanSearch`).

**MwSat.** `MwInv` has three layers. `TableInv` holds always: each clause is in one
list at most, and a clause waits with its rule only while the rule is false.
`TrialInv` adds that the lists agree with the assignment, and holds until the best
assignment is restored: this happens behind the back of the lists
(`walksat.c:786`). The third layer is why that does no harm within the call:
outside a trial `live` is empty, so no clause is scanned with lists that do not
match. A rule is switched off by a flip and switched on by a later one; one lemma
for each outcome of a scan and for each kind of flip shows that the clauses
change lists accordingly.

What is lost is harder here than in SampleSat, as the code has two flaws (section 5): the
other clauses of a rule that is fixed false still propagate, and such a rule may be
switched on again. `OrderInv` therefore says of each clause that is on no list that
it is fixed false and of a hard rule (`NothingLost`), and of the fixed values that
they are those of every model of the hard rules *as long as* the lists are in order
(`Entailed`). `ListsInOrder` is a condition on the present state, and the
induction needs it of the past: `OutOfOrder` shows that within a trial the lists never
get back in order: a clause on the sat list stays there, and fixed values stay
(`StaysFixed`). While they are in order a rule that is given up has one clause, the false
one, so that every unit that is found belongs to a hard rule. In
`SolvedSatisfiesAll` and `LossIsBounded` it is enough that
what is fixed agrees with *one* model of the hard rules (`Consistent`):
then no hard clause is fixed false (`HardNotFalse`), and none was dropped.

`LossInv` is about sums again: the loss of `Counted`, the rules that are switched off or
fixed false, is at most `unsat_weight`. It is not equal: a rule that is fixed false and
switched off once more is added twice, and a new trial starts with the weight the last
one left. Both errors are on the safe side, so the bound holds in every trial.

**SortTable.** `MembersExact` compares the constants pushed around with the
declarations made, and says nothing of `supersorts`, along which they are pushed.
`SortInv` adds what is needed: each list of supersorts holds direct supersorts
and only sorts that can be reached, and the constants are closed under it. The
lists are *not* transitive, and the proof does not need them to be: a constant
travels on along the lists of the sorts it arrives at. `Receives` is used through
three facts only (`ReceiversClosed`, `SourceReceives`, `ReceiversWithin`): the
receivers include the start, are closed up to sorts that have the constant, and
lie in every such set.

**Grounding and Queries.** A command does all it does in one step, so the proof is about
what its searches find. `Inv` adds to the properties of the run what carries them
from one command to the next; TLC checked it on the `grounding` run before it was proved.

* `SortInv`, as above; `AtomsComplete` needs it, as a new constant makes atoms for all the
  sorts above its own (`NewConstComplete`), a new predicate for all constants of its sorts
  (`PredicateComplete`).
* `TablesTyped`, `InstsTyped`: also that the atoms of an instance are in the table, and that
  the shared buffer may hold anything an earlier search has left in it.
* `LazyOnce`: in lazy mode an instance has its substitution in `subst_hash`, and is
  the only one with it. Eager mode keeps no such table; there a new rule comes by
  each substitution once (`BruteOnce`).
* `Exact`: while nothing was declared late, an instance has the clauses it would get
  now (`InstsExact`); in lazy mode each substitution that matters has been seen, and
  each one that has been seen, in eager mode each one at all, has its instance (`SubstsDone`).
* `QueriesTyped`, `QinstsTyped`, `LitsApart`: an instance is filed under queries there
  are, and no two have the same literals. `AnswersAsked` is inductive with these and `GroundInv`.

The heart of `Exact` is that a lazy search finds what has come to matter: with a new rule
what a clause can be false for with the atoms active now (`RuleFinds`), with an activated atom
what it could not be false for before (`ActivateFinds`). Both rest on `RouteFinds`: the
literals that facts must make true, and the negated literals of the false clause, are
matched with atoms that are active, and what is still open is tried with all constants of its sort; so a
substitution that agrees with the buffer at the start is reached. The theorem thus covers
`activate_atom` at any moment of a search: this is where rules are grounded late in
lazy mode. After a declaration that comes late by the words of `NeededOnce` (`LateMade`) nothing is
claimed but `LazyOnce` and the types, which hold with whatever the buffer leads the
search to.

`InstanceMeans` turns the law of the formula into one of its instances: leaving out of the
clauses what the facts decide leaves clauses that open atoms satisfy exactly when
they satisfy the formula, or falsify it if the weight is negative. For queries `QueryLitsDiffer` shows that
the literals tell substitutions apart: each variable is in an atom of the formula, and
each atom in a clause. So an instance that is found in the table by comparing
literals is the same instance, and to file it under one more query, or under both indices as
`ask_cnf` does, is harmless (`FiledMeans`, `AskFiled`).

The searches are folds over sequences, which the community modules define by a
recursive function that is chosen. `FoldExists` shows that there is one, by induction over the
sets of indices (`SubsetInduction`), and `FoldSame` that it is the one the operator takes.

**HashMap.** `Table` says what the cells are: each key is there once, and the way to it from
its hash (`Reachable`) meets no empty cell. A removed key leaves a mark and not an
empty cell (`Erased`), and a new one takes the first cell of its way without a key
(`Inserted`), so other ways stay as they were. That
the way runs through all cells is arithmetic (`Around`). `Counts` says that the keys
are counted exactly and the marks from above. When a mark is used again its count
is too high, which is harmless: it makes the table be cleaned up too early.
With the threshold of `hmap_extend` there is an empty cell (`EmptyCell`), at
which a search ends. The growth is arithmetic with
the two thresholds: as a count of marks above a fifth of the size is cleaned up, a table
that doubles holds keys in two fifths of its cells. A rebuild copies cell by cell: `RebuiltTable` is
proved by induction over the cells, with the recursive function of the model (`FillsExist`)
and the set form of induction (`UpTo`, from `SubsetInduction`). For the refinement,
`Has` lists the pairs of a table, each operation says what it does to them (`Steps`), and
`ContentsMatch` that a search finds them.

**Server.** `MutexHeld` is inductive with the place of the handler; `FormulaIsOwn`
needs `PInv`: as long as nothing wild has happened at most one handler is
parsing, the vector holds no NULL meanwhile, and its entries and the names left
to go through are together those of the formula. The refinement needs `SInv`,
which adds, as long as nothing wild has happened, that a reset is alone with the
tables and that the table of instances holds those of the one query being
answered and is empty otherwise. `SerialTables` and `SerialSamples` map a state:
a reset takes effect with its first step, the samples of a query when its answers
have been read. Each step of a handler is then a step of
`SerialServer` for its request, or changes nothing it sees.

Every invariant and every refinement that a passing run checks is proved. Left to TLC for good,
as they are out of the prover's reach: liveness under fairness, `ENABLED`, and
induction over formulas, so that the law of `FormulasAssumption` is evaluated for the formulas of the run and for
the small ones of `CnfAgrees` and not proved of `cnf_pos` and `cnf_neg`. Of induction over
data, only the forms above are within reach, where the predicate is a set.

## 5. Where the code and its comments disagree

Four runs end in a counterexample, and each checks one sentence of the
repository.

1. `gibbs_hard`. `mcmc.c:502-503` says of a Gibbs step "this flips a variable
   such that the new model M' satisfies the hard clauses". When a step is
   rejected (`mcmc.c:349`), only the one atom is flipped back, on top of the
   model `perturb_assignment` has found. The next round then starts from a
   world that may violate hard rules. This is why `SamplesSatisfyHard` and
   `ImplementsChain` speak of runs without Gibbs steps.
2. `mwsat_drop`. `walksat.c:260` says "There is a fixed unsat clause, no model
   exists." A soft rule that was fixed false still propagates units
   (`walksat.c:65`), so a hard clause can be dropped although the hard rules
   have a model.
3. `counts_twice`. `tables.c:1047-1049` assumes that merged counts are
   differential. A clone carries the counts of earlier runs (`mcmc.c:564,588`),
   so these are counted again by each thread.
4. `ground_axiom`. `doc/pce.adoc:269-270` says that a rule is "essentially
   asserting the axiom" for all constants, and `ground.c:1461` "Make sure all
   other entries are empty". The loop below that comment clears the entry of the
   variable that takes the new constant, once per other variable
   (`ground.c:1465`). For a rule of two variables the search is then not
   restricted to the new constant, and a stale entry of an earlier search
   restricts it instead: of the constants declared after a rule some instances
   are missing, and others are made twice. Hence `late` in `NeededOnce`.

Met while reading, without a run: a formula with `xor` may have a clause that holds
an atom and its negation (`cnf.c:367-373`), which `cost_flip_unfixed_variable` counts as broken
by a flip of the atom (`walksat.c:583-589`) although it stays true, hence `Overcounted`
in `CostIsExact`; `doc/pce.adoc:442-443` says that an error is
included in the reply of the server, but a reply is made from static buffers of `xpce.c`
(`xpce.c:36-38,163`) that nobody writes to, as `mcsat_err` has buffers of its own in
`print.c` (Server keeps what was printed in `stderr`, and its `error_buffer` stays empty);
`mcmc.c:622-625` says that `soft_rules_included` is false in the first search, but a call
that ends by timeout after a failed round leaves it set (`mcmc.c:478`), so that the first
search of the next call keeps soft rules it makes, which `RoundIsChainStep` shows to be
harmless; a fixed-unsat clause is reported on the console
only and otherwise forgotten (`mcmc.c:50` expects a return code); the assertion
of `link_propagate` (`walksat.c:108-110`) does not hold when a rejected Gibbs
step is flipped back on older lists (the build defines `NDEBUG`); a rule that is fixed
false while switched off stays in `unsat_soft_rules` (`walksat.c:293`), is
switched on later, and its false clause stays on the list `tables.h:266` calls
that of "fixed satisfied clauses"; `unsat_weight` is not reset between trials
(`walksat.c:694-704`), so that `LossIsBounded` is a bound only; the other clauses of
a soft rule that was fixed false propagate units that no hard rule implies, hence
`Consistent`; `sat_weight`
starts at 0 (`walksat.c:741`) although it is the weight of rules; when a thread's
atom table has grown (`tables.c:1042`) the merge of atoms is refused and that of
queries is not, so an answer may exceed 1 (one run, two threads, one of which adds
an atom) although `tables.c:1581-1582` says that
both terms are incremented (hence `Refused` in `AnswerIsFrequency`); the printed
probability of a fact is 0, however many samples it was true in: `atom_probability`
asks of an atom of a direct predicate whether its value is `v_up_true`
(`print.c:165`), and it is `v_db_true` (`input.c:879`) or `v_db_false`, although
`doc/pce.adoc:588-590` says that the number of samples for which an atom is true,
divided by the total number of samples, gives its probability; the columns
`#occurs` and `#samples` beside it are right, and `AtomEstimates` speaks of these
for facts too; the reset command leaves the atoms' `sampling_nums`
(`input.c:1805-1808`), so an atom present before the reset has a wrong number of
samples, which may be negative, although `doc/pce.adoc:384` says that the command
resets the number of samples, and `AtomEstimates` and `NewcomersExact` speak of the
atoms added after it;
`ground.c:321` asserts that no clause of facts alone is left unsatisfied, which a formula such as
`Both` of MCGrounding does not respect (`check_clause_falsifiable` returns 2 for such a
clause, but as a bool, `ground.c:411`); `xpce_mcsat` calls `mc_sat` with an
argument missing, which is harmless only because the parameters are read from
elsewhere; the copy of an array map is not the "faithful full copy" of
`array_hash_map.c:69`: a key is allocated for each cell, also for an empty one
(`array_hash_map.c:60`), and where `calloc(1, 0)` is not NULL, as in glibc, no cell of
the copy is empty and a search for a missing atom in it does not end
(`AddAtomInThread` of SampleCounts is what happens where it is NULL; elsewhere
a lazy thread that comes across a new atom stays there, and `mc_sat` waits for it);
the command line stores the number of Gibbs steps as the sampling interval
(`input.c:1688`); the table of sources counts clauses on the list of assertions
(`tables.c:1677`), and never counts its entries (`num_entries`), so that no source
is ever found and retraction always says it is unknown; a query stays in
`query_table` for good (`cnf.c:871`), so a constant declared between two ask
commands makes instances of the first query (`ground.c:1480`), which the second
reports as its own (`cnf.c:922-927`, the loop does not look at `query_indices`), hence
`AnswersAsked` speaks of what is filed under the query; a constant two subsort
declarations below the sort of a query's variable is turned down by
`substit_query` when its sort does not know that supersort (`ground.c:1157`), so
the answers are complete only if each sort knows all of its supersorts; in lazy
mode a build with `NDEBUG` does not add the missing atom of a query and reads
the entry it has not found (`ground.c:1271-1291`).

## 6. What is not modelled

* *Lazy mode* outside SampleSAT: the Gibbs steps, which negate an atom in place
  without activating it (`mcmc.c:291`), and MaxWalkSAT, which leaves the soft rules
  a flip makes switched off and unknown to its weights. LazySat has no facts, and
  its weights are positive.
* *In grounding*: default values other than false, weights of instances, and
  formulas that mention a variable twice in an atom are left out. Variables are
  universal: the code has no existential ones.
* *The pointers of the clause lists*: the lists are sets, see `WalkSat`.
* *Assertion sources* (`tables.c`, retraction): its bookkeeping is written from three
  places, none of which the samplers read, and nothing is ever found in it.
* *Server*: the arguments' JSON, and a malformed `xpce.command`, which is answered
  with a fault before the lock. The commands stand for one of them.
* *Values*: weights are naturals; `DBL_MAX` is a number above the sums that
  occur. Rounding is left out, and so is what a double of the size of `DBL_MAX` absorbs
  when a hard rule is switched off and on again: this happens only after its clause
  has been fixed false, where nothing is claimed. Temperatures, probabilities, the random
  number generator and QUBO are left out; a choice with positive probability is
  a choice.
* *The read of `assignment[-1]`* when no atom is free: `McSatAssumption`
  excludes it.
* *The read of an empty stack* when a clause has no free atom returns a stale
  entry (`integer_stack.c:55`): modelled as any atom.
* *MwSat* models one call, and atoms without database values.
* Parsing, printing, weight learning, memory, third-party code,
  clients and tests: sequential translations, numerics, or not PCE's own. Half of the
  repository's lines are of this kind: generated parsers (`yacc.tab.c`, twice), a
  numerical optimiser (`lbfgs.c`), Windows headers, and printing.

## 7. Plan

Order of work, most important first.

1. Clause lists and SampleSAT, MC-SAT and its abstract specification,
   MaxWalkSAT, sample counts and threads. *Done.*
2. Proofs of SampleSat. *Done.*
3. Hash maps and sort tables, with their proofs; grounding, clausal form and lazy
   activation; the server, with its proofs and its refinement; the proofs of
   McSat, with its refinement; MaxWalkSAT, its lists and its weight, with their
   proofs; the sample counts, with theirs; the instances of queries; lazy mode in the
   search, with its proofs; the proofs of Grounding and Queries. *Done.*
4. `Sources`: assertion and retraction by source.
5. Sequences of `mw_sat` and `mc_sat` calls on one table: what one leaves for
   the other (`walksat.c:786`).
6. `ClauseList`: head, tail, link and length, shown to implement a sequence as
   long as `OneListPerClause` holds.
7. Lazy mode in MaxWalkSAT and in the Gibbs steps.
New runs take the place of old ones where one question contains another, to keep
the set small enough to be rerun as a whole.

## 8. Running it

    tlc -workers 2 -config MCSampleSat.cfg MCSampleSat
    tlapm McSatProofs.tla            (and WalkSatProofs, LazySatProofs, MwSatProofs,
                                      TableProofs, GroundingProofs, Sums, ServerProofs)

The longest runs, `server`, `samplesat`, `mcsat` and `grounding`, take two to three
minutes, the others a minute or less; each module of proofs takes one to two minutes,
and GroundingProofs seven to eight.
