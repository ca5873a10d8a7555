----------------------------- MODULE SampleCounts -----------------------------
(***************************************************************************)
(* How the samples behind the marginal probabilities are counted over      *)
(* several runs of MC-SAT, in place or in threads (mc_sat in               *)
(* src/src/mcmc.c, clone_samp_table and the merge functions in             *)
(* src/src/tables.c).                                                      *)
(*                                                                         *)
(* What a sample is (the business of McSat) is left open: the atoms that   *)
(* were asserted, and any other atoms whose predicate is not direct.  A    *)
(* table is the part of samp_table_t that counts; every thread has a copy  *)
(* of the whole of it.                                                     *)
(***************************************************************************)
EXTENDS Integers, FiniteSets, Functions

CONSTANTS
    Atoms,        \* the atoms that may ever be in the atom table
    Direct,       \* those of direct predicates, whose value is in the database
    QueryAtom,    \* the formula of the ask command
    Threads,      \* mcsat_thread_count of them
    MaxSamples,   \* max_samples
    MaxRuns,      \* bound on the runs of MC-SAT
    LazyChoices   \* the values of lazy_mcsat() the program may start with

ASSUME SampleCountsAssumption ==
    /\ Direct \subseteq Atoms /\ QueryAtom \in Atoms
    /\ IsFiniteSet(Threads)
    /\ MaxSamples \in Nat /\ MaxRuns \in Nat
    /\ LazyChoices \subseteq BOOLEAN

VARIABLES
    lazy,     \* lazy_mcsat()
    facts,    \* the atoms that were asserted, which have the value v_db_true
    master,   \* the counts of the main table
    copies,   \* those of the copy of each thread
    phase,    \* what the main thread is at
    done,     \* the threads that have returned
    query,    \* whether the query instance table has an instance
    runs,     \* the runs so far
    left,     \* the samples each thread, or the run in place, may still draw
    drawn,    \* samples drawn since the counts were last reset
    truth,    \* how often an atom was true in those drawn since it was added
    born,     \* drawn when the atom was added; -1 before the last reset
    before,   \* drawn when the last run started
    hits      \* how often the query was true in the samples of the last run

control == <<lazy, facts, phase, done, query, runs>>
history == <<drawn, truth, born, before, hits>>
vars == <<master, copies, left, control, history>>

(* num_samples; the atoms, their pmodel and sampling_nums; the pmodel and  *)
(* the sampling_num of the query instance.                                 *)
EmptyTable ==
    [num |-> 0, atoms |-> {}, pmodel |-> [a \in Atoms |-> 0],
     since |-> [a \in Atoms |-> 0], qmodel |-> 0, qsince |-> 0]

Init ==
    /\ lazy \in LazyChoices
    /\ facts = {}
    /\ master = EmptyTable
    /\ copies = [t \in Threads |-> EmptyTable]
    /\ phase = "idle" /\ done = {} /\ query = FALSE /\ runs = 0
    /\ left = [t \in Threads |-> 0]
    /\ drawn = 0 /\ before = 0 /\ hits = 0
    /\ truth = [a \in Atoms |-> 0]
    /\ born = [a \in Atoms |-> 0]

-----------------------------------------------------------------------------
(* Mistake: the samples drawn before the atom was added count for it.      *)
WithOldAtom(table, a) ==
    [table EXCEPT !.atoms = @ \cup {a}, !.pmodel[a] = 0, !.since[a] = 0]

(* add_internal_atom *)
WithAtom(table, a) ==
    [table EXCEPT !.atoms = @ \cup {a}, !.pmodel[a] = 0, !.since[a] = table.num]

AddAtom(a) ==
    /\ phase = "idle" \/ (phase = "inplace" /\ lazy)
    /\ a \notin master.atoms
    /\ master' = WithAtom(master, a)
    /\ born' = [born EXCEPT ![a] = drawn]
    /\ truth' = [truth EXCEPT ![a] = 0]
    /\ UNCHANGED <<copies, left, control, drawn, before, hits>>

(* assert_atom: the atom may be new to the table or have been counted as   *)
(* false; its counts are left as they are.                                 *)
AssertAtom(a) ==
    /\ phase = "idle"
    /\ a \in Direct \ facts
    /\ facts' = facts \cup {a}
    /\ master' = IF a \in master.atoms THEN master ELSE WithAtom(master, a)
    /\ born' = IF a \in master.atoms THEN born ELSE [born EXCEPT ![a] = drawn]
    /\ truth' = IF a \in master.atoms THEN truth ELSE [truth EXCEPT ![a] = 0]
    /\ UNCHANGED <<copies, left, lazy, phase, done, query, runs, drawn, before, hits>>

(* The command "reset probabilities".                                      *)
ResetProbabilities ==
    /\ phase = "idle"
    /\ master' = [master EXCEPT !.num = 0,
                                !.pmodel = [a \in Atoms |-> IF a \in master.atoms
                                                              THEN -1 ELSE @[a]]]
    /\ drawn' = 0 /\ before' = 0 /\ hits' = 0
    /\ truth' = [a \in Atoms |-> 0]
    /\ born' = [a \in Atoms |-> -1]
    /\ UNCHANGED <<copies, left, control>>

(* Mistake: the samples of earlier runs count for a new query.             *)
WithOldQuery(table) == [table EXCEPT !.qmodel = 0, !.qsince = 0]

(* A query instance is added, with the number of samples it will miss.     *)
WithQuery(table) == [table EXCEPT !.qmodel = 0, !.qsince = table.num]

(* clone_samp_table: a copy has the counts of the table it is made from,   *)
(* which clear_atom_counts would have set to 0 and nobody calls.           *)
CopyAtomTable(to, from) ==
    [to EXCEPT !.num = from.num, !.atoms = from.atoms,
               !.pmodel = from.pmodel, !.since = from.since]

CopyQueryInstanceTable(to, from) ==
    [to EXCEPT !.qmodel = from.qmodel, !.qsince = from.qsince]

CloneSampTable(table) == CopyQueryInstanceTable(CopyAtomTable(EmptyTable, table), table)

(* The mcsat command, and the ask command, which adds the instances of the *)
(* query first.  The copies are complete before any thread is created.     *)
Run(ask, inPlace) ==
    LET table == IF ask THEN WithQuery(master) ELSE master IN
    /\ phase = "idle" /\ runs < MaxRuns
    /\ ask => QueryAtom \in master.atoms
    /\ master' = table
    /\ copies' = [t \in Threads |-> CloneSampTable(table)]
    /\ phase' = IF inPlace THEN "inplace" ELSE "threads"
    /\ done' = {}
    /\ query' = ask
    /\ UNCHANGED <<lazy, facts>>
    /\ runs' = runs + 1
    /\ left' = [t \in Threads |-> MaxSamples]
    /\ before' = drawn
    /\ hits' = 0
    /\ UNCHANGED <<drawn, truth, born>>

(* update_pmodel and update_query_pmodel for a sample that makes the atoms *)
(* of S true.                                                              *)
WithSample(table, S) ==
    [table EXCEPT !.num = @ + 1,
                  !.pmodel = [a \in Atoms |-> IF a \in S THEN @[a] + 1 ELSE @[a]],
                  !.qmodel = IF query /\ QueryAtom \in S THEN @ + 1 ELSE @]

Samples(table) == {facts \cup S : S \in SUBSET (table.atoms \ Direct)}

Recorded(S) ==
    /\ drawn' = drawn + 1
    /\ truth' = [a \in Atoms |-> IF a \in S \cap master.atoms THEN truth[a] + 1 ELSE truth[a]]
    /\ hits' = IF query /\ QueryAtom \in S THEN hits + 1 ELSE hits
    /\ UNCHANGED <<born, before>>

DrawInPlace ==
    /\ phase = "inplace"
    /\ \A t \in Threads : left[t] > 0
    /\ \E S \in Samples(master) : master' = WithSample(master, S) /\ Recorded(S)
    /\ left' = [t \in Threads |-> left[t] - 1]
    /\ UNCHANGED <<copies, control>>

MayDraw(t) == left[t] > 0

DrawSample(t) ==
    /\ phase = "threads" /\ t \notin done
    /\ MayDraw(t)
    /\ \E S \in Samples(copies[t]) :
          copies' = [copies EXCEPT ![t] = WithSample(@, S)] /\ Recorded(S)
    /\ left' = [left EXCEPT ![t] = @ - 1]
    /\ UNCHANGED <<master, control>>

(* In lazy mode a thread adds the atoms it comes across to its copy.       *)
AddAtomInThread(t, a) ==
    /\ lazy /\ phase = "threads" /\ t \notin done
    /\ a \notin copies[t].atoms
    /\ copies' = [copies EXCEPT ![t] = WithAtom(@, a)]
    /\ UNCHANGED <<master, left, control, history>>

(* A thread may stop short of its samples: no initial model, or timeout.   *)
ExitThread(t) ==
    /\ phase = "threads" /\ t \notin done
    /\ done' = done \cup {t}
    /\ UNCHANGED <<master, copies, left, phase, query, runs, lazy, facts, history>>

(* merge_atom_tables adds up the counts of the copies that have as many    *)
(* atoms as the main table, merge_query_instance_tables those of all.      *)
Mergeable == {t \in Threads : Cardinality(copies[t].atoms) = Cardinality(master.atoms)}

Numbers == [t \in Threads |-> copies[t].num]
AtomTrues(a) == [t \in Threads |-> copies[t].pmodel[a]]
AtomMissed(a) == [t \in Threads |-> copies[t].since[a]]
QueryTrues == [t \in Threads |-> copies[t].qmodel]
QueryMissed == [t \in Threads |-> copies[t].qsince]

(* Mistake: num_samples is summed before the sizes are compared.           *)
SamplesOfAll == master.num + SumFunctionOnSet(Numbers, Threads)

MergedSamples == master.num + SumFunctionOnSet(Numbers, Mergeable)

MergeAtomTables(table) ==
    [table EXCEPT
        !.num = MergedSamples,
        !.pmodel = [a \in Atoms |->
            IF a \in master.atoms THEN @[a] + SumFunctionOnSet(AtomTrues(a), Mergeable)
            ELSE @[a]],
        !.since = [a \in Atoms |->
            IF a \in master.atoms THEN @[a] + SumFunctionOnSet(AtomMissed(a), Mergeable)
            ELSE @[a]]]

(* No copy gains or loses a query instance during a run.                   *)
MergeQueryInstanceTables(table) ==
    IF query
    THEN [table EXCEPT !.qmodel = @ + SumFunctionOnSet(QueryTrues, Threads),
                       !.qsince = @ + SumFunctionOnSet(QueryMissed, Threads)]
    ELSE table

JoinAndMerge ==
    /\ phase = "threads" /\ done = Threads
    /\ master' = MergeQueryInstanceTables(MergeAtomTables(master))
    /\ phase' = "answer"
    /\ UNCHANGED <<copies, left, done, query, runs, lazy, facts, history>>

EndInPlace ==
    /\ phase = "inplace"
    /\ phase' = "answer"
    /\ UNCHANGED <<master, copies, left, done, query, runs, lazy, facts, history>>

(* The answer is printed; an ask then resets the query instance table.     *)
Answer ==
    /\ phase = "answer"
    /\ phase' = "idle"
    /\ query' = FALSE
    /\ master' = [master EXCEPT !.qmodel = 0, !.qsince = 0]
    /\ UNCHANGED <<copies, left, done, runs, lazy, facts, history>>

Next ==
    \/ \E a \in Atoms : AddAtom(a) \/ AssertAtom(a)
    \/ ResetProbabilities
    \/ \E ask, inPlace \in BOOLEAN : Run(ask, inPlace)
    \/ DrawInPlace \/ EndInPlace
    \/ \E t \in Threads : DrawSample(t) \/ ExitThread(t)
    \/ \E t \in Threads, a \in Atoms : AddAtomInThread(t, a)
    \/ JoinAndMerge
    \/ Answer

Spec == Init /\ [][Next]_vars

-----------------------------------------------------------------------------
(* The columns #occurs (pmodel) and #samples of print_atoms, and what      *)
(* query_probability divides pmodel by.                                    *)
AtomSamples(a) == master.num - master.since[a]
QuerySamples == master.num - master.qsince

(* The value of an atom of a direct predicate, that is, by the closed      *)
(* world assumption of add_internal_atom and by assert_atom.               *)
DirectValue(a) == IF a \in facts THEN "v_db_true" ELSE "v_db_false"

(* atom_probability, as a fraction.                                        *)
AtomProbability(a) ==
    IF a \in Direct
    THEN [of |-> IF DirectValue(a) = "v_up_true" THEN 1 ELSE 0, in |-> 1]
    ELSE IF AtomSamples(a) > 0
    THEN [of |-> master.pmodel[a], in |-> AtomSamples(a)]
    ELSE [of |-> 1, in |-> 2]

(* What is printed for an atom is possible, after any number of runs in    *)
(* place and in threads, with atoms added and facts asserted in between or *)
(* on the way, also when the counts of a thread that added atoms are       *)
(* refused (merge_atom_tables): it was true in no more samples than there  *)
(* were, in all of them if it has been true in every sample drawn since it *)
(* was added, in none if it has never been, and atom_probability is        *)
(* between 0 and 1.  (For a fact it is 0, whatever the counts say.)        *)
AtomEstimates ==
    \A a \in master.atoms : born[a] # -1 =>
        /\ 0 <= master.pmodel[a] /\ master.pmodel[a] <= AtomSamples(a)
        /\ truth[a] = drawn - born[a] => master.pmodel[a] = AtomSamples(a)
        /\ truth[a] = 0 => master.pmodel[a] = 0
        /\ 0 <= AtomProbability(a).of /\ AtomProbability(a).of <= AtomProbability(a).in

(* merge_atom_tables has refused the counts of a thread whose samples      *)
(* merge_query_instance_tables took.                                       *)
Refused == done = Threads /\ Mergeable # Threads

(* The answer to a query is the frequency of the query in the samples of   *)
(* its own run, however many threads drew them, and whatever runs and      *)
(* resets came before: the counts every copy brings along cancel out.  In  *)
(* lazy mode this takes that no thread has added an atom.                  *)
AnswerIsFrequency ==
    phase = "answer" /\ query /\ (lazy => ~Refused) =>
        QuerySamples = drawn - before /\ master.qmodel = hits

(* The counts of an atom that was added after the last run but one are     *)
(* those of the samples drawn since.                                       *)
NewcomersExact ==
    phase \in {"idle", "answer"} /\ ~lazy =>
        \A a \in master.atoms : born[a] >= before =>
            AtomSamples(a) = drawn - born[a] /\ master.pmodel[a] = truth[a]

(* What the comment in merge_atom_tables assumes of the counts that are    *)
(* merged, that they are differential: every sample is counted once.       *)
EverySampleCountedOnce ==
    phase = "idle" => \A a \in master.atoms : born[a] # -1 =>
        AtomSamples(a) = drawn - born[a] /\ master.pmodel[a] = truth[a]

=============================================================================
