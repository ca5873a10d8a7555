----------------------------- MODULE TableProofs -----------------------------
(***************************************************************************)
(* Proofs about tables of two kinds.                                       *)
(*                                                                         *)
(* SampleCounts: the counts behind the marginal probabilities, for any     *)
(* number of threads, samples, runs and atoms.                             *)
(*                                                                         *)
(* HashMap: searches end, the table grows for keys, and it is a partial    *)
(* function, for any keys, values, hash function and sizes.                *)
(***************************************************************************)
EXTENDS SampleCounts, HashMap, Sums

-----------------------------------------------------------------------------
Table == [num : Nat, atoms : SUBSET Atoms, pmodel : [Atoms -> Int],
          since : [Atoms -> Int], qmodel : Int, qsince : Int]

TypeInv ==
    /\ master \in Table /\ copies \in [Threads -> Table]
    /\ lazy \in BOOLEAN /\ query \in BOOLEAN /\ facts \subseteq Direct
    /\ phase \in {"idle", "inplace", "threads", "answer"}
    /\ drawn \in Nat /\ before \in Nat /\ hits \in Nat
    /\ truth \in [Atoms -> Nat] /\ born \in [Atoms -> Int]

(* An atom was true in some of the samples drawn since it was added, and   *)
(* no run started after the last sample.                                   *)
HistoryInv ==
    /\ before <= drawn
    /\ phase = "idle" => ~query
    /\ \A a \in Atoms : truth[a] <= drawn - born[a]

(* The facts are in the main table.  The copies have its atoms, and no     *)
(* others unless they are added on the way.                                *)
AtomsInv ==
    /\ facts \subseteq master.atoms
    /\ phase = "threads" =>
          \A t \in Threads : /\ master.atoms \subseteq copies[t].atoms
                             /\ ~lazy => copies[t].atoms = master.atoms

(* An atom of a table was true in no more samples than there were, in all  *)
(* of them if it always was, in none if it never was.                      *)
CountedIn(table, a) ==
    /\ 0 <= table.pmodel[a]
    /\ table.pmodel[a] + table.since[a] <= table.num
    /\ truth[a] = drawn - born[a] => table.pmodel[a] + table.since[a] = table.num
    /\ truth[a] = 0 => table.pmodel[a] = 0

EstimateInv ==
    \A a \in master.atoms : born[a] # -1 =>
        /\ CountedIn(master, a)
        /\ phase = "threads" => \A t \in Threads : CountedIn(copies[t], a)

(* What the query missed in the copies is what it missed in the main table *)
(* as often as there are copies, so that the rest is what the run drew.    *)
QueryInv ==
    query =>
        /\ phase = "threads" =>
              /\ master.num = master.qsince /\ master.qmodel = 0
              /\ SumFunctionOnSet(Numbers, Threads) =
                    SumFunctionOnSet(QueryMissed, Threads) + (drawn - before)
              /\ SumFunctionOnSet(QueryTrues, Threads) = hits
        /\ phase = "inplace" \/ (phase = "answer" /\ (lazy => ~Refused)) =>
              master.num - master.qsince = drawn - before /\ master.qmodel = hits

(* The same for an atom that is new to the last run.                       *)
NewcomerInv ==
    ~lazy => \A a \in master.atoms : born[a] >= before =>
        /\ phase # "threads" =>
              master.num - master.since[a] = drawn - born[a] /\ master.pmodel[a] = truth[a]
        /\ phase = "threads" =>
              /\ master.num = master.since[a] /\ master.pmodel[a] = 0 /\ born[a] = before
              /\ SumFunctionOnSet(Numbers, Threads) =
                    SumFunctionOnSet(AtomMissed(a), Threads) + (drawn - before)
              /\ SumFunctionOnSet(AtomTrues(a), Threads) = truth[a]

CountsInv ==
    /\ TypeInv /\ HistoryInv /\ AtomsInv
    /\ EstimateInv /\ QueryInv /\ NewcomerInv

-----------------------------------------------------------------------------
(* What the operations on a table leave in its fields.                     *)
LEMMA Fields ==
    ASSUME NEW c \in Table
    PROVE  /\ c.num \in Nat /\ c.atoms \subseteq Atoms
           /\ c.pmodel \in [Atoms -> Int] /\ c.since \in [Atoms -> Int]
           /\ c.qmodel \in Int /\ c.qsince \in Int
BY DEF Table

LEMMA EmptyFields == EmptyTable \in Table
BY SampleCountsAssumption DEF EmptyTable, Table

LEMMA SampleFields ==
    ASSUME NEW c \in Table, NEW S
    PROVE  /\ WithSample(c, S) \in Table
           /\ WithSample(c, S).num = c.num + 1
           /\ WithSample(c, S).atoms = c.atoms
           /\ WithSample(c, S).since = c.since
           /\ WithSample(c, S).qsince = c.qsince
           /\ \A a \in Atoms : WithSample(c, S).pmodel[a] =
                                  IF a \in S THEN c.pmodel[a] + 1 ELSE c.pmodel[a]
           /\ WithSample(c, S).qmodel =
                 IF query /\ QueryAtom \in S THEN c.qmodel + 1 ELSE c.qmodel
<1> DEFINE pm == [a \in Atoms |-> IF a \in S THEN c.pmodel[a] + 1 ELSE c.pmodel[a]]
           qm == IF query /\ QueryAtom \in S THEN c.qmodel + 1 ELSE c.qmodel
<1>1. pm \in [Atoms -> Int] /\ qm \in Int /\ c.num + 1 \in Nat
  BY Fields
<1>2. \A a \in Atoms : pm[a] = IF a \in S THEN c.pmodel[a] + 1 ELSE c.pmodel[a]
  OBVIOUS
<1>3. WithSample(c, S) = [c EXCEPT !.num = c.num + 1, !.pmodel = pm, !.qmodel = qm]
  BY DEF WithSample
<1> HIDE DEF pm, qm
<1>4. WithSample(c, S) = [num |-> c.num + 1, atoms |-> c.atoms, pmodel |-> pm,
                          since |-> c.since, qmodel |-> qm, qsince |-> c.qsince]
  BY <1>3 DEF Table
<1> QED
  BY <1>1, <1>2, <1>4, Fields DEF Table, qm

LEMMA AtomFields ==
    ASSUME NEW c \in Table, NEW a \in Atoms
    PROVE  /\ WithAtom(c, a) \in Table
           /\ WithAtom(c, a).num = c.num
           /\ WithAtom(c, a).atoms = c.atoms \cup {a}
           /\ WithAtom(c, a).qmodel = c.qmodel
           /\ WithAtom(c, a).qsince = c.qsince
           /\ WithAtom(c, a).pmodel[a] = 0 /\ WithAtom(c, a).since[a] = c.num
           /\ \A b \in Atoms \ {a} : /\ WithAtom(c, a).pmodel[b] = c.pmodel[b]
                                     /\ WithAtom(c, a).since[b] = c.since[b]
<1> DEFINE pm == [c.pmodel EXCEPT ![a] = 0]
           sn == [c.since EXCEPT ![a] = c.num]
<1>1. pm \in [Atoms -> Int] /\ sn \in [Atoms -> Int] /\ pm[a] = 0 /\ sn[a] = c.num
  BY Fields
<1>2. \A b \in Atoms \ {a} : pm[b] = c.pmodel[b] /\ sn[b] = c.since[b]
  BY Fields
<1>3. WithAtom(c, a) = [c EXCEPT !.atoms = @ \cup {a}, !.pmodel = pm, !.since = sn]
  BY DEF WithAtom
<1> HIDE DEF pm, sn
<1>4. WithAtom(c, a) = [num |-> c.num, atoms |-> c.atoms \cup {a}, pmodel |-> pm,
                        since |-> sn, qmodel |-> c.qmodel, qsince |-> c.qsince]
  BY <1>3 DEF Table
<1> QED
  BY <1>1, <1>2, <1>4, Fields DEF Table

LEMMA CloneFields ==
    ASSUME NEW c \in Table
    PROVE  CloneSampTable(c) = c
<1> DEFINE to == CopyAtomTable(EmptyTable, c)
<1>1. PICK none : EmptyTable = [num |-> 0, atoms |-> {}, pmodel |-> none,
                                since |-> none, qmodel |-> 0, qsince |-> 0]
  BY DEF EmptyTable
<1>3. to = [num |-> c.num, atoms |-> c.atoms, pmodel |-> c.pmodel,
            since |-> c.since, qmodel |-> 0, qsince |-> 0]
  <2>1. CopyAtomTable(EmptyTable, c) =
          [EmptyTable EXCEPT !.num = c.num, !.atoms = c.atoms,
                             !.pmodel = c.pmodel, !.since = c.since]
    BY DEF CopyAtomTable
  <2> QED
    BY <1>1, <2>1
<1>2. CloneSampTable(c) = [to EXCEPT !.qmodel = c.qmodel, !.qsince = c.qsince]
  BY DEF CloneSampTable, CopyQueryInstanceTable
<1> HIDE DEF to
<1>4. CloneSampTable(c) = [num |-> c.num, atoms |-> c.atoms, pmodel |-> c.pmodel,
                           since |-> c.since, qmodel |-> c.qmodel, qsince |-> c.qsince]
  BY <1>3, <1>2
<1> QED
  BY <1>4 DEF Table

LEMMA QueryFields ==
    ASSUME NEW c \in Table
    PROVE  /\ WithQuery(c) \in Table
           /\ WithQuery(c).num = c.num /\ WithQuery(c).atoms = c.atoms
           /\ WithQuery(c).pmodel = c.pmodel /\ WithQuery(c).since = c.since
           /\ WithQuery(c).qmodel = 0 /\ WithQuery(c).qsince = c.num
<1>1. WithQuery(c) = [c EXCEPT !.qmodel = 0, !.qsince = c.num]
  BY DEF WithQuery
<1>2. PICK z \in Int : z = 0
  OBVIOUS
<1>3. WithQuery(c) = [num |-> c.num, atoms |-> c.atoms, pmodel |-> c.pmodel,
                      since |-> c.since, qmodel |-> z, qsince |-> c.num]
  BY <1>1, <1>2 DEF Table
<1> QED
  BY <1>2, <1>3, Fields DEF Table

-----------------------------------------------------------------------------
(* One lemma per operation.                                                *)
LEMMA InitCounts == Init => CountsInv
<1> SUFFICES ASSUME Init PROVE CountsInv
  OBVIOUS
<1>1. /\ master = EmptyTable /\ copies = [t \in Threads |-> EmptyTable]
      /\ lazy \in BOOLEAN /\ phase = "idle" /\ query = FALSE /\ facts = {}
      /\ drawn = 0 /\ before = 0 /\ hits = 0
      /\ truth = [a \in Atoms |-> 0] /\ born = [a \in Atoms |-> 0]
  BY SampleCountsAssumption DEF Init
<1>2. TypeInv /\ HistoryInv
  <2>1. copies \in [Threads -> Table]
    BY <1>1, EmptyFields
  <2>2. /\ truth \in [Atoms -> Nat] /\ born \in [Atoms -> Int]
        /\ \A a \in Atoms : truth[a] = 0 /\ born[a] = 0
    BY <1>1
  <2>3. /\ drawn \in Nat /\ before \in Nat /\ hits \in Nat /\ query \in BOOLEAN
        /\ facts \subseteq Direct
    BY <1>1
  <2>4. TypeInv
    BY <1>1, <2>1, <2>2, <2>3, EmptyFields DEF TypeInv
  <2> QED
    BY <1>1, <2>2, <2>4 DEF HistoryInv
<1>3. /\ EmptyTable.atoms = {} /\ EmptyTable.num = 0
      /\ \A a \in Atoms : EmptyTable.pmodel[a] = 0 /\ EmptyTable.since[a] = 0
  BY DEF EmptyTable
<1>4. AtomsInv /\ EstimateInv /\ QueryInv /\ NewcomerInv
  BY <1>1, <1>3, SampleCountsAssumption
     DEF AtomsInv, EstimateInv, CountedIn, QueryInv, NewcomerInv
<1> QED
  BY <1>2, <1>4 DEF CountsInv

LEMMA AtomAdded ==
    ASSUME CountsInv, NEW a \in Atoms,
           phase \in {"idle", "inplace"}, phase = "inplace" => lazy,
           a \notin master.atoms, master' = WithAtom(master, a),
           born' = [born EXCEPT ![a] = drawn], truth' = [truth EXCEPT ![a] = 0],
           facts' \subseteq Direct, facts' \subseteq facts \cup {a},
           UNCHANGED <<copies, lazy, phase, query, drawn, before, hits>>
    PROVE  CountsInv'
<1>1. /\ phase \in {"idle", "inplace"} /\ (phase = "inplace" => lazy)
      /\ a \notin master.atoms /\ master' = WithAtom(master, a)
      /\ born' = [born EXCEPT ![a] = drawn] /\ truth' = [truth EXCEPT ![a] = 0]
      /\ facts' \subseteq Direct /\ facts' \subseteq facts \cup {a}
      /\ UNCHANGED <<copies, lazy, phase, query, drawn, before, hits>>
  OBVIOUS
<1>2. TypeInv /\ HistoryInv /\ AtomsInv /\ EstimateInv /\ QueryInv /\ NewcomerInv
  BY DEF CountsInv
<1>3. /\ master \in Table /\ born'[a] = drawn /\ truth'[a] = 0
      /\ \A b \in Atoms \ {a} : born'[b] = born[b] /\ truth'[b] = truth[b]
  BY <1>1, <1>2 DEF TypeInv
<1>4. /\ master' \in Table
      /\ master'.num = master.num /\ master'.atoms = master.atoms \cup {a}
      /\ master'.qmodel = master.qmodel /\ master'.qsince = master.qsince
      /\ master'.pmodel[a] = 0 /\ master'.since[a] = master.num
      /\ \A b \in Atoms \ {a} : /\ master'.pmodel[b] = master.pmodel[b]
                                /\ master'.since[b] = master.since[b]
  BY <1>1, <1>3, AtomFields
<1>5. /\ master.num \in Nat /\ drawn \in Nat /\ before \in Nat /\ before <= drawn
      /\ master.atoms \subseteq Atoms
  BY <1>2, <1>3, Fields DEF TypeInv, HistoryInv
<1>6. TypeInv'
  BY <1>1, <1>2, <1>4 DEF TypeInv
<1>7. HistoryInv' /\ AtomsInv'
  BY <1>1, <1>2, <1>3, <1>4, <1>5 DEF HistoryInv, AtomsInv
<1>8. EstimateInv'
  BY <1>1, <1>2, <1>3, <1>4, <1>5 DEF EstimateInv, CountedIn
<1>9. QueryInv'
  BY <1>1, <1>2, <1>4 DEF QueryInv
<1>10. NewcomerInv'
  BY <1>1, <1>2, <1>3, <1>4, <1>5 DEF NewcomerInv
<1> QED
  BY <1>6, <1>7, <1>8, <1>9, <1>10 DEF CountsInv

LEMMA AddAtomCounts ==
    ASSUME CountsInv, NEW a \in Atoms, AddAtom(a)
    PROVE  CountsInv'
BY AtomAdded DEF AddAtom, control, CountsInv, TypeInv

LEMMA ResetCounts ==
    ASSUME CountsInv, ResetProbabilities
    PROVE  CountsInv'
<1> DEFINE pm == [a \in Atoms |-> IF a \in master.atoms THEN -1 ELSE master.pmodel[a]]
<1>1. /\ phase = "idle" /\ drawn' = 0 /\ before' = 0 /\ hits' = 0
      /\ truth' = [a \in Atoms |-> 0] /\ born' = [a \in Atoms |-> -1]
      /\ UNCHANGED <<copies, lazy, facts, phase, query>>
      /\ master' = [master EXCEPT !.num = 0, !.pmodel = pm]
  BY DEF ResetProbabilities, control
<1>2. TypeInv /\ HistoryInv /\ AtomsInv /\ master \in Table
  BY DEF CountsInv, TypeInv
<1>3. pm \in [Atoms -> Int]
  BY <1>2, Fields
<1> HIDE DEF pm
<1>4. master' \in Table /\ master'.atoms = master.atoms
  <2>1. PICK z \in Nat : z = 0
    OBVIOUS
  <2>2. master' = [num |-> z, atoms |-> master.atoms, pmodel |-> pm, since |-> master.since,
                   qmodel |-> master.qmodel, qsince |-> master.qsince]
    BY <1>1, <1>2, <2>1 DEF Table
  <2> QED
    BY <1>2, <1>3, <2>1, <2>2, Fields DEF Table
<1>5. TypeInv'
  BY <1>1, <1>2, <1>4 DEF TypeInv
<1>6. HistoryInv' /\ AtomsInv'
  BY <1>1, <1>2, <1>4 DEF HistoryInv, AtomsInv
<1>7. master.atoms \subseteq Atoms
  BY <1>2, Fields
<1>8. EstimateInv' /\ QueryInv' /\ NewcomerInv'
  BY <1>1, <1>2, <1>4, <1>7 DEF EstimateInv, QueryInv, NewcomerInv, HistoryInv
<1> QED
  BY <1>5, <1>6, <1>8 DEF CountsInv

LEMMA RunCounts ==
    ASSUME CountsInv, NEW ask \in BOOLEAN, NEW inPlace \in BOOLEAN, Run(ask, inPlace)
    PROVE  CountsInv'
<1> DEFINE table == IF ask THEN WithQuery(master) ELSE master
<1>1. /\ phase = "idle" /\ master' = table
      /\ copies' = [t \in Threads |-> CloneSampTable(table)]
      /\ phase' \in {"inplace", "threads"} /\ query' = ask
      /\ UNCHANGED <<lazy, facts>>
      /\ before' = drawn /\ hits' = 0 /\ UNCHANGED <<drawn, truth, born>>
  BY DEF Run
<1>2. TypeInv /\ HistoryInv /\ AtomsInv /\ EstimateInv /\ NewcomerInv /\ master \in Table
  BY DEF CountsInv, TypeInv
<1>3. /\ table \in Table /\ table.num = master.num /\ table.atoms = master.atoms
      /\ table.pmodel = master.pmodel /\ table.since = master.since
      /\ ask => table.qmodel = 0 /\ table.qsince = master.num
  BY <1>2, QueryFields
<1> HIDE DEF table
<1>4. copies' = [t \in Threads |-> table]
  BY <1>1, <1>3, CloneFields
<1>5. /\ drawn \in Nat /\ master.num \in Nat /\ before \in Nat /\ before <= drawn
      /\ \A a \in Atoms : born[a] \in Int /\ truth[a] \in Nat /\ truth[a] <= drawn - born[a]
      /\ \A a \in Atoms : master.since[a] \in Int /\ master.pmodel[a] \in Int
      /\ master.atoms \subseteq Atoms
  BY <1>2, Fields DEF TypeInv, HistoryInv
<1>6. TypeInv'
  <2>1. copies' \in [Threads -> Table]
    BY <1>3, <1>4
  <2>2. hits' \in Nat /\ query' \in BOOLEAN
    BY <1>1
  <2> QED
    BY <1>1, <1>2, <1>3, <2>1, <2>2 DEF TypeInv
<1>7. HistoryInv'
  BY <1>1, <1>2, <1>5 DEF HistoryInv
<1>8. AtomsInv' /\ EstimateInv'
  BY <1>1, <1>2, <1>3, <1>4 DEF AtomsInv, EstimateInv, CountedIn
<1>9. QueryInv'
  <2> SUFFICES ASSUME ask PROVE QueryInv'
    BY <1>1 DEF QueryInv
  <2>1. /\ Numbers' \in [Threads -> Int] /\ QueryMissed' \in [Threads -> Int]
        /\ QueryTrues' \in [Threads -> Int]
        /\ \A t \in Threads : Numbers'[t] = QueryMissed'[t] /\ QueryTrues'[t] = 0
    BY <1>3, <1>4, <1>5 DEF Numbers, QueryMissed, QueryTrues
  <2>2. /\ SumFunctionOnSet(Numbers', Threads) = SumFunctionOnSet(QueryMissed', Threads)
        /\ SumFunctionOnSet(QueryTrues', Threads) = 0
    BY <2>1, SumSame, SumZero, SampleCountsAssumption
  <2>3. SumFunctionOnSet(QueryMissed', Threads) \in Int
    BY <2>1, SumRemove, SampleCountsAssumption
  <2> QED
    BY <1>1, <1>3, <1>5, <2>2, <2>3 DEF QueryInv
<1>10. NewcomerInv'
  <2> SUFFICES ASSUME ~lazy, NEW a \in master.atoms, born[a] >= drawn
               PROVE  (/\ phase # "threads" =>
                             /\ master.num - master.since[a] = drawn - born[a]
                             /\ master.pmodel[a] = truth[a]
                       /\ phase = "threads" =>
                             /\ master.num = master.since[a] /\ master.pmodel[a] = 0
                             /\ born[a] = before
                             /\ SumFunctionOnSet(Numbers, Threads) =
                                   SumFunctionOnSet(AtomMissed(a), Threads) + (drawn - before)
                             /\ SumFunctionOnSet(AtomTrues(a), Threads) = truth[a])'
    BY <1>1, <1>3 DEF NewcomerInv
  <2>1. born[a] = drawn /\ truth[a] = 0
    BY <1>5
  <2>2. master.num - master.since[a] = drawn - born[a] /\ master.pmodel[a] = truth[a]
    BY <1>1, <1>2, <1>5 DEF NewcomerInv
  <2>3. master.num = master.since[a] /\ master.pmodel[a] = 0
    <3>1. /\ master.num \in Int /\ master.since[a] \in Int /\ drawn \in Int
          /\ master.num - master.since[a] = drawn - drawn
      BY <1>5, <2>1, <2>2
    <3> QED
      BY <2>1, <2>2, <3>1
  <2>4. /\ Numbers' \in [Threads -> Int] /\ AtomMissed(a)' \in [Threads -> Int]
        /\ AtomTrues(a)' \in [Threads -> Int]
        /\ \A t \in Threads : Numbers'[t] = AtomMissed(a)'[t] /\ AtomTrues(a)'[t] = 0
    BY <1>3, <1>4, <1>5, <2>3 DEF Numbers, AtomMissed, AtomTrues
  <2>5. /\ SumFunctionOnSet(Numbers', Threads) = SumFunctionOnSet(AtomMissed(a)', Threads)
        /\ SumFunctionOnSet(AtomTrues(a)', Threads) = 0
    BY <2>4, SumSame, SumZero, SampleCountsAssumption
  <2>6. SumFunctionOnSet(AtomMissed(a)', Threads) \in Int
    BY <2>4, SumRemove, SampleCountsAssumption
  <2> QED
    BY <1>1, <1>3, <1>5, <2>1, <2>2, <2>3, <2>5, <2>6
<1> QED
  BY <1>6, <1>7, <1>8, <1>9, <1>10 DEF CountsInv

LEMMA RecordedCounts ==
    ASSUME CountsInv, NEW S, Recorded(S), UNCHANGED control
    PROVE  /\ drawn' = drawn + 1 /\ UNCHANGED <<lazy, facts, phase, query, before, born>>
           /\ \A a \in Atoms : truth'[a] = IF a \in S \cap master.atoms THEN truth[a] + 1
                                           ELSE truth[a]
           /\ hits' = IF query /\ QueryAtom \in S THEN hits + 1 ELSE hits
           /\ HistoryInv'
           /\ master' \in Table /\ copies' \in [Threads -> Table] => TypeInv'
           /\ \A a \in master.atoms :
                 /\ truth'[a] = 0 => truth[a] = 0 /\ a \notin S
                 /\ truth'[a] = drawn' - born'[a] => truth[a] = drawn - born[a] /\ a \in S
<1>1. TypeInv /\ HistoryInv
  BY DEF CountsInv
<1>2. /\ drawn' = drawn + 1 /\ UNCHANGED <<lazy, facts, phase, query, before, born>>
      /\ truth' = [a \in Atoms |-> IF a \in S \cap master.atoms THEN truth[a] + 1 ELSE truth[a]]
      /\ hits' = IF query /\ QueryAtom \in S THEN hits + 1 ELSE hits
  BY DEF Recorded, control
<1>3. \A a \in Atoms : /\ truth'[a] = IF a \in S \cap master.atoms THEN truth[a] + 1
                                      ELSE truth[a]
                       /\ truth[a] \in Nat /\ born[a] \in Int /\ truth[a] <= drawn - born[a]
  BY <1>1, <1>2 DEF TypeInv, HistoryInv
<1>4. drawn \in Nat /\ before \in Nat /\ hits \in Nat /\ before <= drawn
  BY <1>1 DEF TypeInv, HistoryInv
<1>5. truth' \in [Atoms -> Nat]
  <2>1. \A a \in Atoms : truth'[a] \in Nat
    BY <1>3
  <2> QED
    BY <1>2, <2>1
<1>6. HistoryInv'
  BY <1>1, <1>2, <1>3, <1>4 DEF HistoryInv
<1>7. hits' \in Nat /\ drawn' \in Nat
  BY <1>2, <1>4
<1>8. \A a \in master.atoms :
        /\ truth'[a] = 0 => truth[a] = 0 /\ a \notin S
        /\ truth'[a] = drawn' - born'[a] => truth[a] = drawn - born[a] /\ a \in S
  <2>1. master.atoms \subseteq Atoms
    BY <1>1, Fields DEF TypeInv
  <2> QED
    BY <1>2, <1>3, <1>4, <2>1
<1> QED
  BY <1>1, <1>2, <1>3, <1>5, <1>6, <1>7, <1>8 DEF TypeInv

LEMMA DrawInPlaceCounts ==
    ASSUME CountsInv, DrawInPlace
    PROVE  CountsInv'
<1>1. PICK S \in Samples(master) : master' = WithSample(master, S) /\ Recorded(S)
  BY DEF DrawInPlace
<1>2. phase = "inplace" /\ UNCHANGED <<copies, control>>
  BY DEF DrawInPlace
<1>3. TypeInv /\ HistoryInv /\ AtomsInv /\ EstimateInv /\ QueryInv /\ NewcomerInv
  BY DEF CountsInv
<1>4. /\ drawn' = drawn + 1 /\ UNCHANGED <<lazy, facts, phase, query, before, born>>
      /\ \A a \in Atoms : truth'[a] = IF a \in S \cap master.atoms THEN truth[a] + 1 ELSE truth[a]
      /\ hits' = IF query /\ QueryAtom \in S THEN hits + 1 ELSE hits
      /\ HistoryInv'
      /\ master' \in Table /\ copies' \in [Threads -> Table] => TypeInv'
      /\ \A a \in master.atoms :
            /\ truth'[a] = 0 => truth[a] = 0 /\ a \notin S
            /\ truth'[a] = drawn' - born'[a] => truth[a] = drawn - born[a] /\ a \in S
  BY <1>1, <1>2, RecordedCounts
<1>5. master \in Table
  BY <1>3 DEF TypeInv
<1>6. /\ master' \in Table
      /\ master'.num = master.num + 1 /\ master'.atoms = master.atoms
      /\ master'.since = master.since /\ master'.qsince = master.qsince
      /\ \A a \in Atoms : master'.pmodel[a] =
                             IF a \in S THEN master.pmodel[a] + 1 ELSE master.pmodel[a]
      /\ master'.qmodel = IF query /\ QueryAtom \in S THEN master.qmodel + 1 ELSE master.qmodel
  BY <1>1, <1>5, SampleFields
<1>7. /\ master.num \in Int /\ master.qmodel \in Int /\ master.qsince \in Int
      /\ drawn \in Int /\ before \in Int /\ hits \in Int
      /\ \A a \in Atoms : /\ born[a] \in Int /\ truth[a] \in Int
                          /\ master.since[a] \in Int /\ master.pmodel[a] \in Int
      /\ master.atoms \subseteq Atoms
  BY <1>3, <1>5, Fields DEF TypeInv
<1>8. TypeInv'
  BY <1>2, <1>3, <1>4, <1>6 DEF TypeInv
<1>9. AtomsInv'
  BY <1>2, <1>3, <1>4, <1>6 DEF AtomsInv
<1>10. EstimateInv'
  <2> SUFFICES ASSUME NEW a \in master.atoms, born[a] # -1 PROVE CountedIn(master, a)'
    BY <1>2, <1>4, <1>6 DEF EstimateInv
  <2>1. CountedIn(master, a) /\ a \in Atoms
    BY <1>3, <1>7 DEF EstimateInv
  <2> QED
    BY <1>4, <1>6, <1>7, <2>1 DEF CountedIn
<1>11. QueryInv'
  <2> SUFFICES ASSUME query
               PROVE  master'.num - master'.qsince = drawn' - before /\ master'.qmodel = hits'
    BY <1>2, <1>4 DEF QueryInv
  <2>1. master.num - master.qsince = drawn - before /\ master.qmodel = hits
    BY <1>2, <1>3 DEF QueryInv
  <2> QED
    BY <1>4, <1>6, <1>7, <2>1
<1>12. NewcomerInv'
  <2> SUFFICES ASSUME ~lazy, NEW a \in master.atoms, born[a] >= before
               PROVE  /\ master'.num - master'.since[a] = drawn' - born[a]
                      /\ master'.pmodel[a] = truth'[a]
    BY <1>2, <1>4, <1>6 DEF NewcomerInv
  <2>1. master.num - master.since[a] = drawn - born[a] /\ master.pmodel[a] = truth[a]
    BY <1>2, <1>3 DEF NewcomerInv
  <2> QED
    BY <1>4, <1>6, <1>7, <2>1
<1> QED
  BY <1>4, <1>8, <1>9, <1>10, <1>11, <1>12 DEF CountsInv

(* A count of one thread changes.                                          *)
LEMMA CountChanged ==
    ASSUME NEW f \in [Threads -> Int], NEW g \in [Threads -> Int], NEW t \in Threads,
           \A u \in Threads \ {t} : g[u] = f[u]
    PROVE  /\ SumFunctionOnSet(g, Threads) = SumFunctionOnSet(f, Threads) + (g[t] - f[t])
           /\ SumFunctionOnSet(f, Threads) \in Int
BY SumChanged, SumRemove, SampleCountsAssumption

LEMMA DrawSampleCounts ==
    ASSUME CountsInv, NEW t \in Threads, DrawSample(t)
    PROVE  CountsInv'
<1>1. PICK S \in Samples(copies[t]) :
        copies' = [copies EXCEPT ![t] = WithSample(@, S)] /\ Recorded(S)
  BY DEF DrawSample
<1>2. phase = "threads" /\ UNCHANGED <<master, control>>
  BY DEF DrawSample
<1>3. TypeInv /\ HistoryInv /\ AtomsInv /\ EstimateInv /\ QueryInv /\ NewcomerInv
  BY DEF CountsInv
<1>4. /\ drawn' = drawn + 1 /\ UNCHANGED <<lazy, facts, phase, query, before, born>>
      /\ \A a \in Atoms : truth'[a] = IF a \in S \cap master.atoms THEN truth[a] + 1 ELSE truth[a]
      /\ hits' = IF query /\ QueryAtom \in S THEN hits + 1 ELSE hits
      /\ HistoryInv'
      /\ master' \in Table /\ copies' \in [Threads -> Table] => TypeInv'
      /\ \A a \in master.atoms :
            /\ truth'[a] = 0 => truth[a] = 0 /\ a \notin S
            /\ truth'[a] = drawn' - born'[a] => truth[a] = drawn - born[a] /\ a \in S
  BY <1>1, <1>2, RecordedCounts
<1>5. /\ master \in Table /\ copies \in [Threads -> Table] /\ copies[t] \in Table
      /\ \A u \in Threads \ {t} : copies'[u] = copies[u]
      /\ copies'[t] = WithSample(copies[t], S)
  BY <1>1, <1>3 DEF TypeInv
<1>6. /\ copies'[t] \in Table
      /\ copies'[t].num = copies[t].num + 1 /\ copies'[t].atoms = copies[t].atoms
      /\ copies'[t].since = copies[t].since /\ copies'[t].qsince = copies[t].qsince
      /\ \A a \in Atoms : copies'[t].pmodel[a] =
                             IF a \in S THEN copies[t].pmodel[a] + 1 ELSE copies[t].pmodel[a]
      /\ copies'[t].qmodel =
            IF query /\ QueryAtom \in S THEN copies[t].qmodel + 1 ELSE copies[t].qmodel
  BY <1>5, SampleFields
<1>7. copies' \in [Threads -> Table]
  BY <1>1, <1>5, <1>6
<1>8. /\ drawn \in Int /\ before \in Int /\ hits \in Int
      /\ \A a \in Atoms : born[a] \in Int /\ truth[a] \in Int
      /\ master.atoms \subseteq Atoms
  BY <1>3, <1>5, Fields DEF TypeInv
<1>9. \A u \in Threads :
        /\ copies[u].num \in Int /\ copies[u].qmodel \in Int /\ copies[u].qsince \in Int
        /\ \A a \in Atoms : copies[u].since[a] \in Int /\ copies[u].pmodel[a] \in Int
  BY <1>5, Fields
<1>10. TypeInv'
  BY <1>2, <1>4, <1>5, <1>7
<1>11. AtomsInv'
  BY <1>2, <1>3, <1>4, <1>5, <1>6 DEF AtomsInv
<1>12. EstimateInv'
  <2> SUFFICES ASSUME NEW a \in master.atoms, born[a] # -1, NEW u \in Threads
               PROVE  CountedIn(copies[u], a)' /\ CountedIn(master, a)'
    BY <1>2, <1>3, <1>4 DEF EstimateInv
  <2>1. CountedIn(copies[u], a) /\ CountedIn(master, a)
    BY <1>2, <1>3 DEF EstimateInv
  <2>2. CountedIn(copies[u], a)'
    <3>1. CASE u = t
      BY <1>4, <1>6, <1>8, <1>9, <2>1, <3>1 DEF CountedIn
    <3>2. CASE u # t
      BY <1>4, <1>5, <2>1, <3>2 DEF CountedIn
    <3> QED
      BY <3>1, <3>2
  <2> QED
    BY <1>2, <1>4, <2>1, <2>2 DEF CountedIn
<1>13. /\ Numbers \in [Threads -> Int] /\ Numbers' \in [Threads -> Int]
       /\ Numbers'[t] = Numbers[t] + 1
       /\ \A u \in Threads \ {t} : Numbers'[u] = Numbers[u]
  BY <1>5, <1>6, <1>9 DEF Numbers
<1>14. SumFunctionOnSet(Numbers, Threads)' = SumFunctionOnSet(Numbers, Threads) + 1
  BY <1>13, CountChanged
<1>15. QueryInv'
  <2> SUFFICES ASSUME query PROVE QueryInv'
    BY <1>4 DEF QueryInv
  <2>1. QueryMissed' = QueryMissed
    BY <1>5, <1>6 DEF QueryMissed
  <2>2. /\ QueryTrues \in [Threads -> Int] /\ QueryTrues' \in [Threads -> Int]
        /\ QueryTrues'[t] = IF QueryAtom \in S THEN QueryTrues[t] + 1 ELSE QueryTrues[t]
        /\ \A u \in Threads \ {t} : QueryTrues'[u] = QueryTrues[u]
    BY <1>5, <1>6, <1>9 DEF QueryTrues
  <2>3. SumFunctionOnSet(QueryTrues, Threads)' =
          IF QueryAtom \in S THEN SumFunctionOnSet(QueryTrues, Threads) + 1
          ELSE SumFunctionOnSet(QueryTrues, Threads)
    BY <2>2, CountChanged
  <2>4. QueryMissed \in [Threads -> Int]
    BY <1>9 DEF QueryMissed
  <2>5. SumFunctionOnSet(QueryMissed, Threads) \in Int
    BY <2>4, SumRemove, SampleCountsAssumption
  <2>6. SumFunctionOnSet(QueryMissed, Threads)' = SumFunctionOnSet(QueryMissed, Threads)
    BY <2>1
  <2> QED
    BY <1>2, <1>3, <1>4, <1>8, <1>14, <2>3, <2>5, <2>6 DEF QueryInv
<1>16. NewcomerInv'
  <2> SUFFICES ASSUME ~lazy, NEW a \in master.atoms, born[a] >= before
               PROVE  /\ SumFunctionOnSet(Numbers, Threads)' =
                            SumFunctionOnSet(AtomMissed(a), Threads)' + (drawn' - before)
                      /\ SumFunctionOnSet(AtomTrues(a), Threads)' = truth'[a]
    BY <1>2, <1>3, <1>4 DEF NewcomerInv
  <2>0. a \in Atoms
    BY <1>8
  <2>1. AtomMissed(a)' = AtomMissed(a)
    BY <1>5, <1>6 DEF AtomMissed
  <2>2. /\ AtomTrues(a) \in [Threads -> Int] /\ AtomTrues(a)' \in [Threads -> Int]
        /\ AtomTrues(a)'[t] = IF a \in S THEN AtomTrues(a)[t] + 1 ELSE AtomTrues(a)[t]
        /\ \A u \in Threads \ {t} : AtomTrues(a)'[u] = AtomTrues(a)[u]
    BY <1>5, <1>6, <1>9, <2>0 DEF AtomTrues
  <2>3. SumFunctionOnSet(AtomTrues(a), Threads)' =
          IF a \in S THEN SumFunctionOnSet(AtomTrues(a), Threads) + 1
          ELSE SumFunctionOnSet(AtomTrues(a), Threads)
    BY <2>2, CountChanged
  <2>4. AtomMissed(a) \in [Threads -> Int]
    BY <1>9, <2>0 DEF AtomMissed
  <2>5. SumFunctionOnSet(AtomMissed(a), Threads) \in Int
    BY <2>4, SumRemove, SampleCountsAssumption
  <2>6. SumFunctionOnSet(AtomMissed(a), Threads)' = SumFunctionOnSet(AtomMissed(a), Threads)
    BY <2>1
  <2>7. /\ SumFunctionOnSet(Numbers, Threads) =
              SumFunctionOnSet(AtomMissed(a), Threads) + (drawn - before)
        /\ SumFunctionOnSet(AtomTrues(a), Threads) = truth[a]
    BY <1>2, <1>3 DEF NewcomerInv
  <2> QED
    BY <1>4, <1>8, <1>14, <2>0, <2>3, <2>5, <2>6, <2>7
<1> QED
  BY <1>4, <1>10, <1>11, <1>12, <1>15, <1>16 DEF CountsInv

LEMMA AddAtomInThreadCounts ==
    ASSUME CountsInv, NEW t \in Threads, NEW a \in Atoms, AddAtomInThread(t, a)
    PROVE  CountsInv'
<1>1. /\ lazy /\ phase = "threads" /\ a \notin copies[t].atoms
      /\ copies' = [copies EXCEPT ![t] = WithAtom(@, a)]
      /\ UNCHANGED <<master, lazy, facts, phase, query, drawn, before, hits, truth, born>>
  BY DEF AddAtomInThread, control, history
<1>2. TypeInv /\ HistoryInv /\ AtomsInv /\ EstimateInv /\ QueryInv
  BY DEF CountsInv
<1>3. /\ copies \in [Threads -> Table] /\ copies[t] \in Table
      /\ \A u \in Threads \ {t} : copies'[u] = copies[u]
      /\ copies'[t] = WithAtom(copies[t], a)
  BY <1>1, <1>2 DEF TypeInv
<1>4. /\ copies'[t] \in Table
      /\ copies'[t].num = copies[t].num /\ copies'[t].atoms = copies[t].atoms \cup {a}
      /\ copies'[t].qmodel = copies[t].qmodel /\ copies'[t].qsince = copies[t].qsince
      /\ \A b \in Atoms \ {a} : /\ copies'[t].pmodel[b] = copies[t].pmodel[b]
                                /\ copies'[t].since[b] = copies[t].since[b]
  BY <1>3, AtomFields
<1>5. a \notin master.atoms /\ master.atoms \subseteq Atoms
  BY <1>1, <1>2, Fields DEF AtomsInv, TypeInv
<1>6. copies' \in [Threads -> Table]
  BY <1>1, <1>3, <1>4
<1>7. TypeInv' /\ HistoryInv'
  BY <1>1, <1>2, <1>6 DEF TypeInv, HistoryInv
<1>8. AtomsInv'
  BY <1>1, <1>2, <1>3, <1>4 DEF AtomsInv
<1>9. EstimateInv'
  <2> SUFFICES ASSUME NEW b \in master.atoms, born[b] # -1, NEW u \in Threads
               PROVE  CountedIn(copies[u], b)'
    BY <1>1, <1>2 DEF EstimateInv, CountedIn
  <2>1. CountedIn(copies[u], b) /\ b \in Atoms \ {a}
    BY <1>1, <1>2, <1>5 DEF EstimateInv
  <2> QED
    BY <1>1, <1>3, <1>4, <2>1 DEF CountedIn
<1>10. Numbers' = Numbers /\ QueryMissed' = QueryMissed /\ QueryTrues' = QueryTrues
  BY <1>3, <1>4 DEF Numbers, QueryMissed, QueryTrues
<1>11. QueryInv' /\ NewcomerInv'
  BY <1>1, <1>2, <1>10 DEF QueryInv, NewcomerInv
<1> QED
  BY <1>7, <1>8, <1>9, <1>11 DEF CountsInv

(* A thread that ends, and a run in place that ends.                       *)
LEMMA EndCounts ==
    ASSUME CountsInv,
           UNCHANGED <<master, copies, lazy, query, drawn, before, hits, truth, born>>,
           facts' \subseteq Direct, facts' \subseteq master.atoms,
           \/ phase' = phase /\ (phase # "threads" => done' = done)
           \/ phase = "inplace" /\ phase' = "answer"
    PROVE  CountsInv'
<1>1. TypeInv' /\ HistoryInv' /\ AtomsInv' /\ EstimateInv'
  BY DEF CountsInv, TypeInv, HistoryInv, AtomsInv, EstimateInv, CountedIn
<1>2. /\ Mergeable' = Mergeable /\ Numbers' = Numbers /\ QueryMissed' = QueryMissed /\ QueryTrues' = QueryTrues
      /\ \A a : AtomMissed(a)' = AtomMissed(a) /\ AtomTrues(a)' = AtomTrues(a)
  BY DEF Mergeable, Numbers, QueryMissed, QueryTrues, AtomMissed, AtomTrues
<1>3. QueryInv' /\ NewcomerInv'
  BY <1>2 DEF CountsInv, QueryInv, NewcomerInv, Refused
<1> QED
  BY <1>1, <1>3 DEF CountsInv

LEMMA AssertAtomCounts ==
    ASSUME CountsInv, NEW a \in Atoms, AssertAtom(a)
    PROVE  CountsInv'
<1>1. /\ phase = "idle" /\ a \in Direct /\ facts' = facts \cup {a}
      /\ UNCHANGED <<copies, lazy, phase, done, query, drawn, before, hits>>
  BY DEF AssertAtom
<1>2. facts' \subseteq Direct /\ facts \subseteq master.atoms
  BY <1>1 DEF CountsInv, TypeInv, AtomsInv
<1>3. CASE a \in master.atoms
  BY <1>1, <1>2, <1>3, EndCounts DEF AssertAtom
<1>4. CASE a \notin master.atoms
  BY <1>1, <1>2, <1>4, AtomAdded DEF AssertAtom
<1> QED
  BY <1>3, <1>4

LEMMA AnswerCounts ==
    ASSUME CountsInv, Answer
    PROVE  CountsInv'
<1>1. /\ phase = "answer" /\ phase' = "idle" /\ query' = FALSE
      /\ master' = [master EXCEPT !.qmodel = 0, !.qsince = 0]
      /\ UNCHANGED <<copies, lazy, facts, drawn, before, hits, truth, born>>
  BY DEF Answer, history
<1>2. TypeInv /\ HistoryInv /\ AtomsInv /\ EstimateInv /\ NewcomerInv /\ master \in Table
  BY DEF CountsInv, TypeInv
<1>3. /\ master' \in Table /\ master'.num = master.num /\ master'.atoms = master.atoms
      /\ master'.pmodel = master.pmodel /\ master'.since = master.since
  <2>1. PICK z \in Int : z = 0
    OBVIOUS
  <2>2. master' = [num |-> master.num, atoms |-> master.atoms, pmodel |-> master.pmodel,
                   since |-> master.since, qmodel |-> z, qsince |-> z]
    BY <1>1, <1>2, <2>1 DEF Table
  <2> QED
    BY <1>2, <2>1, <2>2, Fields DEF Table
<1>4. query' \in BOOLEAN
  BY <1>1
<1>5. TypeInv' /\ HistoryInv' /\ AtomsInv' /\ EstimateInv'
  BY <1>1, <1>2, <1>3, <1>4 DEF TypeInv, HistoryInv, AtomsInv, EstimateInv, CountedIn
<1>6. QueryInv' /\ NewcomerInv'
  BY <1>1, <1>2, <1>3 DEF QueryInv, NewcomerInv
<1> QED
  BY <1>5, <1>6 DEF CountsInv

(* What the copies add up to, over any of the threads.                     *)
LEMMA CopySums ==
    ASSUME TypeInv, NEW T \in SUBSET Threads
    PROVE  /\ SumFunctionOnSet(Numbers, T) \in Nat
           /\ SumFunctionOnSet(QueryTrues, T) \in Int
           /\ SumFunctionOnSet(QueryMissed, T) \in Int
           /\ \A a \in Atoms : /\ SumFunctionOnSet(AtomTrues(a), T) \in Int
                               /\ SumFunctionOnSet(AtomMissed(a), T) \in Int
<1>1. IsFiniteSet(T)
  BY FS_Subset, SampleCountsAssumption
<1>2. \A u \in Threads : copies[u] \in Table
  BY DEF TypeInv
<1>3. /\ Numbers \in [Threads -> Int] /\ \A u \in T : 0 <= Numbers[u]
      /\ QueryTrues \in [Threads -> Int] /\ QueryMissed \in [Threads -> Int]
      /\ \A a \in Atoms : AtomTrues(a) \in [Threads -> Int] /\ AtomMissed(a) \in [Threads -> Int]
  BY <1>2, Fields DEF Numbers, QueryTrues, QueryMissed, AtomTrues, AtomMissed
<1>4. SumFunctionOnSet(Numbers, T) \in Int /\ 0 <= SumFunctionOnSet(Numbers, T)
  BY <1>1, <1>3, SumRemove, SumNonnegative
<1>5. /\ SumFunctionOnSet(QueryTrues, T) \in Int /\ SumFunctionOnSet(QueryMissed, T) \in Int
      /\ \A a \in Atoms : /\ SumFunctionOnSet(AtomTrues(a), T) \in Int
                          /\ SumFunctionOnSet(AtomMissed(a), T) \in Int
  BY <1>1, <1>3, SumRemove
<1> QED
  BY <1>4, <1>5

LEMMA MergedFields ==
    ASSUME TypeInv, NEW merged,
           merged = MergeQueryInstanceTables(MergeAtomTables(master))
    PROVE  /\ merged \in Table
           /\ merged.num = MergedSamples /\ merged.atoms = master.atoms
           /\ \A a \in Atoms : a \in master.atoms =>
                 /\ merged.pmodel[a] =
                       master.pmodel[a] + SumFunctionOnSet(AtomTrues(a), Mergeable)
                 /\ merged.since[a] =
                       master.since[a] + SumFunctionOnSet(AtomMissed(a), Mergeable)
           /\ query =>
                 /\ merged.qmodel = master.qmodel + SumFunctionOnSet(QueryTrues, Threads)
                 /\ merged.qsince = master.qsince + SumFunctionOnSet(QueryMissed, Threads)
<1> DEFINE pm == [a \in Atoms |->
              IF a \in master.atoms
                THEN master.pmodel[a] + SumFunctionOnSet(AtomTrues(a), Mergeable)
                ELSE master.pmodel[a]]
           sn == [a \in Atoms |->
              IF a \in master.atoms
                THEN master.since[a] + SumFunctionOnSet(AtomMissed(a), Mergeable)
                ELSE master.since[a]]
           qm == IF query THEN master.qmodel + SumFunctionOnSet(QueryTrues, Threads)
                 ELSE master.qmodel
           qs == IF query THEN master.qsince + SumFunctionOnSet(QueryMissed, Threads)
                 ELSE master.qsince
           atomsMerged == [master EXCEPT !.num = MergedSamples, !.pmodel = pm, !.since = sn]
<1>1. master \in Table /\ Mergeable \in SUBSET Threads
  BY DEF TypeInv, Mergeable
<1>2. MergedSamples \in Nat
  BY <1>1, CopySums, Fields DEF MergedSamples
<1>3. pm \in [Atoms -> Int] /\ sn \in [Atoms -> Int]
  <2>1. \A a \in Atoms : /\ master.pmodel[a] \in Int /\ master.since[a] \in Int
                         /\ SumFunctionOnSet(AtomTrues(a), Mergeable) \in Int
                         /\ SumFunctionOnSet(AtomMissed(a), Mergeable) \in Int
    BY <1>1, CopySums, Fields
  <2> QED
    BY <2>1
<1>4. qm \in Int /\ qs \in Int
  BY <1>1, CopySums, Fields
<1>5. MergeAtomTables(master) = atomsMerged
  BY DEF MergeAtomTables
<1>6. \A a \in Atoms : a \in master.atoms =>
        /\ pm[a] = master.pmodel[a] + SumFunctionOnSet(AtomTrues(a), Mergeable)
        /\ sn[a] = master.since[a] + SumFunctionOnSet(AtomMissed(a), Mergeable)
  OBVIOUS
<1> HIDE DEF pm, sn
<1>7. atomsMerged = [num |-> MergedSamples, atoms |-> master.atoms, pmodel |-> pm,
                     since |-> sn, qmodel |-> master.qmodel, qsince |-> master.qsince]
  <2> DEFINE c1 == [num |-> MergedSamples, atoms |-> master.atoms, pmodel |-> master.pmodel,
                    since |-> master.since, qmodel |-> master.qmodel, qsince |-> master.qsince]
             c2 == [num |-> MergedSamples, atoms |-> master.atoms, pmodel |-> pm,
                    since |-> master.since, qmodel |-> master.qmodel, qsince |-> master.qsince]
  <2>1. master = [num |-> master.num, atoms |-> master.atoms, pmodel |-> master.pmodel,
                  since |-> master.since, qmodel |-> master.qmodel, qsince |-> master.qsince]
    BY <1>1 DEF Table
  <2>2. [master EXCEPT !.num = MergedSamples] = c1
    BY <2>1
  <2>3. [c1 EXCEPT !.pmodel = pm] = c2
    OBVIOUS
  <2>4. [c2 EXCEPT !.since = sn] =
          [num |-> MergedSamples, atoms |-> master.atoms, pmodel |-> pm, since |-> sn,
           qmodel |-> master.qmodel, qsince |-> master.qsince]
    OBVIOUS
  <2> HIDE DEF c1, c2
  <2> QED
    BY <2>2, <2>3, <2>4, Zenon
<1>8. merged = IF query THEN [atomsMerged EXCEPT !.qmodel = qm, !.qsince = qs] ELSE atomsMerged
  <2>1. atomsMerged.qmodel = master.qmodel /\ atomsMerged.qsince = master.qsince
    BY <1>7
  <2> HIDE DEF atomsMerged
  <2> QED
    BY <1>5, <2>1 DEF MergeQueryInstanceTables
<1> HIDE DEF atomsMerged
<1>9. merged = [num |-> MergedSamples, atoms |-> master.atoms, pmodel |-> pm,
                since |-> sn, qmodel |-> qm, qsince |-> qs]
  <2>1. query => merged = [num |-> MergedSamples, atoms |-> master.atoms, pmodel |-> pm,
                           since |-> sn, qmodel |-> qm, qsince |-> qs]
    <3> HIDE DEF qm, qs
    <3> QED
      BY <1>7, <1>8
  <2>2. ~query => qm = master.qmodel /\ qs = master.qsince
    OBVIOUS
  <2> QED
    BY <1>7, <1>8, <2>1, <2>2
<1>10. merged \in Table
  <2> HIDE DEF qm, qs
  <2> QED
    BY <1>1, <1>2, <1>3, <1>4, <1>9, Fields DEF Table
<1> QED
  BY <1>6, <1>9, <1>10

LEMMA JoinCounts ==
    ASSUME CountsInv, JoinAndMerge
    PROVE  CountsInv'
<1>1. /\ phase = "threads" /\ phase' = "answer" /\ done = Threads /\ done' = done
      /\ master' = MergeQueryInstanceTables(MergeAtomTables(master))
      /\ UNCHANGED <<copies, lazy, facts, query, drawn, before, hits, truth, born>>
  BY DEF JoinAndMerge, history
<1>2. TypeInv /\ HistoryInv /\ AtomsInv /\ EstimateInv /\ QueryInv /\ NewcomerInv
  BY DEF CountsInv
<1>3. /\ master' \in Table
      /\ master'.num = MergedSamples /\ master'.atoms = master.atoms
      /\ \A a \in Atoms : a \in master.atoms =>
            /\ master'.pmodel[a] =
                  master.pmodel[a] + SumFunctionOnSet(AtomTrues(a), Mergeable)
            /\ master'.since[a] =
                  master.since[a] + SumFunctionOnSet(AtomMissed(a), Mergeable)
      /\ query =>
            /\ master'.qmodel = master.qmodel + SumFunctionOnSet(QueryTrues, Threads)
            /\ master'.qsince = master.qsince + SumFunctionOnSet(QueryMissed, Threads)
  BY <1>1, <1>2, MergedFields
<1>4. MergedSamples = master.num + SumFunctionOnSet(Numbers, Mergeable)
  BY DEF MergedSamples
<1>5. /\ master.num \in Int /\ master.qsince \in Int /\ master.qmodel \in Int
      /\ master.atoms \subseteq Atoms
      /\ \A a \in Atoms : master.pmodel[a] \in Int /\ master.since[a] \in Int
      /\ drawn \in Int /\ before \in Int /\ hits \in Int
      /\ \A a \in Atoms : truth[a] \in Int /\ born[a] \in Int
  BY <1>2, Fields DEF TypeInv
<1>6. Mergeable \in SUBSET Threads /\ IsFiniteSet(Mergeable)
  BY FS_Subset, SampleCountsAssumption DEF Mergeable
<1>7. ~lazy => Mergeable = Threads
  BY <1>1, <1>2 DEF AtomsInv, Mergeable
<1>8. /\ SumFunctionOnSet(Numbers, Mergeable) \in Int
      /\ SumFunctionOnSet(QueryMissed, Threads) \in Int
      /\ SumFunctionOnSet(QueryTrues, Threads) \in Int
      /\ \A a \in Atoms : /\ SumFunctionOnSet(AtomTrues(a), Mergeable) \in Int
                          /\ SumFunctionOnSet(AtomMissed(a), Mergeable) \in Int
  BY <1>2, <1>6, CopySums
<1>9. TypeInv' /\ HistoryInv' /\ AtomsInv'
  BY <1>1, <1>2, <1>3 DEF TypeInv, HistoryInv, AtomsInv
<1>10. EstimateInv'
  <2> SUFFICES ASSUME NEW a \in master.atoms, born[a] # -1 PROVE CountedIn(master, a)'
    BY <1>1, <1>3 DEF EstimateInv
  <2>1. a \in Atoms /\ CountedIn(master, a) /\ \A u \in Mergeable : CountedIn(copies[u], a)
    BY <1>1, <1>2, <1>5, <1>6 DEF EstimateInv
  <2>2. /\ AtomTrues(a) \in [Threads -> Int] /\ AtomMissed(a) \in [Threads -> Int]
        /\ Numbers \in [Threads -> Int]
    BY <1>2, <2>1, Fields DEF TypeInv, AtomTrues, AtomMissed, Numbers
  <2>3. \A u \in Mergeable : /\ 0 <= AtomTrues(a)[u]
                             /\ AtomTrues(a)[u] + AtomMissed(a)[u] <= Numbers[u]
                             /\ truth[a] = drawn - born[a] =>
                                   Numbers[u] = AtomTrues(a)[u] + AtomMissed(a)[u]
                             /\ truth[a] = 0 => AtomTrues(a)[u] = 0
    BY <1>6, <2>1 DEF CountedIn, AtomTrues, AtomMissed, Numbers
  <2>4. /\ 0 <= SumFunctionOnSet(AtomTrues(a), Mergeable)
        /\ SumFunctionOnSet(AtomTrues(a), Mergeable) + SumFunctionOnSet(AtomMissed(a), Mergeable)
              <= SumFunctionOnSet(Numbers, Mergeable)
    BY <1>6, <2>2, <2>3, SumNonnegative, SumBound
  <2>5. truth[a] = drawn - born[a] =>
          SumFunctionOnSet(Numbers, Mergeable) =
            SumFunctionOnSet(AtomTrues(a), Mergeable) + SumFunctionOnSet(AtomMissed(a), Mergeable)
    BY <1>6, <2>2, <2>3, SumPlus
  <2>6. truth[a] = 0 => SumFunctionOnSet(AtomTrues(a), Mergeable) = 0
    BY <1>6, <2>2, <2>3, SumZero
  <2> QED
    BY <1>1, <1>3, <1>4, <1>5, <1>8, <2>1, <2>4, <2>5, <2>6 DEF CountedIn
<1>11. QueryInv'
  <2> SUFFICES ASSUME query, Mergeable = Threads
               PROVE  master'.num - master'.qsince = drawn - before /\ master'.qmodel = hits
    <3>1. Mergeable' = Mergeable
      BY <1>1, <1>3 DEF Mergeable
    <3> QED
      BY <1>1, <1>7, <3>1 DEF QueryInv, Refused
  <2>1. /\ master.num = master.qsince /\ master.qmodel = 0
        /\ SumFunctionOnSet(Numbers, Mergeable) =
              SumFunctionOnSet(QueryMissed, Threads) + (drawn - before)
        /\ SumFunctionOnSet(QueryTrues, Threads) = hits
    BY <1>1, <1>2 DEF QueryInv
  <2> QED
    BY <1>3, <1>4, <1>5, <1>8, <2>1
<1>12. NewcomerInv'
  <2> SUFFICES ASSUME ~lazy, NEW a \in master.atoms, born[a] >= before
               PROVE  /\ master'.num - master'.since[a] = drawn - born[a]
                      /\ master'.pmodel[a] = truth[a]
    BY <1>1, <1>3 DEF NewcomerInv
  <2>1. /\ master.num = master.since[a] /\ master.pmodel[a] = 0 /\ born[a] = before
        /\ SumFunctionOnSet(Numbers, Mergeable) =
              SumFunctionOnSet(AtomMissed(a), Mergeable) + (drawn - before)
        /\ SumFunctionOnSet(AtomTrues(a), Mergeable) = truth[a]
    BY <1>1, <1>2, <1>7 DEF NewcomerInv
  <2>2. a \in Atoms
    BY <1>5
  <2> QED
    BY <1>3, <1>4, <1>5, <1>8, <2>1, <2>2
<1> QED
  BY <1>9, <1>10, <1>11, <1>12 DEF CountsInv

LEMMA NextCounts ==
    ASSUME CountsInv, [Next]_vars
    PROVE  CountsInv'
<1>0. facts \subseteq Direct /\ facts \subseteq master.atoms
  BY DEF CountsInv, TypeInv, AtomsInv
<1>1. CASE UNCHANGED vars
  BY <1>0, <1>1, EndCounts DEF vars, control, history
<1>2. CASE \E a \in Atoms : AddAtom(a) \/ AssertAtom(a)
  BY <1>2, AddAtomCounts, AssertAtomCounts
<1>3. CASE ResetProbabilities
  BY <1>3, ResetCounts
<1>4. CASE \E ask, inPlace \in BOOLEAN : Run(ask, inPlace)
  BY <1>4, RunCounts
<1>5. CASE DrawInPlace \/ \E t \in Threads : DrawSample(t)
  BY <1>5, DrawInPlaceCounts, DrawSampleCounts
<1>6. CASE EndInPlace \/ \E t \in Threads : ExitThread(t)
  BY <1>0, <1>6, EndCounts DEF EndInPlace, ExitThread, history
<1>7. CASE \E t \in Threads, a \in Atoms : AddAtomInThread(t, a)
  BY <1>7, AddAtomInThreadCounts
<1>8. CASE JoinAndMerge \/ Answer
  BY <1>8, JoinCounts, AnswerCounts
<1> QED
  BY <1>1, <1>2, <1>3, <1>4, <1>5, <1>6, <1>7, <1>8 DEF Next

-----------------------------------------------------------------------------
(* The counts of the copies are those of the main table and what their     *)
(* thread has drawn, at every step of every run.                           *)
THEOREM CountsInvariance == Spec => []CountsInv
BY InitCounts, NextCounts, PTL DEF Spec

(* What is printed for an atom is possible, for any number of runs and     *)
(* threads: it was true in no more samples than there were, in all if it   *)
(* always was, in none if it never was, and atom_probability is between 0  *)
(* and 1.                                                                  *)
THEOREM EstimatesAreProbabilities == Spec => []AtomEstimates
<1>1. CountsInv => AtomEstimates
  <2> SUFFICES ASSUME CountsInv, NEW a \in master.atoms, born[a] # -1
               PROVE  /\ 0 <= master.pmodel[a] /\ master.pmodel[a] <= AtomSamples(a)
                      /\ truth[a] = drawn - born[a] => master.pmodel[a] = AtomSamples(a)
                      /\ truth[a] = 0 => master.pmodel[a] = 0
                      /\ 0 <= AtomProbability(a).of
                      /\ AtomProbability(a).of <= AtomProbability(a).in
    BY DEF AtomEstimates
  <2>1. /\ master.num \in Int /\ master.pmodel[a] \in Int /\ master.since[a] \in Int
        /\ CountedIn(master, a)
    BY Fields DEF CountsInv, TypeInv, EstimateInv
  <2>2. /\ 0 <= master.pmodel[a] /\ master.pmodel[a] <= AtomSamples(a)
        /\ truth[a] = drawn - born[a] => master.pmodel[a] = AtomSamples(a)
        /\ truth[a] = 0 => master.pmodel[a] = 0
    BY <2>1 DEF CountedIn, AtomSamples
  <2>3. CASE a \in Direct
    BY <2>2, <2>3 DEF AtomProbability, DirectValue
  <2>4. CASE a \notin Direct
    BY <2>2, <2>4 DEF AtomProbability
  <2> QED
    BY <2>2, <2>3, <2>4
<1> QED
  BY <1>1, CountsInvariance, PTL

(* The answer to a query is the frequency of the query in the samples of   *)
(* its own run, however many threads drew them, unless the counts of one   *)
(* are refused (query_probability).                                        *)
THEOREM AnswersAreFrequencies == Spec => []AnswerIsFrequency
<1>1. CountsInv => AnswerIsFrequency
  BY DEF CountsInv, QueryInv, AnswerIsFrequency, QuerySamples
<1> QED
  BY <1>1, CountsInvariance, PTL

(* The counts of an atom that is new to the last run are those of the      *)
(* samples of that run (merge_atom_tables).                                *)
THEOREM NewcomersAreExact == Spec => []NewcomersExact
<1>1. CountsInv => NewcomersExact
  BY DEF CountsInv, NewcomerInv, NewcomersExact, AtomSamples
<1> QED
  BY <1>1, CountsInvariance, PTL

-----------------------------------------------------------------------------
(* Counting up, and the first element of a set of positions.               *)
LEMMA UpTo ==
    ASSUME NEW N \in Nat, NEW P, 0 \in P, \A m \in 0..(N - 1) : m \in P => m + 1 \in P
    PROVE  \A m \in 0..N : m \in P
<1> DEFINE Fine == {T \in SUBSET (0..N) : \A m \in 0..N : T = 0..m => m \in P}
<1>1. IsFiniteSet(0..N)
  BY FS_Interval
<1>2. ASSUME NEW T \in SUBSET (0..N), \A U \in SUBSET T : U # T => U \in Fine
      PROVE  T \in Fine
  <2> SUFFICES ASSUME NEW m \in 0..N, T = 0..m, m # 0 PROVE m \in P
    OBVIOUS
  <2>1. 0..(m - 1) \in SUBSET T /\ 0..(m - 1) # T
    <3>1. m \in 0..m /\ m \notin 0..(m - 1)
      OBVIOUS
    <3> QED
      BY <3>1
  <2>2. 0..(m - 1) \in Fine
    BY <1>2, <2>1
  <2>3. m - 1 \in 0..(N - 1) /\ m - 1 \in 0..N /\ (m - 1) + 1 = m
    OBVIOUS
  <2>4. m - 1 \in P
    BY <2>2, <2>3
  <2> QED
    BY <2>3, <2>4
<1>3. \A T \in SUBSET (0..N) : T \in Fine
  <2> HIDE DEF Fine
  <2> QED
    BY <1>1, <1>2, SubsetInduction
<1> SUFFICES ASSUME NEW m \in 0..N PROVE m \in P
  OBVIOUS
<1>4. 0..m \in SUBSET (0..N)
  OBVIOUS
<1> QED
  BY <1>3, <1>4

LEMMA First ==
    ASSUME NEW n \in Nat, NEW S \in SUBSET (0..(n - 1)), S # {}
    PROVE  \E m \in S : \A i \in 0..(m - 1) : i \notin S
<1> SUFFICES ASSUME \A m \in S : \E i \in 0..(m - 1) : i \in S PROVE FALSE
  OBVIOUS
<1> DEFINE P == {m \in Nat : \A i \in 0..(m - 1) : i \notin S}
<1>1. 0 \in P
  OBVIOUS
<1>2. \A m \in 0..(n - 1) : m \in P => m + 1 \in P
  OBVIOUS
<1>3. \A m \in 0..n : m \in P
  <2> HIDE DEF P
  <2> QED
    BY <1>1, <1>2, UpTo
<1>4. n \in P
  BY <1>3
<1> QED
  BY <1>4

-----------------------------------------------------------------------------
(* The cells from the hash of a key on, around the end of the table, are   *)
(* all the cells.                                                          *)
Slot(k, i, n) == (hash[k] + i) % n

LEMMA Remainder ==
    ASSUME NEW h \in Nat, NEW n \in Nat \ {0}
    PROVE  h % n \in 0..(n - 1) /\ h \div n \in Nat /\ h = n * (h \div n) + (h % n)
BY SMT

LEMMA SmallMultiple ==
    ASSUME NEW n \in Nat \ {0}, NEW a \in Int, NEW b \in Int, a < b
    PROVE  n * a + n <= n * b
<1>1. n * (b - a - 1) >= 0
  BY SMT
<1>2. n * (b - a - 1) = n * b - n * a - n
  BY SMT
<1> QED
  BY <1>1, <1>2

LEMMA RemainderIs ==
    ASSUME NEW n \in Nat \ {0}, NEW q \in Nat, NEW j \in 0..(n - 1)
    PROVE  (n * q + j) % n = j
<1> DEFINE m == n * q + j
           p == m \div n
           r == m % n
<1>1. m \in Nat
  OBVIOUS
<1>2. r \in 0..(n - 1) /\ p \in Nat /\ m = n * p + r
  BY <1>1, Remainder
<1>3. n * p \in Int /\ n * q \in Int /\ n * p + r = n * q + j
  BY <1>2
<1> HIDE DEF m, p, r
<1>4. ~(p < q)
  BY <1>2, <1>3, SmallMultiple
<1>5. ~(q < p)
  BY <1>2, <1>3, SmallMultiple
<1>6. p = q
  BY <1>2, <1>4, <1>5
<1> QED
  BY <1>2, <1>3, <1>6 DEF r, m

LEMMA Around ==
    ASSUME NEW h \in Nat, NEW n \in Nat \ {0}, NEW j \in 0..(n - 1)
    PROVE  \E i \in 0..(n - 1) : (h + i) % n = j
<1> DEFINE q == h \div n
           r == h % n
<1>1. r \in 0..(n - 1) /\ q \in Nat /\ h = n * q + r
  BY Remainder
<1>2. n * q \in Nat /\ n * (q + 1) = n * q + n
  BY <1>1
<1> HIDE DEF q, r
<1>3. CASE r <= j
  <2>1. j - r \in 0..(n - 1) /\ h + (j - r) = n * q + j
    BY <1>1, <1>2, <1>3
  <2> QED
    BY <1>1, <2>1, RemainderIs
<1>4. CASE r > j
  <2>1. j - r + n \in 0..(n - 1) /\ h + (j - r + n) = n * (q + 1) + j /\ q + 1 \in Nat
    BY <1>1, <1>2, <1>4
  <2> QED
    BY <2>1, RemainderIs
<1> QED
  BY <1>1, <1>3, <1>4

Hashed == hash \in [Key -> Nat]

LEMMA Slots ==
    ASSUME Hashed, NEW k \in Key, NEW n \in Nat \ {0}
    PROVE  /\ \A i \in 0..(n - 1) : Slot(k, i, n) \in 0..(n - 1)
           /\ \A j \in 0..(n - 1) : \E i \in 0..(n - 1) : Slot(k, i, n) = j
<1>1. ASSUME NEW i \in 0..(n - 1) PROVE Slot(k, i, n) \in 0..(n - 1)
  <2>1. hash[k] + i \in Nat
    BY DEF Hashed
  <2> QED
    BY <2>1, Remainder DEF Slot
<1> QED
  BY <1>1, Around DEF Slot, Hashed

-----------------------------------------------------------------------------
(* A table of n cells: each key is there once, and there is no empty cell  *)
(* on the way to it.                                                       *)
Cells(n) == [0..(n - 1) -> [key : Key \cup Marks, val : Val \cup {Empty}]]

Reachable(t, n, j) ==
    \E d \in 0..(n - 1) :
        /\ Slot(t[j].key, d, n) = j
        /\ \A e \in 0..(d - 1) : t[Slot(t[j].key, e, n)].key # Empty

GoodTable(t, n) ==
    /\ t \in Cells(n)
    /\ \A j \in 0..(n - 1) : t[j].key \in Key => t[j].val \in Val /\ Reachable(t, n, j)
    /\ \A i, j \in 0..(n - 1) : t[i].key \in Key /\ t[i].key = t[j].key => i = j

Used(t, n) == {j \in 0..(n - 1) : t[j].key \in Key}
Dead(t, n) == {j \in 0..(n - 1) : t[j].key = Deleted}

(* The pairs of a key and a value that are in a table.                     *)
Has(t, n, k, v) == \E j \in 0..(n - 1) : t[j].key = k /\ t[j].val = v

LEMMA SizeIs ==
    ASSUME NEW n \in Nat, NEW t, DOMAIN t = 0..(n - 1)
    PROVE  Cardinality(DOMAIN t) = n
BY FS_Interval

(* A search that meets a cell it looks for ends at the first such cell.    *)
LEMMA ProbeHits ==
    ASSUME NEW n \in Nat \ {0}, NEW t \in Cells(n), Hashed, NEW k \in Key, NEW K,
           NEW j \in 0..(n - 1), t[j].key \in K
    PROVE  \E d \in 0..(n - 1) :
             /\ Probe(t, k, K) = Slot(k, d, n)
             /\ Slot(k, d, n) \in 0..(n - 1) /\ t[Slot(k, d, n)].key \in K
             /\ \A e \in 0..(d - 1) : t[Slot(k, e, n)].key \notin K
<1> DEFINE Hit(i) == t[Slot(k, i, n)].key \in K
           first == CHOOSE i \in 0..(n - 1) : Hit(i) /\ \A h \in 0..(i - 1) : ~Hit(h)
<1>1. Cardinality(DOMAIN t) = n
  BY SizeIs DEF Cells
<1>2. Probe(t, k, K) = Slot(k, first, n)
  BY <1>1 DEF Probe, Slot
<1>3. \E i \in 0..(n - 1) : Hit(i) /\ \A h \in 0..(i - 1) : ~Hit(h)
  <2> DEFINE S == {i \in 0..(n - 1) : Hit(i)}
  <2>1. S # {}
    BY Slots
  <2>2. PICK i \in S : \A h \in 0..(i - 1) : h \notin S
    <3> HIDE DEF S
    <3>1. S \in SUBSET (0..(n - 1))
      BY DEF S
    <3> QED
      BY <2>1, <3>1, First
  <2>3. \A h \in 0..(i - 1) : h \in 0..(n - 1)
    OBVIOUS
  <2> QED
    BY <2>2, <2>3
<1> HIDE DEF Hit
<1>4. first \in 0..(n - 1) /\ Hit(first) /\ \A h \in 0..(first - 1) : ~Hit(h)
  BY <1>3
<1> HIDE DEF first
<1> QED
  BY <1>2, <1>4, Slots DEF Hit

-----------------------------------------------------------------------------
(* A key is found exactly when it is there.                                *)
LEMMA FindsKey ==
    ASSUME NEW n \in Nat \ {0}, NEW t, GoodTable(t, n), Hashed, NEW k \in Key,
           NEW j \in 0..(n - 1), t[j].key = k
    PROVE  /\ t[Probe(t, k, {Empty, k})].key = k
           /\ Probe(t, k, {k}) = j
<1>1. t \in Cells(n) /\ Empty \notin Key
  BY HashMapAssumption DEF GoodTable
<1>2. PICK d \in 0..(n - 1) :
        Slot(k, d, n) = j /\ \A e \in 0..(d - 1) : t[Slot(k, e, n)].key # Empty
  BY DEF GoodTable, Reachable
<1>3. PICK f \in 0..(n - 1) :
        /\ Probe(t, k, {Empty, k}) = Slot(k, f, n)
        /\ t[Slot(k, f, n)].key \in {Empty, k}
        /\ \A e \in 0..(f - 1) : t[Slot(k, e, n)].key \notin {Empty, k}
  BY <1>1, ProbeHits
<1>4. t[Probe(t, k, {Empty, k})].key = k
  <2>1. ~(d < f)
    BY <1>2, <1>3
  <2>2. f = d \/ f \in 0..(d - 1)
    BY <2>1
  <2> QED
    BY <1>2, <1>3, <2>2
<1>5. Probe(t, k, {k}) = j
  <2>1. t[j].key \in {k}
    OBVIOUS
  <2>2. PICK g \in 0..(n - 1) :
          /\ Probe(t, k, {k}) = Slot(k, g, n)
          /\ Slot(k, g, n) \in 0..(n - 1) /\ t[Slot(k, g, n)].key \in {k}
    BY <1>1, <2>1, ProbeHits
  <2> QED
    BY <2>2 DEF GoodTable
<1> QED
  BY <1>4, <1>5

(* What it means for table u to be t with a key more, or with one less.    *)
Absent(t, n, k) == \A j \in 0..(n - 1) : t[j].key # k

With(t, u, n, p, k, v) ==
    /\ GoodTable(u, n)
    /\ Used(u, n) = Used(t, n) \cup {p} /\ p \notin Used(t, n)
    /\ Dead(u, n) = Dead(t, n) \ {p}
    /\ \A q \in Key : \A w : Has(u, n, q, w) <=> Has(t, n, q, w) \/ (q = k /\ w = v)

Without(t, u, n, j) ==
    /\ GoodTable(u, n)
    /\ Used(u, n) = Used(t, n) \ {j}
    /\ Dead(u, n) = Dead(t, n) \cup {j}
    /\ \A q \in Key : \A w : Has(u, n, q, w) <=> Has(t, n, q, w) /\ q # t[j].key

(* A key that is not there takes the first cell without a key, or the      *)
(* first empty one.                                                        *)
LEMMA Inserted ==
    ASSUME NEW n \in Nat \ {0}, NEW t, GoodTable(t, n), Hashed, NEW k \in Key, NEW v \in Val,
           Absent(t, n, k), NEW K \in SUBSET Marks, Empty \in K,
           NEW j \in 0..(n - 1), t[j].key \in K,
           NEW p, p = Probe(t, k, K),
           NEW u, u = [t EXCEPT ![p] = [key |-> k, val |-> v]]
    PROVE  p \in 0..(n - 1) /\ t[p].key \in K /\ With(t, u, n, p, k, v)
<1>1. t \in Cells(n) /\ Empty \notin Key /\ Deleted \notin Key /\ Marks = {Empty, Deleted}
  BY HashMapAssumption DEF GoodTable, Marks
<1>2. PICK d \in 0..(n - 1) :
        /\ p = Slot(k, d, n) /\ p \in 0..(n - 1) /\ t[p].key \in K
        /\ \A e \in 0..(d - 1) : t[Slot(k, e, n)].key \notin K
  BY <1>1, ProbeHits
<1>3. /\ DOMAIN u = 0..(n - 1) /\ u[p].key = k /\ u[p].val = v
      /\ \A i \in 0..(n - 1) : i # p => u[i] = t[i]
  BY <1>1, <1>2 DEF Cells
<1>4. u \in Cells(n)
  BY <1>1, <1>2 DEF Cells
<1>5. t[p].key \in Marks /\ t[p].key \notin Key
  BY <1>1, <1>2
<1>6. \A i \in 0..(n - 1) : t[i].key # Empty => u[i].key # Empty
  BY <1>1, <1>3
<1>7. ASSUME NEW i \in 0..(n - 1), u[i].key \in Key PROVE u[i].val \in Val /\ Reachable(u, n, i)
  <2>1. CASE i = p
    <3>1. \A e \in 0..(d - 1) : e \in 0..(n - 1)
      OBVIOUS
    <3>2. \A e \in 0..(d - 1) : Slot(k, e, n) \in 0..(n - 1) /\ u[Slot(k, e, n)].key # Empty
      BY <1>2, <1>6, <3>1, Slots
    <3> QED
      BY <1>2, <1>3, <2>1, <3>2 DEF Reachable
  <2>2. CASE i # p
    <3>1. u[i] = t[i] /\ t[i].val \in Val /\ Reachable(t, n, i)
      BY <1>3, <1>7, <2>2 DEF GoodTable
    <3>2. PICK c \in 0..(n - 1) :
            /\ Slot(t[i].key, c, n) = i
            /\ \A e \in 0..(c - 1) : t[Slot(t[i].key, e, n)].key # Empty
      BY <3>1 DEF Reachable
    <3>3. \A e \in 0..(c - 1) : Slot(t[i].key, e, n) \in 0..(n - 1)
      <4>1. t[i].key \in Key /\ \A e \in 0..(c - 1) : e \in 0..(n - 1)
        BY <1>7, <3>1
      <4> QED
        BY <4>1, Slots
    <3> QED
      BY <1>6, <3>1, <3>2, <3>3 DEF Reachable
  <2> QED
    BY <2>1, <2>2
<1>8. GoodTable(u, n)
  <2>1. \A a, b \in 0..(n - 1) : u[a].key \in Key /\ u[a].key = u[b].key => a = b
    BY <1>3 DEF GoodTable, Absent
  <2> QED
    BY <1>4, <1>7, <2>1 DEF GoodTable
<1>9. /\ Used(u, n) = Used(t, n) \cup {p} /\ p \notin Used(t, n)
      /\ Dead(u, n) = Dead(t, n) \ {p}
  BY <1>1, <1>2, <1>3, <1>5 DEF Used, Dead
<1>10. ASSUME NEW q \in Key, NEW w
       PROVE  Has(u, n, q, w) <=> Has(t, n, q, w) \/ (q = k /\ w = v)
  <2>1. ASSUME Has(t, n, q, w) PROVE Has(u, n, q, w)
    BY <1>3, <1>5, <2>1 DEF Has
  <2>2. ASSUME q = k, w = v PROVE Has(u, n, q, w)
    BY <1>2, <1>3, <2>2 DEF Has
  <2>3. ASSUME Has(u, n, q, w) PROVE Has(t, n, q, w) \/ (q = k /\ w = v)
    BY <1>3, <2>3 DEF Has
  <2> QED
    BY <2>1, <2>2, <2>3
<1> QED
  BY <1>2, <1>8, <1>9, <1>10 DEF With

(* A key that is erased leaves a mark.                                     *)
LEMMA Erased ==
    ASSUME NEW n \in Nat \ {0}, NEW t, GoodTable(t, n), Hashed, NEW j \in Used(t, n),
           NEW u, u = [t EXCEPT ![j].key = Deleted]
    PROVE  Without(t, u, n, j)
<1>1. /\ t \in Cells(n) /\ j \in 0..(n - 1) /\ t[j].key \in Key
      /\ Deleted \notin Key /\ Deleted # Empty
  BY HashMapAssumption DEF GoodTable, Used
<1>2. /\ DOMAIN u = 0..(n - 1) /\ u[j].key = Deleted
      /\ \A i \in 0..(n - 1) : i # j => u[i] = t[i]
  BY <1>1 DEF Cells
<1>3. u \in Cells(n)
  BY <1>1 DEF Cells, Marks
<1>4. \A i \in 0..(n - 1) : t[i].key # Empty => u[i].key # Empty
  BY <1>1, <1>2
<1>5. ASSUME NEW i \in 0..(n - 1), u[i].key \in Key PROVE u[i].val \in Val /\ Reachable(u, n, i)
  <2>1. i # j /\ u[i] = t[i] /\ t[i].key \in Key /\ t[i].val \in Val /\ Reachable(t, n, i)
    BY <1>1, <1>2, <1>5 DEF GoodTable
  <2>2. PICK c \in 0..(n - 1) :
          /\ Slot(t[i].key, c, n) = i
          /\ \A e \in 0..(c - 1) : t[Slot(t[i].key, e, n)].key # Empty
    BY <2>1 DEF Reachable
  <2>3. \A e \in 0..(c - 1) : Slot(t[i].key, e, n) \in 0..(n - 1)
    <3>1. \A e \in 0..(c - 1) : e \in 0..(n - 1)
      OBVIOUS
    <3> QED
      BY <2>1, <3>1, Slots
  <2> QED
    BY <1>4, <2>1, <2>2, <2>3 DEF Reachable
<1>6. GoodTable(u, n)
  <2>1. \A a, b \in 0..(n - 1) : u[a].key \in Key /\ u[a].key = u[b].key => a = b
    BY <1>1, <1>2 DEF GoodTable
  <2> QED
    BY <1>3, <1>5, <2>1 DEF GoodTable
<1>7. Used(u, n) = Used(t, n) \ {j} /\ Dead(u, n) = Dead(t, n) \cup {j}
  BY <1>1, <1>2 DEF Used, Dead
<1>8. ASSUME NEW q \in Key, NEW w
      PROVE  Has(u, n, q, w) <=> Has(t, n, q, w) /\ q # t[j].key
  <2>1. ASSUME Has(t, n, q, w), q # t[j].key PROVE Has(u, n, q, w)
    BY <1>2, <2>1 DEF Has
  <2>2. ASSUME Has(u, n, q, w) PROVE Has(t, n, q, w) /\ q # t[j].key
    BY <1>1, <1>2, <2>2 DEF Has, GoodTable
  <2> QED
    BY <2>1, <2>2
<1> QED
  BY <1>6, <1>7, <1>8 DEF Without

-----------------------------------------------------------------------------
(* A table is rebuilt key by key.                                          *)
Filled(cells, n, f, j) ==
    IF j = 0 THEN {Blank(n)}
    ELSE IF cells[j - 1].key \in Marks THEN f[j - 1]
    ELSE {CleanCopy(t, cells[j - 1]) : t \in f[j - 1]}

Fills(cells, n, m, f) == f = [j \in 0..m |-> Filled(cells, n, f, j)]

LEMMA FillsExist ==
    ASSUME NEW cells, NEW n, NEW N \in Nat
    PROVE  \E f : Fills(cells, n, N, f)
<1> DEFINE P == {m \in 0..N : \E f : Fills(cells, n, m, f)}
<1>1. 0 \in P
  <2>1. Fills(cells, n, 0, [j \in 0..0 |-> {Blank(n)}])
    BY DEF Fills, Filled
  <2> QED
    BY <2>1
<1>2. ASSUME NEW m \in 0..(N - 1), m \in P PROVE m + 1 \in P
  <2>1. PICK f : Fills(cells, n, m, f)
    BY <1>2
  <2> DEFINE g == [j \in 0..(m + 1) |-> Filled(cells, n, f, j)]
  <2>2. \A j \in 0..m : g[j] = f[j]
    BY <2>1 DEF Fills
  <2>3. \A j \in 0..(m + 1) : Filled(cells, n, f, j) = Filled(cells, n, g, j)
    <3> SUFFICES ASSUME NEW j \in 0..(m + 1), j # 0
                 PROVE  Filled(cells, n, f, j) = Filled(cells, n, g, j)
      BY DEF Filled
    <3>1. j - 1 \in 0..m
      OBVIOUS
    <3>2. f[j - 1] = g[j - 1]
      BY <2>2, <3>1
    <3> HIDE DEF g
    <3> QED
      BY <3>2 DEF Filled
  <2>4. Fills(cells, n, m + 1, g)
    BY <2>3, Zenon DEF Fills
  <2> QED
    BY <2>4
<1>3. N \in P
  <2> HIDE DEF P
  <2> QED
    BY <1>1, <1>2, UpTo
<1> QED
  BY <1>3

FilledInOrder(cells, n, m, f) ==
    /\ f[0] = {Blank(n)}
    /\ \A j \in 0..(m - 1) :
         f[j + 1] = IF cells[j].key \in Marks THEN f[j]
                    ELSE {CleanCopy(t, cells[j]) : t \in f[j]}

LEMMA RebuiltIs ==
    ASSUME NEW cells, NEW n, NEW m \in Nat, Cardinality(DOMAIN cells) = m
    PROVE  \E f : Rebuilt(cells, n) = f[m] /\ FilledInOrder(cells, n, m, f)
<1> DEFINE f == CHOOSE f : Fills(cells, n, m, f)
<1>1. Rebuilt(cells, n) =
        (CHOOSE g : g = [j \in 0..Cardinality(DOMAIN cells) |->
            IF j = 0 THEN {Blank(n)}
            ELSE IF cells[j - 1].key \in Marks THEN g[j - 1]
            ELSE {CleanCopy(t, cells[j - 1]) : t \in g[j - 1]}])[Cardinality(DOMAIN cells)]
  BY Zenon DEF Rebuilt
<1>2. Rebuilt(cells, n) = f[m]
  BY <1>1, Zenon DEF Fills, Filled
<1>3. Fills(cells, n, m, f)
  BY FillsExist
<1> HIDE DEF f
<1>4. \A j \in 0..m : f[j] = Filled(cells, n, f, j)
  BY <1>3 DEF Fills
<1>5. f[0] = {Blank(n)}
  <2>1. f[0] = Filled(cells, n, f, 0)
    BY <1>4
  <2> QED
    BY <2>1, Zenon DEF Filled
<1>6. ASSUME NEW j \in 0..(m - 1)
      PROVE  f[j + 1] = IF cells[j].key \in Marks THEN f[j]
                        ELSE {CleanCopy(t, cells[j]) : t \in f[j]}
  <2>1. j + 1 \in 0..m /\ (j + 1) - 1 = j /\ j + 1 # 0
    OBVIOUS
  <2>2. f[j + 1] = Filled(cells, n, f, j + 1)
    BY <1>4, <2>1
  <2> QED
    BY <2>1, <2>2, Zenon DEF Filled
<1>7. FilledInOrder(cells, n, m, f)
  BY <1>5, <1>6, Zenon DEF FilledInOrder
<1> QED
  BY <1>2, <1>7

LEMMA BlankTable ==
    ASSUME NEW n \in Nat \ {0}
    PROVE  /\ GoodTable(Blank(n), n) /\ Used(Blank(n), n) = {} /\ Dead(Blank(n), n) = {}
           /\ \A q \in Key : \A w : ~Has(Blank(n), n, q, w)
<1> DEFINE u == Blank(n)
<1>1. \A j \in 0..(n - 1) : u[j] = [key |-> Empty, val |-> Empty]
  BY DEF Blank
<1>2. u \in Cells(n)
  BY DEF Blank, Cells, Marks
<1> HIDE DEF u
<1>3. GoodTable(u, n) /\ Dead(u, n) = {} /\ Used(u, n) = {}
  BY <1>1, <1>2, HashMapAssumption DEF GoodTable, Dead, Used
<1>4. \A q \in Key : \A w : ~Has(u, n, q, w)
  BY <1>1, HashMapAssumption DEF Has
<1> QED
  BY <1>3, <1>4 DEF u

(* It holds the same pairs, without the marks.                             *)
Before(cells, m, j) == {i \in Used(cells, m) : i < j}

LEMMA RebuiltTable ==
    ASSUME Hashed, NEW m \in Nat \ {0}, NEW cells, GoodTable(cells, m), NEW n \in Nat \ {0},
           Cardinality(Used(cells, m)) < n, NEW t \in Rebuilt(cells, n)
    PROVE  /\ GoodTable(t, n) /\ Dead(t, n) = {}
           /\ Cardinality(Used(t, n)) = Cardinality(Used(cells, m))
           /\ \A q \in Key : \A w : Has(t, n, q, w) <=> Has(cells, m, q, w)
<1> DEFINE Copied(u, j) ==
      /\ GoodTable(u, n) /\ Dead(u, n) = {}
      /\ Cardinality(Used(u, n)) = Cardinality(Before(cells, m, j))
      /\ \A q \in Key : \A w :
           Has(u, n, q, w) <=> \E i \in 0..(j - 1) : cells[i].key = q /\ cells[i].val = w
<1>1. cells \in Cells(m) /\ Cardinality(DOMAIN cells) = m
  BY SizeIs DEF GoodTable, Cells
<1>2. PICK f : Rebuilt(cells, n) = f[m] /\ FilledInOrder(cells, n, m, f)
  BY <1>1, RebuiltIs
<1> DEFINE P == {j \in 0..m : \A u \in f[j] : Copied(u, j)}
<1>3. 0 \in P
  <2> DEFINE u == Blank(n)
  <2>1. f[0] = {u}
    BY <1>2, Zenon DEF FilledInOrder
  <2>2. /\ GoodTable(u, n) /\ Dead(u, n) = {} /\ Used(u, n) = {}
        /\ \A q \in Key : \A w : ~Has(u, n, q, w)
    BY BlankTable
  <2>3. Before(cells, m, 0) = {}
    BY DEF Before, Used
  <2> HIDE DEF u
  <2>4. Copied(u, 0)
    BY <2>2, <2>3
  <2> QED
    BY <2>1, <2>4
<1>4. ASSUME NEW j \in 0..(m - 1), j \in P PROVE j + 1 \in P
  <2> DEFINE d == cells[j]
  <2>1. /\ j + 1 \in 0..m
        /\ f[j + 1] = IF d.key \in Marks THEN f[j] ELSE {CleanCopy(u, d) : u \in f[j]}
    <3>1. j + 1 \in 0..m
      OBVIOUS
    <3> QED
      BY <1>2, <3>1, Zenon DEF FilledInOrder
  <2>2. d \in [key : Key \cup Marks, val : Val \cup {Empty}]
    BY <1>1 DEF Cells
  <2>3. CASE d.key \in Marks
    <3>1. f[j + 1] = f[j]
      BY <2>1, <2>3
    <3>2. Before(cells, m, j + 1) = Before(cells, m, j)
      BY <2>3, HashMapAssumption DEF Before, Used, Marks
    <3>3. \A q \in Key : \A w :
            (\E i \in 0..((j + 1) - 1) : cells[i].key = q /\ cells[i].val = w)
              <=> \E i \in 0..(j - 1) : cells[i].key = q /\ cells[i].val = w
      BY <2>3, HashMapAssumption DEF Marks
    <3>4. ASSUME NEW u \in f[j + 1] PROVE Copied(u, j + 1)
      <4>1. Copied(u, j)
        BY <1>4, <3>1, <3>4
      <4> QED
        BY <3>2, <3>3, <4>1
    <3> QED
      BY <2>1, <3>4
  <2>4. CASE d.key \notin Marks
    <3>1. /\ d.key \in Key /\ d.val \in Val /\ d = [key |-> d.key, val |-> d.val]
          /\ j \in Used(cells, m)
      BY <2>2, <2>4 DEF GoodTable, Used
    <3>2. /\ IsFiniteSet(Used(cells, m)) /\ IsFiniteSet(Before(cells, m, j))
          /\ Before(cells, m, j + 1) = Before(cells, m, j) \cup {j}
          /\ j \notin Before(cells, m, j)
          /\ Before(cells, m, j + 1) \subseteq Used(cells, m)
      <4>1. IsFiniteSet(0..(m - 1))
        BY FS_Interval
      <4>2. Used(cells, m) \subseteq 0..(m - 1) /\ Before(cells, m, j) \subseteq 0..(m - 1)
        BY DEF Used, Before
      <4>3. IsFiniteSet(Used(cells, m)) /\ IsFiniteSet(Before(cells, m, j))
        BY <4>1, <4>2, FS_Subset
      <4> QED
        BY <3>1, <4>3 DEF Before, Used
    <3>3. /\ Cardinality(Before(cells, m, j + 1)) = Cardinality(Before(cells, m, j)) + 1
          /\ Cardinality(Before(cells, m, j + 1)) <= Cardinality(Used(cells, m))
          /\ Cardinality(Used(cells, m)) \in Nat /\ Cardinality(Before(cells, m, j)) \in Nat
      BY <3>2, FS_AddElement, FS_Subset, FS_CardinalityType
    <3>4. ASSUME NEW w \in f[j + 1] PROVE Copied(w, j + 1)
      <4>1. PICK u \in f[j] : w = CleanCopy(u, d)
        BY <2>1, <2>4, <3>4
      <4>2. Copied(u, j)
        BY <1>4
      <4>3. \A i \in 0..(n - 1) : u[i].key # d.key
        <5> SUFFICES ASSUME NEW i \in 0..(n - 1), u[i].key = d.key PROVE FALSE
          OBVIOUS
        <5>1. Has(u, n, d.key, u[i].val)
          BY DEF Has
        <5>2. PICK h \in 0..(j - 1) : cells[h].key = d.key
          BY <3>1, <4>2, <5>1
        <5>3. h \in 0..(m - 1) /\ h # j
          OBVIOUS
        <5> QED
          BY <3>1, <5>2, <5>3 DEF GoodTable
      <4>4. \E i \in 0..(n - 1) : u[i].key \in {Empty}
        <5>1. u \in Cells(n) /\ \A i \in 0..(n - 1) : u[i].key # Deleted
          BY <4>2 DEF GoodTable, Dead
        <5>2. Cardinality(Used(u, n)) < n
          BY <3>3, <4>2
        <5>3. Cardinality(0..(n - 1)) = n
          <6>1. 0 \in Int /\ n - 1 \in Int /\ ~(0 > n - 1) /\ (n - 1) - 0 + 1 = n
            OBVIOUS
          <6> QED
            BY <6>1, FS_Interval
        <5>4. PICK i \in 0..(n - 1) : i \notin Used(u, n)
          <6>1. Used(u, n) # 0..(n - 1)
            BY <5>2, <5>3
          <6> QED
            BY <6>1 DEF Used
        <5> QED
          BY <5>1, <5>4 DEF Used, Cells, Marks
      <4> DEFINE p == Probe(u, d.key, {Empty})
      <4>5. w = [u EXCEPT ![p] = [key |-> d.key, val |-> d.val]]
        BY <3>1, <4>1 DEF CleanCopy
      <4>6. /\ GoodTable(w, n)
            /\ Used(w, n) = Used(u, n) \cup {p} /\ p \notin Used(u, n)
            /\ Dead(w, n) = Dead(u, n) \ {p}
            /\ \A q \in Key : \A x :
                 Has(w, n, q, x) <=> Has(u, n, q, x) \/ (q = d.key /\ x = d.val)
        <5>1. PICK K \in SUBSET Marks : K = {Empty}
          BY DEF Marks
        <5>2. PICK k \in Key, x \in Val : k = d.key /\ x = d.val
          BY <3>1
        <5>3. PICK i \in 0..(n - 1) : u[i].key \in K
          BY <4>4, <5>1
        <5>4. /\ GoodTable(u, n) /\ Empty \in K /\ p = Probe(u, k, K)
              /\ w = [u EXCEPT ![p] = [key |-> k, val |-> x]]
              /\ Absent(u, n, k)
          BY <4>2, <4>3, <4>5, <5>1, <5>2 DEF Absent
        <5> HIDE DEF p
        <5>5. With(u, w, n, p, k, x)
          BY <5>3, <5>4, Inserted
        <5> QED
          BY <5>2, <5>5 DEF With
      <4>7. Cardinality(Used(w, n)) = Cardinality(Used(u, n)) + 1
        <5>1. IsFiniteSet(Used(u, n))
          <6>1. IsFiniteSet(0..(n - 1))
            BY FS_Interval
          <6>2. Used(u, n) \subseteq 0..(n - 1)
            BY DEF Used
          <6> QED
            BY <6>1, <6>2, FS_Subset
        <5> QED
          BY <4>6, <5>1, FS_AddElement
      <4>8. \A q \in Key : \A x :
              Has(w, n, q, x) <=> \E i \in 0..((j + 1) - 1) : cells[i].key = q /\ cells[i].val = x
        <5>1. \A i \in 0..((j + 1) - 1) : i = j \/ i \in 0..(j - 1)
          OBVIOUS
        <5>2. \A i \in 0..(j - 1) : i \in 0..((j + 1) - 1)
          OBVIOUS
        <5>3. j \in 0..((j + 1) - 1)
          OBVIOUS
        <5> QED
          BY <4>2, <4>6, <5>1, <5>2, <5>3
      <4> QED
        BY <3>3, <4>2, <4>6, <4>7, <4>8
    <3> QED
      BY <2>1, <3>4
  <2> QED
    BY <2>3, <2>4
<1>5. m \in P
  <2> HIDE DEF P
  <2> QED
    BY <1>3, <1>4, UpTo
<1>6. Copied(t, m)
  BY <1>2, <1>5
<1>7. Before(cells, m, m) = Used(cells, m)
  BY DEF Before, Used
<1> QED
  BY <1>6, <1>7 DEF Has

-----------------------------------------------------------------------------
(* The inductive invariant.  The marks that are counted are at least those *)
(* that are there, and few enough not to be cleaned up.                    *)
Counts ==
    /\ nelems = Cardinality(Used(data, Size)) /\ ndeleted \in Nat
    /\ Cardinality(Dead(data, Size)) <= ndeleted
    /\ nelems + ndeleted < Size
    /\ ndeleted <= cleanup_threshold

Growth == peak \in Nat /\ nelems <= peak /\ GrowsForKeys

HashInv ==
    /\ hash \in [Key -> Hash]
    /\ Size \in Nat \ {0} /\ GoodTable(data, Size)
    /\ Counts /\ Growth

LEMMA Finite ==
    ASSUME NEW n \in Nat, NEW t
    PROVE  /\ IsFiniteSet(Used(t, n)) /\ Cardinality(Used(t, n)) \in Nat
           /\ IsFiniteSet(Dead(t, n)) /\ Cardinality(Dead(t, n)) \in Nat
<1>1. IsFiniteSet(0..(n - 1))
  BY FS_Interval
<1>2. Used(t, n) \subseteq 0..(n - 1) /\ Dead(t, n) \subseteq 0..(n - 1)
  BY DEF Used, Dead
<1> QED
  BY <1>1, <1>2, FS_Subset, FS_CardinalityType

LEMMA EmptyCell ==
    ASSUME NEW n \in Nat \ {0}, NEW t, GoodTable(t, n),
           Cardinality(Used(t, n)) + Cardinality(Dead(t, n)) < n
    PROVE  \E j \in 0..(n - 1) : t[j].key = Empty
<1>1. /\ IsFiniteSet(Used(t, n)) /\ Cardinality(Used(t, n)) \in Nat
      /\ IsFiniteSet(Dead(t, n)) /\ Cardinality(Dead(t, n)) \in Nat
  BY Finite
<1>2. Used(t, n) \cap Dead(t, n) = {}
  BY HashMapAssumption DEF Used, Dead
<1>3. Cardinality(Used(t, n) \cup Dead(t, n)) < n
  <2>1. Cardinality(Used(t, n) \cup Dead(t, n)) =
          Cardinality(Used(t, n)) + Cardinality(Dead(t, n)) - Cardinality({})
    BY <1>1, <1>2, FS_Union
  <2> QED
    BY <1>1, <2>1, FS_EmptySet
<1>4. Cardinality(0..(n - 1)) = n
  BY FS_Interval
<1>5. Used(t, n) \cup Dead(t, n) # 0..(n - 1)
  <2> SUFFICES ASSUME Used(t, n) \cup Dead(t, n) = 0..(n - 1) PROVE FALSE
    OBVIOUS
  <2>1. Cardinality(Used(t, n) \cup Dead(t, n)) = Cardinality(0..(n - 1))
    BY Zenon
  <2> QED
    BY <1>3, <1>4, <2>1
<1>6. PICK j \in 0..(n - 1) : j \notin Used(t, n) \cup Dead(t, n)
  BY <1>5 DEF Used, Dead
<1>7. t[j].key \in Key \cup Marks
  BY DEF GoodTable, Cells
<1> QED
  BY <1>6, <1>7 DEF Used, Dead, Marks

LEMMA HashFacts ==
    ASSUME HashInv
    PROVE  /\ Hashed /\ DOMAIN data = 0..(Size - 1) /\ Size \in Nat \ {0}
           /\ Good = Used(data, Size) /\ Holding({Deleted}) = Dead(data, Size)
           /\ \E j \in 0..(Size - 1) : data[j].key = Empty
<1>1. Hashed
  BY HashMapAssumption DEF HashInv, Hashed
<1>2. Size \in Nat \ {0} /\ GoodTable(data, Size) /\ data \in Cells(Size)
  BY DEF HashInv, GoodTable
<1>3. DOMAIN data = 0..(Size - 1)
  BY <1>2 DEF Cells
<1>4. Good = Used(data, Size) /\ Holding({Deleted}) = Dead(data, Size)
  <2>1. \A j \in 0..(Size - 1) : data[j].key \in Key <=> data[j].key \notin Marks
    BY <1>2, HashMapAssumption DEF Cells, Marks
  <2> QED
    BY <1>3, <2>1 DEF Good, Holding, Used, Dead
<1>5. \E j \in 0..(Size - 1) : data[j].key = Empty
  <2>1. Cardinality(Used(data, Size)) + Cardinality(Dead(data, Size)) < Size
    BY <1>2, Finite DEF HashInv, Counts
  <2> QED
    BY <1>2, <2>1, EmptyCell
<1> QED
  BY <1>1, <1>2, <1>3, <1>4, <1>5

(* What is looked up is what is there.                                     *)
LEMMA FindsAll ==
    ASSUME HashInv, NEW k \in Key
    PROVE  Ends(k) /\ (Found(k) <=> ~Absent(data, Size, k))
<1>1. /\ Hashed /\ DOMAIN data = 0..(Size - 1) /\ Size \in Nat \ {0}
      /\ GoodTable(data, Size) /\ data \in Cells(Size)
  BY HashFacts DEF HashInv, GoodTable
<1>2. PICK e \in 0..(Size - 1) : data[e].key \in {Empty, k}
  BY HashFacts
<1>3. Ends(k)
  BY <1>1, <1>2 DEF Ends, Holding
<1>4. PICK d \in 0..(Size - 1) :
        Probe(data, k, {Empty, k}) = Slot(k, d, Size) /\ Slot(k, d, Size) \in 0..(Size - 1)
  <2> DEFINE n == Size
             K == {Empty, k}
  <2>1. n \in Nat \ {0} /\ data \in Cells(n) /\ e \in 0..(n - 1) /\ Hashed /\ data[e].key \in K
    BY <1>1, <1>2
  <2> HIDE DEF n, K
  <2>2. \E d \in 0..(n - 1) :
          /\ Probe(data, k, K) = Slot(k, d, n)
          /\ Slot(k, d, n) \in 0..(n - 1) /\ data[Slot(k, d, n)].key \in K
          /\ \A h \in 0..(d - 1) : data[Slot(k, h, n)].key \notin K
    BY <2>1, ProbeHits, Zenon
  <2> QED
    BY <2>2 DEF n, K
<1>5. Found(k) => ~Absent(data, Size, k)
  BY <1>4 DEF Found, Absent
<1>6. ASSUME ~Absent(data, Size, k) PROVE Found(k)
  <2>1. PICK j \in 0..(Size - 1) : data[j].key = k
    BY <1>6 DEF Absent
  <2>2. data[Probe(data, k, {Empty, k})].key = k
    BY <1>1, <2>1, FindsKey
  <2> QED
    BY <1>3, <2>2 DEF Found
<1> QED
  BY <1>3, <1>5, <1>6

ContentsMatch ==
    \A k \in Key :
        /\ \A v : Has(data, Size, k, v) => v \in Val /\ contents[k] = v
        /\ (\A v : ~Has(data, Size, k, v)) => contents[k] = Empty

LEMMA ContentsAre == HashInv => ContentsMatch
<1> SUFFICES ASSUME HashInv, NEW k \in Key
             PROVE  /\ \A v : Has(data, Size, k, v) => v \in Val /\ contents[k] = v
                    /\ (\A v : ~Has(data, Size, k, v)) => contents[k] = Empty
  BY DEF ContentsMatch
<1>1. contents[k] = IF Found(k) THEN data[Probe(data, k, {k})].val ELSE Empty
  BY DEF contents
<1>2. ASSUME NEW v, Has(data, Size, k, v) PROVE v \in Val /\ contents[k] = v
  <2>1. PICK j \in 0..(Size - 1) : data[j].key = k /\ data[j].val = v
    BY <1>2 DEF Has
  <2>2. Found(k) /\ Probe(data, k, {k}) = j
    <3>1. ~Absent(data, Size, k)
      BY <2>1 DEF Absent
    <3> QED
      BY <2>1, <3>1, FindsAll, FindsKey, HashFacts DEF HashInv
  <2>3. data[j].val \in Val
    BY <2>1 DEF HashInv, GoodTable
  <2> QED
    BY <1>1, <2>1, <2>2, <2>3
<1>3. ASSUME \A v : ~Has(data, Size, k, v) PROVE contents[k] = Empty
  <2>1. Absent(data, Size, k)
    BY <1>3 DEF Has, Absent
  <2> QED
    BY <1>1, <2>1, FindsAll
<1> QED
  BY <1>2, <1>3

-----------------------------------------------------------------------------
(* The operations.  Each gives a table; what that says of the next state.  *)
LEMMA NextTable ==
    ASSUME UNCHANGED hash, NEW n \in Nat \ {0}, GoodTable(data', n)
    PROVE  /\ Size' = n /\ GoodTable(data, Size)'
           /\ Used(data, Size)' = Used(data', n) /\ Dead(data, Size)' = Dead(data', n)
           /\ \A k, v : Has(data, Size, k, v)' <=> Has(data', n, k, v)
<1>1. Size' = n
  BY SizeIs DEF Size, GoodTable, Cells
<1>2. GoodTable(data, Size)'
  BY <1>1 DEF GoodTable, Cells, Reachable, Slot
<1> QED
  BY <1>1, <1>2 DEF Used, Dead, Has

(* What the operations are for.                                            *)
Added(k, v) ==
    \A q \in Key : \A w :
        Has(data, Size, q, w)' <=> Has(data, Size, q, w) \/ (q = k /\ w = v)

Removed(k) ==
    \A q \in Key : \A w :
        Has(data, Size, q, w)' <=> Has(data, Size, q, w) /\ q # k

LEMMA InvFrom ==
    ASSUME HashInv, UNCHANGED hash, NEW n \in Nat \ {0}, GoodTable(data', n),
           nelems' = Cardinality(Used(data', n)), ndeleted' \in Nat,
           Cardinality(Dead(data', n)) <= ndeleted',
           nelems' + ndeleted' < n, ndeleted' <= (n * 2) \div 10,
           peak' \in Nat, nelems' <= peak', n > InitSize => n <= 5 * peak'
    PROVE  HashInv'
<1>1. /\ Size' = n /\ GoodTable(data, Size)'
      /\ Used(data, Size)' = Used(data', n) /\ Dead(data, Size)' = Dead(data', n)
  BY NextTable
<1>2. Counts'
  BY <1>1 DEF Counts, cleanup_threshold
<1>3. Growth'
  BY <1>1 DEF Growth, GrowsForKeys
<1> QED
  BY <1>1, <1>2, <1>3 DEF HashInv

(* A new key takes a cell of the table ...                                 *)
LEMMA PutKeeps ==
    ASSUME HashInv, NEW k \in Key, NEW v \in Val, Get(k, v), Absent(data, Size, k),
           nelems + ndeleted < resize_threshold
    PROVE  HashInv' /\ Added(k, v)
<1> DEFINE n == Size
           p == Probe(data, k, Marks)
<1>1. /\ data' = [data EXCEPT ![p] = [key |-> k, val |-> v]]
      /\ ndeleted' = ndeleted /\ nelems' = nelems + 1
      /\ peak' = IF nelems' > peak THEN nelems' ELSE peak
      /\ hash' = hash
  <2>1. ~Found(k)
    BY FindsAll
  <2>2. nelems \in Nat /\ ndeleted \in Nat /\ resize_threshold \in Nat
    BY Finite DEF HashInv, Counts, resize_threshold
  <2>3. ~(nelems + ndeleted >= resize_threshold)
    BY <2>2
  <2> QED
    BY <2>1, <2>3 DEF Get
<1>2. With(data, data', n, p, k, v)
  <2>1. PICK j \in 0..(n - 1) : data[j].key \in Marks
    BY HashFacts DEF Marks
  <2>2. Hashed /\ n \in Nat \ {0} /\ GoodTable(data, n) /\ Marks \in SUBSET Marks /\ Empty \in Marks
    BY HashFacts DEF HashInv, Marks
  <2> QED
    BY <1>1, <2>1, <2>2, Inserted
<1> HIDE DEF p
<1>3. /\ n \in Nat \ {0} /\ nelems = Cardinality(Used(data, n)) /\ ndeleted \in Nat
      /\ Cardinality(Dead(data, n)) <= ndeleted /\ ndeleted <= (n * 2) \div 10
      /\ nelems \in Nat /\ peak \in Nat /\ nelems <= peak /\ (n > InitSize => n <= 5 * peak)
  BY Finite DEF HashInv, Counts, Growth, GrowsForKeys, cleanup_threshold
<1>4. Cardinality(Used(data', n)) = nelems + 1
  BY <1>2, <1>3, Finite, FS_AddElement DEF With
<1>5. Cardinality(Dead(data', n)) <= ndeleted
  <2>1. Dead(data', n) \subseteq Dead(data, n)
    BY <1>2 DEF With
  <2>2. /\ Cardinality(Dead(data', n)) <= Cardinality(Dead(data, n))
        /\ Cardinality(Dead(data', n)) \in Nat /\ Cardinality(Dead(data, n)) \in Nat
    BY <1>3, <2>1, Finite, FS_Subset
  <2> QED
    BY <1>3, <2>2
<1>6. nelems' + ndeleted' < n
  BY <1>1, <1>3 DEF resize_threshold
<1>7. /\ peak' \in Nat /\ nelems' <= peak' /\ (n > InitSize => n <= 5 * peak')
  BY <1>1, <1>3, HashMapAssumption
<1>8. HashInv'
  BY <1>1, <1>2, <1>3, <1>4, <1>5, <1>6, <1>7, InvFrom DEF With
<1>9. Added(k, v)
  <2>1. \A q, w : Has(data, Size, q, w)' <=> Has(data', n, q, w)
    BY <1>1, <1>2, <1>3, NextTable DEF With
  <2> QED
    BY <1>2, <2>1 DEF Added, With
<1> QED
  BY <1>8, <1>9

(* ... or of one that is twice as large.                                   *)
LEMMA GrowKeeps ==
    ASSUME HashInv, NEW k \in Key, NEW v \in Val, Get(k, v), Absent(data, Size, k),
           nelems + ndeleted >= resize_threshold
    PROVE  HashInv' /\ Added(k, v)
<1> DEFINE n == 2 * Size
<1>1. PICK t \in Rebuilt(data, n) :
        /\ data' = CleanCopy(t, [key |-> k, val |-> v])
        /\ ndeleted' = 0 /\ nelems' = nelems + 1
        /\ peak' = IF nelems' > peak THEN nelems' ELSE peak
        /\ hash' = hash
  <2>1. ~Found(k)
    BY FindsAll
  <2> QED
    BY <2>1 DEF Get
<1>2. /\ Size \in Nat \ {0} /\ n \in Nat \ {0} /\ nelems = Cardinality(Used(data, Size))
      /\ ndeleted \in Nat /\ ndeleted <= (Size * 2) \div 10 /\ nelems + ndeleted < Size
      /\ nelems \in Nat /\ peak \in Nat /\ nelems <= peak
      /\ GoodTable(data, Size) /\ Hashed
  BY Finite, HashFacts DEF HashInv, Counts, Growth, cleanup_threshold
<1>3. /\ GoodTable(t, n) /\ Dead(t, n) = {} /\ Cardinality(Used(t, n)) = nelems
      /\ \A q \in Key : \A w : Has(t, n, q, w) <=> Has(data, Size, q, w)
  <2>1. Cardinality(Used(data, Size)) < n
    BY <1>2
  <2> HIDE DEF n
  <2> QED
    BY <1>2, <2>1, RebuiltTable
<1> DEFINE p == Probe(t, k, {Empty})
<1>4. With(t, data', n, p, k, v)
  <2>1. PICK K \in SUBSET Marks : K = {Empty}
    BY DEF Marks
  <2>2. PICK j \in 0..(n - 1) : t[j].key \in K
    <3>1. Cardinality(Used(t, n)) + Cardinality(Dead(t, n)) < n
      <4>1. Cardinality(Dead(t, n)) = 0
        BY <1>3, FS_EmptySet
      <4> HIDE DEF n
      <4>2. Cardinality(Used(t, n)) = nelems
        BY <1>3
      <4> QED
        BY <1>2, <4>1, <4>2 DEF n
    <3> HIDE DEF n
    <3> QED
      BY <1>2, <1>3, <2>1, <3>1, EmptyCell
  <2>3. Absent(t, n, k)
    <3> SUFFICES ASSUME NEW h \in 0..(n - 1), t[h].key = k PROVE FALSE
      BY DEF Absent
    <3>1. Has(t, n, k, t[h].val)
      BY DEF Has
    <3> QED
      BY <1>3, <3>1 DEF Has, Absent
  <2>4. /\ p = Probe(t, k, K) /\ Empty \in K
        /\ data' = [t EXCEPT ![p] = [key |-> k, val |-> v]]
    BY <1>1, <2>1 DEF CleanCopy
  <2> HIDE DEF n, p
  <2> QED
    BY <1>2, <1>3, <2>2, <2>3, <2>4, Inserted
<1> HIDE DEF p
<1>5. Cardinality(Used(data', n)) = nelems + 1
  BY <1>2, <1>3, <1>4, Finite, FS_AddElement DEF With
<1>6. Cardinality(Dead(data', n)) = 0
  BY <1>3, <1>4, FS_EmptySet DEF With
<1>7. nelems' + ndeleted' < n /\ ndeleted' <= (n * 2) \div 10
  BY <1>1, <1>2
<1>8. peak' \in Nat /\ nelems' <= peak' /\ n <= 5 * peak'
  BY <1>1, <1>2 DEF resize_threshold
<1>9. HashInv'
  BY <1>1, <1>2, <1>4, <1>5, <1>6, <1>7, <1>8, InvFrom DEF With
<1>10. Added(k, v)
  <2>1. \A q, w : Has(data, Size, q, w)' <=> Has(data', n, q, w)
    BY <1>1, <1>2, <1>4, NextTable DEF With
  <2> QED
    BY <1>3, <1>4, <2>1 DEF Added, With
<1> QED
  BY <1>9, <1>10

(* A key is erased, and the marks with it when there are enough.           *)
LEMMA EraseKeeps ==
    ASSUME HashInv, NEW j \in Used(data, Size), Erase(j)
    PROVE  HashInv' /\ Removed(data[j].key)
<1> DEFINE n == Size
           cut == [data EXCEPT ![j].key = Deleted]
<1>1. /\ nelems' = nelems - 1 /\ hash' = hash /\ peak' = peak
      /\ \/ data' = cut /\ ndeleted' = ndeleted + 1 /\ ndeleted + 1 <= cleanup_threshold
         \/ data' \in Rebuilt(cut, n) /\ ndeleted' = 0
  <2>1. ndeleted \in Nat /\ cleanup_threshold \in Nat
    BY DEF HashInv, Counts, cleanup_threshold
  <2> QED
    BY <2>1 DEF Erase
<1>2. /\ n \in Nat \ {0} /\ nelems = Cardinality(Used(data, n)) /\ ndeleted \in Nat
      /\ Cardinality(Dead(data, n)) <= ndeleted /\ ndeleted <= (n * 2) \div 10
      /\ nelems \in Nat /\ peak \in Nat /\ nelems <= peak /\ (n > InitSize => n <= 5 * peak)
      /\ nelems + ndeleted < n /\ GoodTable(data, n) /\ Hashed
  BY Finite, HashFacts DEF HashInv, Counts, Growth, GrowsForKeys, cleanup_threshold
<1>3. Without(data, cut, n, j)
  <2>1. PICK u : u = cut
    OBVIOUS
  <2> HIDE DEF cut
  <2>2. u = [data EXCEPT ![j].key = Deleted]
    BY <2>1 DEF cut
  <2>3. Without(data, u, n, j)
    BY <1>2, <2>2, Erased
  <2> QED
    BY <2>1, <2>3
<1> HIDE DEF cut
<1>4. /\ Cardinality(Used(cut, n)) = nelems - 1 /\ nelems - 1 \in Nat
      /\ Cardinality(Dead(cut, n)) <= ndeleted + 1
  <2>1. IsFiniteSet(Used(data, n)) /\ IsFiniteSet(Dead(data, n)) /\ Cardinality(Dead(data, n)) \in Nat
    BY <1>2, Finite
  <2>2. Cardinality(Used(data, n) \ {j}) = Cardinality(Used(data, n)) - 1
    BY <2>1, FS_RemoveElement
  <2>3. Cardinality(Dead(data, n) \cup {j}) <= Cardinality(Dead(data, n)) + 1
    <3> DEFINE D == Dead(data, n)
    <3>1. Cardinality(D \cup {j}) = IF j \in D THEN Cardinality(D) ELSE Cardinality(D) + 1
      BY <2>1, FS_AddElement
    <3> QED
      BY <2>1, <3>1
  <2>4. Cardinality(Used(cut, n)) \in Nat /\ Cardinality(Dead(cut, n)) \in Nat
    BY <1>2, Finite
  <2> QED
    BY <1>2, <1>3, <2>1, <2>2, <2>3, <2>4 DEF Without
<1>5. CASE data' = cut /\ ndeleted' = ndeleted + 1 /\ ndeleted + 1 <= cleanup_threshold
  <2>1. GoodTable(data', n)
    BY <1>3, <1>5 DEF Without
  <2>2. HashInv'
    BY <1>1, <1>2, <1>4, <1>5, <2>1, InvFrom DEF cleanup_threshold
  <2>3. \A q, w : Has(data, Size, q, w)' <=> Has(cut, n, q, w)
    BY <1>1, <1>2, <1>5, <2>1, NextTable
  <2> QED
    BY <1>3, <2>2, <2>3 DEF Removed, Without
<1>6. CASE data' \in Rebuilt(cut, n) /\ ndeleted' = 0
  <2>1. /\ GoodTable(data', n) /\ Dead(data', n) = {} /\ Cardinality(Used(data', n)) = nelems - 1
        /\ \A q \in Key : \A w : Has(data', n, q, w) <=> Has(cut, n, q, w)
    <3>1. GoodTable(cut, n) /\ Cardinality(Used(cut, n)) < n
      BY <1>2, <1>3, <1>4 DEF Without
    <3> HIDE DEF n
    <3> QED
      BY <1>2, <1>4, <1>6, <3>1, RebuiltTable
  <2>2. Cardinality(Dead(data', n)) = 0
    BY <2>1, FS_EmptySet
  <2>3. HashInv'
    <3>1. /\ nelems' = Cardinality(Used(data', n)) /\ ndeleted' \in Nat
          /\ Cardinality(Dead(data', n)) <= ndeleted' /\ nelems' + ndeleted' < n
          /\ ndeleted' <= (n * 2) \div 10
      <4>1. /\ n \in Nat \ {0} /\ nelems \in Nat /\ ndeleted \in Nat /\ nelems + ndeleted < n
            /\ nelems' = nelems - 1 /\ nelems - 1 \in Nat
        BY <1>1, <1>2, <1>4
      <4>2. ndeleted' = 0 /\ Cardinality(Dead(data', n)) = 0 /\ nelems' = Cardinality(Used(data', n))
        BY <1>1, <1>6, <2>1, <2>2
      <4> HIDE DEF n
      <4>3. nelems' + ndeleted' < n /\ ndeleted' <= (n * 2) \div 10
        BY <4>1, <4>2
      <4> QED
        BY <4>2, <4>3
    <3>2. peak' \in Nat /\ nelems' <= peak' /\ (n > InitSize => n <= 5 * peak')
      BY <1>1, <1>2, <1>4
    <3> HIDE DEF n
    <3> QED
      BY <1>1, <1>2, <2>1, <3>1, <3>2, InvFrom
  <2>4. \A q, w : Has(data, Size, q, w)' <=> Has(data', n, q, w)
    BY <1>1, <1>2, <2>1, NextTable
  <2> QED
    BY <1>3, <2>1, <2>3, <2>4 DEF Removed, Without
<1> QED
  BY <1>1, <1>5, <1>6

LEMMA ResetKeeps ==
    ASSUME HashInv, Reset
    PROVE  HashInv' /\ \A q \in Key : \A w : ~Has(data, Size, q, w)'
<1> DEFINE n == Size
<1>1. /\ data' = Blank(n) /\ nelems' = 0 /\ ndeleted' = 0 /\ hash' = hash /\ peak' = peak
  BY DEF Reset
<1>2. /\ n \in Nat \ {0} /\ peak \in Nat /\ (n > InitSize => n <= 5 * peak)
  BY DEF HashInv, Growth, GrowsForKeys
<1>3. GoodTable(data', n) /\ Used(data', n) = {} /\ Dead(data', n) = {}
  BY <1>1, <1>2, BlankTable
<1>4. Cardinality(Used(data', n)) = 0 /\ Cardinality(Dead(data', n)) = 0
  BY <1>3, FS_EmptySet
<1>5. HashInv'
  BY <1>1, <1>2, <1>3, <1>4, InvFrom
<1>6. \A q, w : Has(data, Size, q, w)' <=> Has(data', n, q, w)
  BY <1>1, <1>2, <1>3, NextTable
<1> QED
  BY <1>3, <1>5, <1>6 DEF Has, Used

-----------------------------------------------------------------------------
LEMMA InitHash == HashInit => HashInv
<1> SUFFICES ASSUME HashInit PROVE HashInv
  OBVIOUS
<1>1. /\ hash \in [Key -> Hash] /\ data = Blank(InitSize) /\ InitSize \in Nat \ {0}
      /\ nelems = 0 /\ ndeleted = 0 /\ peak = 0
  BY HashMapAssumption DEF HashInit
<1>2. /\ GoodTable(data, InitSize) /\ Used(data, InitSize) = {} /\ Dead(data, InitSize) = {}
  BY <1>1, BlankTable
<1>3. Size = InitSize
  BY <1>1, <1>2, SizeIs DEF Size, GoodTable, Cells
<1>4. Cardinality(Used(data, Size)) = 0 /\ Cardinality(Dead(data, Size)) = 0
  BY <1>2, <1>3, FS_EmptySet
<1> QED
  BY <1>1, <1>2, <1>3, <1>4 DEF HashInv, Counts, Growth, GrowsForKeys, cleanup_threshold

(* What a step does to the pairs that are there.                           *)
Kept == \A q \in Key : \A w : Has(data, Size, q, w)' <=> Has(data, Size, q, w)

LEMMA SameTable ==
    ASSUME HashInv, UNCHANGED hashVars
    PROVE  HashInv' /\ Kept
BY DEF HashInv, Kept, Counts, Growth, GrowsForKeys, cleanup_threshold, Size, GoodTable, Cells,
   Reachable, Slot, Used, Dead, Has, hashVars

LEMMA Steps ==
    ASSUME HashInv, [HashNext]_hashVars
    PROVE  /\ HashInv'
           /\ \/ Kept
              \/ \E k \in Key, v \in Val : Absent(data, Size, k) /\ Added(k, v)
              \/ \E k \in Key : ~Absent(data, Size, k) /\ Removed(k)
              \/ \A q \in Key : \A w : ~Has(data, Size, q, w)'
<1>1. ASSUME NEW k \in Key, NEW v \in Val, Get(k, v)
      PROVE  HashInv' /\ (Kept \/ (Absent(data, Size, k) /\ Added(k, v)))
  <2>1. CASE Found(k)
    <3>1. UNCHANGED hashVars
      BY <1>1, <2>1 DEF Get, hashVars
    <3> QED
      BY <3>1, SameTable
  <2>2. CASE ~Found(k)
    <3>1. Absent(data, Size, k)
      BY <2>2, FindsAll
    <3>2. nelems \in Nat /\ ndeleted \in Nat /\ resize_threshold \in Nat
      BY Finite DEF HashInv, Counts, resize_threshold
    <3>3. nelems + ndeleted < resize_threshold \/ nelems + ndeleted >= resize_threshold
      BY <3>2
    <3> QED
      BY <1>1, <3>1, <3>3, PutKeeps, GrowKeeps
  <2> QED
    BY <2>1, <2>2
<1>2. ASSUME NEW j \in Used(data, Size), Erase(j)
      PROVE  HashInv' /\ \E k \in Key : ~Absent(data, Size, k) /\ Removed(k)
  <2>1. data[j].key \in Key /\ ~Absent(data, Size, data[j].key)
    BY DEF Used, Absent
  <2> QED
    BY <1>2, <2>1, EraseKeeps
<1>3. ASSUME NEW k \in Key, EraseKey(k)
      PROVE  HashInv' /\ \E q \in Key : ~Absent(data, Size, q) /\ Removed(q)
  <2>1. Found(k) /\ Erase(Probe(data, k, {k}))
    BY <1>3 DEF EraseKey
  <2>2. PICK j \in 0..(Size - 1) : data[j].key = k
    BY <2>1, FindsAll DEF Absent
  <2>3. Probe(data, k, {k}) = j
    BY <2>2, FindsKey, HashFacts DEF HashInv
  <2>4. j \in Used(data, Size)
    BY <2>2 DEF Used
  <2> QED
    BY <1>2, <2>1, <2>3, <2>4
<1>4. ASSUME RemoveRandom
      PROVE  HashInv' /\ \E q \in Key : ~Absent(data, Size, q) /\ Removed(q)
  <2> DEFINE j == CHOOSE j \in Good : \A h \in 0..(j - 1) : h \notin Good
  <2>1. nelems > 0 /\ Erase(j)
    BY <1>4 DEF RemoveRandom
  <2>2. Good = Used(data, Size) /\ Good # {} /\ Good \in SUBSET (0..(Size - 1)) /\ Size \in Nat
    <3>1. Good = Used(data, Size) /\ Size \in Nat
      BY HashFacts
    <3>2. Used(data, Size) # {}
      BY <2>1, FS_EmptySet DEF HashInv, Counts
    <3> QED
      BY <3>1, <3>2 DEF Used
  <2>3. \E i \in Good : \A h \in 0..(i - 1) : h \notin Good
    BY <2>2, First
  <2>4. j \in Good
    BY <2>3
  <2> HIDE DEF j
  <2> QED
    BY <1>2, <2>1, <2>2, <2>4
<1>5. CASE UNCHANGED hashVars
  BY <1>5, SameTable
<1> QED
  BY <1>1, <1>3, <1>4, <1>5, ResetKeeps DEF HashNext

(* The invariant holds at all times.                                       *)
THEOREM HashInvariance == HashSpec => []HashInv
<1>1. HashInv /\ [HashNext]_hashVars => HashInv'
  BY Steps
<1> QED
  BY <1>1, InitHash, PTL DEF HashSpec

(* A search ends: the counters, which count the keys exactly and the marks *)
(* from above, leave an empty cell (the assertion of hmap_get).            *)
THEOREM SearchesEnd == HashSpec => []ProbesEnd
<1>1. HashInv => ProbesEnd
  BY HashFacts DEF HashInv, Counts, ProbesEnd
<1> QED
  BY <1>1, HashInvariance, PTL

(* hmap_extend makes the table larger for keys, not for marks.             *)
THEOREM GrowthForKeys == HashSpec => []GrowsForKeys
<1>1. HashInv => GrowsForKeys
  BY DEF HashInv, Growth
<1> QED
  BY <1>1, HashInvariance, PTL

(* Searching, adding, erasing and rebuilding implement a partial function. *)
THEOREM HashMapIsMap == HashSpec => ImplementsMap
<1>1. HashInit => Map!Init
  <2> SUFFICES ASSUME HashInit PROVE Map!Init
    OBVIOUS
  <2>1. \A q \in Key : \A w : ~Has(data, Size, q, w)
    <3>1. data = Blank(InitSize) /\ InitSize \in Nat \ {0}
      BY HashMapAssumption DEF HashInit
    <3>2. Size = InitSize
      <4>1. GoodTable(data, InitSize)
        BY <3>1, BlankTable
      <4> QED
        BY <3>1, <4>1, SizeIs DEF Size, GoodTable, Cells
    <3> QED
      BY <3>1, <3>2, BlankTable
  <2>2. \A k \in Key : contents[k] = Empty
    BY <2>1, InitHash, ContentsAre DEF ContentsMatch
  <2>3. contents = [k \in Key |-> contents[k]]
    BY DEF contents
  <2> QED
    BY <2>2, <2>3 DEF Map!Init
<1>2. HashInv /\ HashInv' /\ [HashNext]_hashVars => [Map!Next]_contents
  <2> SUFFICES ASSUME HashInv, HashInv', [HashNext]_hashVars PROVE [Map!Next]_contents
    OBVIOUS
  <2> DEFINE d == contents
             e == contents'
  <2>1. /\ d = [k \in Key |-> d[k]] /\ e = [k \in Key |-> e[k]]
    BY DEF contents
  <2>2. ContentsMatch /\ ContentsMatch'
    BY ContentsAre, PTL
  <2>3. \A k \in Key : /\ \A v : Has(data, Size, k, v) => v \in Val /\ d[k] = v
                       /\ (\A v : ~Has(data, Size, k, v)) => d[k] = Empty
    BY <2>2 DEF ContentsMatch
  <2>4. \A k \in Key : /\ \A v : Has(data, Size, k, v)' => v \in Val /\ e[k] = v
                       /\ (\A v : ~Has(data, Size, k, v)') => e[k] = Empty
    BY <2>2 DEF ContentsMatch
  <2> HIDE DEF d, e
  <2>5. CASE Kept
    <3>1. \A k \in Key : e[k] = d[k]
      BY <2>3, <2>4, <2>5 DEF Kept
    <3> QED
      BY <2>1, <3>1 DEF d, e
  <2>6. ASSUME NEW k \in Key, NEW v \in Val, Absent(data, Size, k), Added(k, v)
        PROVE  Map!Get(k, v)
    <3>1. \A w : ~Has(data, Size, k, w)
      BY <2>6 DEF Absent, Has
    <3>2. d[k] = Empty /\ e[k] = v
      BY <2>3, <2>4, <2>6, <3>1 DEF Added
    <3>3. \A q \in Key : q # k => e[q] = d[q]
      BY <2>3, <2>4, <2>6 DEF Added
    <3>4. e = [d EXCEPT ![k] = v]
      BY <2>1, <3>2, <3>3
    <3> QED
      BY <3>2, <3>4 DEF Map!Get, d, e
  <2>7. ASSUME NEW k \in Key, ~Absent(data, Size, k), Removed(k)
        PROVE  Map!Erase(k)
    <3>1. \E w : Has(data, Size, k, w)
      BY <2>7 DEF Absent, Has
    <3>2. d[k] # Empty /\ e[k] = Empty
      BY <2>3, <2>4, <2>7, <3>1, HashMapAssumption DEF Removed
    <3>3. \A q \in Key : q # k => e[q] = d[q]
      BY <2>3, <2>4, <2>7 DEF Removed
    <3>4. e = [d EXCEPT ![k] = Empty]
      BY <2>1, <3>2, <3>3
    <3> QED
      BY <3>2, <3>4 DEF Map!Erase, d, e
  <2>8. CASE \A q \in Key : \A w : ~Has(data, Size, q, w)'
    <3>1. \A k \in Key : e[k] = Empty
      BY <2>4, <2>8
    <3>2. e = [k \in Key |-> Empty]
      BY <2>1, <3>1
    <3> QED
      BY <3>2 DEF Map!Reset, Map!Next, e
  <2> QED
    BY <2>5, <2>6, <2>7, <2>8, Steps DEF Map!Next
<1> QED
  BY <1>1, <1>2, HashInvariance, PTL DEF HashSpec, ImplementsMap, Map!Spec
=============================================================================
