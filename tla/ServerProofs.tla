----------------------------- MODULE ServerProofs -----------------------------
(***************************************************************************)
(* The mutex of the server, the formulas it parses, and that the server     *)
(* implements SerialServer until unlocked work overlaps: its requests then *)
(* take effect one at a time.  All for any number of requests of any kind. *)
(***************************************************************************)
EXTENDS Server, TLAPS

Label == {"new", "args", "parse", "lock", "locked", "asked", "sampled",
          "resetting", "result", "done"}

(* The part of the type invariant that is about control.                   *)
ControlOK ==
    /\ pc \in [Request -> Label]
    /\ owner \in Request \cup {Nobody}

MInv == ControlOK /\ MutexHeld

(* A step of a handler changes the mutex and the place of that handler     *)
(* only, in one of three ways.                                             *)
Keeps(r) == owner' = owner /\ \E l \in Label : GoTo(r, l)
               /\ (pc[r] \in Critical <=> l \in Critical)
Takes(r) == owner = Nobody /\ owner' = r /\ GoTo(r, "locked") /\ pc[r] = "lock"
Frees(r) == owner' = Nobody /\ pc[r] \in Critical
               /\ \E l \in Label \ Critical : GoTo(r, l)

LEMMA StepKinds ==
    ASSUME NEW r \in Request, ControlOK, Accept(r) \/ Handle(r)
    PROVE  Keeps(r) \/ Takes(r) \/ Frees(r) \/ (owner' = owner /\ pc' = pc)
<1> USE DEF Keeps, Takes, Frees, Label, Critical, GoTo, At, ControlOK
<1>1. CASE Accept(r) \/ Reject(r) \/ StartParse(r) \/ EndParse(r)
    BY <1>1 DEF Accept, Reject, StartParse, EndParse, data, parser
<1>2. CASE PushNewVar(r)
    BY <1>2 DEF PushNewVar
<1>3. CASE Lock(r)
    BY <1>3 DEF Lock
<1>4. CASE Declare(r) \/ Refuse(r) \/ AddConstant(r) \/ AddCnf(r) \/ McSat(r) \/ Command(r) \/ AskRead(r)
    BY <1>4 DEF Declare, Refuse, AddConstant, AddCnf, McSat, Command, AskRead, Unlock
<1>5. CASE AskInstances(r) \/ AskSample(r)
    BY <1>5 DEF AskInstances, AskSample
<1>6. CASE ResetSortTable(r) \/ InitSampTable(r) \/ ResetProbabilities(r) \/ Quit(r) \/ Result(r)
    BY <1>6 DEF ResetSortTable, InitSampTable, ResetProbabilities, Quit, Result
<1> QED
    BY <1>1, <1>2, <1>3, <1>4, <1>5, <1>6 DEF Handle, Parse, Ask, Reset

LEMMA MInvKept == MInv /\ [Next]_vars => MInv'
<1> SUFFICES ASSUME MInv, [Next]_vars PROVE MInv'
    OBVIOUS
<1>1. CASE UNCHANGED vars
    BY <1>1 DEF MInv, ControlOK, MutexHeld, vars, handler
<1>2. ASSUME NEW r \in Request, Accept(r) \/ Handle(r)
      PROVE  MInv'
  <2>1. Keeps(r) \/ Takes(r) \/ Frees(r) \/ (owner' = owner /\ pc' = pc)
      BY <1>2, StepKinds DEF MInv
  <2>2. CASE Keeps(r)
      BY <2>2 DEF Keeps, MInv, ControlOK, MutexHeld, GoTo
  <2>3. CASE Takes(r)
      BY <2>3, ServerAssumption DEF Takes, MInv, ControlOK, MutexHeld, GoTo, Label, Critical
  <2>4. CASE Frees(r)
      BY <2>4, ServerAssumption DEF Frees, MInv, ControlOK, MutexHeld, GoTo
  <2>5. CASE owner' = owner /\ pc' = pc
      BY <2>5 DEF MInv, ControlOK, MutexHeld
  <2> QED
      BY <2>1, <2>2, <2>3, <2>4, <2>5
<1> QED
    BY <1>1, <1>2 DEF Next

(* The mutex of xpce.c is held by exactly the handler that works on the    *)
(* tables, whatever the requests are and however many.                     *)
THEOREM MutexSafe == Spec => []MutexHeld
<1>1. Init => MInv
    BY ServerAssumption DEF Init, MInv, ControlOK, MutexHeld, Label, Critical
<1>2. MInv => MutexHeld
    BY DEF MInv
<1> QED
    BY <1>1, <1>2, MInvKept, PTL DEF Spec

-----------------------------------------------------------------------------
Named == UNION {c.names : c \in UNION {Call[r] : r \in Request}}

(* The part of the type invariant that is about the parser.                *)
ParserOK ==
    /\ wild \in BOOLEAN
    /\ DOMAIN call = Request /\ call = [r \in Request |-> call[r]]
    /\ DOMAIN todo = Request /\ todo = [r \in Request |-> todo[r]]
    /\ DOMAIN formula = Request /\ formula = [r \in Request |-> formula[r]]
    /\ \A r \in Request : pc[r] # "new" => call[r] \in Call[r]

(* What the parser has collected, and what it has yet to collect, are the  *)
(* variables of the one formula that is being parsed.                      *)
Collected(r) == {formula_vars[i] : i \in DOMAIN formula_vars} \cup todo[r] = call[r].names

OneParser ==
    /\ formula_vars \in Seq(Named \cup {Null})
    /\ \A r, q \in Request : pc[r] = "parse" /\ pc[q] = "parse" => r = q
    /\ \A r \in Request :
          /\ pc[r] = "args" => todo[r] = call[r].names
          /\ pc[r] = "parse" => Collected(r)

PInv == ControlOK /\ ParserOK /\ (~wild => OneParser) /\ FormulaIsOwn

LEMMA CallFacts ==
    ASSUME NEW r \in Request, NEW c \in Call[r]
    PROVE  c.method \in Methods /\ c.names \subseteq Named /\ Null \notin c.names
BY ServerAssumption DEF Named

(* The control part once more, for any step.                               *)
LEMMA ControlKept ==
    ASSUME NEW r \in Request, ControlOK, Accept(r) \/ Handle(r)
    PROVE  ControlOK'
<1>1. Keeps(r) \/ Takes(r) \/ Frees(r) \/ (owner' = owner /\ pc' = pc)
    BY StepKinds
<1> QED
    BY <1>1 DEF Keeps, Takes, Frees, ControlOK, GoTo, Label

(* A handler that is neither in the parser nor on its way there or back.   *)
LEMMA OthersKept ==
    ASSUME NEW r \in Request, PInv, ControlOK',
           parser' = parser, call' = call, todo' = [todo EXCEPT ![r] = todo'[r]],
           wild' \in BOOLEAN, ~wild' => ~wild /\ up',
           \A q \in Request : q # r => pc'[q] = pc[q],
           pc[r] # "new",
           pc'[r] \notin {"args", "parse", "new"},
           pc'[r] \in {"lock"} \cup Critical => pc[r] \in {"lock"} \cup Critical
    PROVE  PInv'
<1>1. ParserOK'
    BY DEF PInv, ParserOK, ControlOK, parser
<1>2. ASSUME ~wild' PROVE OneParser'
    BY <1>2 DEF PInv, OneParser, Collected, parser, ParserOK
<1>3. FormulaIsOwn'
    BY DEF PInv, FormulaIsOwn, parser, ParserOK, Critical
<1> QED
    BY <1>1, <1>2, <1>3 DEF PInv

LEMMA AcceptKeeps == ASSUME NEW r \in Request, PInv, ControlOK', Accept(r) PROVE PInv'
<1> USE DEF PInv, Accept, GoTo, parser, process
<1>1. PICK c \in Call[r] : call' = [call EXCEPT ![r] = c] /\ todo' = [todo EXCEPT ![r] = c.names]
    OBVIOUS
<1>2. pc[r] = "new" /\ pc'[r] \in {"args", "lock"}
         /\ (c.method \in WithFormula => pc'[r] = "args")
         /\ \A q \in Request : q # r => pc'[q] = pc[q]
    BY <1>1 DEF ControlOK, ParserOK
<1>3. ParserOK'
    BY <1>1, <1>2 DEF ParserOK
<1>4. ASSUME ~wild' PROVE OneParser'
    BY <1>1, <1>2, <1>4 DEF OneParser, Collected, ParserOK
<1>5. FormulaIsOwn'
    BY <1>1, <1>2 DEF FormulaIsOwn, Critical, ParserOK
<1> QED
    BY <1>3, <1>4, <1>5

LEMMA StartParseKeeps == ASSUME NEW r \in Request, PInv, ControlOK', StartParse(r) PROVE PInv'
<1> USE DEF PInv, StartParse, GoTo, At, process
<1>1. pc[r] = "args" /\ pc'[r] = "parse" /\ \A q \in Request : q # r => pc'[q] = pc[q]
    BY DEF ControlOK
<1>2. ParserOK'
    BY <1>1 DEF ParserOK, Parsing
<1>3. ASSUME ~wild' PROVE OneParser'
  <2>1. ~wild /\ \A q \in Request \ {r} : pc[q] # "parse"
      BY <1>3 DEF Parsing, ParserOK
  <2>2. formula_vars' = <<>> /\ DOMAIN formula_vars' = {} /\ formula_vars' \in Seq(Named \cup {Null})
      OBVIOUS
  <2> QED
      BY <1>1, <2>1, <2>2 DEF OneParser, Collected
<1>4. FormulaIsOwn'
    BY <1>1 DEF FormulaIsOwn, Critical, ParserOK
<1> QED
    BY <1>2, <1>3, <1>4

LEMMA PushNewVarKeeps == ASSUME NEW r \in Request, PInv, ControlOK', PushNewVar(r) PROVE PInv'
<1> USE DEF PInv, PushNewVar, At
<1>1. PICK x \in todo[r] :
         /\ todo' = [todo EXCEPT ![r] = @ \ {x}]
         /\ formula_vars' = IF Positions(x) \cup Positions(Null) = {}
                              THEN Append(formula_vars, x) ELSE formula_vars
         /\ up' = (Positions(Null) = {} \/ Before(Positions(x), Positions(Null)))
    OBVIOUS
<1>2. ParserOK'
    BY <1>1 DEF ParserOK
<1>3. ASSUME ~wild' PROVE OneParser' /\ FormulaIsOwn'
  <2>1. ~wild /\ OneParser /\ Collected(r)
      BY <1>3 DEF OneParser
  <2>2. call[r] \in Call[r]
      BY DEF ParserOK
  <2>3. x \in Named /\ x # Null /\ \A i \in DOMAIN formula_vars : formula_vars[i] # Null
      BY <2>1, <2>2, CallFacts DEF Collected
  <2>4. Positions(Null) = {}
      BY <2>3 DEF Positions
  <2>5. formula_vars' \in Seq(Named \cup {Null})
      BY <1>1, <2>1, <2>3 DEF OneParser
  <2>6. {formula_vars'[i] : i \in DOMAIN formula_vars'} = {formula_vars[i] : i \in DOMAIN formula_vars} \cup {x}
    <3>1. CASE Positions(x) = {}
        BY <1>1, <2>1, <2>4, <3>1 DEF OneParser
    <3>2. CASE Positions(x) # {}
        BY <1>1, <3>2 DEF Positions
    <3> QED
        BY <3>1, <3>2
  <2>7. Collected(r)'
      BY <1>1, <2>1, <2>6 DEF Collected, ParserOK
  <2>8. OneParser'
      BY <1>1, <2>1, <2>5, <2>7 DEF OneParser, ParserOK
  <2>9. FormulaIsOwn'
      BY <1>1, <2>1, <2>4 DEF FormulaIsOwn
  <2> QED
      BY <2>8, <2>9
<1> QED
    BY <1>2, <1>3 DEF FormulaIsOwn

LEMMA EndParseKeeps == ASSUME NEW r \in Request, PInv, ControlOK', EndParse(r) PROVE PInv'
<1> USE DEF PInv, EndParse, At, GoTo, process
<1>1. pc[r] = "parse" /\ pc'[r] = "lock" /\ \A q \in Request : q # r => pc'[q] = pc[q]
    BY DEF ControlOK
<1>2. ParserOK'
    BY <1>1 DEF ParserOK
<1>3. ASSUME ~wild' PROVE OneParser' /\ FormulaIsOwn'
  <2>1. ~wild /\ OneParser /\ Collected(r) /\ todo[r] = {}
      BY <1>1, <1>3 DEF OneParser
  <2>2. {formula_vars[i] : i \in DOMAIN formula_vars} = call[r].names
      BY <2>1 DEF Collected
  <2>3. call[r] \in Call[r]
      BY <1>1 DEF ParserOK
  <2>4. \A i \in DOMAIN formula_vars : formula_vars[i] # Null
      BY <2>2, <2>3, CallFacts
  <2>5. DOMAIN formula_vars = 1..Len(formula_vars) /\ Len(formula_vars) \in Nat
      BY <2>1 DEF OneParser
  <2>6. {j \in DOMAIN formula_vars : \A h \in 1..j : formula_vars[h] # Null} = DOMAIN formula_vars
      BY <2>4, <2>5
  <2>7. formula'[r] = call[r].names /\ \A q \in Request : q # r => formula'[q] = formula[q]
      BY <2>2, <2>6 DEF ParserOK
  <2>8. formula_vars' \in Seq(Named \cup {Null})
      BY <2>1 DEF OneParser
  <2>9. \A q \in Request : pc'[q] # "parse"
      BY <1>1, <2>1 DEF OneParser
  <2>10. OneParser'
      BY <1>1, <2>1, <2>8, <2>9 DEF OneParser
  <2>11. FormulaIsOwn'
      BY <1>1, <2>1, <2>7 DEF FormulaIsOwn, Critical
  <2> QED
      BY <2>10, <2>11
<1> QED
    BY <1>2, <1>3 DEF FormulaIsOwn

LEMMA PInvKept == PInv /\ [Next]_vars => PInv'
<1> SUFFICES ASSUME PInv, [Next]_vars PROVE PInv'
    OBVIOUS
<1>1. CASE UNCHANGED vars
    BY <1>1 DEF PInv, ControlOK, ParserOK, OneParser, FormulaIsOwn, Collected,
                vars, handler, parser, process
<1>2. ASSUME NEW r \in Request, Accept(r) \/ Handle(r)
      PROVE  PInv'
  <2>1. ControlOK /\ ControlOK'
      BY <1>2, ControlKept DEF PInv
  <2>2. CASE Accept(r)
      BY <2>1, <2>2, AcceptKeeps
  <2>3. CASE Parse(r)
      BY <2>1, <2>3, StartParseKeeps, PushNewVarKeeps, EndParseKeeps DEF Parse
  <2>4. CASE Reject(r) \/ Lock(r) \/ Result(r) \/ Quit(r)
      BY <2>1, <2>4, OthersKept
         DEF Reject, Lock, Result, Quit, PInv, ParserOK, ControlOK, FormulaIsOwn, At, GoTo,
             process, parser, Critical, Methods, Unlocked
  <2>5. CASE Declare(r) \/ Refuse(r) \/ AddConstant(r) \/ AddCnf(r) \/ McSat(r) \/ Command(r)
      BY <2>1, <2>5, OthersKept
         DEF Declare, Refuse, AddConstant, AddCnf, McSat, Command, Unlock, PInv, ParserOK, ControlOK,
             FormulaIsOwn, At, GoTo, process, parser, Critical
  <2>6. CASE Ask(r)
      BY <2>1, <2>6, OthersKept
         DEF Ask, AskInstances, AskSample, AskRead, Unlock, PInv, ParserOK, ControlOK,
             FormulaIsOwn, At, GoTo, process, parser, Critical
  <2>7. CASE Reset(r)
      BY <2>1, <2>7, OthersKept
         DEF Reset, ResetSortTable, InitSampTable, ResetProbabilities, Spoils, PInv, ParserOK,
             ControlOK, FormulaIsOwn, At, GoTo, process, parser, Critical
  <2> QED
      BY <1>2, <2>2, <2>3, <2>4, <2>5, <2>6, <2>7 DEF Handle
<1> QED
    BY <1>1, <1>2 DEF Next

(* Until unlocked work overlaps, the process survives and every formula    *)
(* has exactly its own variables (xpce.c collects those of all formulas in *)
(* one static vector), for any number of requests and any formulas.        *)
THEOREM OwnFormula == Spec => []FormulaIsOwn
<1>1. Init => PInv
  <2> SUFFICES ASSUME Init PROVE PInv
      OBVIOUS
  <2>1. ControlOK
      BY DEF Init, ControlOK, Label
  <2>2. ParserOK
      BY DEF Init, ParserOK
  <2>3. <<>> \in Seq(Named \cup {Null})
      OBVIOUS
  <2>4. OneParser
      BY <2>3 DEF Init, OneParser
  <2>5. FormulaIsOwn
      BY DEF Init, FormulaIsOwn, Critical
  <2> QED
      BY <2>1, <2>2, <2>4, <2>5 DEF PInv
<1>2. PInv => FormulaIsOwn
    BY DEF PInv
<1> QED
    BY <1>1, <1>2, PInvKept, PTL DEF Spec

-----------------------------------------------------------------------------
(* The refinement.                                                         *)

(* What a handler still has to do, and what it has not yet answered.       *)
HandlerOK ==
    /\ DOMAIN answer = Request /\ answer = [r \in Request |-> answer[r]]
    /\ \A r \in Request :
          /\ pc[r] = "new" => call[r] = Nothing
          /\ pc[r] \in {"new", "args", "parse", "lock"} \cup Critical => answer[r] = Nothing
          /\ pc[r] \in {"lock", "locked"} /\ call[r].method = "const" => todo[r] \subseteq call[r].names
          /\ pc[r] \in {"asked", "sampled"} => call[r].method = "ask"

Asking(r) == pc[r] \in {"asked", "sampled"}

(* Until unlocked work overlaps, a reset is alone with the tables, and the *)
(* query instances are those of the one query that is being answered.      *)
Alone ==
    /\ samples \in Nat
    /\ \A r \in Request : pc[r] = "resetting" =>
          owner = Nobody /\ \A q \in Request : pc[q] = "resetting" => q = r
    /\ \A r \in Request : Asking(r) => query_instances = Serial!Instances(call[r].names, tables)
    /\ (\A r \in Request : ~Asking(r)) => query_instances = {}

SInv == MInv /\ PInv /\ HandlerOK /\ (~wild => Alone)

-----------------------------------------------------------------------------
(* A step of a handler changes its own place only, and overlaps are not    *)
(* forgotten.                                                              *)
LEMMA OneMoves ==
    ASSUME NEW r \in Request, SInv, Accept(r) \/ Handle(r)
    PROVE  /\ wild \in BOOLEAN /\ wild' \in BOOLEAN
           /\ wild => wild'
           /\ \A q \in Request \ {r} : pc'[q] = pc[q]
           /\ pc \in [Request -> Label] /\ pc' \in [Request -> Label]
<1> USE DEF SInv, MInv, PInv, ParserOK
<1>1. pc \in [Request -> Label] /\ wild \in BOOLEAN
  BY DEF ControlOK
<1>2. (wild => wild') /\ wild' \in BOOLEAN
  BY <1>1 DEF Accept, Handle, Reject, Parse, StartParse, PushNewVar, EndParse, Lock, Declare,
     Refuse, AddConstant, AddCnf, McSat, Ask, AskInstances, AskSample, AskRead, Command, Reset,
     ResetSortTable, InitSampTable, ResetProbabilities, Quit, Result, Parsing, Spoils
<1>3. Keeps(r) \/ Takes(r) \/ Frees(r) \/ (owner' = owner /\ pc' = pc)
  BY StepKinds
<1>4. \A q \in Request \ {r} : pc'[q] = pc[q]
  BY <1>1, <1>3 DEF Keeps, Takes, Frees, GoTo
<1>5. ControlOK'
  BY ControlKept
<1> QED
  BY <1>1, <1>2, <1>4, <1>5 DEF ControlOK

(* A handler that holds the mutex is alone with the tables.                *)
LEMMA HolderAlone ==
    ASSUME NEW r \in Request, SInv, ~wild, pc[r] \in Critical
    PROVE  /\ Resetting = {}
           /\ \A q \in Request \ {r} : ~Asking(q)
           /\ owner = r /\ r # Nobody
<1>1. owner = r /\ r # Nobody
  BY ServerAssumption DEF SInv, MInv, MutexHeld
<1>2. Resetting = {}
  BY <1>1 DEF SInv, Alone, Resetting
<1>3. \A q \in Request \ {r} : ~Asking(q)
  BY <1>1 DEF SInv, MInv, MutexHeld, Asking, Critical
<1> QED
  BY <1>1, <1>2, <1>3

(* The mapping is not disturbed by a handler that stays away from the      *)
(* reset and from the end of the query.                                    *)
LEMMA MappingKept ==
    ASSUME UNCHANGED <<tables, samples>>,
           \A q \in Request : /\ pc'[q] = "resetting" <=> pc[q] = "resetting"
                              /\ pc'[q] = "sampled" <=> pc[q] = "sampled"
    PROVE  UNCHANGED <<SerialTables, SerialSamples>>
<1>1. Resetting' = Resetting
  BY DEF Resetting
<1> QED
  BY <1>1 DEF SerialTables, SerialSamples

LEMMA NoOneMapped ==
    ASSUME Resetting = {}, \A q \in Request : ~Asking(q)
    PROVE  SerialTables = tables /\ SerialSamples = samples
BY DEF SerialTables, SerialSamples, Asking

-----------------------------------------------------------------------------
(* The steps that do not touch what the requests share.                    *)

(* The part of the invariant about the query is left alone by a handler    *)
(* that is not at work on the tables.                                      *)
LEMMA AwayKeepsAlone ==
    ASSUME NEW r \in Request, SInv, ~wild, Alone,
           \A q \in Request \ {r} : pc'[q] = pc[q],
           pc[r] \notin Critical, pc'[r] \notin {"asked", "sampled", "resetting"},
           owner' = owner \/ Resetting = {},
           \A q \in Request \ {r} : call'[q] = call[q],
           UNCHANGED <<tables, samples, query_instances>>
    PROVE  Alone'
<1>1. \A q \in Request : Asking(q)' <=> Asking(q)
  BY DEF Asking, Critical
<1>2. \A q \in Request : Asking(q) => q # r
  BY DEF Asking, Critical
<1>3. \A q \in Request : Asking(q)' => query_instances' = Serial!Instances(call'[q].names, tables')
  BY <1>1, <1>2 DEF Alone
<1>4. \A q \in Request : pc'[q] = "resetting" =>
        owner' = Nobody /\ \A p \in Request : pc'[p] = "resetting" => p = q
  BY DEF Alone, Resetting
<1> QED
  BY <1>1, <1>3, <1>4 DEF Alone

Quiet(r) == Reject(r) \/ Parse(r) \/ Lock(r) \/ Quit(r) \/ Result(r)

LEMMA QuietFacts ==
    ASSUME NEW r \in Request, SInv, Quiet(r), ~wild'
    PROVE  /\ UNCHANGED <<call, tables, samples, query_instances, answer>>
           /\ pc[r] \notin Critical \cup {"resetting", "new"}
           /\ pc'[r] \in {"parse", "lock", "locked", "result", "done"}
           /\ owner' = owner \/ Resetting = {}
<1>1. pc \in [Request -> Label]
  BY DEF SInv, MInv, ControlOK
<1> USE <1>1 DEF At, GoTo, Critical, data
<1>2. CASE Reject(r)
  BY <1>2 DEF Reject
<1>3. CASE Parse(r)
  BY <1>3 DEF Parse, StartParse, PushNewVar, EndParse
<1>4. CASE Lock(r)
  BY <1>4 DEF Lock
<1>5. CASE Quit(r) \/ Result(r)
  BY <1>5 DEF Quit, Result
<1> QED
  BY <1>2, <1>3, <1>4, <1>5 DEF Quiet

LEMMA QuietStep ==
    ASSUME NEW r \in Request, SInv, Quiet(r), ~wild'
    PROVE  Alone' /\ UNCHANGED Serial!serialVars
<1>1. /\ ~wild /\ UNCHANGED wild /\ Alone
      /\ \A q \in Request \ {r} : pc'[q] = pc[q]
  BY OneMoves DEF SInv, Handle, Quiet
<1>2. Alone'
  BY <1>1, QuietFacts, AwayKeepsAlone
<1>3. UNCHANGED <<SerialTables, SerialSamples>>
  BY <1>1, QuietFacts, MappingKept DEF Critical
<1> QED
  BY <1>1, <1>2, <1>3, QuietFacts DEF Serial!serialVars

(* A request arrives.                                                      *)
LEMMA AcceptStep ==
    ASSUME NEW r \in Request, SInv, Accept(r), ~wild'
    PROVE  Alone' /\ Serial!Next
<1>1. /\ ~wild /\ UNCHANGED wild /\ Alone
      /\ \A q \in Request \ {r} : pc'[q] = pc[q]
  BY OneMoves DEF SInv
<1>2. PICK c \in Call[r] : call' = [call EXCEPT ![r] = c]
  BY DEF Accept
<1>3. /\ pc[r] = "new" /\ pc'[r] \in {"args", "lock"}
      /\ UNCHANGED <<owner, tables, samples, query_instances, answer>>
  BY DEF Accept, GoTo, SInv, MInv, ControlOK, data
<1>4. \A q \in Request \ {r} : call'[q] = call[q]
  BY <1>2 DEF SInv, PInv, ParserOK
<1>5. Alone'
  BY <1>1, <1>3, <1>4, AwayKeepsAlone DEF Critical
<1>6. UNCHANGED <<SerialTables, SerialSamples>>
  BY <1>1, <1>3, MappingKept
<1>7. Serial!Arrive(r)
  BY <1>2, <1>3, <1>6 DEF Serial!Arrive, SInv, HandlerOK
<1> QED
  BY <1>1, <1>5, <1>7 DEF Serial!Next

-----------------------------------------------------------------------------
(* The steps of the handler that holds the mutex.                          *)

(* A step that begins and ends outside a query.                            *)
LEMMA WholeRequest ==
    ASSUME NEW r \in Request, SInv, ~wild, pc[r] = "locked",
           \A q \in Request \ {r} : pc'[q] = pc[q],
           pc'[r] \in {"lock", "result", "done"},
           UNCHANGED query_instances, samples' \in Nat
    PROVE  /\ Alone'
           /\ SerialTables = tables /\ SerialTables' = tables'
           /\ SerialSamples = samples /\ SerialSamples' = samples'
<1>1. Resetting = {} /\ \A q \in Request : ~Asking(q)
  BY HolderAlone DEF Critical, Asking
<1>2. Resetting' = {} /\ \A q \in Request : ~Asking(q)'
  BY <1>1 DEF Asking, Resetting
<1>3. Alone'
  BY <1>1, <1>2 DEF SInv, Alone, Resetting
<1>4. SerialTables' = tables' /\ SerialSamples' = samples'
  BY <1>2 DEF SerialTables, SerialSamples, Asking
<1> QED
  BY <1>1, <1>3, <1>4, NoOneMapped

Whole(r) ==
    Declare(r) \/ Refuse(r) \/ AddConstant(r) \/ AddCnf(r) \/ McSat(r) \/ Command(r)

LEMMA WholeFacts ==
    ASSUME NEW r \in Request, SInv, Whole(r), ~wild'
    PROVE  /\ ~wild /\ UNCHANGED <<wild, call>> /\ up
           /\ pc[r] = "locked" /\ call[r] \in Call[r] /\ call[r] # Nothing
           /\ answer[r] = Nothing
           /\ Alone'
           /\ SerialTables = tables /\ SerialTables' = tables'
           /\ SerialSamples = samples /\ SerialSamples' = samples'
<1>1. /\ ~wild /\ UNCHANGED wild /\ Alone
      /\ \A q \in Request \ {r} : pc'[q] = pc[q]
      /\ pc \in [Request -> Label]
  BY OneMoves DEF SInv, Handle, Whole
<1>2. /\ pc[r] = "locked" /\ up /\ UNCHANGED <<call, query_instances>>
      /\ pc'[r] \in {"lock", "result", "done"}
      /\ samples' \in {samples, samples + 1}
  BY <1>1 DEF Whole, Declare, Refuse, AddConstant, AddCnf, McSat, Command, At, Unlock, GoTo, data
<1>3. call[r] \in Call[r] /\ call[r] # Nothing /\ answer[r] = Nothing
  BY <1>2, ServerAssumption DEF SInv, PInv, ParserOK, HandlerOK, Critical
<1>4. samples' \in Nat
  BY <1>1, <1>2 DEF Alone
<1> QED
  BY <1>1, <1>2, <1>3, <1>4, WholeRequest

(* Each constant, assertion and formula is put in the tables at once.      *)
LEMMA InsertStep ==
    ASSUME NEW r \in Request, SInv, ~wild',
           Declare(r) \/ AddConstant(r) \/ AddCnf(r) \/ Command(r)
    PROVE  Alone' /\ (Serial!Next \/ UNCHANGED Serial!serialVars)
<1>1. /\ ~wild /\ UNCHANGED <<wild, call>> /\ pc[r] = "locked" /\ call[r] # Nothing
      /\ Alone'
      /\ SerialTables = tables /\ SerialTables' = tables'
      /\ SerialSamples = samples /\ SerialSamples' = samples'
  BY WholeFacts DEF Whole
<1>2. UNCHANGED <<samples, answer>>
  BY DEF Declare, AddConstant, AddCnf, Command
<1>3. (\E row \in Serial!Rows(call[r]) : tables' = tables \cup {row}) \/ tables' = tables
  <2>1. CASE Declare(r)
    BY <2>1 DEF Declare, At, Row, Serial!Rows, Serial!Row
  <2>2. CASE AddConstant(r)
    <3>1. PICK n \in todo[r] : tables' \in {tables \cup {Row("const", {n})}, tables}
      BY <2>2 DEF AddConstant
    <3>2. call[r].method = "const" /\ n \in call[r].names
      BY <1>1, <2>2, <3>1 DEF AddConstant, At, SInv, HandlerOK
    <3>3. Serial!Rows(call[r]) = {Serial!Row("const", {m}) : m \in call[r].names}
      BY <3>2 DEF Serial!Rows
    <3> QED
      BY <3>1, <3>2, <3>3 DEF Row, Serial!Row
  <2>3. CASE AddCnf(r)
    <3>1. call[r].method = "add" /\ formula[r] = call[r].names
      BY <1>1, <2>3 DEF AddCnf, At, SInv, PInv, FormulaIsOwn, WithFormula, Critical
    <3> QED
      BY <2>3, <3>1 DEF AddCnf, Row, Serial!Rows, Serial!Row
  <2>4. CASE Command(r)
    BY <2>4 DEF Command, At, Row, Serial!Rows, Serial!Row
  <2> QED
    BY <2>1, <2>2, <2>3, <2>4
<1>4. CASE tables' = tables
  BY <1>1, <1>2, <1>4 DEF Serial!serialVars
<1>5. CASE \E row \in Serial!Rows(call[r]) : tables' = tables \cup {row}
  <2>1. Serial!Insert(r)
    BY <1>1, <1>2, <1>5 DEF Serial!Insert
  <2> QED
    BY <1>1, <2>1 DEF Serial!Next
<1> QED
  BY <1>1, <1>3, <1>4, <1>5

LEMMA SampleStep ==
    ASSUME NEW r \in Request, SInv, ~wild', McSat(r)
    PROVE  Alone' /\ Serial!Next
<1>1. /\ ~wild /\ UNCHANGED <<wild, call>> /\ call[r] # Nothing
      /\ Alone'
      /\ SerialTables = tables /\ SerialTables' = tables'
      /\ SerialSamples = samples /\ SerialSamples' = samples'
  BY WholeFacts DEF Whole
<1>2. Serial!Sample(r)
  BY <1>1 DEF Serial!Sample, McSat, At
<1> QED
  BY <1>1, <1>2 DEF Serial!Next

LEMMA RefuseStep ==
    ASSUME NEW r \in Request, SInv, ~wild', Refuse(r)
    PROVE  Alone' /\ (Serial!Next \/ UNCHANGED Serial!serialVars)
<1>1. /\ ~wild /\ UNCHANGED <<wild, call>> /\ call[r] # Nothing /\ answer[r] = Nothing
      /\ Alone'
      /\ SerialTables = tables /\ SerialTables' = tables'
      /\ SerialSamples = samples /\ SerialSamples' = samples'
  BY WholeFacts DEF Whole
<1>2. UNCHANGED <<tables, samples>>
  BY DEF Refuse, data
<1>3. CASE call[r].method = "ask"
  <2>1. Serial!RefuseQuery(r)
    BY <1>1, <1>2, <1>3 DEF Serial!RefuseQuery, Refuse
  <2> QED
    BY <1>1, <2>1 DEF Serial!Next
<1>4. CASE call[r].method # "ask"
  BY <1>1, <1>2, <1>4 DEF Refuse, Serial!serialVars
<1> QED
  BY <1>1, <1>3, <1>4

(* A query: its instances are made and sampled unseen, and the answer is   *)
(* that of the tables as they are at the end.                              *)
LEMMA AskStep ==
    ASSUME NEW r \in Request, SInv, ~wild', Ask(r)
    PROVE  Alone' /\ (Serial!Next \/ UNCHANGED Serial!serialVars)
<1>1. /\ ~wild /\ UNCHANGED wild /\ Alone
      /\ \A q \in Request \ {r} : pc'[q] = pc[q]
      /\ pc \in [Request -> Label] /\ pc' \in [Request -> Label]
  BY OneMoves DEF SInv, Handle
<1>2. /\ pc[r] \in Critical /\ call[r].method = "ask" /\ UNCHANGED <<call, tables>>
  BY DEF Ask, AskInstances, AskSample, AskRead, At, Critical
<1>3. /\ Resetting = {} /\ \A q \in Request \ {r} : ~Asking(q)
      /\ call[r] # Nothing /\ answer[r] = Nothing
  <2>1. call[r] \in Call[r]
    BY <1>2 DEF SInv, PInv, ParserOK, Critical
  <2> QED
    BY <1>1, <1>2, <2>1, HolderAlone, ServerAssumption DEF SInv, HandlerOK
<1>4. \A q \in Request \ {r} : ~Asking(q)' /\ pc'[q] # "resetting"
  BY <1>1, <1>3 DEF Asking, Resetting
<1>5. samples \in Nat
  BY <1>1 DEF Alone
<1>6. CASE AskInstances(r)
  <2>1. /\ pc[r] = "locked" /\ pc'[r] = "asked" /\ UNCHANGED <<samples, answer, owner>>
    BY <1>1, <1>6 DEF AskInstances, At, GoTo
  <2>2. formula[r] = call[r].names
    BY <1>1, <1>2, <2>1 DEF SInv, PInv, FormulaIsOwn, WithFormula
  <2>3. query_instances = {}
    BY <1>1, <1>3, <2>1 DEF Alone, Asking
  <2>4. query_instances' = Serial!Instances(call[r].names, tables)
    BY <1>6, <2>2, <2>3 DEF AskInstances, Serial!Instances
  <2>5. Alone'
    BY <1>2, <1>4, <1>5, <2>1, <2>4 DEF Alone, Asking
  <2>6. UNCHANGED <<SerialTables, SerialSamples>>
    BY <1>1, <1>2, <2>1, MappingKept
  <2> QED
    BY <1>1, <1>2, <2>1, <2>5, <2>6 DEF Serial!serialVars
<1>7. CASE AskSample(r)
  <2>1. /\ pc[r] = "asked" /\ pc'[r] = "sampled" /\ UNCHANGED <<query_instances, answer, owner>>
        /\ samples' = samples + 1
    BY <1>1, <1>7 DEF AskSample, At, GoTo
  <2>2. Alone'
    BY <1>1, <1>2, <1>4, <1>5, <2>1 DEF Alone, Asking
  <2>3. SerialTables' = SerialTables
    BY <1>2, <1>3, <1>4, <2>1 DEF SerialTables, Resetting
  <2>4. SerialSamples = samples
    BY <1>3, <2>1 DEF SerialSamples, Asking
  <2>5. SerialSamples' = samples' - 1
    BY <1>4, <2>1 DEF SerialSamples, Resetting
  <2> QED
    BY <1>1, <1>2, <1>5, <2>1, <2>2, <2>3, <2>4, <2>5 DEF Serial!serialVars
<1>8. CASE AskRead(r)
  <2>1. /\ pc[r] = "sampled" /\ pc'[r] = "result" /\ UNCHANGED samples
        /\ query_instances' = {}
        /\ answer' = [answer EXCEPT ![r] = query_instances]
    BY <1>1, <1>8 DEF AskRead, At, Unlock, GoTo
  <2>2. Alone'
    BY <1>4, <1>5, <2>1 DEF Alone, Asking
  <2>3. query_instances = Serial!Instances(call[r].names, tables)
    BY <1>1, <2>1 DEF Alone, Asking
  <2>4. SerialTables = tables /\ SerialTables' = tables
    BY <1>2, <1>3, <1>4, <2>1 DEF SerialTables, Resetting
  <2>5. SerialSamples = samples - 1
    BY <1>3, <2>1 DEF SerialSamples
  <2>6. SerialSamples' = samples
    BY <1>4, <2>1 DEF SerialSamples, Resetting, Asking
  <2>7. Serial!Ask(r)
    BY <1>2, <1>3, <1>5, <2>1, <2>3, <2>4, <2>5, <2>6 DEF Serial!Ask
  <2> QED
    BY <1>1, <2>2, <2>7 DEF Serial!Next
<1> QED
  BY <1>6, <1>7, <1>8 DEF Ask

-----------------------------------------------------------------------------
(* A reset that nobody interferes with.                                    *)
LEMMA ResetStep ==
    ASSUME NEW r \in Request, SInv, ~wild', Reset(r)
    PROVE  Alone' /\ (Serial!Next \/ UNCHANGED Serial!serialVars)
<1>1. /\ ~wild /\ UNCHANGED wild /\ Alone
      /\ \A q \in Request \ {r} : pc'[q] = pc[q]
      /\ pc \in [Request -> Label] /\ pc' \in [Request -> Label]
  BY OneMoves DEF SInv, Handle
<1>2. owner = Nobody /\ Resetting \ {r} = {} /\ UNCHANGED owner
  <2>1. wild' = Spoils(r) /\ UNCHANGED owner
    BY DEF Reset, ResetSortTable, InitSampTable, ResetProbabilities
  <2>2. ~Spoils(r)
    BY <2>1
  <2> QED
    BY <2>1, <2>2 DEF Spoils
<1>3. \A q \in Request : pc[q] \notin Critical
  BY <1>2, ServerAssumption DEF SInv, MInv, MutexHeld
<1>4. \A q \in Request \ {r} : pc[q] # "resetting" /\ pc'[q] # "resetting"
  BY <1>1, <1>2 DEF Resetting
<1>5. /\ UNCHANGED <<call, answer>> /\ pc[r] \in {"args", "resetting"}
      /\ pc'[r] \in {"resetting", "result"}
  BY <1>1 DEF Reset, ResetSortTable, InitSampTable, ResetProbabilities, At, GoTo
<1>6. \A q \in Request : ~Asking(q) /\ ~Asking(q)'
  BY <1>1, <1>3, <1>5 DEF Asking, Critical
<1>7. query_instances = {} /\ query_instances' = {}
  BY <1>1, <1>6 DEF Alone, Reset, ResetSortTable, InitSampTable, ResetProbabilities
<1>8. samples' \in Nat
  <2>1. samples' = samples \/ samples' = 0
    BY DEF Reset, ResetSortTable, InitSampTable, ResetProbabilities
  <2> QED
    BY <1>1, <2>1 DEF Alone
<1>9. Alone'
  BY <1>2, <1>4, <1>6, <1>7, <1>8 DEF Alone
<1>10. call[r] # Nothing
  BY <1>5, ServerAssumption DEF SInv, PInv, ParserOK
<1>11. CASE ResetSortTable(r)
  <2>1. pc'[r] = "resetting" /\ call[r].method = "reset"
    BY <1>1, <1>11 DEF ResetSortTable, At, GoTo
  <2>2. SerialTables' = {} /\ SerialSamples' = 0
    BY <2>1 DEF SerialTables, SerialSamples, Resetting
  <2>3. Serial!Reset(r)
    BY <1>5, <1>10, <2>1, <2>2 DEF Serial!Reset
  <2> QED
    BY <1>1, <1>9, <2>3 DEF Serial!Next
<1>12. CASE InitSampTable(r)
  <2>1. pc[r] = "resetting" /\ pc'[r] = "result" /\ tables' = {} /\ samples' = 0
    BY <1>1, <1>12 DEF InitSampTable, At, GoTo
  <2>2. SerialTables = {} /\ SerialSamples = 0
    BY <2>1 DEF SerialTables, SerialSamples, Resetting
  <2>3. Resetting' = {}
    BY <1>4, <2>1 DEF Resetting
  <2>4. SerialTables' = {} /\ SerialSamples' = 0
    BY <1>6, <2>1, <2>3 DEF SerialTables, SerialSamples, Asking
  <2> QED
    BY <1>1, <1>5, <1>9, <2>2, <2>4 DEF Serial!serialVars
<1>13. CASE ResetProbabilities(r)
  <2>1. /\ pc[r] = "args" /\ pc'[r] = "result" /\ call[r].method = "reset probabilities"
        /\ samples' = 0 /\ tables' = tables
    BY <1>1, <1>13 DEF ResetProbabilities, At, GoTo
  <2>2. Resetting = {} /\ Resetting' = {}
    BY <1>4, <2>1 DEF Resetting
  <2>3. SerialTables' = SerialTables /\ SerialSamples' = 0
    BY <1>6, <2>1, <2>2 DEF SerialTables, SerialSamples, Asking
  <2>4. Serial!Reset(r)
    BY <1>5, <1>10, <2>1, <2>3 DEF Serial!Reset
  <2> QED
    BY <1>1, <1>9, <2>4 DEF Serial!Next
<1> QED
  BY <1>11, <1>12, <1>13 DEF Reset

-----------------------------------------------------------------------------
(* What a handler has to do and to answer is its own business.             *)
LEMMA HandlerKept ==
    ASSUME NEW r \in Request, SInv, Accept(r) \/ Handle(r)
    PROVE  HandlerOK'
<1>1. /\ HandlerOK
      /\ \A q \in Request \ {r} : pc'[q] = pc[q]
      /\ pc \in [Request -> Label] /\ pc' \in [Request -> Label]
      /\ DOMAIN call = Request /\ DOMAIN todo = Request
  BY OneMoves DEF SInv, PInv, ParserOK
<1> USE <1>1 DEF HandlerOK, GoTo, At, Critical
<1>2. CASE Accept(r)
  <2>1. PICK c \in Call[r] :
          /\ call' = [call EXCEPT ![r] = c]
          /\ todo' = [todo EXCEPT ![r] = c.names]
    BY <1>2 DEF Accept
  <2>2. pc[r] = "new" /\ pc'[r] \in {"args", "lock"} /\ UNCHANGED answer
    BY <1>2 DEF Accept
  <2> QED
    BY <2>1, <2>2
<1>3. CASE Reject(r) \/ StartParse(r) \/ EndParse(r) \/ Lock(r) \/ Quit(r)
  BY <1>3 DEF Reject, StartParse, EndParse, Lock, Quit
<1>4. CASE PushNewVar(r)
  <2>1. PICK x \in todo[r] : todo' = [todo EXCEPT ![r] = @ \ {x}]
    BY <1>4 DEF PushNewVar
  <2>2. pc[r] = "parse" /\ UNCHANGED <<pc, call, answer>>
    BY <1>4 DEF PushNewVar
  <2> QED
    BY <2>1, <2>2
<1>5. CASE Declare(r) \/ Refuse(r) \/ AddCnf(r) \/ McSat(r) \/ Command(r) \/ Result(r)
  <2>1. pc[r] \in {"locked", "result"} /\ pc'[r] \in {"result", "done"} /\ UNCHANGED <<call, todo>>
    BY <1>5 DEF Declare, Refuse, AddCnf, McSat, Command, Result, Unlock
  <2>2. /\ \A q \in Request \ {r} : answer'[q] = answer[q]
        /\ DOMAIN answer' = Request /\ answer' = [q \in Request |-> answer'[q]]
    BY <1>5 DEF Declare, Refuse, AddCnf, McSat, Command, Result
  <2> QED
    BY <2>1, <2>2
<1>6. CASE AddConstant(r)
  <2>1. PICK n \in todo[r] : todo' = [todo EXCEPT ![r] = @ \ {n}]
    BY <1>6 DEF AddConstant
  <2>2. pc[r] = "locked" /\ pc'[r] \in {"lock", "result"} /\ UNCHANGED <<call, answer>>
    BY <1>6 DEF AddConstant, Unlock
  <2> QED
    BY <2>1, <2>2
<1>7. CASE AskInstances(r) \/ AskSample(r)
  BY <1>7 DEF AskInstances, AskSample
<1>8. CASE AskRead(r)
  BY <1>8 DEF AskRead, Unlock
<1>9. CASE Reset(r)
  BY <1>9 DEF Reset, ResetSortTable, InitSampTable, ResetProbabilities
<1> QED
  BY <1>2, <1>3, <1>4, <1>5, <1>6, <1>7, <1>8, <1>9 DEF Handle, Parse, Ask

-----------------------------------------------------------------------------
LEMMA InitSInv == Init => SInv /\ Serial!Init
<1> SUFFICES ASSUME Init PROVE SInv /\ Serial!Init
  OBVIOUS
<1>1. ControlOK /\ MInv
  BY ServerAssumption DEF Init, MInv, ControlOK, MutexHeld, Label, Critical
<1>2. ParserOK /\ FormulaIsOwn
  BY DEF Init, ParserOK, FormulaIsOwn, Critical
<1>3. OneParser
  <2>1. <<>> \in Seq(Named \cup {Null})
    OBVIOUS
  <2> QED
    BY <2>1 DEF Init, OneParser
<1>4. HandlerOK
  BY DEF Init, HandlerOK
<1>5. Alone
  BY DEF Init, Alone, Asking
<1>6. Resetting = {} /\ \A q \in Request : ~Asking(q)
  BY DEF Init, Resetting, Asking
<1>7. Serial!Init
  BY <1>6, NoOneMapped DEF Init, Serial!Init
<1> QED
  BY <1>1, <1>2, <1>3, <1>4, <1>5, <1>7 DEF SInv, PInv

LEMMA StepImplements ==
    ASSUME SInv, MInv', PInv', NEW r \in Request, Accept(r) \/ Handle(r)
    PROVE  SInv' /\ [Serial!Next]_(Serial!serialVars)
<1>1. HandlerOK' /\ wild' \in BOOLEAN
  BY HandlerKept, OneMoves
<1>2. CASE wild'
  BY <1>1, <1>2 DEF SInv, Serial!Next
<1>3. CASE ~wild'
  <2> DEFINE Goal == Alone' /\ [Serial!Next]_(Serial!serialVars)
  <2>1. ASSUME Accept(r) PROVE Goal
    BY <1>3, <2>1, AcceptStep
  <2>2. ASSUME Quiet(r) PROVE Goal
    BY <1>3, <2>2, QuietStep
  <2>3. ASSUME Declare(r) \/ AddConstant(r) \/ AddCnf(r) \/ Command(r) PROVE Goal
    BY <1>3, <2>3, InsertStep
  <2>4. ASSUME McSat(r) PROVE Goal
    BY <1>3, <2>4, SampleStep
  <2>5. ASSUME Refuse(r) PROVE Goal
    BY <1>3, <2>5, RefuseStep
  <2>6. ASSUME Ask(r) PROVE Goal
    BY <1>3, <2>6, AskStep
  <2>7. ASSUME Reset(r) PROVE Goal
    BY <1>3, <2>7, ResetStep
  <2> HIDE DEF Goal
  <2>8. Goal
    BY <2>1, <2>2, <2>3, <2>4, <2>5, <2>6, <2>7 DEF Handle, Quiet
  <2> QED
    BY <1>1, <2>8 DEF SInv, Goal
<1> QED
  BY <1>1, <1>2, <1>3

LEMMA StutterImplements ==
    ASSUME SInv, MInv', PInv', UNCHANGED vars
    PROVE  SInv' /\ UNCHANGED Serial!serialVars
<1>1. UNCHANGED <<call, pc, todo, owner, tables, query_instances, samples, answer, wild>>
  BY DEF vars, handler, data
<1>2. HandlerOK'
  BY <1>1 DEF SInv, HandlerOK
<1>3. ~wild' => Alone'
  BY <1>1 DEF SInv, Alone, Asking
<1>4. UNCHANGED Serial!serialVars
  BY <1>1 DEF Serial!serialVars, SerialTables, SerialSamples, Resetting
<1> QED
  BY <1>2, <1>3, <1>4 DEF SInv

(* Until work without the mutex overlaps, the server answers as if it did  *)
(* one request after the other: each declaration takes effect at once, and *)
(* a query, which takes many steps, is answered with the instances of its  *)
(* own formula in the tables of one moment (the mutex of xpce.c).          *)
THEOREM ServerIsSerial == Spec => ImplementsSerial
<1>1. Init => SInv /\ Serial!Init
  BY InitSInv
<1>2. MInv /\ [Next]_vars => MInv'
  BY MInvKept
<1>3. PInv /\ [Next]_vars => PInv'
  BY PInvKept
<1>4. SInv /\ [Next]_vars => SInv' /\ [Serial!Next]_(Serial!serialVars)
  BY <1>2, <1>3, StepImplements, StutterImplements DEF SInv, Next
<1> QED
  BY <1>1, <1>4, PTL DEF Spec, ImplementsSerial, Serial!Spec
=============================================================================
