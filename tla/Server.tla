-------------------------------- MODULE Server --------------------------------
(***************************************************************************)
(* The XML-RPC server (src/src/xpce.c).  The library runs each request in  *)
(* a thread of its own.  A handler checks its arguments and parses its     *)
(* formula, takes the mutex for what it does with the tables, and builds   *)
(* the reply.  Three things are done without the mutex: the parser of      *)
(* formulas collects variables in one static vector, reset empties the     *)
(* tables, and the reply is made from message buffers, which are not the   *)
(* ones of print.c that mcsat_err writes to.                               *)
(***************************************************************************)
EXTENDS Naturals, Sequences

CONSTANTS
    Request,     \* the requests, numbered as they come, each with its thread
    Call,        \* what each may ask for: methods and names
    Nothing, Nobody, Null

Methods == {"sort", "predicate", "assert", "const", "add", "ask", "mcsat",
            "command", "reset", "reset probabilities", "quit"}

ASSUME ServerAssumption ==
    /\ Request \subseteq Nat /\ Nobody \notin Request
    /\ \A r \in Request : \A c \in Call[r] :
          /\ c.method \in Methods
          /\ c.method = "const" => c.names # {}
          /\ Null \notin c.names
    /\ \A r \in Request : Nothing \notin Call[r]

VARIABLES
    up, serving,    \* the process is there; the server accepts requests
    call,           \* what each request asks for
    pc,             \* where the handler of each request is
    todo,           \* the names a handler has yet to go through
    owner,          \* mutex
    formula_vars,   \* the vector the parser fills, with a NULL at the end
    formula,        \* the variables of each parsed formula
    tables, query_instances, samples,   \* samp_table
    error_buffer,   \* the requests with a message in the buffer of xpce.c
    stderr,         \* the requests that mcsat_err has printed a message for
    answer,         \* ask_buffer, as each query has read it
    reply,
    wild            \* history: unlocked work overlapped with what it may spoil

process == <<up, serving>>
handler == <<call, pc, todo, answer, reply>>
parser == <<formula_vars, formula>>
data == <<tables, query_instances, samples>>
messages == <<error_buffer, stderr>>
vars == <<process, handler, owner, parser, data, messages, wild>>

Init ==
    /\ up = TRUE /\ serving = TRUE
    /\ call = [r \in Request |-> Nothing]
    /\ pc = [r \in Request |-> "new"]
    /\ todo = [r \in Request |-> {}]
    /\ owner = Nobody
    /\ formula_vars = <<>>
    /\ formula = [r \in Request |-> {}]
    /\ tables = {} /\ query_instances = {} /\ samples = 0
    /\ error_buffer = {} /\ stderr = {}
    /\ answer = [r \in Request |-> Nothing]
    /\ reply = [r \in Request |-> Nothing]
    /\ wild = FALSE

-----------------------------------------------------------------------------
GoTo(r, l) == pc' = [pc EXCEPT ![r] = l]
At(r, l, methods) == up /\ pc[r] = l /\ call[r].method \in methods

WithFormula == {"add", "ask"}
Unlocked == {"reset", "reset probabilities", "quit"}
Locked == Methods \ Unlocked
Checked == Methods \ {"mcsat", "command", "quit"}

(* Abyss starts a thread for a request.                                    *)
Accept(r) ==
    /\ up /\ serving /\ pc[r] = "new"
    /\ \A q \in Request : q < r => pc[q] # "new"
    /\ \E c \in Call[r] :
          /\ call' = [call EXCEPT ![r] = c]
          /\ todo' = [todo EXCEPT ![r] = c.names]
          /\ GoTo(r, IF c.method \in WithFormula THEN "args"
                     ELSE IF c.method \in Locked THEN "lock" ELSE "args")
    /\ UNCHANGED <<process, answer, reply, owner, parser, data, messages, wild>>

(* The arguments, the formula too, are checked before the mutex is taken.  *)
Reject(r) ==
    /\ \E l \in {"args", "parse", "lock"} : At(r, l, Checked)
    /\ call[r].method = "const" => todo[r] = call[r].names
    /\ stderr' = stderr \cup {r}
    /\ GoTo(r, "result")
    /\ UNCHANGED <<process, call, todo, answer, reply, owner, parser, data, error_buffer, wild>>

-----------------------------------------------------------------------------
(* json_formula_to_input_formula.  push_new_var compares a variable with   *)
(* the ones before it, up to the first that is equal; comparing it with    *)
(* the NULL another formula has left there ends the process.               *)
Parsing(r) == \E o \in Request \ {r} : pc[o] = "parse"

Positions(x) == {i \in DOMAIN formula_vars : formula_vars[i] = x}
Before(A, B) == \E i \in A : \A j \in B : i < j

(* Mistake: the variables of the last formula are kept.                    *)
StartParseKeeping(r) ==
    /\ At(r, "args", WithFormula)
    /\ GoTo(r, "parse")
    /\ wild' = (wild \/ Parsing(r))
    /\ UNCHANGED <<process, call, todo, answer, reply, owner, parser, data, messages>>

StartParse(r) ==
    /\ At(r, "args", WithFormula)
    /\ formula_vars' = <<>>
    /\ GoTo(r, "parse")
    /\ wild' = (wild \/ Parsing(r))
    /\ UNCHANGED <<process, call, todo, answer, reply, owner, formula, data, messages>>

PushNewVar(r) ==
    /\ At(r, "parse", WithFormula)
    /\ \E x \in todo[r] :
          /\ todo' = [todo EXCEPT ![r] = @ \ {x}]
          /\ formula_vars' =
               IF Positions(x) \cup Positions(Null) = {}
                 THEN Append(formula_vars, x) ELSE formula_vars
          /\ up' = (Positions(Null) = {} \/ Before(Positions(x), Positions(Null)))
    /\ UNCHANGED <<serving, call, pc, answer, reply, owner, formula, data, messages, wild>>

(* The variables of the formula end at the first NULL.                     *)
EndParse(r) ==
    /\ At(r, "parse", WithFormula) /\ todo[r] = {}
    /\ formula_vars' = Append(formula_vars, Null)
    /\ formula' = [formula EXCEPT ![r] =
          {formula_vars[i] : i \in {j \in DOMAIN formula_vars :
              \A h \in 1..j : formula_vars[h] # Null}}]
    /\ GoTo(r, "lock")
    /\ UNCHANGED <<process, call, todo, answer, reply, owner, data, messages, wild>>

-----------------------------------------------------------------------------
Resetting == {r \in Request : pc[r] = "resetting"}

(* Mistake: the mutex is not waited for.                                   *)
LockAnyway(r) ==
    /\ At(r, "lock", Locked)
    /\ owner' = r
    /\ GoTo(r, "locked")
    /\ wild' = (wild \/ Resetting # {})
    /\ UNCHANGED <<process, call, todo, answer, reply, parser, data, messages>>

Lock(r) ==
    /\ At(r, "lock", Locked)
    /\ owner = Nobody
    /\ owner' = r
    /\ GoTo(r, "locked")
    /\ wild' = (wild \/ Resetting # {})
    /\ UNCHANGED <<process, call, todo, answer, reply, parser, data, messages>>

Unlock(r, l) == owner' = Nobody /\ GoTo(r, l)

Row(kind, names) == [kind |-> kind, names |-> names]

(* add_sort and add_predicate complain of a name that is in use.           *)
Declare(r) ==
    /\ At(r, "locked", {"sort", "predicate", "assert"})
    /\ LET row == Row(call[r].method, call[r].names) IN
         /\ tables' = tables \cup {row}
         /\ stderr' = IF row \in tables /\ row.kind # "assert" THEN stderr \cup {r} ELSE stderr
    /\ Unlock(r, "result")
    /\ UNCHANGED <<process, call, todo, answer, reply, parser, query_instances, samples, error_buffer, wild>>

(* The tables turn a request down: an unknown sort or predicate, a constant *)
(* of another sort.  A query has no instances then (ask_cnf returns early). *)
Refuse(r) ==
    /\ At(r, "locked", {"predicate", "assert", "add", "ask"})
    /\ answer' = IF call[r].method = "ask" THEN [answer EXCEPT ![r] = {}] ELSE answer
    /\ stderr' = stderr \cup {r}
    /\ Unlock(r, "result")
    /\ UNCHANGED <<process, call, todo, reply, parser, data, error_buffer, wild>>

(* Mistake: a constant that is in use ends the handler.                    *)
AddConstantLeaving(r) ==
    /\ At(r, "locked", {"const"})
    /\ \E n \in todo[r] :
         LET row == Row("const", {n}) IN
         /\ todo' = [todo EXCEPT ![r] = @ \ {n}]
         /\ tables' = tables \cup {row}
         /\ stderr' = IF row \in tables THEN stderr \cup {r} ELSE stderr
         /\ IF row \in tables THEN GoTo(r, "result") /\ UNCHANGED owner
            ELSE Unlock(r, IF todo'[r] = {} THEN "result" ELSE "lock")
    /\ UNCHANGED <<process, call, answer, reply, parser, query_instances, samples, error_buffer, wild>>

(* xpce_constdecl takes the mutex for each of the constants, and goes on   *)
(* when one cannot be added.                                               *)
AddConstant(r) ==
    /\ At(r, "locked", {"const"})
    /\ \E n \in todo[r] :
         LET row == Row("const", {n}) IN
         /\ todo' = [todo EXCEPT ![r] = @ \ {n}]
         /\ tables' \in {tables \cup {row}, tables}
         /\ stderr' = IF row \in tables \/ row \notin tables' THEN stderr \cup {r} ELSE stderr
         /\ Unlock(r, IF todo'[r] = {} THEN "result" ELSE "lock")
    /\ UNCHANGED <<process, call, answer, reply, parser, query_instances, samples, error_buffer, wild>>

AddCnf(r) ==
    /\ At(r, "locked", {"add"})
    /\ tables' = tables \cup {Row("add", formula[r])}
    /\ Unlock(r, "result")
    /\ UNCHANGED <<process, call, todo, answer, reply, parser, query_instances, samples, messages, wild>>

McSat(r) ==
    /\ At(r, "locked", {"mcsat"})
    /\ samples' = samples + 1
    /\ Unlock(r, "result")
    /\ UNCHANGED <<process, call, todo, answer, reply, parser, tables, query_instances, messages, wild>>

(* ask_cnf: all_query_instances and then mc_sat ...                        *)
AskInstances(r) ==
    /\ At(r, "locked", {"ask"})
    /\ query_instances' = query_instances \cup
          {[formula |-> formula[r], const |-> row.names] : row \in {w \in tables : w.kind = "const"}}
    /\ GoTo(r, "asked")
    /\ UNCHANGED <<process, call, todo, answer, reply, owner, parser, tables, samples, messages, wild>>

AskSample(r) ==
    /\ At(r, "asked", {"ask"})
    /\ samples' = samples + 1
    /\ GoTo(r, "sampled")
    /\ UNCHANGED <<process, call, todo, answer, reply, owner, parser, tables, query_instances, messages, wild>>

(* Mistake: the query instances are left for the next query.               *)
AskReadOnly(r) ==
    /\ At(r, "sampled", {"ask"})
    /\ answer' = [answer EXCEPT ![r] = query_instances]
    /\ Unlock(r, "result")
    /\ UNCHANGED <<process, call, todo, reply, parser, data, messages, wild>>

(* ... and the answer is read before the mutex is released.                *)
AskRead(r) ==
    /\ At(r, "sampled", {"ask"})
    /\ answer' = [answer EXCEPT ![r] = query_instances]
    /\ query_instances' = {}
    /\ Unlock(r, "result")
    /\ UNCHANGED <<process, call, todo, reply, parser, tables, samples, messages, wild>>

(* A command is run and answered with the mutex held; the commands stand   *)
(* for one, the declaration of a sort.                                     *)
Command(r) ==
    /\ At(r, "locked", {"command"})
    /\ LET row == Row("sort", call[r].names) IN
         /\ tables' = tables \cup {row}
         /\ stderr' = IF row \in tables THEN stderr \cup {r} ELSE stderr
    /\ reply' = [reply EXCEPT ![r] = [error |-> error_buffer # {}, result |-> Nothing]]
    /\ error_buffer' = {}
    /\ Unlock(r, "done")
    /\ UNCHANGED <<process, call, todo, answer, parser, query_instances, samples, wild>>

-----------------------------------------------------------------------------
(* xpce_reset: the sorts, and then all the tables.  A thread that is at    *)
(* work on them may not survive it.                                        *)
Spoils(r) == wild \/ owner # Nobody \/ Resetting \ {r} # {}

ResetSortTable(r) ==
    /\ At(r, "args", {"reset"})
    /\ tables' = {row \in tables : row.kind # "sort"}
    /\ wild' = Spoils(r)
    /\ GoTo(r, "resetting")
    /\ UNCHANGED <<process, call, todo, answer, reply, owner, parser, query_instances, samples, messages>>

InitSampTable(r) ==
    /\ At(r, "resetting", {"reset"})
    /\ tables' = {} /\ query_instances' = {} /\ samples' = 0
    /\ wild' = Spoils(r)
    /\ up' \in {TRUE, owner = Nobody}
    /\ GoTo(r, "result")
    /\ UNCHANGED <<serving, call, todo, answer, reply, owner, parser, messages>>

ResetProbabilities(r) ==
    /\ At(r, "args", {"reset probabilities"})
    /\ samples' = 0
    /\ wild' = Spoils(r)
    /\ GoTo(r, "result")
    /\ UNCHANGED <<process, call, todo, answer, reply, owner, parser, tables, query_instances, messages>>

Quit(r) ==
    /\ At(r, "args", {"quit"})
    /\ serving' = FALSE
    /\ GoTo(r, "result")
    /\ UNCHANGED <<up, call, todo, answer, reply, owner, parser, data, messages, wild>>

(* xpce_result: what is in the buffers of xpce.c goes into the reply.      *)
Result(r) ==
    /\ At(r, "result", Methods)
    /\ reply' = [reply EXCEPT ![r] = [error |-> error_buffer # {}, result |-> answer[r]]]
    /\ error_buffer' = {}
    /\ GoTo(r, "done")
    /\ UNCHANGED <<process, call, todo, answer, owner, parser, data, stderr, wild>>

-----------------------------------------------------------------------------
Parse(r) == StartParse(r) \/ PushNewVar(r) \/ EndParse(r)
Ask(r) == AskInstances(r) \/ AskSample(r) \/ AskRead(r)
Reset(r) == ResetSortTable(r) \/ InitSampTable(r) \/ ResetProbabilities(r)

Handle(r) ==
    \/ Reject(r) \/ Parse(r) \/ Lock(r)
    \/ Declare(r) \/ Refuse(r) \/ AddConstant(r) \/ AddCnf(r) \/ McSat(r) \/ Ask(r) \/ Command(r)
    \/ Reset(r) \/ Quit(r) \/ Result(r)

Next == \E r \in Request : Accept(r) \/ Handle(r)

Spec == Init /\ [][Next]_vars

(* Every thread runs on, and gets a mutex that is free for good; as each   *)
(* request takes it finitely often, no thread waits for ever.              *)
FairSpec == Spec /\ \A r \in Request : WF_vars(Handle(r))

-----------------------------------------------------------------------------
Critical == {"locked", "asked", "sampled"}

(* The mutex is held by a handler exactly while it works on the tables, on *)
(* every path through every handler.                                       *)
MutexHeld == \A r \in Request : pc[r] \in Critical <=> owner = r

(* Until unlocked work overlaps, the process survives, and a handler that  *)
(* goes on to the tables has parsed its own formula and nobody else's.     *)
FormulaIsOwn ==
    ~wild =>
      /\ up
      /\ \A r \in Request :
            pc[r] \in {"lock"} \cup Critical /\ call[r].method \in WithFormula
              => formula[r] = call[r].names

(* Until then the requests also take effect one at a time, with what their *)
(* clients have asked for, and a query is answered with its own instances. *)
SerialTables == IF Resetting # {} THEN {} ELSE tables

SerialSamples ==
    IF Resetting # {} THEN 0
    ELSE IF \E r \in Request : pc[r] = "sampled" THEN samples - 1 ELSE samples

Serial == INSTANCE SerialServer WITH tables <- SerialTables, samples <- SerialSamples
ImplementsSerial == Serial!Spec

(* Every request that was accepted is answered, unless the process ends.   *)
Answered == \A r \in Request : pc[r] # "new" ~> (pc[r] = "done" \/ ~up)
=============================================================================
