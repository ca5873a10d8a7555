----------------------------- MODULE SerialServer -----------------------------
(***************************************************************************)
(* What the server promises its clients (src/src/xpce.c, and the chapter   *)
(* on XPCE in src/doc/pce.adoc): one persistent state, which requests read *)
(* and change one at a time, whatever the threads do that serve them.      *)
(* Nothing is promised any more once something wild has happened.          *)
(***************************************************************************)
EXTENDS Naturals

CONSTANTS Request, Call, Nothing

VARIABLES
    call,     \* what each request asks for
    tables,   \* what has been declared, asserted and added
    samples,  \* the sampling runs the probabilities stand for
    answer,   \* the answer to each query, once it has been computed
    wild

serialVars == <<call, tables, samples, answer, wild>>

Row(kind, names) == [kind |-> kind, names |-> names]

(* What a call puts in the tables: each constant in a step of its own.     *)
Rows(c) ==
    IF c.method = "const" THEN {Row("const", {n}) : n \in c.names}
    ELSE IF c.method \in {"sort", "predicate", "assert", "add"}
      THEN {Row(c.method, c.names)}
    ELSE IF c.method = "command" THEN {Row("sort", c.names)}
    ELSE {}

(* The instances of a formula with the constants there are.                *)
Instances(formula, t) ==
    {[formula |-> formula, const |-> row.names] : row \in {w \in t : w.kind = "const"}}

Init ==
    /\ call = [r \in Request |-> Nothing]
    /\ tables = {} /\ samples = 0
    /\ answer = [r \in Request |-> Nothing]
    /\ wild = FALSE

Arrive(r) ==
    /\ call[r] = Nothing
    /\ \E c \in Call[r] : call' = [call EXCEPT ![r] = c]
    /\ UNCHANGED <<tables, samples, answer>>

Insert(r) ==
    /\ call[r] # Nothing
    /\ \E row \in Rows(call[r]) : tables' = tables \cup {row}
    /\ UNCHANGED <<call, samples, answer>>

Sample(r) ==
    /\ call[r] # Nothing /\ call[r].method = "mcsat"
    /\ samples' = samples + 1
    /\ UNCHANGED <<call, tables, answer>>

(* An answer is made of the instances of the client's own formula, in the  *)
(* tables as they are at that moment.                                      *)
Ask(r) ==
    /\ call[r] # Nothing /\ call[r].method = "ask" /\ answer[r] = Nothing
    /\ answer' = [answer EXCEPT ![r] = Instances(call[r].names, tables)]
    /\ samples' = samples + 1
    /\ UNCHANGED <<call, tables>>

(* A formula may be refused.                                               *)
RefuseQuery(r) ==
    /\ call[r] # Nothing /\ call[r].method = "ask" /\ answer[r] = Nothing
    /\ answer' = [answer EXCEPT ![r] = {}]
    /\ UNCHANGED <<call, tables, samples>>

Reset(r) ==
    /\ call[r] # Nothing
    /\ \/ call[r].method = "reset" /\ tables' = {}
       \/ call[r].method = "reset probabilities" /\ UNCHANGED tables
    /\ samples' = 0
    /\ UNCHANGED <<call, answer>>

Next ==
    \/ /\ ~wild /\ UNCHANGED wild
       /\ \E r \in Request : Arrive(r) \/ Insert(r) \/ Sample(r) \/ Ask(r) \/ RefuseQuery(r) \/ Reset(r)
    \/ wild'

Spec == Init /\ [][Next]_serialVars
=============================================================================
