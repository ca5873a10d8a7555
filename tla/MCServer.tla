------------------------------ MODULE MCServer ------------------------------
EXTENDS Server

CONSTANTS a, b

AnyCall ==
    {[method |-> m, names |-> {a}] : m \in {"sort", "command", "ask"}}
      \cup {[method |-> m, names |-> {a, b}] : m \in {"const", "add"}}
      \cup {[method |-> m, names |-> {}] : m \in
              {"mcsat", "reset", "reset probabilities", "quit"}}

(* The second may clash with the first in all that matters; the third, a   *)
(* query, competes with both for the parser and the mutex.                 *)
MCCall ==
    [r \in Request |->
        IF r = 1 THEN AnyCall
        ELSE IF r = 2
          THEN {c \in AnyCall : c.method \in {"const", "ask", "reset"}}
        ELSE {[method |-> "ask", names |-> {b}]}]
=============================================================================
