-------------------------------- MODULE IntMap --------------------------------
(***************************************************************************)
(* What a hash map promises its users: a partial function, from which      *)
(* nothing but what is asked for disappears.                               *)
(***************************************************************************)
CONSTANTS Key, Val, None

VARIABLE map

Init == map = [k \in Key |-> None]

(* A key that is there keeps its value, so looking it up changes nothing.  *)
Get(k, v) ==
    /\ map[k] = None
    /\ map' = [map EXCEPT ![k] = v]

Erase(k) ==
    /\ map[k] # None
    /\ map' = [map EXCEPT ![k] = None]

Reset == map' = [k \in Key |-> None]

Next ==
    \/ \E k \in Key : Erase(k) \/ \E v \in Val : Get(k, v)
    \/ Reset

Spec == Init /\ [][Next]_map
=============================================================================
