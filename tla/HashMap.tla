------------------------------- MODULE HashMap -------------------------------
(***************************************************************************)
(* Hash maps with open addressing (src/src/hash_map.c for integers and     *)
(* src/src/array_hash_map.c for arrays of integers, which do the same).    *)
(*                                                                         *)
(* A key is looked up from the position of its hash on until it or an      *)
(* empty cell is met, so a removed key leaves a deleted mark behind.  The  *)
(* marks are counted, but not discounted when a new key takes the place of *)
(* one.  Enough marks make the table be rebuilt, enough keys and marks     *)
(* make it be rebuilt twice as large.                                      *)
(***************************************************************************)
EXTENDS Naturals, FiniteSets

CONSTANTS
    Key, Val,
    Hash,        \* the values of the hash function
    Empty, Deleted, \* HASH_EMPTY_KEY, HASH_DELETED_KEY; Empty is no value either
    InitSize,    \* the size of a new table, a power of 2
    MaxSize      \* bound on its growth

ASSUME HashMapAssumption ==
    /\ Hash \subseteq Nat /\ InitSize \in Nat \ {0}
    /\ Empty # Deleted /\ {Empty, Deleted} \cap Key = {} /\ Empty \notin Val

VARIABLES
    hash,       \* the hash function, any one
    data,       \* the cells
    nelems, ndeleted,
    peak        \* history: the most keys the table has held

hashVars == <<hash, data, nelems, ndeleted, peak>>

Size == Cardinality(DOMAIN data)
Blank(n) == [j \in 0..(n - 1) |-> [key |-> Empty, val |-> Empty]]

(* Mistake: the table is filled before it is made larger.                  *)
resize_when_full == Size

resize_threshold == (Size * 6) \div 10
cleanup_threshold == (Size * 2) \div 10

HashInit ==
    /\ hash \in [Key -> Hash]
    /\ data = Blank(InitSize)
    /\ nelems = 0 /\ ndeleted = 0
    /\ peak = 0

-----------------------------------------------------------------------------
(* The first cell from the hash of k on whose key is one of the set K.     *)
Probe(cells, k, K) ==
    LET n == Cardinality(DOMAIN cells)
        hit(i) == cells[(hash[k] + i) % n].key \in K
        first == CHOOSE i \in 0..(n - 1) : hit(i) /\ \A h \in 0..(i - 1) : ~hit(h)
    IN (hash[k] + first) % n

Marks == {Empty, Deleted}
Holding(K) == {j \in DOMAIN data : data[j].key \in K}
Good == DOMAIN data \ Holding(Marks)

(* hmap_find ends at the key or an empty cell; at neither if there is none.*)
Ends(k) == Holding({Empty, k}) # {}
Found(k) == Ends(k) /\ data[Probe(data, k, {Empty, k})].key = k

(* hmap_clean_copy *)
CleanCopy(cells, d) == [cells EXCEPT ![Probe(cells, d.key, {Empty})] = d]

(* hmap_cleanup and hmap_extend: all keys in their order into n new cells; *)
(* filled[j] when the loop is at cell j.                                   *)
(* (A set of one table, which TLC evaluates once.)                         *)
Rebuilt(cells, n) ==
    LET filled[j \in 0..Cardinality(DOMAIN cells)] ==
            IF j = 0 THEN {Blank(n)}
            ELSE IF cells[j - 1].key \in Marks THEN filled[j - 1]
            ELSE {CleanCopy(t, cells[j - 1]) : t \in filled[j - 1]}
    IN filled[Cardinality(DOMAIN cells)]

(* hmap_get, with the value the caller stores in a new pair.               *)
Get(k, v) ==
    /\ Ends(k)
    /\ IF Found(k) THEN UNCHANGED <<data, nelems, ndeleted, peak>>
       ELSE
         /\ IF nelems + ndeleted >= resize_threshold
              THEN /\ 2 * Size <= MaxSize
                   /\ data' \in {CleanCopy(t, [key |-> k, val |-> v]) : t \in Rebuilt(data, 2 * Size)}
                   /\ ndeleted' = 0
              ELSE /\ data' = [data EXCEPT ![Probe(data, k, Marks)] = [key |-> k, val |-> v]]
                   /\ UNCHANGED ndeleted
         /\ nelems' = nelems + 1
         /\ peak' = IF nelems' > peak THEN nelems' ELSE peak
    /\ UNCHANGED hash

(* Mistake: a removed key leaves an empty cell.                            *)
EraseToEmpty(j) ==
    /\ nelems' = nelems - 1
    /\ data' = [data EXCEPT ![j].key = Empty]
    /\ UNCHANGED <<hash, ndeleted, peak>>

(* Mistake: the table is never rebuilt to get rid of marks.                *)
EraseOnly(j) ==
    /\ nelems' = nelems - 1
    /\ data' = [data EXCEPT ![j].key = Deleted]
    /\ ndeleted' = ndeleted + 1
    /\ UNCHANGED <<hash, peak>>

(* hmap_erase *)
Erase(j) ==
    LET left == [data EXCEPT ![j].key = Deleted] IN
    /\ nelems' = nelems - 1
    /\ IF ndeleted + 1 > cleanup_threshold
         THEN data' \in Rebuilt(left, Size) /\ ndeleted' = 0
         ELSE data' = left /\ ndeleted' = ndeleted + 1
    /\ UNCHANGED <<hash, peak>>

(* A key that has been looked up is erased.                                *)
EraseKey(k) ==
    /\ Found(k)
    /\ Erase(Probe(data, k, {k}))

(* hmap_remove_random: whatever index it draws, the loop stays at the      *)
(* first key of the table.                                                 *)
RemoveRandom ==
    /\ nelems > 0
    /\ Erase(CHOOSE j \in Good : \A h \in 0..(j - 1) : h \notin Good)

Reset ==
    /\ data' = Blank(Size)
    /\ nelems' = 0 /\ ndeleted' = 0
    /\ UNCHANGED <<hash, peak>>

HashNext ==
    \/ \E k \in Key, v \in Val : Get(k, v)
    \/ \E k \in Key : EraseKey(k)
    \/ RemoveRandom
    \/ Reset

HashSpec == HashInit /\ [][HashNext]_hashVars

-----------------------------------------------------------------------------
(* The counters bound what is in the table although a mark that is used    *)
(* again is counted on: the keys are counted exactly, the marks from       *)
(* above, and together they leave an empty cell (the assertion of          *)
(* hmap_get), without which a search would not end.                        *)
ProbesEnd ==
    /\ nelems = Cardinality(Good)
    /\ ndeleted >= Cardinality(Holding({Deleted}))
    /\ nelems + ndeleted < Size

(* The table grows for keys and not for marks: a table that has grown is   *)
(* at most five times as large as the most keys it has held.               *)
GrowsForKeys == Size > InitSize => Size <= 5 * peak

(* Looking up is right at all times: what searches find is a partial       *)
(* function that the operations change as they should.                     *)
contents == [k \in Key |-> IF Found(k) THEN data[Probe(data, k, {k})].val ELSE Empty]

Map == INSTANCE IntMap WITH map <- contents, None <- Empty
ImplementsMap == Map!Spec
=============================================================================
