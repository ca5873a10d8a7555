------------------------------ MODULE MCHashMap ------------------------------
EXTENDS HashMap, TLC

(* The keys differ by their hash values only, which are a variable.        *)
MCSymmetry == Permutations(Key) \cup Permutations(Val)
=============================================================================
