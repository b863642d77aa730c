------------------------------ MODULE MCRunner ------------------------------
(* Instances of Runner: two policies, alone and compared. *)
EXTENDS Runner

CONSTANTS lru, sieve

OneOrTwo == {<<lru>>, <<lru, sieve>>}
=============================================================================
