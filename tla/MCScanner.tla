----------------------------- MODULE MCScanner -----------------------------
(***************************************************************************)
(* A chain of four blocks whose last two have a rival branch.              *)
(*                                                                         *)
(*     g1 <- a2 <- a3 <- a4        numbers 1, 2, 3, 4                      *)
(*            \ <- b3 <- b4                                                *)
(***************************************************************************)
EXTENDS ScannerProperties

CONSTANTS g1, a2, a3, a4, b3, b4

MCBlock == {g1, a2, a3, a4, b3, b4}

MCParent == [b \in MCBlock |->
    CASE b = g1 -> NoBlock [] b = a2 -> g1 [] b \in {a3, b3} -> a2
      [] b = a4 -> a3 [] b = b4 -> b3]

MCHeight == [b \in MCBlock |->
    CASE b = g1 -> 1 [] b = a2 -> 2 [] b \in {a3, b3} -> 3 [] b \in {a4, b4} -> 4]

MCChain == [b \in MCBlock |->
    CASE b = g1 -> {g1} [] b = a2 -> {g1, a2} [] b = a3 -> {g1, a2, a3}
      [] b = b3 -> {g1, a2, b3} [] b = a4 -> {g1, a2, a3, a4}
      [] b = b4 -> {g1, a2, b3, b4}]

\* a3 yields a successful and a failed transaction, b4 one, the others none.
MCItems == [b \in MCBlock |-> IF b = a3 THEN 2 ELSE IF b = b4 THEN 1 ELSE 0]
MCFailed == {<<a3, 2>>}

NoPoison == {}
PoisonOnFork == {b3}
PoisonAtHead == {b4}
=============================================================================
