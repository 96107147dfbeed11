--------------------------- MODULE MCScannerSkip ---------------------------
(***************************************************************************)
(* A chain whose fork jumps over numbers, the only input on which the code *)
(* can take its reorg branch: c4 has number 4 and the parent g1.           *)
(*                                                                         *)
(*     g1 <- a2 <- a3 <- a4      numbers 1, 2, 3, 4                        *)
(*       \ <------------ c4 <- c5                                          *)
(***************************************************************************)
EXTENDS ScannerProperties

CONSTANTS g1, a2, a3, a4, c4, c5

MCBlock == {g1, a2, a3, a4, c4, c5}

MCParent == [b \in MCBlock |->
    CASE b = g1 -> NoBlock [] b \in {a2, c4} -> g1 [] b = a3 -> a2
      [] b = a4 -> a3 [] b = c5 -> c4]

MCHeight == [b \in MCBlock |->
    CASE b = g1 -> 1 [] b = a2 -> 2 [] b = a3 -> 3 [] b \in {a4, c4} -> 4
      [] b = c5 -> 5]

MCChain == [b \in MCBlock |->
    CASE b = g1 -> {g1} [] b = a2 -> {g1, a2} [] b = a3 -> {g1, a2, a3}
      [] b = a4 -> {g1, a2, a3, a4} [] b = c4 -> {g1, c4} [] b = c5 -> {g1, c4, c5}]

\* a2 yields one observation, a3 a successful and a failed one, c4 one.
MCItems == [b \in MCBlock |-> IF b = a3 THEN 2 ELSE IF b \in {a2, c4} THEN 1 ELSE 0]
MCFailed == {<<a3, 2>>}
=============================================================================
