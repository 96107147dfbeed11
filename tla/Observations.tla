---------------------------- MODULE Observations ----------------------------
(***************************************************************************)
(* What the scanner promises about observations, without blocks, windows,  *)
(* cursors, failures or crashes: each is recorded once, told at most once  *)
(* and only after that; only one of a transaction that succeeded is ever   *)
(* reverted, for good, and only then is its reversal told, at most once.   *)
(***************************************************************************)
EXTENDS Naturals

CONSTANTS
    Obs,
    Failed      \* the observations whose transaction failed

VARIABLES
    row,        \* what is recorded of an observation
    told,       \* how often it was told
    retold      \* how often its reversal was told

vars == <<row, told, retold>>

Init ==
    /\ row = [o \in Obs |-> "absent"]
    /\ told = [o \in Obs |-> 0]
    /\ retold = [o \in Obs |-> 0]

Record(o) ==
    /\ row[o] = "absent"
    /\ row' = [row EXCEPT ![o] = IF o \in Failed THEN "failed" ELSE "observed"]
    /\ UNCHANGED <<told, retold>>

Tell(o) ==
    /\ row[o] # "absent"
    /\ told[o] = 0
    /\ told' = [told EXCEPT ![o] = 1]
    /\ UNCHANGED <<row, retold>>

\* The blocks of S are no longer on the chain.
Revert(S) ==
    /\ \A o \in S : row[o] = "observed"
    /\ row' = [o \in Obs |-> IF o \in S THEN "reverted" ELSE row[o]]
    /\ UNCHANGED <<told, retold>>

Retell(S) ==
    /\ \A o \in S : row[o] = "reverted" /\ retold[o] = 0
    /\ retold' = [o \in Obs |-> IF o \in S THEN 1 ELSE retold[o]]
    /\ UNCHANGED <<row, told>>

Next ==
    \/ \E o \in Obs : Record(o) \/ Tell(o)
    \/ \E S \in SUBSET Obs : Revert(S) \/ Retell(S)

Spec == Init /\ [][Next]_vars
=============================================================================
