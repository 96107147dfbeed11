--------------------------- MODULE Subscriptions ---------------------------
(***************************************************************************)
(* What the control plane promises, without webhooks, commands or shards:  *)
(* a subscription is created once, is live until it is deleted and never   *)
(* again, two live subscriptions never have the same tuple, and a target   *)
(* (an address on a chain) is tracked exactly while one of its             *)
(* subscriptions is live.                                                  *)
(***************************************************************************)
CONSTANTS
    Sub,        \* subscription ids
    TupleOf,    \* subscription -> what is unique among the live ones
    TargetOf    \* subscription -> what the scanner must look at for it

VARIABLES state, tracked

vars == <<state, tracked>>

LiveState == {"pending", "active", "unsupported"}
Live == {s \in Sub : state[s] \in LiveState}

Init ==
    /\ state = [s \in Sub |-> "none"]
    /\ tracked = {}

\* The subscriptions of S go to st; the tracked targets follow.
Move(S, st) ==
    /\ state' = [s \in Sub |-> IF s \in S THEN st ELSE state[s]]
    /\ tracked' = {TargetOf[s] : s \in Live'}

Create(s) ==
    /\ state[s] = "none"
    /\ \A t \in Live : TupleOf[t] # TupleOf[s]
    /\ Move({s}, "pending")

Activate(S) ==
    /\ \A s \in S : state[s] \in {"pending", "unsupported"}
    /\ Move(S, "active")

Reject(s) ==
    /\ state[s] = "pending"
    /\ Move({s}, "unsupported")

Delete(S) ==
    /\ S \subseteq Live
    /\ Move(S, "deleting")

Next ==
    \/ \E s \in Sub : Create(s) \/ Reject(s)
    \/ \E S \in SUBSET Sub : Activate(S) \/ Delete(S)

Spec == Init /\ [][Next]_vars
=============================================================================
