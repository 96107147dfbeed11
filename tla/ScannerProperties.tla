------------------------- MODULE ScannerProperties -------------------------
(***************************************************************************)
(* What the scanner of one chain must do, stated over Scanner.             *)
(***************************************************************************)
EXTENDS Scanner

\* Every variable keeps the kind of value the code stores in it.
TypeOK ==
    /\ tip \in Block
    /\ cursor \in Block \cup {NoBlock}
    /\ status \in {"pending", "active", "degraded", "paused"}
    /\ obs \in [Obs -> {"absent", "observed", "reverted"}]
    /\ others \in BOOLEAN
    /\ sub \in {"none", "pending", "active"}
    /\ activeFrom \in Nat
    /\ window \in Seq(Block) /\ wnd \in Seq(Block)
    /\ unresolvable \in Nat
    /\ {alarm, resched} \subseteq BOOLEAN
    /\ {pendingTip, last} \subseteq Block \cup {NoBlock}
    /\ failures \in [block : Nat, count : Nat]
    /\ pc \in Unguarded \cup {"idle", "fetch", "upsert", "enqueue", "recover", "skip"}
    /\ {head, next, from, stop, processed, item, goal} \subseteq Nat
    /\ \A n \in DOMAIN fetched : fetched[n] \in Block
    /\ orphans \subseteq Nat
    /\ rows \subseteq Obs
    /\ seen \in {"none", "active", "paused"}
    /\ matched \in [Obs -> Nat] /\ reverts \in [Obs -> Nat]
    /\ {moves, faults, ops} \subseteq Nat

-----------------------------------------------------------------------------
(* Observations and messages.                                              *)

\* However often a block is processed again -- after a failed step, a crash, a
\* lost window or a re-anchor -- an observation is put on the matched-activity
\* queue at most once, and reported reverted at most once.
NotifiedAtMostOnce == \A o \in Obs : matched[o] <= 1 /\ reverts[o] <= 1

RecordedUpTo(w) ==
    \A i \in 2..Len(w) : \A o \in Obs : o[1] = w[i] => obs[o] # "absent"

\* A block enters the window, in memory or durable, only when each of its
\* observations has its row: the cursor never passes activity left unrecorded.
\* The first block may be an anchor, which is not processed.
HeldBlocksRecorded == RecordedUpTo(window) /\ RecordedUpTo(wnd)

\* The rows of a held block that the reorg branch drops from the window are no
\* longer `observed` once the shorter window is durable.
DroppedBlocksMarked ==
    [][pc = "prune" /\ pc' = "rewind"
         => \A o \in Obs : o[1] \in HeldIn(wnd) \ HeldIn(window')
                             => obs[o] # "observed"]_vars

\* Whoever was told of an observation is told of its reversal: without failures, a
\* row that a reorg marked has had its message when the operation ends, however
\* many blocks were orphaned with it.  (A failed transaction's row says `reverted`
\* from the start.)
MarkedAreReported ==
    faults = 0 /\ pc = "idle"
        => \A o \in Obs \ Failed : obs[o] = "reverted" => reverts[o] = 1

\* D1 stores `reverted` both for a transaction that failed and for a block that was
\* orphaned; to the reader of the chain they are two things.
Row == [o \in Obs |-> IF o \in Failed /\ obs[o] = "reverted" THEN "failed" ELSE obs[o]]

Promised == INSTANCE Observations WITH row <- Row, told <- matched, retold <- reverts

\* The scanner implements Observations: a failed step, a crash, a reorg or a
\* re-anchor neither forgets a row, nor records one twice, nor tells of one that is
\* not recorded, nor takes a failed transaction for an orphaned one.
KeepsPromise == Promised!Spec

-----------------------------------------------------------------------------
(* The window.                                                             *)

Linked(w) == \A i \in 1..(Len(w) - 1) : Parent[w[i + 1]] = w[i]

\* The durable window is a piece of one chain: each block is the parent of the
\* next, whatever reorgs happened while it was read.
WindowLinked == Linked(window)

\* On a chain whose numbers follow the parent links, no candidate is ever found
\* to be a reorg: the branch that compensates orphaned blocks is never taken.
NoReorgVerdict == InLoop => Verdict # "reorg"

\* The loop never meets a block the prefetch did not read: its single-block read
\* ("a replay target from a reorg that pruned ahead of the prefetch") is dead.
LoopIsPrefetched == InLoop => next \in DOMAIN fetched

-----------------------------------------------------------------------------
(* Scheduling, recovery, activation.                                       *)

\* Without failures, every operation that ends leaves an alarm set for a chain
\* that is scanned: a re-anchor, a skipped block or an anchor never parks it.
AlarmSurvives == faults = 0 /\ pc = "idle" /\ cursor # NoBlock => alarm

\* The blocks from the boundary on that were scanned, or have observations, before the
\* subscription became active -- without its address -- lie less than n above it.
MissesLessThan(n) ==
    sub # "active" /\ sub' = "active"
        => /\ Position' # NoBlock => Height[Position'] < activeFrom' + n
           /\ \A o \in Obs : obs[o] # "absent" => Height[o[1]] < activeFrom' + n

\* A subscription that becomes active has missed no more blocks than the upstreams
\* lag behind each other: whatever pass, re-anchor or crash came before, nothing but
\* the lag of the head it was given hides a block from it.
ActivationMissesAtMostLag == [][MissesLessThan(HeadLag)]_vars

CaughtUp == Position # NoBlock /\ Height[Position] >= Height[tip]

\* The scanner of a chain that is tracked and not paused reaches the head again
\* and again, through failures, reorgs, lost alarms and poisoned blocks.
CatchesUp == []<>(CaughtUp \/ ~Tracked \/ status \in {"paused", "pending"})

\* A pending subscription is activated, also while the chain is paused.
PendingActivates == (sub = "pending") ~> (sub = "active")

-----------------------------------------------------------------------------
(* What the documents say and the code does not do.                        *)

\* Reorgs are compensated: when the scanner rests at the head of the chain, no
\* row of an orphaned block is still `observed`.
OrphansCompensated ==
    pc = "idle" /\ window # <<>> /\ Tip(window) = tip
      => \A o \in Obs : obs[o] = "observed" => o[1] \in Chain[tip]

\* A subscription that becomes active has missed nothing: the scanner has not passed
\* its first block, and no observation at or above it is recorded.
ActivationMissesNothing == [][MissesLessThan(0)]_vars

\* Delivery is at least once: the observations of a durably held block have been
\* put on the queue.
HeldBlocksEnqueued ==
    \A i \in 2..Len(window) : \A o \in Obs : o[1] = window[i] => matched[o] > 0

=============================================================================
