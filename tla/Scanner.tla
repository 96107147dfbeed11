------------------------------ MODULE Scanner ------------------------------
(***************************************************************************)
(* The scanner of one chain: the ScannerShard Durable Object of            *)
(* src/scanner/ScannerShard.ts, with the rows of D1, the keys of the       *)
(* object's storage and the queue it writes.                               *)
(*                                                                         *)
(* The object runs one operation at a time (`exclusive`), so its control   *)
(* state is one program counter.  A step is the code between two awaits    *)
(* whose effects others can see: it makes at most one durable write, and   *)
(* the chain, the operator, the control plane, a failure or a crash may    *)
(* come between any two steps.                                             *)
(***************************************************************************)
EXTENDS Reorg

CONSTANTS
    Chain,              \* block -> the blocks of the chain it is the head of
    Items,              \* block -> number of observations it yields
    Failed,             \* the observations whose transaction failed
    Poison,             \* the blocks whose processing always throws
    MaxBlocksPerPass, MaxBlocksPerRange, ReanchorDepth,
    UnresolvableLimit, SkipAfter,
    HeadLag,            \* how far behind the chain the head an upstream reports may be
    MaxMoves,           \* bound on the chain's moves (growth or reorg)
    MaxFaults,          \* bound on failed reads, failed writes and crashes
    MaxOps              \* bound on the operator's requests

ASSUME ChainAssumption ==
    /\ Chain \in [Block -> SUBSET Block]
    /\ \A b \in Block : b \in Chain[b] /\ \A c \in Chain[b] : Height[c] <= Height[b]

\* An observation is the id of (chain, transaction, tracked address, block hash).
Obs == UNION {{b} \X (1..Items[b]) : b \in Block}

ASSUME ScannerAssumption ==
    /\ Items \in [Block -> Nat]
    /\ Failed \subseteq Obs
    /\ Poison \subseteq Block
    /\ MaxBlocksPerPass \in Nat \ {0}
    /\ MaxBlocksPerRange \in Nat \ {0}
    /\ UnresolvableLimit \in Nat \ {0}
    /\ {ReanchorDepth, SkipAfter, HeadLag, MaxMoves, MaxFaults, MaxOps} \subseteq Nat

VARIABLES
    tip,            \* the head of the canonical chain
    \* D1
    cursor,         \* chain_registry.cursor_block, cursor_hash
    status,         \* chain_registry.status
    obs,            \* activity_observations: status of each row
    others,         \* other subscriptions track an address of this chain
    sub,            \* status of the subscription being activated
    activeFrom,     \* its active_from_block
    \* storage of the Durable Object
    window, unresolvable, alarm,
    \* memory of the Durable Object
    pendingTip, failures,
    \* the operation in progress
    pc, head, next, from, stop, processed, fetched, wnd, last, item, orphans, rows,
    goal, resched, seen,
    \* the messages sent, per observation, on the two queues
    matched, reverts,
    \* how much of each bound is used
    moves, faults, ops

subs      == <<others, sub, activeFrom>>
d1        == <<cursor, status, obs, subs>>
storage   == <<window, unresolvable, alarm>>
memory    == <<pendingTip, failures>>
plan      == <<head, next, from, stop, processed, fetched>>
held      == <<wnd, last, item>>
undo      == <<orphans, rows>>
redo      == <<goal, resched, seen>>
registers == <<plan, held, undo, redo>>
queues    == <<matched, reverts>>
bounds    == <<moves, faults, ops>>
vars      == <<tip, d1, storage, memory, pc, registers, queues, bounds>>

NoCount == [block |-> 0, count |-> 0]   \* blockFailures = null

Tracked == others \/ sub # "none"

\* The heads the racing upstreams can report now.
Heads == {n \in 0..Height[tip] : n + HeadLag >= Height[tip]}

\* The blocks a read by number can return now.
BlocksAt(n) == {b \in Chain[tip] : Height[b] = n}

-----------------------------------------------------------------------------
(* The registers between two operations, and the ends of an operation.     *)

Cleared ==
    /\ head' = 0 /\ next' = 0 /\ from' = 0 /\ stop' = 0 /\ processed' = 0
    /\ fetched' = <<>> /\ wnd' = <<>> /\ last' = NoBlock /\ item' = 0
    /\ orphans' = {} /\ rows' = {}
    /\ goal' = 0 /\ resched' = FALSE /\ seen' = "none"

Return == pc' = "idle" /\ Cleared

\* Only `await this.schedule(...)` is left of the operation.
ScheduleNext == pc' = "due" /\ Cleared

\* maybeFlushCursor with pendingTip = t: the D1 budget has expired, or it has not.
MaybeFlushCursor(t) ==
    \/ cursor' = cursor
    \/ t # NoBlock /\ cursor' = t

\* Something fails, as often as the bound allows.
Fault == faults < MaxFaults /\ faults' = faults + 1

\* Either nobody has subscribed yet, or the chain was just activated for others.
Init ==
    /\ tip \in Block
    /\ \/ cursor = NoBlock /\ status = "pending" /\ others = FALSE /\ alarm = FALSE
       \/ cursor = tip /\ status = "active" /\ others = TRUE /\ alarm = TRUE
    /\ obs = [o \in Obs |-> "absent"]
    /\ sub = "none" /\ activeFrom = 0
    /\ window = <<>> /\ unresolvable = 0
    /\ pendingTip = NoBlock /\ failures = NoCount
    /\ pc = "idle"
    /\ head = 0 /\ next = 0 /\ from = 0 /\ stop = 0 /\ processed = 0
    /\ fetched = <<>> /\ wnd = <<>> /\ last = NoBlock /\ item = 0
    /\ orphans = {} /\ rows = {}
    /\ goal = 0 /\ resched = FALSE /\ seen = "none"
    /\ matched = [o \in Obs |-> 0] /\ reverts = [o \in Obs |-> 0]
    /\ moves = 0 /\ faults = 0 /\ ops = 0

-----------------------------------------------------------------------------
(* A scan pass up to the prefetch.                                         *)

\* The alarm fires, or the operator calls /scan.
BeginPass(byAlarm) ==
    /\ pc = "idle"
    /\ byAlarm => alarm
    /\ ~byAlarm => ops < MaxOps
    /\ ops' = IF byAlarm THEN ops ELSE ops + 1
    /\ \/ /\ ~Tracked
          /\ alarm' = TRUE
          /\ UNCHANGED pc
       \/ /\ Tracked
          /\ alarm' = (alarm /\ ~byAlarm)
          /\ pc' = "head"
    /\ UNCHANGED <<tip, d1, window, unresolvable, memory, registers, queues,
                   moves, faults>>

ReadHead ==
    /\ pc = "head"
    /\ head' \in Heads
    /\ pc' = "registry"
    /\ UNCHANGED <<tip, d1, storage, memory, next, from, stop, processed,
                   fetched, held, undo, redo, queues, bounds>>

\* The window in the object's storage is authoritative, the D1 cursor a checkpoint.
Position == IF window # <<>> THEN Tip(window) ELSE cursor

PendingTipRead == IF window # <<>> THEN Tip(window) ELSE pendingTip

\* The chain is paused, or no block is left to scan.
NothingToScan ==
    /\ pc = "registry"
    /\ \/ /\ status = "paused"
          /\ UNCHANGED <<cursor, pendingTip>>
       \/ /\ status # "paused"
          /\ Position # NoBlock
          /\ Height[Position] >= head
          /\ pendingTip' = PendingTipRead
          /\ MaybeFlushCursor(PendingTipRead)
    /\ ScheduleNext
    /\ UNCHANGED <<tip, status, obs, subs, storage, failures, queues, bounds>>

\* No cursor yet: anchor it at the head.
AnchorAtHead ==
    /\ pc = "registry"
    /\ status # "paused"
    /\ Position = NoBlock
    /\ \E b \in BlocksAt(head) :
          /\ pendingTip' = b
          /\ cursor' = b
          /\ wnd' = <<b>>
    /\ pc' = "anchored"
    /\ UNCHANGED <<tip, status, obs, subs, storage, failures, plan, last,
                   item, undo, redo, queues, bounds>>

SaveAnchor ==
    /\ pc = "anchored"
    /\ window' = wnd
    /\ ScheduleNext
    /\ UNCHANGED <<tip, d1, unresolvable, alarm, memory, queues, bounds>>

\* Mutant: one block short.
PrefetchEndShort(start) ==
    IF head < start + MaxBlocksPerPass THEN head - 1
    ELSE start + MaxBlocksPerPass - 2

\* processEnd: the last number the prefetch reads.
PrefetchEnd(start) ==
    IF head < start + MaxBlocksPerPass THEN head
    ELSE start + MaxBlocksPerPass - 1

PlanPass ==
    /\ pc = "registry"
    /\ status # "paused"
    /\ Position # NoBlock
    /\ Height[Position] < head
    /\ pendingTip' = PendingTipRead
    /\ wnd' = window
    /\ last' = Position
    /\ next' = Height[Position] + 1
    /\ from' = next'
    /\ stop' = PrefetchEnd(Height[Position] + 1)
    /\ pc' = "fetch"
    /\ UNCHANGED <<tip, d1, storage, failures, head, processed, fetched, item,
                   undo, redo, queues, bounds>>

\* Mutant: the number of a block is not compared with the number asked for.
AnyNumbers(items, lo, hi) == TRUE

\* A block answers for the number it was asked by.
NumbersMatch(items, lo, hi) == \A n \in lo..hi : Height[items[n]] = n

\* One range read: every block of the batch comes from one view of the chain.
FetchRange ==
    LET to == IF from + MaxBlocksPerRange - 1 > stop THEN stop
              ELSE from + MaxBlocksPerRange - 1
    IN  /\ pc = "fetch"
        /\ \E items \in [from..to -> Chain[tip]] :
              /\ NumbersMatch(items, from, to)
              /\ fetched' = [n \in next..to |->
                               IF n < from THEN fetched[n] ELSE items[n]]
        /\ from' = to + 1
        /\ pc' = IF to = stop THEN "loop" ELSE "fetch"
        /\ UNCHANGED <<tip, d1, storage, memory, head, next, stop, processed,
                       held, undo, redo, queues, bounds>>

-----------------------------------------------------------------------------
(* The loop over the prefetched blocks.                                    *)

Candidate == fetched[next]

\* Mutant: the parent hash is not checked.
VerdictUnchecked == "ok"

Verdict == ClassifyChain(wnd, Candidate, last)

LoopGoesOn == next <= head /\ processed < MaxBlocksPerPass

InLoop == pc = "loop" /\ LoopGoesOn

\* The candidate was processed: push it and move on to the next block.
AcceptCandidate ==
    /\ wnd' = PushWindow(wnd, Candidate)
    /\ last' = Candidate
    /\ pendingTip' = Candidate
    /\ failures' = NoCount
    /\ next' = next + 1
    /\ processed' = processed + 1
    /\ item' = 0
    /\ pc' = "flush"

\* Mutant: the last observation is left out.
MoreItemsShort == item + 1 < Items[Candidate]

MoreItems == item < Items[Candidate]

NextItem ==
    IF MoreItems
      THEN /\ item' = item + 1
           /\ pc' = "upsert"
           /\ UNCHANGED <<memory, next, processed, wnd, last>>
      ELSE AcceptCandidate

\* The candidate extends the tip: read the receipts its observations need.
ReadReceipts ==
    /\ InLoop
    /\ Verdict = "ok"
    /\ Candidate \notin Poison
    /\ NextItem
    /\ UNCHANGED <<tip, d1, storage, head, from, stop, fetched, undo, redo,
                   queues, bounds>>

ThisObs == <<Candidate, item>>

StatusOf(o) == IF o \in Failed THEN "reverted" ELSE "observed"

\* Mutant: an upsert that reports a change for a row that exists.
AlwaysInserted == TRUE

\* INSERT ... ON CONFLICT DO NOTHING changed a row.
Inserted == obs[ThisObs] = "absent"

\* Only an observation whose row was created is enqueued.
UpsertObservation ==
    /\ pc = "upsert"
    /\ \/ /\ Inserted
          /\ obs' = [obs EXCEPT ![ThisObs] = StatusOf(ThisObs)]
          /\ pc' = "enqueue"
          /\ UNCHANGED <<memory, next, processed, held>>
       \/ /\ ~Inserted
          /\ UNCHANGED obs
          /\ NextItem
    /\ UNCHANGED <<tip, cursor, status, subs, storage, head, from, stop,
                   fetched, undo, redo, queues, bounds>>

EnqueueMatched ==
    /\ pc = "enqueue"
    /\ matched' = [matched EXCEPT ![ThisObs] = @ + 1]
    /\ NextItem
    /\ UNCHANGED <<tip, d1, storage, head, from, stop, fetched, undo, redo,
                   reverts, bounds>>

FlushCursor ==
    /\ pc = "flush"
    /\ MaybeFlushCursor(pendingTip)
    /\ pc' = "loop"
    /\ UNCHANGED <<tip, status, obs, subs, storage, memory, registers, queues,
                   bounds>>

\* The pass is over: the window becomes durable, then the cursor may be flushed.
SavePass ==
    /\ pc = "loop" /\ ~LoopGoesOn
    /\ window' = wnd
    /\ pc' = "settle"
    /\ UNCHANGED <<tip, d1, unresolvable, alarm, memory, registers, queues,
                   bounds>>

Settle ==
    /\ pc = "settle"
    /\ MaybeFlushCursor(pendingTip)
    /\ ScheduleNext
    /\ UNCHANGED <<tip, status, obs, subs, storage, memory, queues, bounds>>

\* The last step of most operations.  When the alarm fires is abstract.
Schedule ==
    /\ pc = "due"
    /\ alarm' = TRUE
    /\ Return
    /\ UNCHANGED <<tip, d1, window, unresolvable, memory, queues, bounds>>

-----------------------------------------------------------------------------
(* The reorg branch: compensate the orphaned blocks, rewind, replay.       *)

Ancestor == FindAncestor(wnd, Parent[Candidate])

StartReorg ==
    /\ InLoop
    /\ Verdict = "reorg"
    /\ orphans' = OrphanedHeights(wnd, Ancestor)
    /\ pc' = IF orphans' = {} THEN "notify" ELSE "mark"
    /\ UNCHANGED <<tip, d1, storage, memory, plan, held, rows, redo, queues,
                   bounds>>

\* Mutant: rows already reverted are listed again.
AllRows(n) == {o \in Obs : Height[o[1]] = n /\ obs[o] # "absent"}

\* The rows of a block number that are still observed.
ObservedRows(n) == {o \in Obs : Height[o[1]] = n /\ obs[o] = "observed"}

\* Mutant: the rows of a block replace those of the blocks before it.
ListedLast(n) == ObservedRows(n)

\* The rows to report, of all orphaned blocks so far.
Listed(n) == rows \cup ObservedRows(n)

\* markBlockRevertedAndList, lowest number first.
MarkReverted ==
    /\ pc = "mark"
    /\ \E n \in orphans :
          /\ \A m \in orphans : n <= m
          /\ obs' = [o \in Obs |->
                       IF o \in ObservedRows(n) THEN "reverted" ELSE obs[o]]
          /\ rows' = Listed(n)
          /\ orphans' = orphans \ {n}
    /\ pc' = IF orphans' = {} THEN "notify" ELSE "mark"
    /\ UNCHANGED <<tip, cursor, status, subs, storage, memory, plan, held,
                   redo, queues, bounds>>

\* One sendBatch for all reverted rows (none when there is no row), then the
\* pruned window becomes durable.
NotifyReverted ==
    /\ pc = "notify"
    /\ reverts' = [o \in Obs |-> IF o \in rows THEN reverts[o] + 1 ELSE reverts[o]]
    /\ rows' = {}
    /\ pc' = "prune"
    /\ UNCHANGED <<tip, d1, storage, memory, plan, held, orphans, redo,
                   matched, bounds>>

PruneWindow ==
    /\ pc = "prune"
    /\ wnd' = PruneTo(wnd, Ancestor)
    /\ window' = wnd'
    /\ pc' = "rewind"
    /\ UNCHANGED <<tip, d1, unresolvable, alarm, memory, plan, last, item,
                   undo, redo, queues, bounds>>

\* The number of the candidate is not rewound: it is replayed on the ancestor.
RewindCursor ==
    /\ pc = "rewind"
    /\ cursor' = Ancestor
    /\ last' = Ancestor
    /\ pc' = "loop"
    /\ UNCHANGED <<tip, status, obs, subs, storage, memory, plan, wnd, item,
                   undo, redo, queues, bounds>>

-----------------------------------------------------------------------------
(* No held block is the candidate's parent.                                *)

\* unresolvableCount is durable.
CountUnresolvable ==
    /\ InLoop
    /\ Verdict = "unresolvable"
    /\ unresolvable' = unresolvable + 1
    /\ pc' = IF unresolvable' < UnresolvableLimit THEN "degrade" ELSE "reset"
    /\ UNCHANGED <<tip, d1, window, alarm, memory, registers, queues, bounds>>

Degrade ==
    /\ pc = "degrade"
    /\ status' = "degraded"
    /\ ScheduleNext
    /\ UNCHANGED <<tip, cursor, obs, subs, storage, memory, queues, bounds>>

\* Mutant: not clamped to the first block.
AnchorNumberUnclamped(h, depth) == h - depth

AnchorNumber(h, depth) == IF h > depth THEN h - depth ELSE 1

\* recoverFromUnresolvable(h, depth): the number to re-anchor at, and whether the
\* caller schedules a pass when the recovery gives up.
Recover(h, depth, thenSchedule) ==
    /\ goal' = AnchorNumber(h, depth)
    /\ resched' = thenSchedule
    /\ pc' = "recover"

GiveUpCounting ==
    /\ pc = "reset"
    /\ unresolvable' = 0
    /\ Recover(head, ReanchorDepth, TRUE)
    /\ UNCHANGED <<tip, d1, window, alarm, memory, plan, held, undo, seen,
                   queues, bounds>>

Reanchor ==
    /\ pc = "recover"
    /\ \E b \in BlocksAt(goal) :
          /\ pendingTip' = b
          /\ window' = <<b>>
          /\ last' = b
    /\ pc' = "reanchored"
    /\ UNCHANGED <<tip, d1, unresolvable, alarm, failures, plan, wnd, item,
                   undo, redo, queues, bounds>>

\* The number cannot be read: return without re-anchoring.
ReanchorFails ==
    /\ pc = "recover"
    /\ \/ BlocksAt(goal) = {} /\ UNCHANGED faults
       \/ faults < MaxFaults /\ faults' = faults + 1
    /\ IF resched THEN ScheduleNext ELSE Return
    /\ UNCHANGED <<tip, d1, storage, memory, queues, moves, ops>>

ReanchorCursor ==
    /\ pc = "reanchored"
    /\ cursor' = last
    /\ pc' = "reactivate"
    /\ UNCHANGED <<tip, status, obs, subs, storage, memory, registers, queues,
                   bounds>>

\* Mutant: the recovered chain is not scheduled.
ReactivateUnscheduled ==
    /\ pc = "reactivate"
    /\ status' = "active"
    /\ Return
    /\ UNCHANGED <<tip, cursor, obs, subs, storage, memory, queues, bounds>>

Reactivate ==
    /\ pc = "reactivate"
    /\ status' = "active"
    /\ ScheduleNext
    /\ UNCHANGED <<tip, cursor, obs, subs, storage, memory, queues, bounds>>

\* Operator override: re-anchor now.
OperatorReanchor ==
    /\ pc = "idle"
    /\ ops < MaxOps /\ ops' = ops + 1
    /\ unresolvable' = 0
    /\ \E h \in Heads : Recover(h, ReanchorDepth, FALSE)
    /\ UNCHANGED <<tip, d1, window, alarm, memory, plan, held, undo, seen,
                   queues, moves, faults>>

-----------------------------------------------------------------------------
(* Failures.                                                               *)

\* A read from rpc-racer fails (isRpcReadError): try again later.
RpcFails ==
    /\ \/ pc \in {"head", "fetch"} /\ Fault
       \/ InLoop /\ Verdict = "ok" /\ Candidate \notin Poison /\ Fault
       \/ /\ pc = "fetch"      \* a number the chain does not have (any more)
          /\ \E n \in from..stop : n < from + MaxBlocksPerRange /\ BlocksAt(n) = {}
          /\ UNCHANGED faults
    /\ ScheduleNext
    /\ UNCHANGED <<tip, d1, storage, memory, queues, moves, ops>>

\* registerBlockFailure(n), and what its caller does next.
RegisterBlockFailure(n) ==
    LET count == IF failures.block = n THEN failures.count + 1 ELSE 1
    IN  \/ /\ SkipAfter = 0
          /\ UNCHANGED failures
          /\ ScheduleNext
       \/ /\ SkipAfter > count
          /\ failures' = [block |-> n, count |-> count]
          /\ ScheduleNext
       \/ /\ SkipAfter \in 1..count
          /\ failures' = NoCount
          /\ pc' = "skip"
          /\ Cleared

\* Any other error while a block is fetched or processed.  A failed write may
\* have taken effect.
BlockFails ==
    /\ \/ /\ pc = "fetch" /\ Fault
          /\ RegisterBlockFailure(from)
          /\ UNCHANGED <<obs, matched>>
       \/ /\ InLoop /\ Verdict = "ok"
          /\ IF Candidate \in Poison THEN UNCHANGED faults ELSE Fault
          /\ RegisterBlockFailure(next)
          /\ UNCHANGED <<obs, matched>>
       \/ /\ pc = "upsert" /\ Fault
          /\ RegisterBlockFailure(next)
          /\ obs' \in {obs, IF Inserted
                              THEN [obs EXCEPT ![ThisObs] = StatusOf(ThisObs)]
                              ELSE obs}
          /\ UNCHANGED matched
       \/ /\ pc = "enqueue" /\ Fault
          /\ RegisterBlockFailure(next)
          /\ matched' \in {matched, [matched EXCEPT ![ThisObs] = @ + 1]}
          /\ UNCHANGED obs
    /\ UNCHANGED <<tip, cursor, status, subs, storage, pendingTip, reverts, moves,
                   ops>>

\* observeHead answers 0 when the head cannot be read.
SkipBlock ==
    /\ pc = "skip"
    /\ \/ \E h \in Heads : Recover(h, 0, FALSE) /\ UNCHANGED faults
       \/ Recover(0, 0, FALSE) /\ Fault
    /\ UNCHANGED <<tip, d1, storage, memory, plan, held, undo, seen, queues,
                   moves, ops>>

\* The awaits no handler guards: an error there leaves the operation.
Unguarded == {"head", "registry", "anchored", "flush", "settle", "mark", "notify",
              "prune", "rewind", "loop", "degrade", "reset", "reanchored",
              "reactivate", "applying", "activate", "complete", "due"}

\* An error leaves the operation, or the object is evicted and loses its memory.
\* The runtime retries an alarm a few times only: the alarm may be lost.
Interrupt ==
    /\ pc # "idle"
    /\ \/ Fault
       \/ /\ pc = "registry"       \* the anchor cannot be read by its number
          /\ status # "paused" /\ Position = NoBlock
          /\ BlocksAt(head) = {}
          /\ UNCHANGED faults
    /\ \/ pc \in Unguarded /\ UNCHANGED memory
       \/ pendingTip' = NoBlock /\ failures' = NoCount
    /\ alarm' \in {alarm, TRUE}
    /\ Return
    /\ UNCHANGED <<tip, d1, window, unresolvable, queues, moves, ops>>

-----------------------------------------------------------------------------
(* The activation of a subscription: /apply of a subscribe command.        *)

\* The control plane commits the subscription and its tracked address.
Subscribe ==
    /\ sub = "none"
    /\ sub' = "pending"
    /\ UNCHANGED <<tip, cursor, status, obs, others, activeFrom, storage,
                   memory, pc, registers, queues, bounds>>

\* Mutant: a paused chain's commands are left alone.
OpenUnlessPaused == sub = "pending" /\ status # "paused"

\* The subscription still waits for its activation.
Open == sub = "pending"

\* The chain resolves; the status is read before it is written.
ApplySubscribe ==
    /\ pc = "idle"
    /\ Open
    /\ seen' = IF status = "paused" THEN "paused" ELSE "active"
    /\ pc' = "applying"
    /\ UNCHANGED <<tip, d1, storage, memory, plan, held, undo, goal, resched,
                   queues, bounds>>

ResolveChain ==
    /\ pc = "applying"
    /\ status' = seen
    /\ pc' = "activate"
    /\ UNCHANGED <<tip, cursor, obs, subs, storage, memory, registers, queues,
                   bounds>>

\* The head, and a block to anchor the cursor at when it has none.
ReadBoundary ==
    /\ pc = "activate"
    /\ head' \in Heads
    /\ last' \in IF cursor = NoBlock THEN BlocksAt(head') ELSE {NoBlock}
    /\ pc' = "complete"
    /\ UNCHANGED <<tip, d1, storage, memory, next, from, stop, processed,
                   fetched, wnd, item, undo, redo, queues, bounds>>

\* A read fails: the command stays pending.
ActivationFails ==
    /\ pc = "activate"
    /\ \/ Fault
       \/ /\ cursor = NoBlock
          /\ \E h \in Heads : BlocksAt(h) = {}
          /\ UNCHANGED faults
    /\ Return
    /\ UNCHANGED <<tip, d1, storage, memory, queues, moves, ops>>

\* Mutant: the head itself.
FirstBlockAtHead == head

FirstBlock == head + 1

\* completeSubscriptionActivation: one transaction.
CompleteActivation ==
    /\ pc = "complete"
    /\ cursor' = IF cursor = NoBlock THEN last ELSE cursor
    /\ sub' = "active"
    /\ activeFrom' = IF sub = "pending" THEN FirstBlock ELSE activeFrom
    /\ ScheduleNext
    /\ UNCHANGED <<tip, status, obs, others, storage, memory, queues, bounds>>

-----------------------------------------------------------------------------
(* The environment of the object.                                          *)

\* The chain grows or reorganises: the new head is never lower (fork choice).
ChainMoves ==
    /\ moves < MaxMoves /\ moves' = moves + 1
    /\ tip' \in {b \in Block : b # tip /\ Height[b] >= Height[tip]}
    /\ UNCHANGED <<d1, storage, memory, pc, registers, queues, faults, ops>>

\* The last of the other subscriptions is deleted.
OthersLeave ==
    /\ others
    /\ others' = FALSE
    /\ UNCHANGED <<tip, cursor, status, obs, sub, activeFrom, storage, memory,
                   pc, registers, queues, bounds>>

\* The worker writes the status without going through the object.
Pause ==
    /\ status # "paused"
    /\ ops < MaxOps /\ ops' = ops + 1
    /\ status' = "paused"
    /\ UNCHANGED <<tip, cursor, obs, subs, storage, memory, pc, registers,
                   queues, moves, faults>>

Resume ==
    /\ status = "paused"
    /\ status' = "active"
    /\ UNCHANGED <<tip, cursor, obs, subs, storage, memory, pc, registers,
                   queues, bounds>>

\* Mutant: degraded chains are not woken.
WokenActive == {"active"}

Woken == {"active", "degraded"}

\* The cron restores a lost alarm of a chain that should be scanned.
Wake ==
    /\ pc = "idle"
    /\ ~alarm
    /\ status \in Woken
    /\ alarm' = TRUE
    /\ UNCHANGED <<tip, d1, window, unresolvable, memory, pc, registers,
                   queues, bounds>>

\* An idle object is evicted: only its storage survives.
Hibernate ==
    /\ pc = "idle"
    /\ memory # <<NoBlock, NoCount>>
    /\ Fault
    /\ pendingTip' = NoBlock /\ failures' = NoCount
    /\ UNCHANGED <<tip, d1, storage, pc, registers, queues, moves, ops>>

-----------------------------------------------------------------------------

ScanStep ==
    \/ ReadHead \/ NothingToScan \/ AnchorAtHead \/ SaveAnchor \/ PlanPass
    \/ FetchRange \/ ReadReceipts \/ UpsertObservation \/ EnqueueMatched
    \/ FlushCursor \/ SavePass \/ Settle \/ Schedule

ReorgStep ==
    \/ StartReorg \/ MarkReverted \/ NotifyReverted \/ PruneWindow
    \/ RewindCursor

RecoveryStep ==
    \/ CountUnresolvable \/ Degrade \/ GiveUpCounting \/ Reanchor
    \/ ReanchorFails \/ ReanchorCursor \/ Reactivate \/ SkipBlock

ActivationStep ==
    \/ ResolveChain \/ ReadBoundary \/ ActivationFails \/ CompleteActivation

\* Every step of an operation in progress.
Step ==
    \/ ScanStep \/ ReorgStep \/ RecoveryStep \/ ActivationStep
    \/ RpcFails \/ BlockFails

Environment ==
    \/ ChainMoves \/ Subscribe \/ OthersLeave \/ Pause \/ Resume \/ Wake
    \/ Hibernate \/ Interrupt

Next ==
    \/ \E byAlarm \in BOOLEAN : BeginPass(byAlarm)
    \/ OperatorReanchor
    \/ ApplySubscribe
    \/ Step
    \/ Environment

Spec == Init /\ [][Next]_vars

\* The D1 budget of the cursor has expired.
FlushDue == FlushCursor /\ cursor' = pendingTip

\* An operation in progress goes on, a set alarm fires, the cron runs, a request
\* waits its turn on the promise chain of `exclusive` but gets it, and the time
\* between two flushes of the cursor keeps running out.
Fairness ==
    /\ WF_vars(Step)
    /\ WF_vars(BeginPass(TRUE))
    /\ WF_vars(Wake)
    /\ SF_vars(ApplySubscribe)
    /\ SF_vars(FlushDue)

FairSpec == Spec /\ Fairness
=============================================================================
