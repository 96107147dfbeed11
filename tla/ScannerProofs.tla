--------------------------- MODULE ScannerProofs ---------------------------
(***************************************************************************)
(* Theorems about the scanner, for every chain, every workload and every   *)
(* value of the limits.                                                    *)
(***************************************************************************)
EXTENDS ScannerProperties, TLAPS

-----------------------------------------------------------------------------
(* Observations and messages.  NotifiedAtMostOnce is not inductive: it     *)
(* needs that a row exists for what was enqueued, that the row about to be *)
(* enqueued was not enqueued before, and that the rows about to be         *)
(* reported reverted were not reported before.                             *)

ObsInv ==
    /\ obs \in [Obs -> {"absent", "observed", "reverted"}]
    /\ matched \in [Obs -> Nat]
    /\ reverts \in [Obs -> Nat]

MatchedInv ==
    \A o \in Obs : matched[o] <= 1 /\ (matched[o] = 1 => obs[o] # "absent")

RevertsInv ==
    \A o \in Obs : reverts[o] <= 1 /\ (reverts[o] = 1 => obs[o] = "reverted")

RowsInv ==
    /\ rows \subseteq Obs
    /\ \A o \in rows : obs[o] = "reverted" /\ reverts[o] = 0
    /\ rows # {} => pc \in {"mark", "notify"}

EnqueueInv ==
    pc = "enqueue" /\ ThisObs \in Obs
      => matched[ThisObs] = 0 /\ obs[ThisObs] # "absent"

MsgInv == ObsInv /\ MatchedInv /\ RevertsInv /\ RowsInv /\ EnqueueInv

\* Counting one more message keeps a count, also for an id no block yields.
LEMMA OneMore ==
    ASSUME NEW S, NEW f \in [S -> Nat], NEW o
    PROVE  [f EXCEPT ![o] = f[o] + 1] \in [S -> Nat]
  <1> DEFINE g == [x \in S |-> IF x = o THEN f[o] + 1 ELSE f[x]]
  <1>1. \A x \in S : g[x] \in Nat
    <2>1. \A x \in S : f[x] \in Nat
      OBVIOUS
    <2> QED
      BY <2>1
  <1>2. g \in [S -> Nat]
    BY <1>1
  <1>3. [f EXCEPT ![o] = f[o] + 1] = g
    OBVIOUS
  <1> QED
    BY <1>2, <1>3

\* A step that writes neither rows nor messages and does not stop before an
\* enqueue keeps the invariant.
Quiet ==
    /\ UNCHANGED <<obs, matched, reverts>>
    /\ rows' = {} \/ (rows' = rows /\ (rows = {} \/ pc' \in {"mark", "notify"}))
    /\ pc' # "enqueue"

LEMMA QuietStep ==
    ASSUME MsgInv, Quiet
    PROVE  MsgInv'
  <1>1. ObsInv' /\ MatchedInv' /\ RevertsInv'
    BY DEF MsgInv, ObsInv, MatchedInv, RevertsInv, Quiet
  <1>2. RowsInv'
    BY DEF MsgInv, RowsInv, Quiet
  <1>3. EnqueueInv'
    BY DEF EnqueueInv, Quiet
  <1> QED
    BY <1>1, <1>2, <1>3 DEF MsgInv

\* So does a step outside the operation in progress.
Outside == UNCHANGED <<obs, matched, reverts, pc, rows, fetched, next, item>>

LEMMA OutsideStep ==
    ASSUME MsgInv, Outside
    PROVE  MsgInv'
  <1>1. ThisObs' = ThisObs
    BY DEF Outside, ThisObs, Candidate
  <1> QED
    BY <1>1 DEF MsgInv, ObsInv, MatchedInv, RevertsInv, RowsInv, EnqueueInv, Outside

LEMMA InitMsg == Init => MsgInv
  <1> SUFFICES ASSUME Init PROVE MsgInv
    OBVIOUS
  <1> QED
    BY DEF Init, MsgInv, ObsInv, MatchedInv, RevertsInv, RowsInv, EnqueueInv

\* NextItem stops before an upsert or before the cursor is flushed.
LEMMA NextItemStep ==
    ASSUME NextItem
    PROVE  pc' \in {"upsert", "flush"}
  BY DEF NextItem, AcceptCandidate

LEMMA NoRows ==
    ASSUME MsgInv, pc \notin {"mark", "notify"}
    PROVE  rows = {}
  BY DEF MsgInv, RowsInv

LEMMA ScanMsg ==
    ASSUME MsgInv, ScanStep
    PROVE  MsgInv'
  <1> USE DEF registers, undo, queues, storage, d1, subs, plan, held
  <1>1. CASE ReadHead
    BY <1>1, QuietStep, NoRows DEF ReadHead, Quiet
  <1>2. CASE NothingToScan
    BY <1>2, QuietStep DEF NothingToScan, ScheduleNext, Cleared, Quiet
  <1>3. CASE AnchorAtHead
    BY <1>3, QuietStep, NoRows DEF AnchorAtHead, Quiet
  <1>4. CASE SaveAnchor
    BY <1>4, QuietStep DEF SaveAnchor, ScheduleNext, Cleared, Quiet
  <1>5. CASE PlanPass
    BY <1>5, QuietStep, NoRows DEF PlanPass, Quiet
  <1>6. CASE FetchRange
    BY <1>6, QuietStep, NoRows DEF FetchRange, Quiet
  <1>7. CASE ReadReceipts
    BY <1>7, QuietStep, NoRows, NextItemStep DEF ReadReceipts, InLoop, Quiet
  <1>8. CASE UpsertObservation
    <2>1. CASE Inserted /\ pc' = "enqueue"
               /\ obs' = [obs EXCEPT ![ThisObs] = StatusOf(ThisObs)]
               /\ UNCHANGED <<memory, next, processed, held>>
      <3>1. /\ UNCHANGED <<matched, reverts, rows, fetched, next, item>>
            /\ pc = "upsert"
        BY <1>8, <2>1 DEF UpsertObservation
      <3>2. ThisObs' = ThisObs
        BY <3>1 DEF ThisObs, Candidate
      <3>3. rows = {}
        BY <3>1, NoRows
      <3>4. ObsInv'
        BY <2>1, <3>1 DEF MsgInv, ObsInv, StatusOf
      <3>5. MatchedInv'
        BY <2>1, <3>1 DEF MsgInv, ObsInv, MatchedInv, StatusOf
      <3>6. RevertsInv'
        BY <2>1, <3>1 DEF MsgInv, ObsInv, RevertsInv, StatusOf, Inserted
      <3>7. RowsInv'
        BY <3>1, <3>3 DEF MsgInv, RowsInv
      <3>8. EnqueueInv'
        BY <2>1, <3>1, <3>2 DEF MsgInv, ObsInv, MatchedInv, EnqueueInv, StatusOf, Inserted
      <3> QED
        BY <3>4, <3>5, <3>6, <3>7, <3>8 DEF MsgInv
    <2>2. CASE UNCHANGED obs /\ NextItem
      BY <1>8, <2>2, QuietStep, NoRows, NextItemStep DEF UpsertObservation, Quiet
    <2> QED
      BY <1>8, <2>1, <2>2 DEF UpsertObservation
  <1>9. CASE EnqueueMatched
    <2>1. /\ UNCHANGED <<obs, reverts, rows>>
          /\ pc = "enqueue"
          /\ pc' \in {"upsert", "flush"}
          /\ matched' = [matched EXCEPT ![ThisObs] = @ + 1]
      BY <1>9, NextItemStep DEF EnqueueMatched
    <2>2. rows = {}
      BY <2>1, NoRows
    <2>3. ObsInv'
      <3> DEFINE o == ThisObs
      <3>1. matched' = [matched EXCEPT ![o] = matched[o] + 1]
        BY <2>1
      <3> HIDE DEF o
      <3>2. matched \in [Obs -> Nat]
        BY DEF MsgInv, ObsInv
      <3>3. matched' \in [Obs -> Nat]
        BY <3>1, <3>2, OneMore
      <3> QED
        BY <2>1, <3>3 DEF MsgInv, ObsInv
    <2>4. MatchedInv'
      BY <2>1 DEF MsgInv, ObsInv, MatchedInv, EnqueueInv
    <2>5. RevertsInv' /\ RowsInv' /\ EnqueueInv'
      BY <2>1, <2>2 DEF MsgInv, RevertsInv, RowsInv, EnqueueInv
    <2> QED
      BY <2>3, <2>4, <2>5 DEF MsgInv
  <1>10. CASE FlushCursor
    BY <1>10, QuietStep, NoRows DEF FlushCursor, Quiet
  <1>11. CASE SavePass
    BY <1>11, QuietStep, NoRows DEF SavePass, Quiet
  <1>12. CASE Settle
    BY <1>12, QuietStep DEF Settle, ScheduleNext, Cleared, Quiet
  <1>13. CASE Schedule
    BY <1>13, QuietStep DEF Schedule, Return, Cleared, Quiet
  <1> QED
    BY <1>1, <1>2, <1>3, <1>4, <1>5, <1>6, <1>7, <1>8, <1>9, <1>10, <1>11, <1>12,
       <1>13
       DEF ScanStep

LEMMA ReorgMsg ==
    ASSUME MsgInv, ReorgStep
    PROVE  MsgInv'
  <1> USE DEF registers, undo, queues, storage, d1, subs, plan, held
  <1>1. CASE StartReorg
    BY <1>1, QuietStep, NoRows DEF StartReorg, InLoop, Quiet
  <1>2. CASE MarkReverted
    <2>1. PICK n \in orphans :
            /\ obs' = [o \in Obs |->
                         IF o \in ObservedRows(n) THEN "reverted" ELSE obs[o]]
            /\ rows' = rows \cup ObservedRows(n)
      BY <1>2 DEF MarkReverted, Listed
    <2>2. pc' \in {"mark", "notify"} /\ UNCHANGED <<matched, reverts>>
      BY <1>2 DEF MarkReverted, Listed
    <2>3. ObservedRows(n) = {o \in Obs : Height[o[1]] = n /\ obs[o] = "observed"}
      BY DEF ObservedRows
    <2>4. ObsInv'
      BY <2>1, <2>2 DEF MsgInv, ObsInv
    <2>5. \A o \in Obs : obs'[o] = IF o \in ObservedRows(n) THEN "reverted" ELSE obs[o]
      BY <2>1
    <2>6. MatchedInv' /\ RevertsInv'
      BY <2>2, <2>5 DEF MsgInv, MatchedInv, RevertsInv
    <2>7. RowsInv'
      BY <2>1, <2>2, <2>3, <2>5 DEF MsgInv, ObsInv, RevertsInv, RowsInv
    <2>8. EnqueueInv'
      BY <2>2 DEF EnqueueInv
    <2> QED
      BY <2>4, <2>6, <2>7, <2>8 DEF MsgInv
  <1>3. CASE NotifyReverted
    <2>1. /\ reverts' = [o \in Obs |->
                           IF o \in rows THEN reverts[o] + 1 ELSE reverts[o]]
          /\ rows' = {} /\ pc' = "prune"
          /\ UNCHANGED <<obs, matched>>
      BY <1>3 DEF NotifyReverted
    <2>2. \A o \in Obs : reverts'[o] = IF o \in rows THEN reverts[o] + 1 ELSE reverts[o]
      BY <2>1
    <2>3. ObsInv'
      BY <2>1 DEF MsgInv, ObsInv
    <2>4. RevertsInv'
      BY <2>1, <2>2 DEF MsgInv, ObsInv, RevertsInv, RowsInv
    <2>5. MatchedInv' /\ RowsInv' /\ EnqueueInv'
      BY <2>1 DEF MsgInv, MatchedInv, RowsInv, EnqueueInv
    <2> QED
      BY <2>3, <2>4, <2>5 DEF MsgInv
  <1>4. CASE PruneWindow
    BY <1>4, QuietStep, NoRows DEF PruneWindow, Quiet
  <1>5. CASE RewindCursor
    BY <1>5, QuietStep, NoRows DEF RewindCursor, Quiet
  <1> QED
    BY <1>1, <1>2, <1>3, <1>4, <1>5 DEF ReorgStep

LEMMA RecoveryMsg ==
    ASSUME MsgInv, RecoveryStep
    PROVE  MsgInv'
  <1> USE DEF registers, undo, queues, storage, d1, subs, plan, held
  <1>1. CASE CountUnresolvable
    BY <1>1, QuietStep, NoRows DEF CountUnresolvable, InLoop, Quiet
  <1>2. CASE Degrade
    BY <1>2, QuietStep DEF Degrade, ScheduleNext, Cleared, Quiet
  <1>3. CASE GiveUpCounting
    BY <1>3, QuietStep, NoRows DEF GiveUpCounting, Recover, Quiet
  <1>4. CASE Reanchor
    BY <1>4, QuietStep, NoRows DEF Reanchor, Quiet
  <1>5. CASE ReanchorFails
    BY <1>5, QuietStep DEF ReanchorFails, ScheduleNext, Return, Cleared, Quiet
  <1>6. CASE ReanchorCursor
    BY <1>6, QuietStep, NoRows DEF ReanchorCursor, Quiet
  <1>7. CASE Reactivate
    BY <1>7, QuietStep DEF Reactivate, ScheduleNext, Cleared, Quiet
  <1>8. CASE SkipBlock
    BY <1>8, QuietStep, NoRows DEF SkipBlock, Recover, Quiet
  <1> QED
    BY <1>1, <1>2, <1>3, <1>4, <1>5, <1>6, <1>7, <1>8 DEF RecoveryStep

LEMMA ActivationMsg ==
    ASSUME MsgInv, ActivationStep \/ ApplySubscribe
    PROVE  MsgInv'
  <1> USE DEF registers, undo, queues, storage, d1, subs, plan, held
  <1>1. CASE ApplySubscribe
    BY <1>1, QuietStep, NoRows DEF ApplySubscribe, Quiet
  <1>2. CASE ResolveChain
    BY <1>2, QuietStep, NoRows DEF ResolveChain, Quiet
  <1>3. CASE ReadBoundary
    BY <1>3, QuietStep, NoRows DEF ReadBoundary, Quiet
  <1>4. CASE CompleteActivation
    BY <1>4, QuietStep DEF CompleteActivation, ScheduleNext, Cleared, Quiet
  <1>5. CASE ActivationFails
    BY <1>5, QuietStep DEF ActivationFails, Return, Cleared, Quiet
  <1> QED
    BY <1>1, <1>2, <1>3, <1>4, <1>5 DEF ActivationStep

\* The block a failure is registered for is abandoned with the operation.
LEMMA RegisterBlockFailureStep ==
    ASSUME NEW n, RegisterBlockFailure(n)
    PROVE  rows' = {} /\ pc' \in {"due", "skip"}
  BY DEF RegisterBlockFailure, ScheduleNext, Cleared

\* A write that fails may have taken effect: the row, or the message, is there.
LEMMA FailureMsg ==
    ASSUME MsgInv, RpcFails \/ BlockFails
    PROVE  MsgInv'
  <1> USE DEF registers, undo, queues, storage, d1, subs, plan, held
  <1>1. CASE RpcFails
    BY <1>1, QuietStep DEF RpcFails, ScheduleNext, Cleared, Quiet
  <1>2. CASE BlockFails
    <2>1. rows' = {} /\ pc' \in {"due", "skip"} /\ UNCHANGED reverts
      BY <1>2, RegisterBlockFailureStep DEF BlockFails
    <2>2. RowsInv' /\ EnqueueInv'
      BY <2>1 DEF MsgInv, RowsInv, EnqueueInv
    <2>3. CASE UNCHANGED <<obs, matched>>
      BY <2>1, <2>3, QuietStep DEF Quiet
    <2>4. CASE /\ obs' = [obs EXCEPT ![ThisObs] = StatusOf(ThisObs)]
               /\ Inserted /\ UNCHANGED matched
      <3>1. ObsInv'
        BY <2>1, <2>4 DEF MsgInv, ObsInv, StatusOf
      <3>2. MatchedInv' /\ RevertsInv'
        BY <2>1, <2>4
           DEF MsgInv, ObsInv, MatchedInv, RevertsInv, StatusOf, Inserted
      <3> QED
        BY <2>2, <3>1, <3>2 DEF MsgInv
    <2>5. CASE /\ pc = "enqueue" /\ UNCHANGED obs
               /\ matched' = [matched EXCEPT ![ThisObs] = @ + 1]
      <3> DEFINE o == ThisObs
      <3>1. matched' = [matched EXCEPT ![o] = matched[o] + 1]
        BY <2>5
      <3>2. o \in Obs => matched[o] = 0 /\ obs[o] # "absent"
        BY <2>5 DEF MsgInv, EnqueueInv
      <3> HIDE DEF o
      <3>3. ObsInv'
        BY <2>1, <2>5, <3>1, OneMore DEF MsgInv, ObsInv
      <3>4. MatchedInv' /\ RevertsInv'
        BY <2>1, <2>5, <3>1, <3>2 DEF MsgInv, ObsInv, MatchedInv, RevertsInv
      <3> QED
        BY <2>2, <3>3, <3>4 DEF MsgInv
    <2> QED
      BY <1>2, <2>3, <2>4, <2>5 DEF BlockFails
  <1> QED
    BY <1>1, <1>2

LEMMA EnvironmentMsg ==
    ASSUME MsgInv, Environment
    PROVE  MsgInv'
  <1> USE DEF registers, undo, queues, storage, d1, subs, plan, held
  <1>1. CASE ChainMoves
    BY <1>1, OutsideStep DEF ChainMoves, Outside
  <1>2. CASE Subscribe
    BY <1>2, OutsideStep DEF Subscribe, Outside
  <1>3. CASE OthersLeave
    BY <1>3, OutsideStep DEF OthersLeave, Outside
  <1>4. CASE Pause
    BY <1>4, OutsideStep DEF Pause, Outside
  <1>5. CASE Resume
    BY <1>5, OutsideStep DEF Resume, Outside
  <1>6. CASE Wake
    BY <1>6, OutsideStep DEF Wake, Outside
  <1>7. CASE Hibernate
    BY <1>7, OutsideStep DEF Hibernate, Outside
  <1>8. CASE Interrupt
    BY <1>8, QuietStep DEF Interrupt, Return, Cleared, Quiet
  <1> QED
    BY <1>1, <1>2, <1>3, <1>4, <1>5, <1>6, <1>7, <1>8 DEF Environment

LEMMA NextMsg == MsgInv /\ [Next]_vars => MsgInv'
  <1> SUFFICES ASSUME MsgInv, [Next]_vars PROVE MsgInv'
    OBVIOUS
  <1> USE DEF registers, undo, queues, storage, d1, subs, plan, held
  <1>1. CASE \E byAlarm \in BOOLEAN : BeginPass(byAlarm)
    BY <1>1, QuietStep, NoRows DEF BeginPass, Quiet
  <1>2. CASE OperatorReanchor
    BY <1>2, QuietStep, NoRows DEF OperatorReanchor, Recover, Quiet
  <1>3. CASE ApplySubscribe
    BY <1>3, ActivationMsg
  <1>4. CASE Step
    BY <1>4, ScanMsg, ReorgMsg, RecoveryMsg, ActivationMsg, FailureMsg DEF Step
  <1>5. CASE Environment
    BY <1>5, EnvironmentMsg
  <1>6. CASE UNCHANGED vars
    BY <1>6, OutsideStep DEF vars, Outside
  <1> QED
    BY <1>1, <1>2, <1>3, <1>4, <1>5, <1>6 DEF Next

\* However the scanner's steps, its failures and its crashes interleave, and for
\* every chain, an observation is enqueued at most once and reported reverted at
\* most once.
THEOREM AtMostOnce == Spec => []NotifiedAtMostOnce
  <1>1. MsgInv => NotifiedAtMostOnce
    BY DEF MsgInv, MatchedInv, RevertsInv, NotifiedAtMostOnce
  <1> QED
    BY <1>1, InitMsg, NextMsg, PTL DEF Spec

-----------------------------------------------------------------------------
(* The reversals that are reported.  While nothing has failed, a row that  *)
(* is marked reverted has had its message or waits in `rows`; and `rows`   *)
(* is empty outside the branch that marks and reports (RowsInv).           *)

ReportInv ==
    /\ faults \in Nat
    /\ faults = 0
         => \A o \in Obs \ Failed :
               obs[o] = "reverted" => reverts[o] = 1 \/ o \in rows

\* A step that neither marks nor reports, and forgets rows only when it fails.
Harmless ==
    /\ UNCHANGED reverts
    /\ \/ faults' = faults /\ rows \subseteq rows'
       \/ faults' = faults + 1
    /\ obs' = obs \/ obs' = [obs EXCEPT ![ThisObs] = StatusOf(ThisObs)]

LEMMA HarmlessStep ==
    ASSUME MsgInv, ReportInv, Harmless
    PROVE  ReportInv'
  <1>1. faults' \in Nat /\ (faults' = 0 => faults = 0 /\ rows \subseteq rows')
    BY DEF ReportInv, Harmless
  <1>2. \A o \in Obs \ Failed : obs'[o] = "reverted" => obs[o] = "reverted"
    BY DEF MsgInv, ObsInv, Harmless, StatusOf
  <1> QED
    BY <1>1, <1>2 DEF ReportInv, Harmless

LEMMA InitReport == Init => ReportInv
  BY DEF Init, ReportInv

LEMMA ScanReport ==
    ASSUME MsgInv, ReportInv, ScanStep
    PROVE  ReportInv'
  <1> USE DEF registers, undo, queues, storage, d1, subs, plan, held, bounds
  <1>1. pc \notin {"mark", "notify"}
    BY DEF ScanStep, ReadHead, NothingToScan, AnchorAtHead, SaveAnchor, PlanPass,
           FetchRange, ReadReceipts, InLoop, UpsertObservation, EnqueueMatched,
           FlushCursor, SavePass, Settle, Schedule
  <1>2. rows = {}
    BY <1>1, NoRows
  <1>3. UNCHANGED <<reverts, faults>>
    BY DEF ScanStep, ReadHead, NothingToScan, AnchorAtHead, SaveAnchor, PlanPass,
           FetchRange, ReadReceipts, UpsertObservation, EnqueueMatched,
           FlushCursor, SavePass, Settle, Schedule
  <1>4. obs' = obs \/ obs' = [obs EXCEPT ![ThisObs] = StatusOf(ThisObs)]
    BY DEF ScanStep, ReadHead, NothingToScan, AnchorAtHead, SaveAnchor, PlanPass,
           FetchRange, ReadReceipts, UpsertObservation, EnqueueMatched,
           FlushCursor, SavePass, Settle, Schedule
  <1> QED
    BY <1>2, <1>3, <1>4, HarmlessStep DEF Harmless

\* The branch itself: a marked row joins `rows`, and every row of `rows` is reported.
LEMMA ReorgReport ==
    ASSUME MsgInv, ReportInv, ReorgStep
    PROVE  ReportInv'
  <1> USE DEF registers, undo, queues, storage, d1, subs, plan, held, bounds
  <1>1. CASE StartReorg \/ PruneWindow \/ RewindCursor
    BY <1>1, HarmlessStep DEF StartReorg, PruneWindow, RewindCursor, Harmless
  <1>2. CASE MarkReverted
    <2>1. PICK n \in orphans :
            /\ obs' = [o \in Obs |->
                         IF o \in ObservedRows(n) THEN "reverted" ELSE obs[o]]
            /\ rows' = rows \cup ObservedRows(n)
      BY <1>2 DEF MarkReverted, Listed
    <2>2. UNCHANGED <<reverts, faults>>
      BY <1>2 DEF MarkReverted
    <2>3. \A o \in Obs : obs'[o] = IF o \in ObservedRows(n) THEN "reverted" ELSE obs[o]
      BY <2>1
    <2> QED
      BY <2>1, <2>2, <2>3 DEF ReportInv
  <1>3. CASE NotifyReverted
    <2>1. /\ reverts' = [o \in Obs |->
                           IF o \in rows THEN reverts[o] + 1 ELSE reverts[o]]
          /\ UNCHANGED <<obs, faults>>
      BY <1>3 DEF NotifyReverted
    <2>2. \A o \in rows : reverts'[o] = 1
      BY <2>1 DEF MsgInv, RowsInv
    <2>3. \A o \in Obs \ rows : reverts'[o] = reverts[o]
      BY <2>1
    <2> QED
      BY <2>1, <2>2, <2>3 DEF ReportInv
  <1> QED
    BY <1>1, <1>2, <1>3 DEF ReorgStep

LEMMA RecoveryReport ==
    ASSUME MsgInv, ReportInv, RecoveryStep
    PROVE  ReportInv'
  <1> USE DEF registers, undo, queues, storage, d1, subs, plan, held, bounds
  <1>1. pc \notin {"mark", "notify"}
    BY DEF RecoveryStep, CountUnresolvable, InLoop, Degrade, GiveUpCounting, Reanchor,
           ReanchorFails, ReanchorCursor, Reactivate, SkipBlock
  <1>2. rows = {}
    BY <1>1, NoRows
  <1>3. UNCHANGED <<reverts, obs>> /\ faults' \in {faults, faults + 1}
    BY DEF RecoveryStep, CountUnresolvable, Degrade, GiveUpCounting, Reanchor,
           ReanchorFails, ReanchorCursor, Reactivate, SkipBlock, Fault
  <1> QED
    BY <1>2, <1>3, HarmlessStep DEF Harmless

LEMMA ActivationReport ==
    ASSUME MsgInv, ReportInv, ActivationStep \/ ApplySubscribe
    PROVE  ReportInv'
  <1> USE DEF registers, undo, queues, storage, d1, subs, plan, held, bounds
  <1>1. pc \notin {"mark", "notify"}
    BY DEF ActivationStep, ApplySubscribe, ResolveChain, ReadBoundary,
           CompleteActivation, ActivationFails
  <1>2. rows = {}
    BY <1>1, NoRows
  <1>3. UNCHANGED <<reverts, obs>> /\ faults' \in {faults, faults + 1}
    BY DEF ActivationStep, ApplySubscribe, ResolveChain, ReadBoundary,
           CompleteActivation, ActivationFails, Fault
  <1> QED
    BY <1>2, <1>3, HarmlessStep DEF Harmless

LEMMA FailureReport ==
    ASSUME MsgInv, ReportInv, RpcFails \/ BlockFails
    PROVE  ReportInv'
  <1> USE DEF registers, undo, queues, storage, d1, subs, plan, held, bounds
  <1>1. pc \notin {"mark", "notify"}
    BY DEF RpcFails, BlockFails, InLoop
  <1>2. rows = {}
    BY <1>1, NoRows
  <1>3. UNCHANGED reverts /\ faults' \in {faults, faults + 1}
    BY DEF RpcFails, BlockFails, Fault
  <1>4. obs' = obs \/ obs' = [obs EXCEPT ![ThisObs] = StatusOf(ThisObs)]
    BY DEF RpcFails, BlockFails
  <1> QED
    BY <1>2, <1>3, <1>4, HarmlessStep DEF Harmless

\* An operation that is interrupted between its marks and its message has failed.
LEMMA EnvironmentReport ==
    ASSUME MsgInv, ReportInv, Environment
    PROVE  ReportInv'
  <1> USE DEF registers, undo, queues, storage, d1, subs, plan, held, bounds
  <1>1. CASE ChainMoves \/ Subscribe \/ OthersLeave \/ Pause \/ Resume \/ Wake
    BY <1>1, HarmlessStep
       DEF ChainMoves, Subscribe, OthersLeave, Pause, Resume, Wake, Harmless
  <1>2. CASE Hibernate
    BY <1>2, HarmlessStep DEF Hibernate, Fault, Harmless
  <1>3. CASE Interrupt
    <2>1. UNCHANGED <<obs, reverts>>
      BY <1>3 DEF Interrupt
    <2>2. CASE Fault
      BY <2>1, <2>2, HarmlessStep DEF Fault, Harmless
    <2>3. CASE pc = "registry" /\ UNCHANGED faults
      BY <2>1, <2>3, NoRows, HarmlessStep DEF Harmless
    <2> QED
      BY <1>3, <2>2, <2>3 DEF Interrupt
  <1> QED
    BY <1>1, <1>2, <1>3 DEF Environment

LEMMA NextReport == MsgInv /\ ReportInv /\ [Next]_vars => ReportInv'
  <1> SUFFICES ASSUME MsgInv, ReportInv, [Next]_vars PROVE ReportInv'
    OBVIOUS
  <1> USE DEF registers, undo, queues, storage, d1, subs, plan, held, bounds
  <1>1. CASE \E byAlarm \in BOOLEAN : BeginPass(byAlarm)
    BY <1>1, HarmlessStep DEF BeginPass, Harmless
  <1>2. CASE OperatorReanchor
    BY <1>2, HarmlessStep DEF OperatorReanchor, Harmless
  <1>3. CASE ApplySubscribe
    BY <1>3, ActivationReport
  <1>4. CASE Step
    BY <1>4, ScanReport, ReorgReport, RecoveryReport, ActivationReport, FailureReport
       DEF Step
  <1>5. CASE Environment
    BY <1>5, EnvironmentReport
  <1>6. CASE UNCHANGED vars
    BY <1>6, HarmlessStep DEF vars, Harmless
  <1> QED
    BY <1>1, <1>2, <1>3, <1>4, <1>5, <1>6 DEF Next

\* For every chain, and however many blocks a reorg orphans: as long as nothing has
\* failed, every row a reorg marked has had its message when the operation ends.
THEOREM MarkedReported == Spec => []MarkedAreReported
  <1>1. MsgInv /\ ReportInv => MarkedAreReported
    <2> SUFFICES ASSUME MsgInv, ReportInv PROVE MarkedAreReported
      OBVIOUS
    <2>1. pc = "idle" => rows = {}
      BY NoRows
    <2> QED
      BY <2>1 DEF ReportInv, MarkedAreReported
  <1> QED
    BY <1>1, InitMsg, NextMsg, InitReport, NextReport, PTL DEF Spec

-----------------------------------------------------------------------------
(* The marks of the reorg branch.  Until the window is pruned, the rows of *)
(* every orphaned number that is not still to be marked are marked.        *)

Marking == {"mark", "notify", "prune"}

MarkInv ==
    /\ pc \in {"notify", "prune"} => orphans = {}
    /\ pc \in Marking
         => \A n \in OrphanedHeights(wnd, Ancestor) \ orphans : ObservedRows(n) = {}

\* The window is pruned when no orphaned row is `observed` any more.
OrphansMarked ==
    pc = "prune"
        => \A o \in Obs :
              Height[o[1]] \in OrphanedHeights(wnd, Ancestor) => obs[o] # "observed"

LEMMA InitMark == Init => MarkInv
  BY DEF Init, MarkInv, Marking

LEMMA ElsewhereMark ==
    ASSUME pc' \notin Marking
    PROVE  MarkInv'
  BY DEF MarkInv, Marking

LEMMA ReorgMark ==
    ASSUME MarkInv, ReorgStep
    PROVE  MarkInv'
  <1> USE DEF registers, undo, queues, storage, d1, subs, plan, held
  <1>1. CASE StartReorg
    <2>1. /\ orphans' = OrphanedHeights(wnd, Ancestor)
          /\ pc' = IF orphans' = {} THEN "notify" ELSE "mark"
          /\ UNCHANGED <<wnd, fetched, next>>
      BY <1>1 DEF StartReorg
    <2>2. Ancestor' = Ancestor
      BY <2>1 DEF Ancestor, Candidate
    <2> QED
      BY <2>1, <2>2 DEF MarkInv
  <1>2. CASE MarkReverted
    <2>1. PICK n \in orphans :
            /\ obs' = [o \in Obs |->
                         IF o \in ObservedRows(n) THEN "reverted" ELSE obs[o]]
            /\ orphans' = orphans \ {n}
      BY <1>2 DEF MarkReverted
    <2>2. /\ pc = "mark" /\ pc' = IF orphans' = {} THEN "notify" ELSE "mark"
          /\ UNCHANGED <<wnd, fetched, next>>
      BY <1>2 DEF MarkReverted
    <2>3. Ancestor' = Ancestor
      BY <2>2 DEF Ancestor, Candidate
    <2>4. \A o \in Obs : obs'[o] = IF o \in ObservedRows(n) THEN "reverted" ELSE obs[o]
      BY <2>1
    <2>5. ObservedRows(n)' = {}
      BY <2>4 DEF ObservedRows
    <2>6. \A m : ObservedRows(m)' \subseteq ObservedRows(m)
      BY <2>4 DEF ObservedRows
    <2>7. \A m \in OrphanedHeights(wnd, Ancestor) \ orphans' : ObservedRows(m)' = {}
      BY <2>1, <2>2, <2>5, <2>6 DEF MarkInv, Marking
    <2>8. OrphanedHeights(wnd, Ancestor)' = OrphanedHeights(wnd, Ancestor)
      BY <2>2, <2>3
    <2> QED
      BY <2>2, <2>7, <2>8 DEF MarkInv
  <1>3. CASE NotifyReverted
    <2>1. /\ pc = "notify" /\ pc' = "prune"
          /\ UNCHANGED <<obs, wnd, fetched, next, orphans>>
      BY <1>3 DEF NotifyReverted
    <2>2. Ancestor' = Ancestor
      BY <2>1 DEF Ancestor, Candidate
    <2> QED
      BY <2>1, <2>2 DEF MarkInv, Marking, ObservedRows
  <1>4. CASE PruneWindow \/ RewindCursor
    BY <1>4, ElsewhereMark DEF PruneWindow, RewindCursor, Marking
  <1> QED
    BY <1>1, <1>2, <1>3, <1>4 DEF ReorgStep

\* Every other step of the operation goes elsewhere.
LEMMA StepMark ==
    ASSUME MarkInv, Step
    PROVE  MarkInv'
  <1>1. CASE ScanStep
    <2>1. NextItem => pc' \notin Marking
      BY NextItemStep DEF Marking
    <2>2. UpsertObservation => pc' \notin Marking
      BY <2>1 DEF UpsertObservation, Marking
    <2> QED
      BY <1>1, <2>1, <2>2, ElsewhereMark
         DEF ScanStep, ReadHead, NothingToScan, AnchorAtHead, SaveAnchor, PlanPass,
             FetchRange, ReadReceipts, EnqueueMatched, FlushCursor, SavePass, Settle,
             Schedule, ScheduleNext, Return, Marking
  <1>2. CASE RecoveryStep
    BY <1>2, ElsewhereMark
       DEF RecoveryStep, CountUnresolvable, Degrade, GiveUpCounting, Reanchor,
           ReanchorFails, ReanchorCursor, Reactivate, SkipBlock, Recover,
           ScheduleNext, Return, Marking
  <1>3. CASE ActivationStep
    BY <1>3, ElsewhereMark
       DEF ActivationStep, ResolveChain, ReadBoundary, ActivationFails,
           CompleteActivation, ScheduleNext, Return, Marking
  <1>4. CASE RpcFails
    BY <1>4, ElsewhereMark DEF RpcFails, ScheduleNext, Return, Marking
  <1>5. CASE BlockFails
    BY <1>5, ElsewhereMark, RegisterBlockFailureStep DEF BlockFails, Marking
  <1> QED
    BY <1>1, <1>2, <1>3, <1>4, <1>5, ReorgMark DEF Step

LEMMA NextMark == MarkInv /\ [Next]_vars => MarkInv'
  <1> SUFFICES ASSUME MarkInv, [Next]_vars PROVE MarkInv'
    OBVIOUS
  <1> USE DEF registers, undo, queues, storage, d1, subs, plan, held
  <1>1. CASE Step
    BY <1>1, StepMark
  <1>2. CASE OperatorReanchor \/ ApplySubscribe \/ Interrupt
    BY <1>2, ElsewhereMark
       DEF OperatorReanchor, Recover, ApplySubscribe, Interrupt, Return, Marking
  <1>3. CASE \E byAlarm \in BOOLEAN : BeginPass(byAlarm)
    BY <1>3, ElsewhereMark DEF BeginPass, Marking
  <1>4. CASE UNCHANGED <<obs, pc, orphans, wnd, fetched, next>>
    <2>1. Ancestor' = Ancestor
      BY <1>4 DEF Ancestor, Candidate
    <2> QED
      BY <1>4, <2>1 DEF MarkInv, ObservedRows
  <1>5. CASE \/ ChainMoves \/ Subscribe \/ OthersLeave \/ Pause \/ Resume \/ Wake
             \/ Hibernate \/ UNCHANGED vars
    BY <1>4, <1>5
       DEF ChainMoves, Subscribe, OthersLeave, Pause, Resume, Wake, Hibernate, vars
  <1> QED
    BY <1>1, <1>2, <1>3, <1>5 DEF Next, Environment

\* For every chain, and wherever the operation is interrupted: when the reorg branch
\* prunes the window, no row of an orphaned number is `observed` any more.
THEOREM OrphansAreMarked == Spec => []OrphansMarked
  <1>1. MarkInv => OrphansMarked
    BY DEF MarkInv, Marking, OrphansMarked, ObservedRows
  <1> QED
    BY <1>1, InitMark, NextMark, PTL DEF Spec

-----------------------------------------------------------------------------
(* The scanner implements Observations.  Whatever a step does besides, to  *)
(* rows and messages it does one of five things.                           *)

Nothing == UNCHANGED <<obs, matched, reverts>> /\ rows' \subseteq rows

RecordsOne ==
    /\ Inserted
    /\ obs' = [obs EXCEPT ![ThisObs] = StatusOf(ThisObs)]
    /\ UNCHANGED <<matched, reverts>> /\ rows' \subseteq rows

TellsOne ==
    /\ pc = "enqueue"
    /\ matched' = [matched EXCEPT ![ThisObs] = @ + 1]
    /\ UNCHANGED <<obs, reverts>> /\ rows' \subseteq rows

MarksSome ==
    \E n : /\ obs' = [o \in Obs |-> IF o \in ObservedRows(n) THEN "reverted" ELSE obs[o]]
           /\ rows' = rows \cup ObservedRows(n)
           /\ UNCHANGED <<matched, reverts>>

RetellsSome ==
    /\ reverts' = [o \in Obs |-> IF o \in rows THEN reverts[o] + 1 ELSE reverts[o]]
    /\ rows' = {}
    /\ UNCHANGED <<obs, matched>>

Effect == Nothing \/ RecordsOne \/ TellsOne \/ MarksSome \/ RetellsSome

LEMMA ScanEffect ==
    ASSUME ScanStep
    PROVE  Effect
  <1> USE DEF registers, undo, queues, storage, d1, subs, plan, held
  <1>1. CASE UpsertObservation
    <2>1. UNCHANGED <<matched, reverts, rows>>
      BY <1>1 DEF UpsertObservation
    <2> QED
      BY <1>1, <2>1 DEF UpsertObservation, Effect, RecordsOne, Nothing
  <1>2. CASE EnqueueMatched
    BY <1>2 DEF EnqueueMatched, Effect, TellsOne
  <1>3. CASE NothingToScan \/ SaveAnchor \/ Settle \/ Schedule
    <2>1. rows' = {}
      BY <1>3 DEF NothingToScan, SaveAnchor, Settle, Schedule, ScheduleNext, Return, Cleared
    <2> QED
      BY <1>3, <2>1 DEF NothingToScan, SaveAnchor, Settle, Schedule, Effect, Nothing
  <1>4. CASE \/ ReadHead \/ AnchorAtHead \/ PlanPass \/ FetchRange \/ ReadReceipts
             \/ FlushCursor \/ SavePass
    BY <1>4 DEF ReadHead, AnchorAtHead, PlanPass, FetchRange, ReadReceipts, FlushCursor,
                SavePass, Effect, Nothing
  <1> QED
    BY <1>1, <1>2, <1>3, <1>4 DEF ScanStep

LEMMA ReorgEffect ==
    ASSUME ReorgStep
    PROVE  Effect
  <1> USE DEF registers, undo, queues, storage, d1, subs, plan, held
  <1>1. CASE StartReorg \/ PruneWindow \/ RewindCursor
    BY <1>1 DEF StartReorg, PruneWindow, RewindCursor, Effect, Nothing
  <1>2. CASE MarkReverted
    BY <1>2 DEF MarkReverted, Listed, Effect, MarksSome
  <1>3. CASE NotifyReverted
    BY <1>3 DEF NotifyReverted, Effect, RetellsSome
  <1> QED
    BY <1>1, <1>2, <1>3 DEF ReorgStep

LEMMA RecoveryEffect ==
    ASSUME RecoveryStep
    PROVE  Effect
  <1> USE DEF registers, undo, queues, storage, d1, subs, plan, held
  <1>1. CASE Degrade \/ ReanchorFails \/ Reactivate
    <2>1. rows' = {}
      BY <1>1 DEF Degrade, ReanchorFails, Reactivate, ScheduleNext, Return, Cleared
    <2> QED
      BY <1>1, <2>1 DEF Degrade, ReanchorFails, Reactivate, Effect, Nothing
  <1>2. CASE \/ CountUnresolvable \/ GiveUpCounting \/ Reanchor \/ ReanchorCursor
             \/ SkipBlock
    BY <1>2 DEF CountUnresolvable, GiveUpCounting, Reanchor, ReanchorCursor, SkipBlock,
                Effect, Nothing
  <1> QED
    BY <1>1, <1>2 DEF RecoveryStep

LEMMA ActivationEffect ==
    ASSUME ActivationStep \/ ApplySubscribe
    PROVE  Effect
  <1> USE DEF registers, undo, queues, storage, d1, subs, plan, held
  <1>1. CASE ActivationFails \/ CompleteActivation
    <2>1. rows' = {}
      BY <1>1 DEF ActivationFails, CompleteActivation, ScheduleNext, Return, Cleared
    <2> QED
      BY <1>1, <2>1 DEF ActivationFails, CompleteActivation, Effect, Nothing
  <1>2. CASE ApplySubscribe \/ ResolveChain \/ ReadBoundary
    BY <1>2 DEF ApplySubscribe, ResolveChain, ReadBoundary, Effect, Nothing
  <1> QED
    BY <1>1, <1>2 DEF ActivationStep

\* A write that fails took effect as if it had not, or not at all.
LEMMA FailureEffect ==
    ASSUME RpcFails \/ BlockFails
    PROVE  Effect
  <1> USE DEF registers, undo, queues, storage, d1, subs, plan, held
  <1>1. CASE RpcFails
    <2>1. rows' = {}
      BY <1>1 DEF RpcFails, ScheduleNext, Cleared
    <2> QED
      BY <1>1, <2>1 DEF RpcFails, Effect, Nothing
  <1>2. CASE BlockFails
    <2>1. rows' = {} /\ UNCHANGED reverts
      BY <1>2, RegisterBlockFailureStep DEF BlockFails
    <2>2. \/ UNCHANGED <<obs, matched>>
          \/ /\ Inserted /\ UNCHANGED matched
             /\ obs' = [obs EXCEPT ![ThisObs] = StatusOf(ThisObs)]
          \/ /\ pc = "enqueue" /\ UNCHANGED obs
             /\ matched' = [matched EXCEPT ![ThisObs] = @ + 1]
      BY <1>2 DEF BlockFails
    <2> QED
      BY <2>1, <2>2 DEF Effect, Nothing, RecordsOne, TellsOne
  <1> QED
    BY <1>1, <1>2

LEMMA NextEffect ==
    ASSUME [Next]_vars
    PROVE  Effect
  <1> USE DEF registers, undo, queues, storage, d1, subs, plan, held
  <1>1. CASE \E byAlarm \in BOOLEAN : BeginPass(byAlarm)
    BY <1>1 DEF BeginPass, Effect, Nothing
  <1>2. CASE OperatorReanchor
    BY <1>2 DEF OperatorReanchor, Effect, Nothing
  <1>3. CASE Step
    BY <1>3, ScanEffect, ReorgEffect, RecoveryEffect, ActivationEffect, FailureEffect DEF Step
  <1>4. CASE Interrupt
    BY <1>4 DEF Interrupt, Return, Cleared, Effect, Nothing
  <1>5. CASE \/ ChainMoves \/ Subscribe \/ OthersLeave \/ Pause \/ Resume \/ Wake
             \/ Hibernate
    BY <1>5 DEF ChainMoves, Subscribe, OthersLeave, Pause, Resume, Wake, Hibernate,
                Effect, Nothing
  <1>6. CASE UNCHANGED vars
    BY <1>6 DEF vars, Effect, Nothing
  <1> QED
    BY <1>1, <1>2, <1>3, <1>4, <1>5, <1>6, ActivationEffect DEF Next, Environment

\* The observation of a failed transaction is never listed as orphaned, because its
\* row is never `observed`.
FailedInv == \A o \in Failed : obs[o] # "observed" /\ o \notin rows /\ reverts[o] = 0

LEMMA InitFailed == Init => FailedInv
  BY ScannerAssumption DEF Init, FailedInv

LEMMA NextFailed == MsgInv /\ FailedInv /\ [Next]_vars => FailedInv'
  <1> SUFFICES ASSUME MsgInv, FailedInv, Effect PROVE FailedInv'
    BY NextEffect
  <1>0. Failed \subseteq Obs /\ DOMAIN obs = Obs
    BY ScannerAssumption DEF MsgInv, ObsInv
  <1>1. CASE Nothing \/ TellsOne
    BY <1>1 DEF Nothing, TellsOne, FailedInv
  <1>2. CASE RecordsOne
    <2>1. \A o \in Failed : obs'[o] # "observed"
      BY <1>0, <1>2 DEF RecordsOne, StatusOf, FailedInv
    <2> QED
      BY <1>2, <2>1 DEF RecordsOne, FailedInv
  <1>3. CASE MarksSome
    <2>1. PICK n : /\ obs' = [o \in Obs |-> IF o \in ObservedRows(n) THEN "reverted"
                                            ELSE obs[o]]
                   /\ rows' = rows \cup ObservedRows(n)
                   /\ UNCHANGED <<matched, reverts>>
      BY <1>3 DEF MarksSome
    <2>2. \A o \in Failed : o \notin ObservedRows(n)
      BY DEF ObservedRows, FailedInv
    <2> QED
      BY <1>0, <2>1, <2>2 DEF FailedInv
  <1>4. CASE RetellsSome
    BY <1>0, <1>4 DEF RetellsSome, FailedInv
  <1> QED
    BY <1>1, <1>2, <1>3, <1>4 DEF Effect

\* Each of the five things is a step of Observations, or nothing there.
LEMMA EffectRefines ==
    ASSUME MsgInv, FailedInv, Effect
    PROVE  Promised!Next \/ UNCHANGED Promised!vars
  <1> DEFINE Goal == Promised!Next \/ UNCHANGED Promised!vars
  <1>0. /\ Failed \subseteq Obs
        /\ obs \in [Obs -> {"absent", "observed", "reverted"}]
        /\ matched \in [Obs -> Nat] /\ reverts \in [Obs -> Nat]
    BY ScannerAssumption DEF MsgInv, ObsInv
  <1>r. \A o \in Obs : Row[o] = IF o \in Failed /\ obs[o] = "reverted" THEN "failed" ELSE obs[o]
    BY DEF Row
  <1>1. ASSUME UNCHANGED <<obs, matched, reverts>> PROVE Goal
    BY <1>1 DEF Promised!vars, Row
  <1>2. CASE Nothing
    BY <1>1, <1>2 DEF Nothing
  <1>3. CASE RecordsOne
    <2> DEFINE o == ThisObs
    <2>1. /\ obs' = [obs EXCEPT ![o] = StatusOf(o)]
          /\ obs[o] = "absent" /\ UNCHANGED <<matched, reverts>>
      BY <1>3 DEF RecordsOne, Inserted
    <2> HIDE DEF o
    <2>2. CASE o \notin Obs
      <3>1. obs' = obs
        BY <1>0, <2>1, <2>2
      <3> QED
        BY <1>1, <2>1, <3>1
    <2>3. CASE o \in Obs
      <3>1. \A x \in Obs : obs'[x] = IF x = o THEN StatusOf(o) ELSE obs[x]
        BY <1>0, <2>1
      <3>2. Row' = [Row EXCEPT ![o] = IF o \in Failed THEN "failed" ELSE "observed"]
        <4> DEFINE new == [Row EXCEPT ![o] = IF o \in Failed THEN "failed" ELSE "observed"]
        <4>1. \A x \in Obs : Row'[x] = new[x]
          BY <1>r, <3>1 DEF Row, StatusOf
        <4> QED
          BY <4>1 DEF Row
      <3>3. Row[o] = "absent"
        BY <1>r, <2>1, <2>3
      <3>4. Promised!Record(o)
        BY <2>1, <3>2, <3>3 DEF Promised!Record
      <3> QED
        BY <2>3, <3>4 DEF Promised!Next
    <2> QED
      BY <2>2, <2>3
  <1>4. CASE TellsOne
    <2> DEFINE o == ThisObs
    <2>1. /\ matched' = [matched EXCEPT ![o] = matched[o] + 1]
          /\ UNCHANGED <<obs, reverts>>
          /\ o \in Obs => matched[o] = 0 /\ obs[o] # "absent"
      BY <1>4 DEF TellsOne, MsgInv, EnqueueInv
    <2> HIDE DEF o
    <2>2. CASE o \notin Obs
      <3>1. matched' = matched
        BY <1>0, <2>1, <2>2
      <3> QED
        BY <1>1, <2>1, <3>1
    <2>3. CASE o \in Obs
      <3>1. matched' = [matched EXCEPT ![o] = 1]
        <4>1. matched[o] + 1 = 1
          BY <2>1, <2>3
        <4> QED
          BY <2>1, <4>1
      <3>2. Row[o] # "absent" /\ UNCHANGED Row
        BY <1>r, <2>1, <2>3 DEF Row
      <3>3. Promised!Tell(o)
        BY <2>1, <2>3, <3>1, <3>2 DEF Promised!Tell
      <3> QED
        BY <2>3, <3>3 DEF Promised!Next
    <2> QED
      BY <2>2, <2>3
  <1>5. CASE MarksSome
    <2>1. PICK n : /\ obs' = [o \in Obs |-> IF o \in ObservedRows(n) THEN "reverted"
                                            ELSE obs[o]]
                   /\ UNCHANGED <<matched, reverts>>
      BY <1>5 DEF MarksSome
    <2> DEFINE S == ObservedRows(n)
    <2>2. S \in SUBSET Obs /\ \A o \in S : obs[o] = "observed" /\ o \notin Failed
      BY DEF ObservedRows, FailedInv
    <2>3. \A o \in Obs : obs'[o] = IF o \in S THEN "reverted" ELSE obs[o]
      BY <2>1
    <2> HIDE DEF S
    <2>4. \A o \in Obs : Row'[o] = IF o \in S THEN "reverted" ELSE Row[o]
      BY <1>r, <2>2, <2>3 DEF Row
    <2>5. Row' = [o \in Obs |-> IF o \in S THEN "reverted" ELSE Row[o]]
      BY <2>4 DEF Row
    <2>6. Promised!Revert(S)
      BY <1>r, <2>1, <2>2, <2>5 DEF Promised!Revert
    <2> QED
      BY <2>2, <2>6 DEF Promised!Next
  <1>6. CASE RetellsSome
    <2>1. rows \in SUBSET Obs /\ \A o \in rows : obs[o] = "reverted" /\ reverts[o] = 0
      BY DEF MsgInv, RowsInv
    <2>2. \A o \in rows : o \notin Failed
      BY DEF FailedInv
    <2>3. reverts' = [o \in Obs |-> IF o \in rows THEN 1 ELSE reverts[o]]
      BY <1>6, <2>1 DEF RetellsSome
    <2>4. UNCHANGED <<Row, matched>>
      BY <1>6 DEF RetellsSome, Row
    <2>5. \A o \in rows : Row[o] = "reverted"
      BY <1>r, <2>1, <2>2
    <2>6. Promised!Retell(rows)
      BY <2>1, <2>3, <2>4, <2>5 DEF Promised!Retell
    <2> QED
      BY <2>1, <2>6 DEF Promised!Next
  <1> QED
    BY <1>2, <1>3, <1>4, <1>5, <1>6 DEF Effect

\* The scanner implements Observations, for every chain and whatever fails: what
\* consumers hear of an observation is that it was made, at most once, and that it is
\* reverted, at most once and only if it was on an orphaned block (ScannerShard.ts:595,
\* repository.ts:1333).
THEOREM ScannerImplements == Spec => KeepsPromise
  <1>1. Init => Promised!Init
    BY DEF Init, Row, Promised!Init
  <1>2. MsgInv /\ FailedInv /\ [Next]_vars => [Promised!Next]_(Promised!vars)
    BY EffectRefines, NextEffect
  <1> QED
    BY <1>1, <1>2, InitMsg, NextMsg, InitFailed, NextFailed, PTL
       DEF Spec, KeepsPromise, Promised!Spec
=============================================================================
