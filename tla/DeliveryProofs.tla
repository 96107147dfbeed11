--------------------------- MODULE DeliveryProofs ---------------------------
(***************************************************************************)
(* Theorems about the delivery pipeline, for any webhooks, observations,   *)
(* consumers and answers, and every value of the limits.                   *)
(***************************************************************************)
EXTENDS DeliveryProperties, TLAPS

-----------------------------------------------------------------------------
(* Types.  A consumer that works on a message works on one of its batch.   *)

Busy(c) == cpc[c] \notin {"idle", "next"}

WorkInv ==
    \A c \in Consumer :
        /\ todo[c] \subseteq batch[c]
        /\ Busy(c) => cur[c] \in todo[c]

TInv == TypeOK /\ WorkInv

LEMMA TypesInit == Init => TInv
  <1> SUFFICES ASSUME Init PROVE TInv
    OBVIOUS
  <1> USE DEF Init
  <1>1. TablesOK
    BY DEF TablesOK, NoRow, Row
  <1>2. FanOutOK
    BY DEF FanOutOK
  <1>3. QueuesOK
    BY DEF QueuesOK
  <1>4. ConsumersOK
    BY DEF ConsumersOK
  <1>5. HistoryOK
    BY DEF HistoryOK
  <1>6. WorkInv
    BY DEF WorkInv, Busy
  <1> QED
    BY <1>1, <1>2, <1>3, <1>4, <1>5, <1>6 DEF TInv, TypeOK

\* The consumer c moves: what that leaves of its own variables and the others'.
LEMMA AckEnds ==
    ASSUME TInv, NEW c \in Consumer, BatchEnds(c)
    PROVE  ConsumersOK' /\ WorkInv'
  <1> QED
    BY DEF TInv, TypeOK, ConsumersOK, WorkInv, Busy, BatchEnds, GoTo

LEMMA ThrowTypes ==
    ASSUME TInv, NEW c \in Consumer, Throw(c)
    PROVE  /\ ConsumersOK' /\ WorkInv'
           /\ deliveryQ' \subseteq Message /\ dlq' \subseteq Message
  <1>1. batch[c] \subseteq Message
    BY DEF TInv, TypeOK, ConsumersOK
  <1>2. \A m \in Message : [m EXCEPT !.tries = @ + 1] \in Message
    BY DEF Message
  <1>3. Redelivered(batch[c]) \subseteq Message /\ Exhausted(batch[c]) \subseteq Message
    BY <1>1, <1>2 DEF Redelivered, Exhausted
  <1>4. deliveryQ' \subseteq Message /\ dlq' \subseteq Message
    BY <1>3 DEF TInv, TypeOK, QueuesOK, Throw
  <1> QED
    BY <1>4, AckEnds DEF Throw

LEMMA DoneTypes ==
    ASSUME TInv, NEW c \in Consumer, MessageDone(c),
           UNCHANGED <<batch, cur, rowId, answer>>
    PROVE  ConsumersOK' /\ WorkInv'
  <1> QED
    BY DEF TInv, TypeOK, ConsumersOK, WorkInv, Busy, MessageDone, GoTo

LEMMA RowTypes ==
    ASSUME TInv, NEW m \in Message, NEW i \in Nat,
           NEW s \in {"pending", "success", "failed", "dead_lettered"}
    PROVE  /\ InsertRow(m, s) => ledger' \in [Dest -> Row]
           /\ UpdateRow(m.dest, i, s) => ledger' \in [Dest -> Row]
  <1> USE DEF TInv, TypeOK, TablesOK
  <1>1. m.dest \in Dest /\ m.id \in Nat
    BY DEF Message
  <1>2. [status |-> s, id |-> m.id] \in Row
    BY <1>1 DEF Row
  <1>3. [ledger[m.dest] EXCEPT !.status = s] \in Row
    BY <1>1 DEF Row
  <1> QED
    BY <1>1, <1>2, <1>3 DEF InsertRow, UpdateRow

LEMMA CurMessage ==
    ASSUME TInv, NEW c \in Consumer, Busy(c)
    PROVE  cur[c] \in Message /\ cur[c].dest \in Dest /\ cur[c].id \in Nat
  <1>1. cur[c] \in Message
    BY DEF TInv, TypeOK, ConsumersOK, WorkInv
  <1> QED
    BY <1>1 DEF Message

-----------------------------------------------------------------------------

LEMMA FanOutTypes ==
    ASSUME TInv, FanOut \/ FanOutFails \/ (\E o \in Observation : EnqueueMatched(o))
    PROVE  TInv'
  <1> USE DEF TInv, TypeOK
  <1>0. /\ \A m \in Matched : [m EXCEPT !.tries = @ + 1] \in Matched
        /\ \A m \in Matched : m.obs \in Observation
    BY DEF Matched
  <1>1. ASSUME NEW b, b \subseteq Matched, RetryMatched(b)
        PROVE  matchedQ' \subseteq Matched /\ dropped' \subseteq Observation
    BY <1>0, <1>1 DEF RetryMatched, FanOutOK
  <1>2. ASSUME NEW o \in Observation, EnqueueMatched(o)
        PROVE  TInv'
    <2>1. [obs |-> o, tries |-> 0] \in Matched
      BY DEF Matched
    <2>2. TablesOK' /\ FanOutOK'
      BY <1>2, <2>1 DEF EnqueueMatched, TablesOK, FanOutOK, fan
    <2> QED
      BY <1>2, <2>2 DEF EnqueueMatched, QueuesOK, ConsumersOK, HistoryOK, WorkInv, Busy,
           consumers, replay, attempts, bounds
  <1>3. CASE TakeMatched
    BY <1>3 DEF TakeMatched, TablesOK, FanOutOK, QueuesOK, ConsumersOK, HistoryOK, WorkInv,
         Busy, rows, consumers, replay, attempts, bounds
  <1>4. CASE PlanFanOut
    <2>1. ASSUME NEW o \in Observation, NEW n \in Nat
          PROVE  Plan(o, n) \subseteq Message
      BY DEF TablesOK, Plan, Eligible, Message, Dest
    <2>2. FanOutOK'
      BY <1>0, <1>4, <2>1 DEF PlanFanOut, FanOutOK
    <2> QED
      BY <1>4, <2>2 DEF PlanFanOut, TablesOK, QueuesOK, ConsumersOK, HistoryOK, WorkInv,
           Busy, rows, consumers, replay, attempts, bounds
  <1>5. CASE SendPlanned
    <2>1. \A m \in Message : m.dest \in Dest
      BY DEF Message
    <2>2. FanOutOK' /\ QueuesOK'
      BY <1>5, <2>1 DEF SendPlanned, FanOutOK, QueuesOK, replay
    <2> QED
      BY <1>5, <2>2 DEF SendPlanned, TablesOK, ConsumersOK, HistoryOK, WorkInv, Busy, rows,
           consumers, attempts, bounds
  <1>6. CASE AckMatched
    <2>1. FanOutOK'
      BY <1>1, <1>6 DEF AckMatched, FanOutEnds, FanOutOK
    <2> QED
      BY <1>6, <2>1 DEF AckMatched, TablesOK, QueuesOK, ConsumersOK, HistoryOK, WorkInv,
           Busy, rows, consumers, replay, attempts, bounds
  <1>7. CASE FanOutFails
    <2>1. FanOutOK'
      BY <1>1, <1>7 DEF FanOutFails, FanOutEnds, FanOutOK
    <2>2. HistoryOK'
      BY <1>7 DEF FanOutFails, Fault, HistoryOK, attempts
    <2> QED
      BY <1>7, <2>1, <2>2 DEF FanOutFails, TablesOK, QueuesOK, ConsumersOK, WorkInv, Busy,
           rows, consumers, replay
  <1> QED
    BY <1>2, <1>3, <1>4, <1>5, <1>6, <1>7 DEF FanOut

LEMMA ConsumerTypes ==
    ASSUME TInv, NEW c \in Consumer, Deliver(c) \/ ConsumerFails(c)
    PROVE  TInv'
  <1> USE DEF TInv, TypeOK
  <1>1. CASE TakeBatch(c)
    <2>1. ConsumersOK' /\ WorkInv' /\ QueuesOK'
      BY <1>1 DEF TakeBatch, At, GoTo, ConsumersOK, WorkInv, Busy, QueuesOK, replay
    <2> QED
      BY <1>1, <2>1 DEF TakeBatch, TablesOK, FanOutOK, HistoryOK, rows, fan, attempts,
           matching, bounds
  <1>2. CASE NextMessage(c)
    <2>1. ConsumersOK' /\ WorkInv'
      BY <1>2 DEF NextMessage, At, GoTo, ConsumersOK, WorkInv, Busy
    <2> QED
      BY <1>2, <2>1 DEF NextMessage, TablesOK, FanOutOK, QueuesOK, HistoryOK, rows, fan,
           replay, attempts, matching, bounds
  <1>3. CASE ReadWebhook(c)
    <2>1. ConsumersOK' /\ WorkInv'
      BY <1>3 DEF ReadWebhook, At, GoTo, ConsumersOK, WorkInv, Busy
    <2> QED
      BY <1>3, <2>1 DEF ReadWebhook, TablesOK, FanOutOK, QueuesOK, HistoryOK, rows, fan,
           replay, attempts, matching, bounds
  <1>4. CASE ReadExisting(c)
    <2>1. cur[c].dest \in Dest /\ cur[c].id \in Nat
      BY <1>4, CurMessage DEF ReadExisting, Busy
    <2>2. ledger[cur[c].dest].id \in Nat
      BY <2>1 DEF TablesOK, Row
    <2>3. ConsumersOK' /\ WorkInv'
      BY <1>4, <2>1, <2>2 DEF ReadExisting, At, GoTo, ConsumersOK, WorkInv, Busy
    <2> QED
      BY <1>4, <2>3 DEF ReadExisting, TablesOK, FanOutOK, QueuesOK, HistoryOK, rows, fan,
           replay, attempts, matching, bounds
  <1>5. CASE InsertPending(c)
    <2>1. cur[c] \in Message
      BY <1>5, CurMessage DEF InsertPending, At, Busy
    <2>2. TablesOK'
      BY <1>5, <2>1, RowTypes DEF InsertPending, TablesOK
    <2>3. ConsumersOK' /\ WorkInv'
      BY <1>5 DEF InsertPending, At, GoTo, ConsumersOK, WorkInv, Busy
    <2> QED
      BY <1>5, <2>2, <2>3 DEF InsertPending, FanOutOK, QueuesOK, HistoryOK, fan, replay,
           attempts, matching, bounds
  <1>6. CASE Post(c)
    <2>1. cur[c] \in Message /\ cur[c].dest \in Dest
      BY <1>6, CurMessage DEF Post, At, Busy
    <2>3. HistoryOK'
      BY <1>6, <2>1 DEF Post, HistoryOK, bounds
    <2>4. ConsumersOK' /\ WorkInv'
      BY <1>6, DeliveryAssumption DEF Post, At, GoTo, ConsumersOK, WorkInv, Busy
    <2> QED
      BY <1>6, <2>3, <2>4 DEF Post, TablesOK, FanOutOK, QueuesOK, rows, fan, replay, matching
  <1>7. CASE Record(c)
    <2> DEFINE s == StatusFor(ClassifyDelivery(Attempt(answer[c])))
    <2>1. cur[c] \in Message /\ rowId[c] \in Nat
      BY <1>7, CurMessage DEF Record, At, Busy, ConsumersOK
    <2>2. s \in {"pending", "success", "dead_lettered"}
      BY DEF StatusFor, ClassifyDelivery
    <2>3. TablesOK'
      <3>1. UpdateRow(cur[c].dest, rowId[c], s)
        BY <1>7 DEF Record
      <3> HIDE DEF s
      <3> QED
        BY <1>7, <2>1, <2>2, <3>1, RowTypes DEF Record, TablesOK
    <2>4. ConsumersOK' /\ WorkInv' /\ QueuesOK'
      BY <1>7, DoneTypes, ThrowTypes
         DEF Record, Acknowledge, Rethrow, Throw, QueuesOK, replay
    <2> QED
      BY <1>7, <2>3, <2>4 DEF Record, FanOutOK, HistoryOK, fan, attempts, matching, bounds
  <1>8. CASE RecordInactive(c)
    <2>1. cur[c] \in Message /\ rowId[c] \in Nat
      BY <1>8, CurMessage DEF RecordInactive, At, Busy, ConsumersOK
    <2>2. TablesOK'
      BY <1>8, <2>1, RowTypes DEF RecordInactive, TablesOK
    <2>3. ConsumersOK' /\ WorkInv'
      BY <1>8, DoneTypes DEF RecordInactive
    <2> QED
      BY <1>8, <2>2, <2>3 DEF RecordInactive, FanOutOK, QueuesOK, HistoryOK, fan, replay,
           attempts, matching, bounds
  <1>9. CASE AckBatch(c)
    <2>1. ConsumersOK' /\ WorkInv'
      BY <1>9, AckEnds DEF AckBatch
    <2> QED
      BY <1>9, <2>1 DEF AckBatch, TablesOK, FanOutOK, QueuesOK, HistoryOK, rows, fan, replay,
           attempts, matching, bounds
  <1>10. CASE ConsumerFails(c)
    <2>1. ConsumersOK' /\ WorkInv' /\ QueuesOK'
      BY <1>10, ThrowTypes DEF ConsumerFails, Throw, QueuesOK, replay
    <2>2. HistoryOK'
      BY <1>10 DEF ConsumerFails, Fault, HistoryOK, attempts
    <2> QED
      BY <1>10, <2>1, <2>2 DEF ConsumerFails, TablesOK, FanOutOK, rows, fan, matching
  <1> QED
    BY <1>1, <1>2, <1>3, <1>4, <1>5, <1>6, <1>7, <1>8, <1>9, <1>10 DEF Deliver

LEMMA ReplayTypes ==
    ASSUME TInv, NEW r \in Replayer, ListDeadLetters(r) \/ Replay(r) \/ ReplayFails(r)
    PROVE  TInv'
  <1> USE DEF TInv, TypeOK
  <1>1. CASE ListDeadLetters(r)
    <2>1. QueuesOK' /\ HistoryOK'
      BY <1>1 DEF ListDeadLetters, QueuesOK, HistoryOK, attempts
    <2> QED
      BY <1>1, <2>1 DEF ListDeadLetters, TablesOK, FanOutOK, ConsumersOK, WorkInv, Busy, rows,
           fan, consumers, matching
  <1>2. CASE Reopen(r)
    <2>1. \A d \in Dest : Replayed(r, d) \subseteq Message
      BY DEF TablesOK, QueuesOK, Replayed, Message, Row
    <2>2. QueuesOK'
      BY <1>2, <2>1 DEF Reopen, QueuesOK
    <2>3. \A d \in Dest : [ledger[d] EXCEPT !.status = "pending"] \in Row
      BY DEF TablesOK, Row
    <2>4. TablesOK'
      BY <1>2, <2>3 DEF Reopen, TablesOK, QueuesOK
    <2> QED
      BY <1>2, <2>2, <2>4 DEF Reopen, FanOutOK, ConsumersOK, HistoryOK, WorkInv, Busy, fan,
           consumers, attempts, matching, bounds
  <1>3. CASE SendReplayed(r)
    <2>1. QueuesOK'
      BY <1>3 DEF SendReplayed, ReplayEnds, QueuesOK
    <2> QED
      BY <1>3, <2>1 DEF SendReplayed, TablesOK, FanOutOK, ConsumersOK, HistoryOK, WorkInv,
           Busy, rows, fan, consumers, attempts, matching, bounds
  <1>4. CASE ReplayFails(r)
    <2>1. \A m \in Message : m.dest \in Dest
      BY DEF Message
    <2>2. QueuesOK' /\ HistoryOK'
      BY <1>4, <2>1 DEF ReplayFails, ReplayEnds, Fault, QueuesOK, HistoryOK, attempts
    <2> QED
      BY <1>4, <2>2 DEF ReplayFails, TablesOK, FanOutOK, ConsumersOK, WorkInv, Busy, rows,
           fan, consumers, matching
  <1> QED
    BY <1>1, <1>2, <1>3, <1>4 DEF Replay

LEMMA DeletionTypes ==
    ASSUME TInv,
           \/ \E o \in Observation : Expire(o)
           \/ \E w \in Webhook : Unsubscribe(w) \/ DeleteWebhook(w)
    PROVE  TInv'
  <1> USE DEF TInv, TypeOK
  <1>1. TablesOK' /\ HistoryOK'
    BY DEF Expire, Unsubscribe, DeleteWebhook, Op, TablesOK, HistoryOK, attempts
  <1> QED
    BY <1>1 DEF Expire, Unsubscribe, DeleteWebhook, FanOutOK, QueuesOK, ConsumersOK, WorkInv,
         Busy, fan, consumers, replay, matching

LEMMA TypesStep == TInv /\ [Next]_vars => TInv'
  <1>1. CASE UNCHANGED vars
    BY <1>1 DEF vars, TInv, TypeOK, TablesOK, FanOutOK, QueuesOK, ConsumersOK, HistoryOK,
         WorkInv, Busy, rows, fan, consumers, replay, attempts, matching, bounds
  <1> QED
    BY <1>1, FanOutTypes, ConsumerTypes, ReplayTypes, DeletionTypes DEF Next

\* Every variable of the pipeline keeps its kind of value: the ledger, the two
\* queues and what each invocation of a consumer holds between two awaits.
THEOREM TypeCorrect == Spec => []TypeOK
  <1>1. Spec => []TInv
    BY TypesInit, TypesStep, PTL DEF Spec
  <1>2. TInv => TypeOK
    BY DEF TInv
  <1> QED
    BY <1>1, <1>2, PTL

-----------------------------------------------------------------------------
(* The ledger is true.  What a consumer is about to record must be true    *)
(* when it records it.                                                     *)

RecordInv ==
    \A c \in Consumer :
        /\ cpc[c] = "record" /\ answer[c] = "ok" => oks[cur[c].dest] > 0
        /\ cpc[c] = "record" /\ answer[c] = "refused" => cur[c].dest \in refused
        /\ cpc[c] \in {"inactive", "insertFailed", "updateFailed"}
             => cur[c].dest[1] \notin webhooks

LedgerInv == LedgerTruthful /\ RecordInv

LEMMA LedgerInit == Init => LedgerInv
  <1> QED
    BY DEF Init, LedgerInv, LedgerTruthful, RecordInv, NoRow

\* What only takes webhooks away disturbs nothing.
LEMMA LedgerQuiet ==
    ASSUME LedgerInv, UNCHANGED <<ledger, oks, refused, cpc, cur, answer>>,
           webhooks' \subseteq webhooks
    PROVE  LedgerInv'
  <1> QED
    BY DEF LedgerInv, LedgerTruthful, RecordInv

\* A consumer that does not get to a verdict disturbs nothing.
LEMMA LedgerMoves ==
    ASSUME TInv, LedgerInv, NEW c \in Consumer,
           UNCHANGED <<ledger, oks, refused, webhooks>>,
           \A e \in Consumer \ {c} : /\ cpc'[e] = cpc[e] /\ cur'[e] = cur[e]
                                     /\ answer'[e] = answer[e],
           cpc'[c] \notin {"record", "inactive", "insertFailed", "updateFailed"}
    PROVE  LedgerInv'
  <1> QED
    BY DEF LedgerInv, LedgerTruthful, RecordInv

LEMMA EndsOthers ==
    ASSUME TInv, NEW c \in Consumer, BatchEnds(c)
    PROVE  /\ cpc'[c] = "idle"
           /\ \A e \in Consumer \ {c} : /\ cpc'[e] = cpc[e] /\ cur'[e] = cur[e]
                                         /\ answer'[e] = answer[e]
  <1> QED
    BY DEF TInv, TypeOK, ConsumersOK, BatchEnds, GoTo

\* A row is written with a true status.
LEMMA LedgerWrites ==
    ASSUME TInv, LedgerInv, NEW m \in Message, NEW i \in Nat,
           NEW s \in {"pending", "success", "failed", "dead_lettered"},
           s = "success" => oks[m.dest] > 0,
           s = "dead_lettered" => m.dest \in refused,
           s = "failed" => m.dest[1] \notin webhooks,
           InsertRow(m, s) \/ UpdateRow(m.dest, i, s),
           UNCHANGED <<oks, refused, webhooks>>
    PROVE  LedgerTruthful'
  <1>1. m.dest \in Dest
    BY DEF Message
  <1>2. ledger \in [Dest -> Row]
    BY DEF TInv, TypeOK, TablesOK
  <1>3. [ledger[m.dest] EXCEPT !.status = s].status = s
    BY <1>1, <1>2 DEF Row
  <1>4. \A d \in Dest : \/ ledger'[d].status = ledger[d].status
                        \/ d = m.dest /\ ledger'[d].status = s
    <2>1. CASE InsertRow(m, s)
      BY <1>1, <1>2, <2>1 DEF InsertRow
    <2>2. CASE UpdateRow(m.dest, i, s)
      BY <1>1, <1>2, <1>3, <2>2 DEF UpdateRow
    <2> QED
      BY <2>1, <2>2
  <1> QED
    BY <1>4 DEF LedgerInv, LedgerTruthful

LEMMA LedgerConsumer ==
    ASSUME TInv, LedgerInv, NEW c \in Consumer, Deliver(c) \/ ConsumerFails(c)
    PROVE  LedgerInv'
  <1> USE DEF TInv, TypeOK, ConsumersOK
  <1>1. CASE TakeBatch(c) \/ NextMessage(c)
    BY <1>1, LedgerMoves DEF TakeBatch, NextMessage, GoTo, rows, attempts, At
  <1>2. CASE ReadWebhook(c)
    BY <1>2 DEF ReadWebhook, GoTo, At, rows, attempts, LedgerInv, LedgerTruthful, RecordInv
  <1>3. CASE ReadExisting(c)
    BY <1>3 DEF ReadExisting, GoTo, rows, attempts, LedgerInv, LedgerTruthful, RecordInv
  <1>4. CASE InsertPending(c)
    <2>1. cur[c] \in Message
      BY <1>4, CurMessage DEF InsertPending, At, Busy
    <2>2. LedgerTruthful'
      BY <1>4, <2>1, LedgerWrites DEF InsertPending, attempts
    <2>3. RecordInv'
      BY <1>4 DEF InsertPending, GoTo, attempts, LedgerInv, RecordInv
    <2> QED
      BY <2>2, <2>3 DEF LedgerInv
  <1>5. CASE Post(c)
    <2>1. cur[c].dest \in Dest
      BY <1>5, CurMessage DEF Post, At, Busy
    <2>2. /\ oks' \in [Dest -> Nat] /\ refused \subseteq refused'
          /\ \A d \in Dest : oks'[d] >= oks[d]
          /\ answer'[c] = "ok" => oks'[cur[c].dest] > 0
          /\ answer'[c] = "refused" => cur[c].dest \in refused'
      BY <1>5, <2>1 DEF Post, HistoryOK
    <2>3. LedgerTruthful'
      BY <1>5, <2>2 DEF Post, rows, LedgerInv, LedgerTruthful, HistoryOK
    <2>4. \A e \in Consumer \ {c} :
             cpc[e] = "record" => cur[e].dest \in Dest
      BY CurMessage DEF Busy
    <2>5. RecordInv'
      BY <1>5, <2>2, <2>4 DEF Post, GoTo, At, rows, LedgerInv, RecordInv, HistoryOK
    <2> QED
      BY <2>3, <2>5 DEF LedgerInv
  <1>6. CASE Record(c)
    <2> DEFINE s == StatusFor(ClassifyDelivery(Attempt(answer[c])))
    <2>1. cur[c] \in Message /\ rowId[c] \in Nat /\ cpc[c] = "record"
      BY <1>6, CurMessage DEF Record, At, Busy
    <2>2. /\ s \in {"pending", "success", "dead_lettered"}
          /\ s = "success" => answer[c] = "ok"
          /\ s = "dead_lettered" => answer[c] = "refused"
      BY DEF StatusFor, ClassifyDelivery, Attempt
    <2>3. LedgerTruthful'
      <3>1. UpdateRow(cur[c].dest, rowId[c], s)
        BY <1>6 DEF Record
      <3>2. UNCHANGED <<oks, refused, webhooks>>
        BY <1>6 DEF Record, attempts
      <3>3. /\ s = "success" => oks[cur[c].dest] > 0
            /\ s = "dead_lettered" => cur[c].dest \in refused
        BY <2>1, <2>2 DEF LedgerInv, RecordInv
      <3> HIDE DEF s
      <3> QED
        BY <2>1, <2>2, <3>1, <3>2, <3>3, LedgerWrites
    <2>4. RecordInv'
      <3>1. cpc'[c] \in {"idle", "next"}
        BY <1>6 DEF Record, Acknowledge, Rethrow, Throw, BatchEnds, MessageDone, GoTo
      <3>2. \A e \in Consumer \ {c} : /\ cpc'[e] = cpc[e] /\ cur'[e] = cur[e]
                                      /\ answer'[e] = answer[e]
        BY <1>6 DEF Record, Acknowledge, Rethrow, Throw, BatchEnds, MessageDone, GoTo
      <3> QED
        BY <1>6, <3>1, <3>2 DEF Record, attempts, LedgerInv, RecordInv
    <2> QED
      BY <2>3, <2>4 DEF LedgerInv
  <1>7. CASE RecordInactive(c)
    <2>1. /\ cur[c] \in Message /\ rowId[c] \in Nat
          /\ cpc[c] \in {"insertFailed", "updateFailed"}
      BY <1>7, CurMessage DEF RecordInactive, At, Busy
    <2>2. cur[c].dest[1] \notin webhooks
      BY <2>1 DEF LedgerInv, RecordInv
    <2>3. LedgerTruthful'
      BY <1>7, <2>1, <2>2, LedgerWrites DEF RecordInactive, attempts
    <2>4. RecordInv'
      BY <1>7 DEF RecordInactive, MessageDone, GoTo, attempts, LedgerInv, RecordInv
    <2> QED
      BY <2>3, <2>4 DEF LedgerInv
  <1>8. CASE AckBatch(c)
    BY <1>8, EndsOthers, LedgerMoves DEF AckBatch, rows, attempts
  <1>9. CASE ConsumerFails(c)
    BY <1>9, EndsOthers, LedgerMoves DEF ConsumerFails, Throw, rows, attempts
  <1> QED
    BY <1>1, <1>2, <1>3, <1>4, <1>5, <1>6, <1>7, <1>8, <1>9 DEF Deliver

LEMMA LedgerReopens ==
    ASSUME TInv, LedgerInv, NEW r \in Replayer, Reopen(r)
    PROVE  LedgerInv'
  <1>1. \A d \in Dest : [ledger[d] EXCEPT !.status = "pending"].status = "pending"
    BY DEF TInv, TypeOK, TablesOK, Row
  <1>2. \A d \in Dest : ledger'[d].status \in {ledger[d].status, "pending"}
    BY <1>1 DEF Reopen, TInv, TypeOK, TablesOK, QueuesOK
  <1>3. LedgerTruthful'
    BY <1>2 DEF Reopen, attempts, LedgerInv, LedgerTruthful
  <1> QED
    BY <1>3 DEF Reopen, attempts, consumers, LedgerInv, RecordInv

LEMMA LedgerStep == TInv /\ LedgerInv /\ [Next]_vars => LedgerInv'
  <1> SUFFICES ASSUME TInv, LedgerInv, [Next]_vars PROVE LedgerInv'
    OBVIOUS
  <1>1. CASE UNCHANGED vars
    BY <1>1, LedgerQuiet DEF vars, rows, consumers, attempts
  <1>2. CASE \E o \in Observation : EnqueueMatched(o) \/ Expire(o)
    BY <1>2, LedgerQuiet DEF EnqueueMatched, Expire, rows, consumers, attempts
  <1>3. CASE \E w \in Webhook : Unsubscribe(w) \/ DeleteWebhook(w)
    BY <1>3, LedgerQuiet DEF Unsubscribe, DeleteWebhook, consumers, attempts
  <1>4. CASE FanOut \/ FanOutFails
    BY <1>4, LedgerQuiet DEF FanOut, TakeMatched, PlanFanOut, SendPlanned, AckMatched,
         FanOutFails, rows, consumers, attempts
  <1>5. CASE \E c \in Consumer : Deliver(c) \/ ConsumerFails(c)
    BY <1>5, LedgerConsumer
  <1>6. CASE \E r \in Replayer : ListDeadLetters(r) \/ SendReplayed(r) \/ ReplayFails(r)
    BY <1>6, LedgerQuiet DEF ListDeadLetters, SendReplayed, ReplayFails, rows, consumers,
         attempts
  <1> QED
    BY <1>1, <1>2, <1>3, <1>4, <1>5, <1>6, LedgerReopens DEF Next, Replay

\* The delivery history never claims a delivery, a refusal or a deletion that did
\* not happen, however many consumers and replays write a row.
THEOREM LedgerIsTruthful == Spec => []LedgerTruthful
  <1>1. Spec => [](TInv /\ LedgerInv)
    BY TypesInit, TypesStep, LedgerInit, LedgerStep, PTL DEF Spec
  <1>2. LedgerInv => LedgerTruthful
    BY DEF LedgerInv
  <1> QED
    BY <1>1, <1>2, PTL

-----------------------------------------------------------------------------
(* Nothing is lost.  NothingLost is not inductive: a message that is on    *)
(* its way may be held by a consumer whose write will not reach the row,   *)
(* because another one has inserted the row under another id.  Such a      *)
(* consumer is stale, and what carries a destination is a message that no  *)
(* stale consumer is working on.                                           *)

\* The fan-out is sure of what it has planned, and of what it has sent.
FanInv ==
    /\ ftodo \subseteq fbatch /\ vanished \subseteq fbatch
    /\ fpc = "idle" => fbatch = {} /\ vanished = {}
    /\ fpc = "plan" => \A m \in fbatch \ (ftodo \cup vanished) : \A w \in Eligible(m.obs) :
                           \E p \in planned : p.dest = <<w, m.obs>>
    /\ fpc = "ack" => \A m \in fbatch \ vanished : \A w \in Eligible(m.obs) :
                           <<w, m.obs>> \in fanned

\* What a consumer knows of the row it is going to write.
RowIdInv ==
    \A c \in Consumer :
        /\ cpc[c] \in {"insert", "insertFailed"} => rowId[c] = cur[c].id
        /\ cpc[c] \in {"post", "record"} => ledger[cur[c].dest].status # "none"
        /\ cpc[c] = "updateFailed" => /\ ledger[cur[c].dest].status # "none"
                                      /\ rowId[c] = ledger[cur[c].dest].id
        /\ cpc[c] = "idle" => todo[c] = {}

\* The write of c will not reach the row.
Stale(c) ==
    /\ ledger[cur[c].dest].status # "none"
    /\ \/ cpc[c] = "insertFailed"
       \/ /\ cpc[c] \in {"insert", "post", "record"}
          /\ rowId[c] # ledger[cur[c].dest].id

\* The messages of c that will be delivered, given up or recorded.
InHand(c) == {m \in todo[c] : ~(Busy(c) /\ m = cur[c] /\ Stale(c))}

Carried(d) ==
    \/ \E m \in deliveryQ \cup Requeued \cup dlq : m.dest = d
    \/ \E c \in Consumer : \E m \in InHand(c) : m.dest = d

Open(d) == ledger[d].status = "pending" \/ (ledger[d].status = "none" /\ d \in fanned)

CarryInv == \A d \in Dest : Open(d) => Carried(d) \/ d \in stranded

EnqueuedInv ==
    \A o \in enqueued : \/ Waiting(o)
                        \/ o \in dropped
                        \/ \A w \in Eligible(o) : <<w, o>> \in fanned

LossInv == FanInv /\ RowIdInv /\ CarryInv /\ EnqueuedInv

\* Only what is due is sent.
Due(d) == Boundary[d[1]] <= BlockNumber[d[2]]

DueInv ==
    /\ \A m \in planned \cup deliveryQ \cup Requeued \cup dlq : Due(m.dest)
    /\ \A c \in Consumer : \A m \in batch[c] : Due(m.dest)
    /\ \A d \in Dest : ledger[d].status # "none" => Due(d)
    /\ \A r \in Replayer : \A d \in rtodo[r] : Due(d)
    /\ \A d \in tried : Due(d)

LEMMA DueInit == Init => DueInv
  <1> QED
    BY DEF Init, DueInv, Requeued, NoRow

LEMMA DueFanOut ==
    ASSUME TInv, DueInv, FanOut \/ FanOutFails
    PROVE  DueInv'
  <1>1. ASSUME NEW o \in Observation, NEW n \in Nat
        PROVE  \A m \in Plan(o, n) : Due(m.dest)
    BY DEF Plan, Eligible, Due
  <1>2. CASE PlanFanOut
    <2>1. planned' \subseteq planned \cup UNION {Plan(o, n) : o \in Observation, n \in Nat}
      BY <1>2 DEF PlanFanOut, TInv, TypeOK, FanOutOK, Matched
    <2>2. \A m \in planned' : Due(m.dest)
      BY <1>1, <2>1 DEF DueInv
    <2> QED
      BY <1>2, <2>2 DEF PlanFanOut, DueInv, Requeued, Due, rows, consumers, replay, attempts
  <1> QED
    BY <1>2 DEF FanOut, TakeMatched, SendPlanned, AckMatched, FanOutFails, FanOutEnds, DueInv,
         Requeued, Due, rows, consumers, replay, attempts

LEMMA DueThrow ==
    ASSUME TInv, DueInv, NEW c \in Consumer, Throw(c)
    PROVE  /\ \A m \in deliveryQ' \cup dlq' : Due(m.dest)
           /\ \A e \in Consumer : \A m \in batch'[e] : Due(m.dest)
  <1>1. \A m \in batch[c] : m \in Message /\ Due(m.dest)
    BY DEF TInv, TypeOK, ConsumersOK, DueInv
  <1>2. \A m \in Message : [m EXCEPT !.tries = @ + 1].dest = m.dest
    BY DEF Message
  <1>3. \A m \in Redelivered(batch[c]) \cup Exhausted(batch[c]) : Due(m.dest)
    BY <1>1, <1>2 DEF Redelivered, Exhausted
  <1>4. \A m \in deliveryQ' \cup dlq' : Due(m.dest)
    BY <1>3 DEF Throw, DueInv
  <1>5. \A e \in Consumer : batch'[e] \subseteq batch[e]
    BY DEF Throw, BatchEnds, TInv, TypeOK, ConsumersOK
  <1> QED
    BY <1>4, <1>5 DEF DueInv

\* Only the row of a due destination is written.
LEMMA DueWrites ==
    ASSUME TInv, DueInv, NEW m \in Message, NEW i \in Nat, NEW s, Due(m.dest),
           InsertRow(m, s) \/ UpdateRow(m.dest, i, s)
    PROVE  \A d \in Dest : ledger'[d].status # "none" => Due(d)
  <1>1. m.dest \in Dest
    BY DEF Message
  <1>2. \A d \in Dest : ledger'[d] = ledger[d] \/ d = m.dest
    <2>1. CASE InsertRow(m, s)
      BY <1>1, <2>1 DEF InsertRow, TInv, TypeOK, TablesOK
    <2>2. CASE UpdateRow(m.dest, i, s)
      BY <1>1, <2>2 DEF UpdateRow, TInv, TypeOK, TablesOK
    <2> QED
      BY <2>1, <2>2
  <1> QED
    BY <1>2 DEF DueInv

LEMMA DueConsumer ==
    ASSUME TInv, DueInv, NEW c \in Consumer, Deliver(c) \/ ConsumerFails(c)
    PROVE  DueInv'
  <1> USE DEF DueInv, Requeued
  <1>0. Busy(c) => cur[c] \in Message /\ cur[c].dest \in Dest /\ Due(cur[c].dest)
    BY CurMessage DEF TInv, WorkInv
  <1>1. CASE TakeBatch(c)
    BY <1>1 DEF TakeBatch, TInv, TypeOK, ConsumersOK, rows, fan, replay, attempts
  <1>2. CASE NextMessage(c) \/ ReadWebhook(c) \/ ReadExisting(c) \/ AckBatch(c)
    <2>1. \A e \in Consumer : batch'[e] \subseteq batch[e]
      BY <1>2 DEF NextMessage, ReadWebhook, ReadExisting, AckBatch, BatchEnds, TInv, TypeOK,
           ConsumersOK
    <2> QED
      BY <1>2, <2>1 DEF NextMessage, ReadWebhook, ReadExisting, AckBatch, rows, fan, replay,
           attempts
  <1>3. CASE InsertPending(c)
    <2>1. \A d \in Dest : ledger'[d].status # "none" => Due(d)
      BY <1>0, <1>3, DueWrites DEF InsertPending, At, Busy
    <2> QED
      BY <1>3, <2>1 DEF InsertPending, fan, replay, attempts
  <1>4. CASE Post(c)
    BY <1>0, <1>4 DEF Post, At, Busy, rows, fan, replay
  <1>5. CASE Record(c)
    <2> DEFINE s == StatusFor(ClassifyDelivery(Attempt(answer[c])))
    <2>1. UpdateRow(cur[c].dest, rowId[c], s) /\ rowId[c] \in Nat
      BY <1>5 DEF Record, TInv, TypeOK, ConsumersOK
    <2> HIDE DEF s
    <2>2. \A d \in Dest : ledger'[d].status # "none" => Due(d)
      BY <1>0, <1>5, <2>1, DueWrites DEF Record, At, Busy
    <2>3. CASE Acknowledge(c)
      BY <1>5, <2>2, <2>3 DEF Record, Acknowledge, fan, replay, attempts
    <2>4. CASE Throw(c)
      BY <1>5, <2>2, <2>4, DueThrow DEF Record, fan, replay, attempts
    <2> QED
      BY <1>5, <2>3, <2>4 DEF Record, Rethrow
  <1>6. CASE RecordInactive(c)
    <2>1. \A d \in Dest : ledger'[d].status # "none" => Due(d)
      BY <1>0, <1>6, DueWrites DEF RecordInactive, At, Busy, TInv, TypeOK, ConsumersOK
    <2> QED
      BY <1>6, <2>1 DEF RecordInactive, fan, replay, attempts
  <1>7. CASE ConsumerFails(c)
    BY <1>7, DueThrow DEF ConsumerFails, rows, fan, replay, attempts
  <1> QED
    BY <1>1, <1>2, <1>3, <1>4, <1>5, <1>6, <1>7 DEF Deliver

LEMMA DueReplay ==
    ASSUME TInv, DueInv, NEW r \in Replayer, ListDeadLetters(r) \/ Replay(r) \/ ReplayFails(r)
    PROVE  DueInv'
  <1> USE DEF TInv, TypeOK, QueuesOK
  <1>1. CASE ListDeadLetters(r)
    BY <1>1 DEF ListDeadLetters, DueInv, Requeued, rows, fan, consumers, attempts, Due
  <1>2. CASE Reopen(r)
    <2>1. \A d \in Dest : \A m \in Replayed(r, d) : m.dest = d
      BY DEF Replayed
    <2>2. \A d \in Dest : ledger'[d] = ledger[d] \/ d \in rtodo[r]
      BY <1>2 DEF Reopen, TablesOK
    <2>3. \A m \in Requeued' : Due(m.dest)
      BY <1>2, <2>1 DEF Reopen, DueInv, Requeued
    <2>4. \A e \in Replayer : rtodo'[e] \subseteq rtodo[e]
      BY <1>2 DEF Reopen
    <2> QED
      BY <1>2, <2>2, <2>3, <2>4 DEF Reopen, DueInv, fan, consumers, attempts
  <1>3. CASE SendReplayed(r) \/ ReplayFails(r)
    <2>1. \A e \in Replayer : rtodo'[e] \subseteq rtodo[e] /\ requeued'[e] \subseteq requeued[e]
      BY <1>3 DEF SendReplayed, ReplayFails, ReplayEnds
    <2> QED
      BY <1>3, <2>1 DEF SendReplayed, ReplayFails, DueInv, Requeued, rows, fan, consumers,
         attempts
  <1> QED
    BY <1>1, <1>2, <1>3 DEF Replay

LEMMA DueStep == TInv /\ DueInv /\ [Next]_vars => DueInv'
  <1> SUFFICES ASSUME TInv, DueInv, [Next]_vars PROVE DueInv'
    OBVIOUS
  <1>1. CASE UNCHANGED vars
    BY <1>1 DEF vars, DueInv, Requeued, rows, fan, consumers, replay, attempts
  <1>2. CASE \E o \in Observation : EnqueueMatched(o) \/ Expire(o)
    BY <1>2 DEF EnqueueMatched, Expire, DueInv, Requeued, rows, fan, consumers, replay, attempts
  <1>3. CASE \E w \in Webhook : Unsubscribe(w) \/ DeleteWebhook(w)
    BY <1>3 DEF Unsubscribe, DeleteWebhook, DueInv, Requeued, fan, consumers, replay, attempts
  <1> QED
    BY <1>1, <1>2, <1>3, DueFanOut, DueConsumer, DueReplay DEF Next

\* No endpoint is asked to take an observation below its subscription's first block.
THEOREM NothingEarly == Spec => []OnlyEligible
  <1>1. Spec => [](TInv /\ DueInv)
    BY TypesInit, TypesStep, DueInit, DueStep, PTL DEF Spec
  <1>2. DueInv => OnlyEligible
    BY DEF DueInv, Due, OnlyEligible
  <1> QED
    BY <1>1, <1>2, PTL

-----------------------------------------------------------------------------

LEMMA LossInit == Init => LossInv
  <1> QED
    BY DEF Init, LossInv, FanInv, RowIdInv, CarryInv, EnqueuedInv, Open, NoRow

\* Rows stay, under their ids.
Kept(d) == ledger[d].status # "none" => /\ ledger'[d].status # "none"
                                        /\ ledger'[d].id = ledger[d].id

LEMMA WritesKeep ==
    ASSUME TInv, NEW m \in Message, NEW i \in Nat, NEW s, s # "none",
           InsertRow(m, s) \/ UpdateRow(m.dest, i, s)
    PROVE  \A d \in Dest : Kept(d) /\ (d # m.dest => ledger'[d] = ledger[d])
  <1>1. m.dest \in Dest
    BY DEF Message
  <1>2. ledger \in [Dest -> Row]
    BY DEF TInv, TypeOK, TablesOK
  <1>3. /\ [ledger[m.dest] EXCEPT !.status = s].status = s
        /\ [ledger[m.dest] EXCEPT !.status = s].id = ledger[m.dest].id
    BY <1>1, <1>2 DEF Row
  <1>4. CASE InsertRow(m, s)
    BY <1>1, <1>2, <1>4 DEF InsertRow, Kept
  <1>5. CASE UpdateRow(m.dest, i, s)
    BY <1>1, <1>2, <1>3, <1>5 DEF UpdateRow, Kept
  <1> QED
    BY <1>4, <1>5

\* A consumer that does not move keeps what it knows, and what it has in hand.
LEMMA RowIdStays ==
    ASSUME TInv, RowIdInv, NEW e \in Consumer, \A d \in Dest : Kept(d),
           /\ cpc'[e] = cpc[e] /\ cur'[e] = cur[e]
           /\ rowId'[e] = rowId[e] /\ todo'[e] = todo[e]
    PROVE  /\ cpc'[e] \in {"insert", "insertFailed"} => rowId'[e] = cur'[e].id
           /\ cpc'[e] \in {"post", "record"} => ledger'[cur'[e].dest].status # "none"
           /\ cpc'[e] = "updateFailed" => /\ ledger'[cur'[e].dest].status # "none"
                                          /\ rowId'[e] = ledger'[cur'[e].dest].id
           /\ cpc'[e] = "idle" => todo'[e] = {}
  <1>1. cpc[e] \in {"post", "record", "updateFailed"} => cur[e].dest \in Dest
    BY CurMessage DEF Busy
  <1> QED
    BY <1>1 DEF RowIdInv, Kept

LEMMA HandStays ==
    ASSUME NEW e \in Consumer,
           /\ cpc'[e] = cpc[e] /\ cur'[e] = cur[e]
           /\ rowId'[e] = rowId[e] /\ todo'[e] = todo[e],
           NEW m \in InHand(e),
           /\ ledger'[m.dest].status = "none" <=> ledger[m.dest].status = "none"
           /\ ledger'[m.dest].id = ledger[m.dest].id
    PROVE  m \in InHand(e)'
  <1> QED
    BY DEF InHand, Busy, Stale

\* Nothing happens to the consumers and the ledger.
LEMMA LossQuiet ==
    ASSUME TInv, LossInv, UNCHANGED <<ledger, cpc, cur, rowId, todo>>,
           \A m \in deliveryQ \cup Requeued \cup dlq :
               \/ m \in deliveryQ' \cup Requeued' \cup dlq'
               \/ m.dest \in stranded',
           \A d \in fanned' \ fanned : \E m \in deliveryQ' : m.dest = d,
           stranded \subseteq stranded'
    PROVE  RowIdInv' /\ CarryInv'
  <1>1. RowIdInv'
    BY DEF LossInv, RowIdInv
  <1>2. \A c \in Consumer : InHand(c)' = InHand(c)
    BY DEF InHand, Busy, Stale
  <1>3. ASSUME NEW d \in Dest, Open(d)'
        PROVE  Carried(d)' \/ d \in stranded'
    <2>1. CASE Open(d)
      BY <1>2, <2>1 DEF LossInv, CarryInv, Carried
    <2>2. CASE ~Open(d)
      BY <1>3, <2>2 DEF Open, Carried
    <2> QED
      BY <2>1, <2>2
  <1> QED
    BY <1>1, <1>3 DEF CarryInv

\* Messages that go back to the queue wait there, or are counted as dropped.
LEMMA RetriedWait ==
    ASSUME TInv, NEW b, b \subseteq fbatch, RetryMatched(b)
    PROVE  /\ matchedQ \subseteq matchedQ' /\ dropped \subseteq dropped'
           /\ \A m \in b : m.obs \in dropped' \/ \E n \in matchedQ' : n.obs = m.obs
  <1>1. \A m \in Matched : [m EXCEPT !.tries = @ + 1].obs = m.obs /\ m.tries \in Nat
    BY DEF Matched
  <1>2. b \subseteq Matched
    BY DEF TInv, TypeOK, FanOutOK
  <1>3. ASSUME NEW m \in b
        PROVE  m.obs \in dropped' \/ \E n \in matchedQ' : n.obs = m.obs
    <2>1. CASE m.tries < MatchedRetries
      <3>1. [m EXCEPT !.tries = @ + 1] \in matchedQ'
        BY <2>1 DEF RetryMatched
      <3> QED
        BY <1>1, <1>2, <3>1
    <2>2. CASE m.tries >= MatchedRetries
      BY <2>2 DEF RetryMatched
    <2> QED
      BY <1>1, <1>2, <2>1, <2>2, DeliveryAssumption
  <1> QED
    BY <1>3 DEF RetryMatched

LEMMA LossFanOut ==
    ASSUME TInv, LossInv, FanOut \/ FanOutFails
    PROVE  LossInv'
  <1> USE DEF LossInv
  <1>0. \A o \in Observation : Eligible(o)' = Eligible(o)
    BY DEF Eligible, FanOut, TakeMatched, PlanFanOut, SendPlanned, AckMatched, FanOutFails, rows
  <1>1. \A m \in matchedQ \cup fbatch : m.obs \in Observation
    BY DEF TInv, TypeOK, FanOutOK, Matched
  <1>2. enqueued \subseteq Observation
    BY DEF TInv, TypeOK, FanOutOK
  <1>3. CASE TakeMatched
    <2>1. RowIdInv' /\ CarryInv'
      BY <1>3, LossQuiet DEF TakeMatched, rows, consumers, replay, Requeued
    <2>2. FanInv'
      BY <1>3 DEF TakeMatched, FanInv
    <2>3. \A o \in enqueued : Waiting(o) => Waiting(o)'
      BY <1>3 DEF TakeMatched, FanInv, Waiting
    <2>4. EnqueuedInv'
      BY <1>0, <1>2, <1>3, <2>3 DEF TakeMatched, EnqueuedInv
    <2> QED
      BY <2>1, <2>2, <2>4
  <1>4. CASE PlanFanOut
    <2>1. RowIdInv' /\ CarryInv'
      BY <1>4, LossQuiet DEF PlanFanOut, rows, consumers, replay, Requeued
    <2>2. PICK m \in ftodo :
             /\ ftodo' = ftodo \ {m}
             /\ \/ planned \subseteq planned' /\ Plan(m.obs, fanouts'[m.obs]) \subseteq planned'
                   /\ vanished' = vanished
                \/ vanished' = vanished \cup {m} /\ planned' = planned
      BY <1>4 DEF PlanFanOut
    <2>3. \A w \in Eligible(m.obs) : \E p \in Plan(m.obs, fanouts'[m.obs]) :
             p.dest = <<w, m.obs>>
      <3>1. ASSUME NEW w \in Eligible(m.obs)
            PROVE  \E p \in Plan(m.obs, fanouts'[m.obs]) : p.dest = <<w, m.obs>>
        <4> DEFINE p == [dest |-> <<w, m.obs>>, id |-> fanouts'[m.obs], via |-> 0,
                         tries |-> 0]
        <4>1. p \in Plan(m.obs, fanouts'[m.obs])
          BY DEF Plan
        <4>2. p.dest = <<w, m.obs>>
          OBVIOUS
        <4> QED
          BY <4>1, <4>2
      <3> QED
        BY <3>1
    <2>4. FanInv'
      <3>1. fpc' = "plan" /\ fpc = "plan" /\ fbatch' = fbatch
        BY <1>4 DEF PlanFanOut
      <3>2. ASSUME NEW n \in fbatch \ (ftodo' \cup vanished'), NEW w \in Eligible(n.obs)
            PROVE  \E p \in planned' : p.dest = <<w, n.obs>>
        <4>1. CASE n = m
          BY <2>2, <2>3, <3>2, <4>1
        <4>2. CASE n # m
          BY <2>2, <3>1, <3>2, <4>2 DEF FanInv
        <4> QED
          BY <4>1, <4>2
      <3>3. ftodo' \subseteq fbatch /\ vanished' \subseteq fbatch
        BY <2>2 DEF FanInv
      <3>4. ASSUME NEW n \in fbatch
            PROVE  Eligible(n.obs)' = Eligible(n.obs)
        BY <1>0, <1>1
      <3>5. ASSUME NEW n \in fbatch \ (ftodo' \cup vanished')
            PROVE  \A w \in Eligible(n.obs)' : \E p \in planned' : p.dest = <<w, n.obs>>
        BY <3>2, <3>4
      <3>6. fpc' # "idle" /\ fpc' # "ack"
        BY <3>1
      <3> QED
        BY <3>1, <3>3, <3>5, <3>6 DEF FanInv
    <2>5. EnqueuedInv'
      BY <1>0, <1>2, <1>4 DEF PlanFanOut, EnqueuedInv, Waiting
    <2> QED
      BY <2>1, <2>4, <2>5
  <1>5. CASE SendPlanned
    <2>1. RowIdInv' /\ CarryInv'
      BY <1>5, LossQuiet DEF SendPlanned, rows, consumers, replay, Requeued
    <2>2. FanInv'
      BY <1>0, <1>1, <1>5 DEF SendPlanned, FanInv
    <2>3. EnqueuedInv'
      BY <1>0, <1>2, <1>5 DEF SendPlanned, EnqueuedInv, Waiting
    <2> QED
      BY <2>1, <2>2, <2>3
  <1>6. ASSUME NEW b, b \subseteq fbatch, RetryMatched(b), FanOutEnds,
               UNCHANGED <<fanned, enqueued>>,
               \A m \in fbatch \ b : \A w \in Eligible(m.obs) : <<w, m.obs>> \in fanned
        PROVE  FanInv' /\ EnqueuedInv'
    <2>1. FanInv'
      BY <1>6 DEF FanOutEnds, FanInv
    <2>2. /\ matchedQ \subseteq matchedQ' /\ dropped \subseteq dropped'
          /\ \A m \in b : m.obs \in dropped' \/ \E n \in matchedQ' : n.obs = m.obs
      BY <1>6, RetriedWait
    <2>3. ASSUME NEW o \in enqueued
          PROVE  Waiting(o)' \/ o \in dropped' \/ \A w \in Eligible(o) : <<w, o>> \in fanned
      BY <1>6, <2>2 DEF EnqueuedInv, Waiting
    <2> QED
      BY <1>0, <1>2, <1>6, <2>1, <2>3 DEF EnqueuedInv
  <1>7. CASE AckMatched
    <2>1. RowIdInv' /\ CarryInv'
      BY <1>7, LossQuiet DEF AckMatched, rows, consumers, replay, Requeued
    <2>2. FanInv' /\ EnqueuedInv'
      BY <1>6, <1>7 DEF AckMatched, FanInv
    <2> QED
      BY <2>1, <2>2
  <1>8. CASE FanOutFails
    <2>1. RowIdInv' /\ CarryInv'
      BY <1>8, LossQuiet DEF FanOutFails, rows, consumers, replay, Requeued
    <2>2. FanInv' /\ EnqueuedInv'
      BY <1>6, <1>8 DEF FanOutFails
    <2> QED
      BY <2>1, <2>2
  <1> QED
    BY <1>3, <1>4, <1>5, <1>7, <1>8 DEF FanOut

\* A deletion takes webhooks away, and an observation is enqueued.
LEMMA LossOutside ==
    ASSUME TInv, LossInv,
           \/ \E o \in Observation : EnqueueMatched(o) \/ Expire(o)
           \/ \E w \in Webhook : Unsubscribe(w) \/ DeleteWebhook(w)
    PROVE  LossInv'
  <1> USE DEF LossInv
  <1>1. RowIdInv' /\ CarryInv'
    BY LossQuiet DEF EnqueueMatched, Expire, Unsubscribe, DeleteWebhook, matching, consumers,
       replay, Requeued
  <1>2. \A o : Eligible(o)' \subseteq Eligible(o)
    BY DEF Eligible, EnqueueMatched, Expire, Unsubscribe, DeleteWebhook
  <1>3. FanInv'
    BY <1>2 DEF FanInv, EnqueueMatched, Expire, Unsubscribe, DeleteWebhook, fan, matching
  <1>4. CASE \E o \in Observation : EnqueueMatched(o)
    <2>1. PICK o \in Observation : EnqueueMatched(o)
      BY <1>4
    <2>2. [obs |-> o, tries |-> 0] \in matchedQ' /\ [obs |-> o, tries |-> 0].obs = o
      BY <2>1 DEF EnqueueMatched
    <2>3. Waiting(o)'
      BY <2>2 DEF Waiting
    <2> QED
      BY <1>1, <1>2, <1>3, <2>1, <2>3 DEF EnqueuedInv, Waiting, EnqueueMatched, fan
  <1>5. CASE ~\E o \in Observation : EnqueueMatched(o)
    BY <1>1, <1>2, <1>3, <1>5 DEF EnqueuedInv, Waiting, Expire, Unsubscribe, DeleteWebhook, fan,
       matching
  <1> QED
    BY <1>4, <1>5

LEMMA FanStays ==
    ASSUME FanInv, EnqueuedInv, UNCHANGED <<webhooks, subscribers, fan, matching>>
    PROVE  FanInv' /\ EnqueuedInv'
  <1> QED
    BY DEF FanInv, EnqueuedInv, Waiting, Eligible, fan, matching

\* A consumer that works on a message works on one that is not lost, and moves on
\* without a stale write: what it had in hand stays in hand.
LEMMA CarriedByOthers ==
    ASSUME TInv, LossInv, NEW c \in Consumer, NEW d \in Dest, Open(d),
           \A e \in Consumer \ {c} : /\ cpc'[e] = cpc[e] /\ cur'[e] = cur[e]
                                     /\ rowId'[e] = rowId[e] /\ todo'[e] = todo[e],
           /\ ledger'[d].status = "none" <=> ledger[d].status = "none"
           /\ ledger'[d].id = ledger[d].id,
           stranded \subseteq stranded',
           \A m \in deliveryQ \cup Requeued \cup dlq :
               \/ m \in deliveryQ' \cup Requeued' \cup dlq'
               \/ m \in InHand(c)',
           \A m \in InHand(c) : m.dest = d =>
               \/ m \in InHand(c)'
               \/ \E n \in deliveryQ' \cup Requeued' \cup dlq' : n.dest = d
    PROVE  Carried(d)' \/ d \in stranded'
  <1>1. CASE d \in stranded
    BY <1>1
  <1>2. CASE \E m \in deliveryQ \cup Requeued \cup dlq : m.dest = d
    BY <1>2 DEF Carried
  <1>3. ASSUME NEW e \in Consumer, NEW m \in InHand(e), m.dest = d
        PROVE  Carried(d)'
    <2>1. CASE e = c
      BY <1>3, <2>1 DEF Carried
    <2>2. CASE e # c
      BY <1>3, <2>2, HandStays DEF Carried
    <2> QED
      BY <2>1, <2>2
  <1> QED
    BY <1>1, <1>2, <1>3 DEF LossInv, CarryInv, Carried

LEMMA ThrowCarries ==
    ASSUME TInv, NEW c \in Consumer, Throw(c)
    PROVE  /\ deliveryQ \subseteq deliveryQ' /\ dlq \subseteq dlq'
           /\ \A m \in batch[c] : \E n \in deliveryQ' \cup dlq' : n.dest = m.dest
  <1>1. ASSUME NEW m \in batch[c]
        PROVE  \E n \in deliveryQ' \cup dlq' : n.dest = m.dest
    <2>1. m.tries \in Nat /\ [m EXCEPT !.tries = @ + 1].dest = m.dest
      BY DEF TInv, TypeOK, ConsumersOK, Message
    <2>2. CASE m.tries < DeliveryRetries
      <3>1. [m EXCEPT !.tries = @ + 1] \in deliveryQ'
        BY <2>2 DEF Throw, Redelivered
      <3> QED
        BY <2>1, <3>1
    <2>3. CASE m.tries >= DeliveryRetries
      BY <2>3 DEF Throw, Exhausted
    <2> QED
      BY <2>1, <2>2, <2>3, DeliveryAssumption
  <1> QED
    BY <1>1 DEF Throw

LEMMA Idles ==
    ASSUME TInv, NEW c \in Consumer, BatchEnds(c)
    PROVE  /\ cpc'[c] = "idle" /\ todo'[c] = {}
           /\ \A e \in Consumer \ {c} : /\ cpc'[e] = cpc[e] /\ cur'[e] = cur[e]
                                        /\ rowId'[e] = rowId[e] /\ todo'[e] = todo[e]
  <1> QED
    BY DEF TInv, TypeOK, ConsumersOK, BatchEnds, GoTo

\* A batch that is thrown back carries every destination it was for.
LEMMA LossThrow ==
    ASSUME TInv, LossInv, NEW c \in Consumer, Throw(c),
           UNCHANGED <<requeued, stranded, fanned>>,
           \A d \in Dest : Kept(d) /\ (d # cur[c].dest \/ ~Busy(c) => ledger'[d] = ledger[d])
    PROVE  RowIdInv' /\ CarryInv'
  <1>1. /\ cpc'[c] = "idle" /\ todo'[c] = {}
        /\ \A e \in Consumer \ {c} : /\ cpc'[e] = cpc[e] /\ cur'[e] = cur[e]
                                     /\ rowId'[e] = rowId[e] /\ todo'[e] = todo[e]
    BY Idles DEF Throw
  <1>2. RowIdInv'
    <2>1. \A e \in Consumer \ {c} :
             /\ cpc'[e] \in {"insert", "insertFailed"} => rowId'[e] = cur'[e].id
             /\ cpc'[e] \in {"post", "record"} => ledger'[cur'[e].dest].status # "none"
             /\ cpc'[e] = "updateFailed" => /\ ledger'[cur'[e].dest].status # "none"
                                            /\ rowId'[e] = ledger'[cur'[e].dest].id
             /\ cpc'[e] = "idle" => todo'[e] = {}
      BY <1>1, RowIdStays DEF LossInv
    <2> QED
      BY <1>1, <2>1 DEF RowIdInv
  <1>3. ASSUME NEW d \in Dest, Open(d)'
        PROVE  Carried(d)' \/ d \in stranded'
    <2>1. CASE \E m \in batch[c] : m.dest = d
      BY <2>1, ThrowCarries DEF Carried
    <2>2. CASE ~\E m \in batch[c] : m.dest = d
      <3>1. ledger'[d] = ledger[d]
        BY <2>2 DEF TInv, WorkInv
      <3>2. Open(d)
        BY <1>3, <3>1 DEF Open
      <3>3. \A m \in InHand(c) : m.dest # d
        BY <2>2 DEF InHand, TInv, WorkInv
      <3> QED
        BY <1>1, <3>1, <3>2, <3>3, ThrowCarries, CarriedByOthers DEF Requeued
    <2> QED
      BY <2>1, <2>2
  <1> QED
    BY <1>2, <1>3 DEF CarryInv

\* A step of c that is not a throw: what it must know and carry afterwards.
LEMMA LossMoves ==
    ASSUME TInv, LossInv, NEW c \in Consumer, UNCHANGED <<requeued, stranded, fanned, dlq>>,
           \A e \in Consumer \ {c} : /\ cpc'[e] = cpc[e] /\ cur'[e] = cur[e]
                                     /\ rowId'[e] = rowId[e] /\ todo'[e] = todo[e],
           \A d \in Dest : Kept(d),
           /\ cpc'[c] \in {"insert", "insertFailed"} => rowId'[c] = cur'[c].id
           /\ cpc'[c] \in {"post", "record"} => ledger'[cur'[c].dest].status # "none"
           /\ cpc'[c] = "updateFailed" => /\ ledger'[cur'[c].dest].status # "none"
                                          /\ rowId'[c] = ledger'[cur'[c].dest].id
           /\ cpc'[c] = "idle" => todo'[c] = {},
           \A m \in deliveryQ : m \in deliveryQ' \/ m \in InHand(c)',
           \A d \in Dest : Open(d)' =>
               \/ \E m \in InHand(c)' : m.dest = d
               \/ /\ ledger'[d] = ledger[d]
                  /\ \A m \in InHand(c) : m.dest = d => m \in InHand(c)'
    PROVE  RowIdInv' /\ CarryInv'
  <1>1. \A e \in Consumer \ {c} :
           /\ cpc'[e] \in {"insert", "insertFailed"} => rowId'[e] = cur'[e].id
           /\ cpc'[e] \in {"post", "record"} => ledger'[cur'[e].dest].status # "none"
           /\ cpc'[e] = "updateFailed" => /\ ledger'[cur'[e].dest].status # "none"
                                          /\ rowId'[e] = ledger'[cur'[e].dest].id
           /\ cpc'[e] = "idle" => todo'[e] = {}
    BY RowIdStays DEF LossInv
  <1>2. RowIdInv'
    BY <1>1 DEF RowIdInv
  <1>3. ASSUME NEW d \in Dest, Open(d)'
        PROVE  Carried(d)' \/ d \in stranded'
    <2>1. CASE \E m \in InHand(c)' : m.dest = d
      BY <2>1 DEF Carried
    <2>2. CASE /\ ledger'[d] = ledger[d]
               /\ \A m \in InHand(c) : m.dest = d => m \in InHand(c)'
      <3>1. Open(d)
        BY <1>3, <2>2 DEF Open
      <3>2. \A m \in deliveryQ \cup Requeued \cup dlq :
               m \in deliveryQ' \cup Requeued' \cup dlq' \/ m \in InHand(c)'
        BY DEF Requeued
      <3> QED
        BY <2>2, <3>1, <3>2, CarriedByOthers
    <2> QED
      BY <1>3, <2>1, <2>2
  <1> QED
    BY <1>2, <1>3 DEF CarryInv

LEMMA LossReads ==
    ASSUME TInv, LossInv, NEW c \in Consumer,
           TakeBatch(c) \/ NextMessage(c) \/ ReadWebhook(c) \/ ReadExisting(c)
    PROVE  RowIdInv' /\ CarryInv'
  <1> USE DEF TInv, TypeOK, ConsumersOK
  <1>1. /\ UNCHANGED <<requeued, stranded, fanned, dlq, ledger>>
        /\ \A e \in Consumer \ {c} : /\ cpc'[e] = cpc[e] /\ cur'[e] = cur[e]
                                     /\ rowId'[e] = rowId[e] /\ todo'[e] = todo[e]
        /\ \A d \in Dest : Kept(d)
    BY DEF TakeBatch, NextMessage, ReadWebhook, ReadExisting, rows, replay, matching, GoTo, Kept
  <1>2. CASE TakeBatch(c)
    <2>1. cpc'[c] = "next" /\ todo[c] = {} /\ InHand(c) = {} /\ InHand(c)' = todo'[c]
      BY <1>2 DEF TakeBatch, GoTo, At, LossInv, RowIdInv, InHand, Busy
    <2>2. \A m \in deliveryQ : m \in deliveryQ' \/ m \in InHand(c)'
      BY <1>2, <2>1 DEF TakeBatch
    <2> QED
      BY <1>1, <2>1, <2>2, LossMoves
  <1>3. CASE NextMessage(c)
    <2>1. /\ deliveryQ' = deliveryQ /\ cpc'[c] \in {"next", "webhook"}
          /\ InHand(c)' = todo'[c] /\ InHand(c) = todo[c]
      BY <1>3 DEF NextMessage, GoTo, At, InHand, Busy, Stale
    <2>2. ASSUME NEW d \in Dest, Open(d)', NEW m \in todo[c], m.dest = d
          PROVE  m \in todo'[c]
      BY <1>1, <1>3, <2>2 DEF NextMessage, Open, HasSuccessfulDelivery
    <2> QED
      BY <1>1, <2>1, <2>2, LossMoves
  <1>4. CASE ReadWebhook(c)
    <2>1. /\ deliveryQ' = deliveryQ /\ cpc'[c] \in {"existing", "inactive"}
          /\ InHand(c)' = InHand(c)
      BY <1>4 DEF ReadWebhook, GoTo, At, InHand, Busy, Stale
    <2> QED
      BY <1>1, <2>1, LossMoves
  <1>5. CASE ReadExisting(c)
    <2>1. cur[c].dest \in Dest /\ deliveryQ' = deliveryQ /\ cur'[c] = cur[c]
      BY <1>5, CurMessage DEF ReadExisting, Busy
    <2>2. /\ cpc'[c] \in {"insert", "insertFailed", "post", "updateFailed"}
          /\ cpc'[c] \in {"insert", "insertFailed"}
               => rowId'[c] = cur[c].id /\ ledger[cur[c].dest].status = "none"
          /\ cpc'[c] \in {"post", "updateFailed"}
               => rowId'[c] = ledger[cur[c].dest].id /\ ledger[cur[c].dest].status # "none"
      BY <1>5 DEF ReadExisting, GoTo
    <2>3. InHand(c) \subseteq InHand(c)'
      BY <1>1, <1>5, <2>1, <2>2 DEF ReadExisting, InHand, Busy, Stale
    <2> QED
      BY <1>1, <2>1, <2>2, <2>3, LossMoves
  <1> QED
    BY <1>2, <1>3, <1>4, <1>5

LEMMA LossWrites ==
    ASSUME TInv, LossInv, NEW c \in Consumer,
           InsertPending(c) \/ Post(c) \/ Record(c) \/ RecordInactive(c)
    PROVE  RowIdInv' /\ CarryInv'
  <1> USE DEF TInv, TypeOK, ConsumersOK
  <1> DEFINE m == cur[c]
  <1>1. m \in Message /\ m.dest \in Dest /\ m \in todo[c] /\ rowId[c] \in Nat /\ Busy(c)
    <2>1. Busy(c)
      BY DEF InsertPending, Post, Record, RecordInactive, At, Busy
    <2> QED
      BY <2>1, CurMessage DEF WorkInv
  <1>2. /\ UNCHANGED <<requeued, stranded, fanned>>
        /\ ledger \in [Dest -> Row]
    BY DEF InsertPending, Post, Record, RecordInactive, rows, replay, matching, TablesOK
  <1>3. CASE InsertPending(c)
    <2>1. /\ cpc'[c] = "post" /\ cpc[c] = "insert" /\ InsertRow(m, "pending")
          /\ UNCHANGED <<todo, cur, rowId, deliveryQ, dlq>>
          /\ \A e \in Consumer \ {c} : cpc'[e] = cpc[e]
      BY <1>3 DEF InsertPending, GoTo, At
    <2>2. \A d \in Dest : Kept(d) /\ (d # m.dest => ledger'[d] = ledger[d])
      BY <1>1, <2>1, WritesKeep
    <2>3. /\ ledger'[m.dest].status # "none"
          /\ \/ ledger' = ledger
             \/ ledger'[m.dest].id = m.id
      BY <1>1, <1>2, <2>1 DEF InsertRow
    <2>4. rowId[c] = m.id
      BY <2>1 DEF LossInv, RowIdInv
    <2>5. ASSUME NEW n \in InHand(c), ledger' = ledger \/ n.dest # m.dest
          PROVE  n \in InHand(c)'
      BY <2>1, <2>5 DEF InHand, Busy, Stale
    <2>6. ledger'[m.dest].id = m.id => m \in InHand(c)'
      BY <1>1, <2>1, <2>4 DEF InHand, Stale
    <2>7. \A d \in Dest : \/ \E n \in InHand(c)' : n.dest = d
                          \/ /\ ledger'[d] = ledger[d]
                             /\ \A n \in InHand(c) : n.dest = d => n \in InHand(c)'
      BY <2>2, <2>3, <2>5, <2>6
    <2> HIDE DEF m
    <2> QED
      BY <1>2, <2>1, <2>2, <2>3, <2>7, LossMoves DEF m
  <1>4. CASE Post(c)
    <2>1. /\ cpc'[c] = "record" /\ cpc[c] = "post"
          /\ UNCHANGED <<todo, cur, rowId, deliveryQ, dlq, ledger>>
          /\ \A e \in Consumer \ {c} : cpc'[e] = cpc[e]
      BY <1>4 DEF Post, GoTo, At, rows
    <2>2. InHand(c) \subseteq InHand(c)' /\ \A d \in Dest : Kept(d)
      BY <2>1 DEF InHand, Busy, Stale, Kept
    <2>3. ledger'[cur'[c].dest].status # "none"
      BY <2>1 DEF LossInv, RowIdInv
    <2> QED
      BY <1>2, <2>1, <2>2, <2>3, LossMoves
  <1>5. ASSUME NEW s \in {"success", "dead_lettered", "failed"}, MessageDone(c),
               UNCHANGED <<deliveryQ, dlq, batch, cur, rowId>>,
               \/ cpc[c] \in {"record", "updateFailed"} /\ UpdateRow(m.dest, rowId[c], s)
               \/ cpc[c] = "insertFailed" /\ InsertRow(m, s)
        PROVE  RowIdInv' /\ CarryInv'
    <2>1. /\ cpc'[c] = "next" /\ todo'[c] = todo[c] \ {m}
          /\ \A e \in Consumer \ {c} : cpc'[e] = cpc[e] /\ todo'[e] = todo[e]
      BY <1>5 DEF MessageDone, GoTo
    <2>2. \A d \in Dest : Kept(d) /\ (d # m.dest => ledger'[d] = ledger[d])
      BY <1>1, <1>5, WritesKeep
    <2>3. \/ ledger'[m.dest].status = s
          \/ ledger' = ledger /\ Stale(c)
      <3>1. [ledger[m.dest] EXCEPT !.status = s].status = s
        BY <1>1, <1>2 DEF Row
      <3>2. CASE cpc[c] = "insertFailed" /\ InsertRow(m, s)
        BY <1>1, <1>2, <3>2 DEF InsertRow, Stale
      <3>3. CASE cpc[c] \in {"record", "updateFailed"} /\ UpdateRow(m.dest, rowId[c], s)
        BY <1>1, <1>2, <3>1, <3>3 DEF UpdateRow, Stale, LossInv, RowIdInv
      <3> QED
        BY <1>5, <3>2, <3>3
    <2>4. InHand(c)' = todo[c] \ {m}
      BY <2>1 DEF InHand, Busy
    <2>5. ASSUME NEW d \in Dest, Open(d)'
          PROVE  /\ ledger'[d] = ledger[d]
                 /\ \A n \in InHand(c) : n.dest = d => n \in InHand(c)'
      <3>1. CASE d # m.dest
        BY <2>2, <2>4, <3>1 DEF InHand
      <3>2. CASE d = m.dest
        <4>1. ledger' = ledger /\ Stale(c)
          BY <2>3, <2>5, <3>2 DEF Open
        <4> QED
          BY <1>1, <2>4, <4>1 DEF InHand
      <3> QED
        BY <3>1, <3>2
    <2> HIDE DEF m
    <2> QED
      BY <1>2, <1>5, <2>1, <2>2, <2>5, LossMoves
  <1>6. CASE Record(c)
    <2> DEFINE s == StatusFor(ClassifyDelivery(Attempt(answer[c])))
    <2>1. UpdateRow(m.dest, rowId[c], s) /\ cpc[c] = "record" /\ s # "none"
      BY <1>6 DEF Record, At, StatusFor, ClassifyDelivery
    <2>2. CASE Acknowledge(c) /\ s # "pending"
      <3>1. s \in {"success", "dead_lettered", "failed"}
        BY <2>2 DEF StatusFor, ClassifyDelivery
      <3> HIDE DEF s, m
      <3> QED
        BY <1>5, <2>1, <2>2, <3>1 DEF Acknowledge, m
    <2>3. CASE Throw(c)
      <3> HIDE DEF s
      <3>1. \A d \in Dest : Kept(d) /\ (d # m.dest => ledger'[d] = ledger[d])
        BY <1>1, <2>1, WritesKeep
      <3> QED
        BY <1>1, <1>2, <2>3, <3>1, LossThrow
    <2>4. (Acknowledge(c) /\ s # "pending") \/ Throw(c)
      BY <1>6 DEF Record, Rethrow, StatusFor, ClassifyDelivery
    <2> QED
      BY <2>2, <2>3, <2>4
  <1>7. CASE RecordInactive(c)
    BY <1>5, <1>7 DEF RecordInactive, At
  <1> QED
    BY <1>3, <1>4, <1>6, <1>7

LEMMA LossEnds ==
    ASSUME TInv, LossInv, NEW c \in Consumer, AckBatch(c) \/ ConsumerFails(c)
    PROVE  RowIdInv' /\ CarryInv'
  <1>1. /\ UNCHANGED <<requeued, stranded, fanned, ledger>>
        /\ \A d \in Dest : Kept(d)
    BY DEF AckBatch, ConsumerFails, rows, replay, matching, Kept
  <1>2. CASE AckBatch(c)
    <2>1. InHand(c) = {} /\ deliveryQ' = deliveryQ /\ dlq' = dlq
      BY <1>2 DEF AckBatch, InHand
    <2> QED
      BY <1>1, <1>2, <2>1, Idles, LossMoves DEF AckBatch
  <1>3. CASE ConsumerFails(c)
    BY <1>1, <1>3, LossThrow DEF ConsumerFails
  <1> QED
    BY <1>2, <1>3

LEMMA LossReplay ==
    ASSUME TInv, LossInv, NEW r \in Replayer, ListDeadLetters(r) \/ Replay(r) \/ ReplayFails(r)
    PROVE  RowIdInv' /\ CarryInv'
  <1> USE DEF TInv, TypeOK, QueuesOK
  <1>1. CASE ListDeadLetters(r)
    <2>1. Requeued' = Requeued
      BY <1>1 DEF ListDeadLetters, Requeued
    <2> QED
      BY <1>1, <2>1, LossQuiet DEF ListDeadLetters, rows, consumers, matching
  <1>2. CASE SendReplayed(r) \/ ReplayFails(r)
    <2>1. \A m \in Requeued : \/ m \in Requeued'
                              \/ m \in deliveryQ'
                              \/ m.dest \in stranded'
      BY <1>2 DEF SendReplayed, ReplayFails, ReplayEnds, Requeued
    <2>2. /\ UNCHANGED <<ledger, cpc, cur, rowId, todo, fanned>>
          /\ deliveryQ \subseteq deliveryQ' /\ dlq' = dlq /\ stranded \subseteq stranded'
      BY <1>2 DEF SendReplayed, ReplayFails, rows, consumers, matching
    <2> QED
      BY <2>1, <2>2, LossQuiet
  <1>3. CASE Reopen(r)
    <2>1. PICK d \in rtodo[r] :
             /\ requeued' = [requeued EXCEPT ![r] = @ \cup Replayed(r, d)]
             /\ ledger' = [ledger EXCEPT ![d].status = "pending"]
      BY <1>3 DEF Reopen
    <2>2. d \in Dest /\ ledger \in [Dest -> Row]
      BY DEF TablesOK
    <2>3. \E n \in Replayed(r, d) : n.dest = d
      <3> DEFINE n == [dest |-> d, id |-> ledger[d].id, via |-> rnum[r], tries |-> 0]
      <3>1. n \in Replayed(r, d) /\ n.dest = d
        BY DEF Replayed
      <3> QED
        BY <3>1
    <2>4. Requeued' = Requeued \cup Replayed(r, d)
      BY <2>1 DEF Requeued
    <2>5. \A f \in Dest : Kept(f) /\ (f # d => ledger'[f] = ledger[f])
      <3>1. /\ [ledger[d] EXCEPT !.status = "pending"].status = "pending"
            /\ [ledger[d] EXCEPT !.status = "pending"].id = ledger[d].id
        BY <2>2 DEF Row
      <3> QED
        BY <2>1, <2>2, <3>1 DEF Kept
    <2>6. UNCHANGED <<cpc, cur, rowId, todo, deliveryQ, dlq, stranded, fanned>>
      BY <1>3 DEF Reopen, consumers, matching
    <2>7. RowIdInv'
      BY <2>5, <2>6, RowIdStays DEF RowIdInv, LossInv
    <2>8. ASSUME NEW f \in Dest, Open(f)'
          PROVE  Carried(f)' \/ f \in stranded'
      <3>1. CASE f = d
        BY <2>3, <2>4, <3>1 DEF Carried
      <3>2. CASE f # d
        <4>1. Open(f) /\ ledger'[f] = ledger[f]
          BY <2>5, <2>6, <2>8, <3>2 DEF Open
        <4>2. ASSUME NEW c \in Consumer, NEW m \in InHand(c), m.dest = f
              PROVE  m \in InHand(c)'
          BY <2>6, <4>1, <4>2, HandStays
        <4> QED
          BY <2>4, <2>6, <4>1, <4>2 DEF Carried, LossInv, CarryInv
      <3> QED
        BY <3>1, <3>2
    <2> QED
      BY <2>7, <2>8 DEF CarryInv
  <1> QED
    BY <1>1, <1>2, <1>3 DEF Replay

LEMMA LossStep == TInv /\ LossInv /\ [Next]_vars => LossInv'
  <1> SUFFICES ASSUME TInv, LossInv, [Next]_vars PROVE LossInv'
    OBVIOUS
  <1>1. CASE UNCHANGED vars
    <2>1. RowIdInv' /\ CarryInv'
      BY <1>1, LossQuiet DEF vars, rows, consumers, replay, Requeued, matching
    <2>2. FanInv' /\ EnqueuedInv'
      BY <1>1, FanStays DEF vars, rows, LossInv
    <2> QED
      BY <2>1, <2>2 DEF LossInv
  <1>2. ASSUME NEW c \in Consumer, Deliver(c) \/ ConsumerFails(c)
        PROVE  LossInv'
    <2>1. RowIdInv' /\ CarryInv'
      BY <1>2, LossReads, LossWrites, LossEnds DEF Deliver
    <2>2. UNCHANGED <<webhooks, subscribers, fan, matching>>
      BY <1>2 DEF Deliver, TakeBatch, NextMessage, ReadWebhook, ReadExisting, InsertPending,
           Post, Record, RecordInactive, AckBatch, ConsumerFails, rows
    <2> QED
      BY <2>1, <2>2, FanStays DEF LossInv
  <1>3. ASSUME NEW r \in Replayer, ListDeadLetters(r) \/ Replay(r) \/ ReplayFails(r)
        PROVE  LossInv'
    <2>1. UNCHANGED <<webhooks, subscribers, fan, matching>>
      BY <1>3 DEF ListDeadLetters, Replay, Reopen, SendReplayed, ReplayFails, rows
    <2> QED
      BY <1>3, <2>1, FanStays, LossReplay DEF LossInv
  <1> QED
    BY <1>1, <1>2, <1>3, LossFanOut, LossOutside DEF Next

\* Nothing is lost, however many consumers work on the same destination, whatever
\* fails, and however often a batch is retried or a dead letter replayed.
THEOREM NothingIsLost == Spec => []NothingLost
  <1>1. Spec => [](TInv /\ LossInv)
    BY TypesInit, TypesStep, LossInit, LossStep, PTL DEF Spec
  <1>2. TInv /\ LossInv => NothingLost
    <2> SUFFICES ASSUME TInv, LossInv PROVE NothingLost
      OBVIOUS
    <2>1. ASSUME NEW d \in fanned, ~Terminal(d), d \notin stranded
          PROVE  \E m \in OnTheWay \cup dlq : m.dest = d
      <3>1. d \in Dest /\ Open(d)
        BY <2>1 DEF TInv, TypeOK, FanOutOK, TablesOK, Row, Terminal, Open
      <3>2. Carried(d)
        BY <2>1, <3>1 DEF LossInv, CarryInv
      <3>3. \A c \in Consumer : InHand(c) \subseteq batch[c]
        BY DEF InHand, TInv, WorkInv
      <3> QED
        BY <3>2, <3>3 DEF Carried, OnTheWay
    <2> QED
      BY <2>1 DEF NothingLost, LossInv, EnqueuedInv
  <1> QED
    BY <1>1, <1>2, PTL
=============================================================================
