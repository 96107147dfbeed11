------------------------------ MODULE Delivery ------------------------------
(***************************************************************************)
(* The delivery pipeline behind the scanner: the `matched-activity`        *)
(* consumer (src/queues/fanout.ts), which turns an observation into one    *)
(* message per webhook, the `webhook-delivery` consumers                   *)
(* (src/queues/deliver.ts), which send it and keep the ledger, and the     *)
(* operator's replay of dead letters (src/api/operator.ts).                *)
(*                                                                         *)
(* The worker runs as many invocations of a consumer as the queue starts.  *)
(* A step is the code between two awaits whose effects others can see: one *)
(* read or one write of D1, one request to an endpoint, one send to a      *)
(* queue.  The queues are Cloudflare's: a batch whose handler throws is    *)
(* delivered again, every message of it, until a message has used up its   *)
(* retries.                                                                *)
(***************************************************************************)
EXTENDS Naturals, FiniteSets

CONSTANTS
    Webhook, Observation,
    BlockNumber,        \* observation -> the number of its block
    Boundary,           \* webhook -> active_from_block of its subscription
    Consumer,           \* concurrent invocations of the webhook-delivery consumer
    Replayer,           \* concurrent requests of the operator to replay
    NoMessage,
    Answers,            \* what the endpoints may answer
    MaxBatch,           \* max_batch_size, of both queues
    MatchedRetries,     \* retries of the matched-activity queue
    DeliveryRetries,    \* retries of the webhook-delivery queue
    ReplayLimit,        \* rows that one replay lists
    MaxFaults,          \* bound on failed calls and crashes
    MaxDuplicates,      \* bound on fan-outs that are repeated after their send
    MaxReplays,         \* bound on the operator's replays
    MaxOps              \* bound on deletions by the control plane and the clock

\* What one attempt can meet: a 2xx; a redirect; 408, 409, 425, 429 or a 5xx;
\* another 4xx; another status; no connection; and an endpoint that takes the
\* request while its answer is late, too long or lost.
AnswerClass == {"ok", "redirect", "busy", "refused", "odd", "unreachable", "cut"}

ASSUME DeliveryAssumption ==
    /\ BlockNumber \in [Observation -> Nat]
    /\ Boundary \in [Webhook -> Nat]
    /\ Answers \subseteq AnswerClass
    /\ {MaxBatch, ReplayLimit} \subseteq Nat \ {0}
    /\ {MatchedRetries, DeliveryRetries, MaxFaults, MaxDuplicates, MaxReplays, MaxOps}
         \subseteq Nat

\* (webhook, event): the unique key of webhook_deliveries, for activity.observed.
Dest == Webhook \X Observation

VARIABLES
    \* D1
    stored,         \* the observations whose row exists
    webhooks,       \* the active webhooks
    subscribers,    \* the webhooks with an active subscription to the address
    ledger,         \* webhook_deliveries: status and id of the row
    \* the queues
    matchedQ, deliveryQ, dlq,
    \* the matched-activity consumer
    fpc, fbatch, ftodo, planned, vanished,
    \* the webhook-delivery consumers
    cpc, batch, todo, cur, rowId, answer,
    \* the operator's replays
    rpc, rnum, rtodo, requeued,
    \* what happened, for the properties
    enqueued,       \* the observations the scanner enqueued
    fanouts,        \* how often an observation was planned
    fanned,         \* the destinations some fan-out sent
    tried, refused, \* the destinations that were asked, and those that refused for good
    oks,            \* how often a destination took an observation
    dropped, stranded,      \* lost by the queue; reopened by a replay that failed
    \* how much of each bound is used
    faults, duplicates, replays, ops

rows      == <<stored, webhooks, subscribers, ledger>>
fan       == <<fpc, fbatch, ftodo, planned, vanished>>
consumers == <<cpc, batch, todo, cur, rowId, answer>>
replay    == <<rpc, rnum, rtodo, requeued>>
attempts  == <<tried, refused, oks>>
matching  == <<matchedQ, enqueued, fanouts, fanned, dropped>>
bounds    == <<faults, duplicates, replays, ops>>
vars == <<rows, deliveryQ, dlq, fan, consumers, replay, attempts, matching,
          stranded, bounds>>

NoRow == [status |-> "none", id |-> 0]

Init ==
    /\ stored = {} /\ webhooks = Webhook /\ subscribers = Webhook
    /\ ledger = [d \in Dest |-> NoRow]
    /\ matchedQ = {} /\ deliveryQ = {} /\ dlq = {}
    /\ fpc = "idle" /\ fbatch = {} /\ ftodo = {} /\ planned = {} /\ vanished = {}
    /\ cpc = [c \in Consumer |-> "idle"]
    /\ batch = [c \in Consumer |-> {}] /\ todo = [c \in Consumer |-> {}]
    /\ cur = [c \in Consumer |-> NoMessage]
    /\ rowId = [c \in Consumer |-> 0] /\ answer = [c \in Consumer |-> "none"]
    /\ rpc = [r \in Replayer |-> "idle"] /\ rnum = [r \in Replayer |-> 0]
    /\ rtodo = [r \in Replayer |-> {}] /\ requeued = [r \in Replayer |-> {}]
    /\ enqueued = {} /\ fanouts = [o \in Observation |-> 0] /\ fanned = {}
    /\ tried = {} /\ refused = {}
    /\ oks = [d \in Dest |-> 0]
    /\ dropped = {} /\ stranded = {}
    /\ faults = 0 /\ duplicates = 0 /\ replays = 0 /\ ops = 0

Fault == faults < MaxFaults /\ faults' = faults + 1

-----------------------------------------------------------------------------
(* Fan-out.                                                                *)

\* The scanner has inserted the observation's row and sends its message.
EnqueueMatched(o) ==
    /\ o \notin enqueued
    /\ stored' = stored \cup {o}
    /\ enqueued' = enqueued \cup {o}
    /\ matchedQ' = matchedQ \cup {[obs |-> o, tries |-> 0]}
    /\ UNCHANGED <<webhooks, subscribers, ledger, deliveryQ, dlq, fan, consumers,
                   replay, attempts, fanouts, fanned, dropped, stranded, bounds>>

TakeMatched ==
    /\ fpc = "idle"
    /\ \E b \in SUBSET matchedQ :
          /\ Cardinality(b) \in 1..MaxBatch
          /\ fbatch' = b /\ ftodo' = b
          /\ matchedQ' = matchedQ \ b
    /\ fpc' = "plan"
    /\ UNCHANGED <<rows, deliveryQ, dlq, planned, vanished, consumers, replay,
                   attempts, enqueued, fanouts, fanned, dropped, stranded, bounds>>

\* Mutant: the boundary is compared the wrong way round at its own block.
EligibleEarly(o) == {w \in subscribers \cap webhooks : Boundary[w] <= BlockNumber[o] + 1}

\* listEligibleSubscriptions, and the same test again in planFanOutDeliveries.
Eligible(o) == {w \in subscribers \cap webhooks : Boundary[w] <= BlockNumber[o]}

\* One message per eligible webhook, with an id of its own.
Plan(o, n) ==
    {[dest |-> <<w, o>>, id |-> n, via |-> 0, tries |-> 0] :
        w \in Eligible(o)}

\* An observation that has vanished is given another chance.
PlanFanOut ==
    /\ fpc = "plan"
    /\ \E m \in ftodo :
          /\ ftodo' = ftodo \ {m}
          /\ \/ /\ m.obs \in stored
                /\ fanouts' = [fanouts EXCEPT ![m.obs] = @ + 1]
                /\ planned' = planned \cup Plan(m.obs, fanouts'[m.obs])
                /\ UNCHANGED vanished
             \/ /\ m.obs \notin stored
                /\ vanished' = vanished \cup {m}
                /\ UNCHANGED <<fanouts, planned>>
    /\ UNCHANGED <<rows, deliveryQ, dlq, fpc, fbatch, consumers, replay, attempts,
                   matchedQ, enqueued, fanned, dropped, stranded, bounds>>

\* One sendBatch for the whole batch of matched messages.
SendPlanned ==
    /\ fpc = "plan" /\ ftodo = {}
    /\ deliveryQ' = deliveryQ \cup planned
    /\ fanned' = fanned \cup {m.dest : m \in planned}
    /\ fpc' = "ack"
    /\ UNCHANGED <<rows, dlq, fbatch, ftodo, planned, vanished, consumers, replay,
                   attempts, matchedQ, enqueued, fanouts, dropped, stranded, bounds>>

\* The messages of b go back to the matched-activity queue; there is no
\* dead-letter queue behind it.
RetryMatched(b) ==
    /\ matchedQ' = matchedQ \cup
                     {[m EXCEPT !.tries = @ + 1] : m \in {n \in b : n.tries < MatchedRetries}}
    /\ dropped' = dropped \cup {m.obs : m \in {n \in b : n.tries >= MatchedRetries}}

FanOutEnds ==
    /\ fpc' = "idle"
    /\ fbatch' = {} /\ ftodo' = {} /\ planned' = {} /\ vanished' = {}

AckMatched ==
    /\ fpc = "ack"
    /\ RetryMatched(vanished)
    /\ FanOutEnds
    /\ UNCHANGED <<rows, deliveryQ, dlq, consumers, replay, attempts, enqueued,
                   fanouts, fanned, stranded, bounds>>

\* A read or the send fails, or the worker dies: the whole batch again.  After
\* the send this makes a second message for every destination.
FanOutFails ==
    /\ \/ fpc = "plan" /\ Fault /\ UNCHANGED duplicates
       \/ /\ fpc = "ack"
          /\ duplicates < MaxDuplicates /\ duplicates' = duplicates + 1
          /\ UNCHANGED faults
    /\ RetryMatched(fbatch)
    /\ FanOutEnds
    /\ UNCHANGED <<rows, deliveryQ, dlq, consumers, replay, attempts, enqueued,
                   fanouts, fanned, stranded, replays, ops>>

-----------------------------------------------------------------------------
(* Delivery.                                                               *)

At(c, p) == cpc[c] = p
GoTo(c, p) == cpc' = [cpc EXCEPT ![c] = p]

TakeBatch(c) ==
    /\ At(c, "idle")
    /\ \E b \in SUBSET deliveryQ :
          /\ Cardinality(b) \in 1..MaxBatch
          /\ batch' = [batch EXCEPT ![c] = b]
          /\ todo' = [todo EXCEPT ![c] = b]
          /\ deliveryQ' = deliveryQ \ b
    /\ GoTo(c, "next")
    /\ UNCHANGED <<rows, dlq, fan, cur, rowId, answer, replay, attempts, matching,
                   stranded, bounds>>

\* Mutant: the ledger is not asked.
NeverDelivered(d) == FALSE

\* hasSuccessfulDelivery
HasSuccessfulDelivery(d) == ledger[d].status = "success"

\* Nothing that was delivered is sent again.
NextMessage(c) ==
    /\ At(c, "next")
    /\ \E m \in todo[c] :
          \/ /\ HasSuccessfulDelivery(m.dest)
             /\ todo' = [todo EXCEPT ![c] = @ \ {m}]
             /\ UNCHANGED <<cpc, cur>>
          \/ /\ ~HasSuccessfulDelivery(m.dest)
             /\ cur' = [cur EXCEPT ![c] = m]
             /\ GoTo(c, "webhook")
             /\ UNCHANGED todo
    /\ UNCHANGED <<rows, deliveryQ, dlq, fan, batch, rowId, answer, replay, attempts,
                   matching, stranded, bounds>>

\* A webhook's row is never deleted: it is active or inactive.
ReadWebhook(c) ==
    /\ At(c, "webhook")
    /\ GoTo(c, IF cur[c].dest[1] \in webhooks THEN "existing" ELSE "inactive")
    /\ UNCHANGED <<rows, deliveryQ, dlq, fan, batch, todo, cur, rowId, answer, replay,
                   attempts, matching, stranded, bounds>>

\* getDeliveryByEvent; the id that later writes use is `existing?.id ?? deliveryId`.
ReadExisting(c) ==
    LET row == ledger[cur[c].dest]
    IN  /\ cpc[c] \in {"existing", "inactive"}
        /\ rowId' = [rowId EXCEPT ![c] =
                       IF row.status = "none" THEN cur[c].id ELSE row.id]
        /\ GoTo(c, IF cpc[c] = "existing"
                     THEN IF row.status = "none" THEN "insert" ELSE "post"
                     ELSE IF row.status = "none" THEN "insertFailed"
                                                 ELSE "updateFailed")
        /\ UNCHANGED <<rows, deliveryQ, dlq, fan, batch, todo, cur, answer, replay,
                       attempts, matching, stranded, bounds>>

\* INSERT OR IGNORE: the row of another consumer stays.
InsertRow(m, s) ==
    ledger' = IF ledger[m.dest].status = "none"
                THEN [ledger EXCEPT ![m.dest] = [status |-> s, id |-> m.id]]
                ELSE ledger

\* UPDATE ... WHERE id = ?: nothing changes when the row has another id.
UpdateRow(d, i, s) ==
    ledger' = IF ledger[d].status # "none" /\ ledger[d].id = i
                THEN [ledger EXCEPT ![d].status = s]
                ELSE ledger

InsertPending(c) ==
    /\ At(c, "insert")
    /\ InsertRow(cur[c], "pending")
    /\ GoTo(c, "post")
    /\ UNCHANGED <<stored, webhooks, subscribers, deliveryQ, dlq, fan, batch, todo,
                   cur, rowId, answer, replay, attempts, matching, stranded, bounds>>

\* The endpoint is asked; redirects are not followed.
Post(c) ==
    LET d == cur[c].dest
    IN  /\ At(c, "post")
        /\ \E a \in Answers :
              /\ answer' = [answer EXCEPT ![c] = a]
              /\ oks' = IF a = "ok" THEN [oks EXCEPT ![d] = @ + 1] ELSE oks
              /\ refused' = IF a = "refused" THEN refused \cup {d} ELSE refused
        /\ tried' = tried \cup {d}
        /\ GoTo(c, "record")
        /\ UNCHANGED <<rows, deliveryQ, dlq, fan, batch, todo, cur, rowId, replay,
                       matching, stranded, bounds>>

\* Mutant: a redirect or a busy endpoint counts as delivered.
AttemptLenient(a) ==
    [delivered |-> a \in {"ok", "redirect", "busy"}, retryable |-> a \notin {"ok", "refused"}]

\* attemptWebhookDelivery
Attempt(a) == [delivered |-> a = "ok", retryable |-> a \notin {"ok", "refused"}]

ClassifyDelivery(attempt) ==
    IF attempt.delivered THEN "success"
    ELSE IF attempt.retryable THEN "retry" ELSE "dead_lettered"

\* The message is done: on to the next one of the batch.
MessageDone(c) ==
    /\ todo' = [todo EXCEPT ![c] = @ \ {cur[c]}]
    /\ GoTo(c, "next")

\* The messages of a batch whose handler throws.
Redelivered(b) ==
    {[m EXCEPT !.tries = @ + 1] : m \in {n \in b : n.tries < DeliveryRetries}}

Exhausted(b) == {n \in b : n.tries >= DeliveryRetries}

BatchEnds(c) ==
    /\ GoTo(c, "idle")
    /\ batch' = [batch EXCEPT ![c] = {}]
    /\ todo' = [todo EXCEPT ![c] = {}]
    /\ cur' = [cur EXCEPT ![c] = NoMessage]
    /\ rowId' = [rowId EXCEPT ![c] = 0]
    /\ answer' = [answer EXCEPT ![c] = "none"]

\* No message is acknowledged by itself: all of them are retried, also those
\* that are done and those that were never looked at.
Throw(c) ==
    /\ deliveryQ' = deliveryQ \cup Redelivered(batch[c])
    /\ dlq' = dlq \cup Exhausted(batch[c])
    /\ BatchEnds(c)

Acknowledge(c) ==
    /\ MessageDone(c)
    /\ UNCHANGED <<deliveryQ, dlq, batch, cur, rowId, answer>>

\* Mutant: the error of a retryable attempt is swallowed.
RethrowNot(c) == Acknowledge(c)

Rethrow(c) == Throw(c)

\* Mutant: the result is stored as it is.
StatusRaw(result) == result

StatusFor(result) == IF result = "retry" THEN "pending" ELSE result

Record(c) ==
    LET result == ClassifyDelivery(Attempt(answer[c]))
    IN  /\ At(c, "record")
        /\ UpdateRow(cur[c].dest, rowId[c], StatusFor(result))
        /\ \/ result # "retry" /\ Acknowledge(c)
           \/ result = "retry" /\ Rethrow(c)
        /\ UNCHANGED <<stored, webhooks, subscribers, fan, replay, attempts, matching,
                       stranded, bounds>>

\* A message for an inactive webhook is recorded as failed and done.
RecordInactive(c) ==
    /\ \/ At(c, "insertFailed") /\ InsertRow(cur[c], "failed")
       \/ At(c, "updateFailed") /\ UpdateRow(cur[c].dest, rowId[c], "failed")
    /\ MessageDone(c)
    /\ UNCHANGED <<stored, webhooks, subscribers, deliveryQ, dlq, fan, batch, cur,
                   rowId, answer, replay, attempts, matching, stranded, bounds>>

AckBatch(c) ==
    /\ At(c, "next") /\ todo[c] = {}
    /\ BatchEnds(c)
    /\ UNCHANGED <<rows, deliveryQ, dlq, fan, replay, attempts, matching, stranded,
                   bounds>>

\* A read or a write of D1 fails, or the worker dies.
ConsumerFails(c) ==
    /\ ~At(c, "idle")
    /\ Fault
    /\ Throw(c)
    /\ UNCHANGED <<rows, fan, replay, attempts, matching, stranded, duplicates, replays,
                   ops>>

-----------------------------------------------------------------------------
(* The operator's replay of dead letters.                                  *)

\* Mutant: the rows are reopened, the messages forgotten.
ReplayedNone(r, d) == {}

\* The message keeps the id of the row; its body, built again, is abstracted.
Replayed(r, d) ==
    {[dest |-> d, id |-> ledger[d].id, via |-> rnum[r], tries |-> 0]}

\* The oldest dead letters, up to the limit; whose they are is not modelled.
ListDeadLetters(r) ==
    LET dead == {d \in Dest : ledger[d].status = "dead_lettered"}
    IN  /\ rpc[r] = "idle"
        /\ replays < MaxReplays /\ replays' = replays + 1
        /\ \E listed \in SUBSET dead :
              /\ listed # {} /\ Cardinality(listed) <= ReplayLimit
              /\ listed = dead \/ Cardinality(listed) = ReplayLimit
              /\ rtodo' = [rtodo EXCEPT ![r] = listed]
        /\ rnum' = [rnum EXCEPT ![r] = replays']
        /\ rpc' = [rpc EXCEPT ![r] = "reopen"]
        /\ UNCHANGED <<rows, deliveryQ, dlq, fan, consumers, requeued, attempts, matching,
                       stranded, faults, duplicates, ops>>

\* reopenDelivery asks for no status: the row may have been reopened by another
\* replay since it was listed, and delivered.
Reopen(r) ==
    /\ rpc[r] = "reopen"
    /\ \E d \in rtodo[r] :
          /\ rtodo' = [rtodo EXCEPT ![r] = @ \ {d}]
          /\ requeued' = [requeued EXCEPT ![r] = @ \cup Replayed(r, d)]
          /\ ledger' = [ledger EXCEPT ![d].status = "pending"]
    /\ UNCHANGED <<stored, webhooks, subscribers, deliveryQ, dlq, fan, consumers, rpc,
                   rnum, attempts, matching, stranded, bounds>>

ReplayEnds(r) ==
    /\ rpc' = [rpc EXCEPT ![r] = "idle"] /\ rnum' = [rnum EXCEPT ![r] = 0]
    /\ rtodo' = [rtodo EXCEPT ![r] = {}] /\ requeued' = [requeued EXCEPT ![r] = {}]

SendReplayed(r) ==
    /\ rpc[r] = "reopen" /\ rtodo[r] = {}
    /\ deliveryQ' = deliveryQ \cup requeued[r]
    /\ ReplayEnds(r)
    /\ UNCHANGED <<rows, dlq, fan, consumers, attempts, matching, stranded, bounds>>

\* A call fails or the worker dies: the reopened rows have no message.
ReplayFails(r) ==
    /\ rpc[r] = "reopen"
    /\ Fault
    /\ stranded' = stranded \cup {m.dest : m \in requeued[r]}
    /\ ReplayEnds(r)
    /\ UNCHANGED <<rows, deliveryQ, dlq, fan, consumers, attempts, matching, duplicates,
                   replays, ops>>

-----------------------------------------------------------------------------
(* The control plane and the clock.                                        *)

\* A deletion, as often as the bound allows.
Op == ops < MaxOps /\ ops' = ops + 1

Unsubscribe(w) ==
    /\ w \in subscribers
    /\ Op
    /\ subscribers' = subscribers \ {w}
    /\ UNCHANGED <<stored, webhooks, ledger, deliveryQ, dlq, fan, consumers, replay,
                   attempts, matching, stranded, faults, duplicates, replays>>

\* The webhook becomes inactive and its subscriptions go, in one transaction.
DeleteWebhook(w) ==
    /\ w \in webhooks
    /\ Op
    /\ webhooks' = webhooks \ {w}
    /\ subscribers' = subscribers \ {w}
    /\ UNCHANGED <<stored, ledger, deliveryQ, dlq, fan, consumers, replay, attempts,
                   matching, stranded, faults, duplicates, replays>>

\* runRetentionCleanup, after seven days.  A ledger row outlives its messages.
Expire(o) ==
    /\ o \in stored
    /\ Op
    /\ stored' = stored \ {o}
    /\ UNCHANGED <<webhooks, subscribers, ledger, deliveryQ, dlq, fan, consumers, replay,
                   attempts, matching, stranded, faults, duplicates, replays>>

-----------------------------------------------------------------------------

FanOut == TakeMatched \/ PlanFanOut \/ SendPlanned \/ AckMatched

Deliver(c) ==
    \/ TakeBatch(c) \/ NextMessage(c) \/ ReadWebhook(c) \/ ReadExisting(c)
    \/ InsertPending(c) \/ Post(c) \/ Record(c) \/ RecordInactive(c) \/ AckBatch(c)

Replay(r) == Reopen(r) \/ SendReplayed(r)

Next ==
    \/ \E o \in Observation : EnqueueMatched(o) \/ Expire(o)
    \/ \E w \in Webhook : Unsubscribe(w) \/ DeleteWebhook(w)
    \/ FanOut \/ FanOutFails
    \/ \E c \in Consumer : Deliver(c) \/ ConsumerFails(c)
    \/ \E r \in Replayer : ListDeadLetters(r) \/ Replay(r) \/ ReplayFails(r)

Spec == Init /\ [][Next]_vars

\* The queue keeps starting consumers, and an invocation that runs goes on.
Fairness ==
    /\ WF_vars(FanOut)
    /\ \A c \in Consumer : WF_vars(Deliver(c))
    /\ \A r \in Replayer : WF_vars(Replay(r))

FairSpec == Spec /\ Fairness
=============================================================================
