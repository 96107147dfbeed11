------------------------- MODULE DeliveryOnceProofs -------------------------
(***************************************************************************)
(* That retries do not make an endpoint take what it has taken, for any    *)
(* webhooks, observations, consumers and limits.  The ledger is asked      *)
(* before the request and told after it, so this needs that no two         *)
(* consumers work on one destination: as long as nothing was repeated,     *)
(* there is one message for each.                                          *)
(***************************************************************************)
EXTENDS DeliveryProofs

Clean == duplicates = 0 /\ replays = 0

NoReplay == \A r \in Replayer : rpc[r] = "idle"

\* The messages of the first queue whose observation has not been sent.
Unsent == matchedQ \cup (IF fpc = "ack" THEN vanished ELSE fbatch)

\* An observation has one message on the first queue, and none once it was sent.
FanOnce ==
    /\ matchedQ \cap fbatch = {}
    /\ \A m \in matchedQ \cup fbatch : m.obs \in enqueued
    /\ \A m \in matchedQ \cup fbatch : \A n \in matchedQ \cup fbatch :
           m.obs = n.obs => m = n
    /\ \A d \in fanned : d[2] \in enqueued /\ \A m \in Unsent : m.obs # d[2]

\* What the fan-out has planned: one message each, of observations it has read.
PlanOnce ==
    /\ fpc = "idle" => planned = {} /\ vanished = {}
    /\ ftodo \subseteq fbatch /\ vanished \subseteq fbatch /\ ftodo \cap vanished = {}
    /\ fpc = "plan" =>
           \A p \in planned : \E m \in fbatch \ (ftodo \cup vanished) : p.dest[2] = m.obs
    /\ \A p \in planned : \A q \in planned : p.dest = q.dest => p = q

\* A destination has one message, on the second queue or in one batch.
OneCopy ==
    /\ \A m \in deliveryQ : m.dest \in fanned
    /\ \A c \in Consumer : \A m \in batch[c] : m.dest \in fanned
    /\ \A m \in deliveryQ : \A n \in deliveryQ : m.dest = n.dest => m = n
    /\ \A c \in Consumer : \A m \in batch[c] : \A n \in batch[c] : m.dest = n.dest => m = n
    /\ \A c \in Consumer : \A m \in batch[c] : \A n \in deliveryQ : m.dest # n.dest
    /\ \A c \in Consumer : \A e \in Consumer \ {c} :
           \A m \in batch[c] : \A n \in batch[e] : m.dest # n.dest

\* A consumer knows the row it is going to write, and the row is no success.
RowKnown(c) ==
    /\ Busy(c) => ledger[cur[c].dest].status # "success"
    /\ cpc[c] = "insert" => /\ ledger[cur[c].dest].status = "none"
                            /\ rowId[c] = cur[c].id
    /\ cpc[c] \in {"post", "record"} => /\ ledger[cur[c].dest].status # "none"
                                        /\ rowId[c] = ledger[cur[c].dest].id

\* What a destination took is in the ledger, or about to be written there.
Known(d) ==
    \/ ledger[d].status = "success"
    \/ \E c \in Consumer : cpc[c] = "record" /\ answer[c] = "ok" /\ cur[c].dest = d

\* A second answer is paid for by a failure that kept the first from the ledger.
Paid(d) == oks[d] <= faults \/ (oks[d] <= faults + 1 /\ Known(d))

LedgerOnce ==
    /\ \A c \in Consumer : RowKnown(c)
    /\ \A d \in Dest : Paid(d)

Once == NoReplay /\ FanOnce /\ PlanOnce /\ OneCopy /\ LedgerOnce

OnceInv == Clean => Once

LEMMA OnceInit == Init => OnceInv
  <1> SUFFICES ASSUME Init PROVE Once
    BY DEF OnceInv
  <1> USE DEF Init
  <1>1. NoReplay /\ FanOnce /\ PlanOnce /\ OneCopy
    BY DEF NoReplay, FanOnce, PlanOnce, OneCopy, Unsent
  <1>2. LedgerOnce
    BY DEF LedgerOnce, RowKnown, Busy, Paid
  <1> QED
    BY <1>1, <1>2 DEF Once

\* What was repeated stays repeated.
LEMMA CleanBefore ==
    ASSUME TInv, [Next]_vars, Clean'
    PROVE  Clean
  <1> USE DEF Clean, TInv, TypeOK, HistoryOK
  <1>1. CASE UNCHANGED vars
    BY <1>1 DEF vars, bounds
  <1>2. CASE FanOut \/ FanOutFails \/ \E o \in Observation : EnqueueMatched(o) \/ Expire(o)
    BY <1>2 DEF FanOut, TakeMatched, PlanFanOut, SendPlanned, AckMatched, FanOutFails, Fault,
         EnqueueMatched, Expire, bounds
  <1>3. CASE \E w \in Webhook : Unsubscribe(w) \/ DeleteWebhook(w)
    BY <1>3 DEF Unsubscribe, DeleteWebhook
  <1>4. CASE \E c \in Consumer : Deliver(c) \/ ConsumerFails(c)
    BY <1>4 DEF Deliver, TakeBatch, NextMessage, ReadWebhook, ReadExisting, InsertPending,
         Post, Record, RecordInactive, AckBatch, ConsumerFails, bounds
  <1>5. CASE \E r \in Replayer : ListDeadLetters(r) \/ Replay(r) \/ ReplayFails(r)
    BY <1>5 DEF ListDeadLetters, Replay, Reopen, SendReplayed, ReplayFails, Fault, bounds
  <1> QED
    BY <1>1, <1>2, <1>3, <1>4, <1>5 DEF Next

-----------------------------------------------------------------------------
(* The first queue.                                                        *)

\* Nothing happens to the consumers and the ledger, but perhaps a failure.
LEMMA LedgerRests ==
    ASSUME TInv, LedgerOnce, UNCHANGED <<ledger, oks, cpc, cur, rowId, answer>>,
           faults' \in Nat, faults' >= faults
    PROVE  LedgerOnce'
  <1>1. \A c \in Consumer : RowKnown(c)'
    BY DEF LedgerOnce, RowKnown, Busy
  <1>2. oks \in [Dest -> Nat] /\ faults \in Nat
    BY DEF TInv, TypeOK, HistoryOK
  <1>3. ASSUME NEW d \in Dest
        PROVE  Paid(d)'
    <2>1. Known(d)' <=> Known(d)
      BY DEF Known
    <2>2. oks[d] \in Nat /\ oks'[d] = oks[d]
      BY <1>2
    <2>3. Paid(d)
      BY DEF LedgerOnce
    <2> HIDE DEF Known
    <2> QED
      BY <1>2, <2>1, <2>2, <2>3 DEF Paid
  <1> QED
    BY <1>1, <1>3 DEF LedgerOnce

\* The messages of b go back, and what they are for was not sent.
LEMMA RetryOnce ==
    ASSUME TInv, FanOnce, NEW b, b \subseteq fbatch, b \subseteq Unsent,
           RetryMatched(b), FanOutEnds, UNCHANGED <<enqueued, fanned>>
    PROVE  FanOnce' /\ PlanOnce'
  <1>1. \A m \in Matched : [m EXCEPT !.tries = @ + 1].obs = m.obs
    BY DEF Matched
  <1>2. b \subseteq Matched
    BY DEF TInv, TypeOK, FanOutOK
  <1>3. ASSUME NEW n \in matchedQ'
        PROVE  \/ n \in matchedQ
               \/ \E m \in b : n = [m EXCEPT !.tries = @ + 1] /\ n.obs = m.obs
    BY <1>1, <1>2 DEF RetryMatched
  <1>4. fbatch' = {} /\ fpc' = "idle"
    BY DEF FanOutEnds
  <1>5. \A m \in matchedQ' : m.obs \in enqueued' /\ \A d \in fanned' : m.obs # d[2]
    BY <1>3 DEF FanOnce, Unsent
  <1>6. ASSUME NEW m \in matchedQ', NEW n \in matchedQ', m.obs = n.obs
        PROVE  m = n
    <2>1. CASE m \in matchedQ /\ n \in matchedQ
      BY <1>6, <2>1 DEF FanOnce
    <2>2. CASE m \in matchedQ /\ n \notin matchedQ
      BY <1>3, <1>6, <2>2 DEF FanOnce
    <2>3. CASE m \notin matchedQ /\ n \in matchedQ
      BY <1>3, <1>6, <2>3 DEF FanOnce
    <2>4. CASE m \notin matchedQ /\ n \notin matchedQ
      <3>1. PICK x \in b : m = [x EXCEPT !.tries = @ + 1] /\ m.obs = x.obs
        BY <1>3, <2>4
      <3>2. PICK y \in b : n = [y EXCEPT !.tries = @ + 1] /\ n.obs = y.obs
        BY <1>3, <2>4
      <3>3. x = y
        BY <1>6, <3>1, <3>2 DEF FanOnce
      <3> QED
        BY <3>1, <3>2, <3>3
    <2> QED
      BY <2>1, <2>2, <2>3, <2>4
  <1>7. FanOnce'
    BY <1>4, <1>5, <1>6 DEF FanOnce, Unsent
  <1> QED
    BY <1>7 DEF FanOutEnds, PlanOnce

LEMMA FanOutOnce ==
    ASSUME TInv, Once, Clean', FanOut \/ FanOutFails
    PROVE  Once'
  <1> USE DEF Once
  <1>0. /\ NoReplay' /\ LedgerOnce'
    <2>1. /\ UNCHANGED <<rpc, ledger, oks, cpc, cur, rowId, answer>>
          /\ faults' \in Nat /\ faults' >= faults
      BY DEF FanOut, TakeMatched, PlanFanOut, SendPlanned, AckMatched, FanOutFails, Fault,
         rows, consumers, replay, attempts, bounds, TInv, TypeOK, HistoryOK
    <2> QED
      BY <2>1, LedgerRests DEF NoReplay
  <1>1. CASE TakeMatched
    <2>1. FanOnce'
      BY <1>1 DEF TakeMatched, FanOnce, PlanOnce, Unsent
    <2>2. PlanOnce'
      BY <1>1 DEF TakeMatched, PlanOnce
    <2>3. OneCopy'
      BY <1>1 DEF TakeMatched, OneCopy, consumers
    <2> QED
      BY <1>0, <2>1, <2>2, <2>3
  <1>2. CASE PlanFanOut
    <2>1. FanOnce' /\ OneCopy'
      BY <1>2 DEF PlanFanOut, FanOnce, Unsent, OneCopy, consumers
    <2>2. PICK m \in ftodo :
             /\ ftodo' = ftodo \ {m}
             /\ \/ /\ planned' = planned \cup Plan(m.obs, fanouts'[m.obs])
                   /\ vanished' = vanished
                \/ vanished' = vanished \cup {m} /\ planned' = planned
      BY <1>2 DEF PlanFanOut
    <2>3. fpc = "plan" /\ fpc' = "plan" /\ fbatch' = fbatch /\ m \in fbatch /\ m \notin vanished
      BY <1>2 DEF PlanFanOut, PlanOnce
    <2>4. /\ \A p \in Plan(m.obs, fanouts'[m.obs]) : p.dest[2] = m.obs
          /\ \A p \in Plan(m.obs, fanouts'[m.obs]) : \A q \in Plan(m.obs, fanouts'[m.obs]) :
                 p.dest = q.dest => p = q
      BY DEF Plan
    <2>5. \A p \in planned : p.dest[2] # m.obs
      BY <2>3 DEF PlanOnce, FanOnce
    <2>6. /\ ftodo' \subseteq fbatch' /\ vanished' \subseteq fbatch' /\ ftodo' \cap vanished' = {}
      BY <2>2, <2>3 DEF PlanOnce
    <2>7. \A p \in planned' : \E n \in fbatch' \ (ftodo' \cup vanished') : p.dest[2] = n.obs
      <3>1. ASSUME NEW p \in planned
            PROVE  \E n \in fbatch' \ (ftodo' \cup vanished') : p.dest[2] = n.obs
        <4>1. PICK n \in fbatch \ (ftodo \cup vanished) : p.dest[2] = n.obs
          BY <2>3 DEF PlanOnce
        <4>2. n # m
          BY <4>1
        <4> QED
          BY <2>2, <2>3, <4>1, <4>2
      <3>2. CASE vanished' = vanished
        <4>1. m \in fbatch' \ (ftodo' \cup vanished')
          BY <2>2, <2>3, <3>2
        <4> QED
          BY <2>2, <2>4, <3>1, <4>1
      <3>3. CASE planned' = planned
        BY <3>1, <3>3
      <3> QED
        BY <2>2, <3>2, <3>3
    <2>8. \A p \in planned' : \A q \in planned' : p.dest = q.dest => p = q
      BY <2>2, <2>4, <2>5 DEF PlanOnce
    <2>9. PlanOnce'
      BY <2>3, <2>6, <2>7, <2>8 DEF PlanOnce
    <2> QED
      BY <1>0, <2>1, <2>9
  <1>3. CASE SendPlanned
    <2>1. /\ fpc = "plan" /\ ftodo = {} /\ fpc' = "ack" /\ deliveryQ' = deliveryQ \cup planned
          /\ fanned' = fanned \cup {m.dest : m \in planned}
          /\ UNCHANGED <<matchedQ, fbatch, ftodo, planned, vanished, enqueued, batch>>
      BY <1>3 DEF SendPlanned, consumers
    <2>2. \A p \in planned : \E m \in fbatch \ vanished : p.dest[2] = m.obs
      BY <2>1 DEF PlanOnce
    <2>3. \A p \in planned : p.dest[2] \in enqueued /\ \A m \in matchedQ \cup vanished :
                                                           m.obs # p.dest[2]
      BY <2>2 DEF FanOnce, PlanOnce
    <2>4. \A p \in planned : p.dest \notin fanned
      BY <2>1, <2>2 DEF FanOnce, Unsent
    <2>5. FanOnce'
      <3>1. Unsent' \subseteq Unsent /\ Unsent' = matchedQ \cup vanished
        BY <2>1 DEF Unsent, PlanOnce
      <3>2. ASSUME NEW d \in fanned'
            PROVE  d[2] \in enqueued /\ \A m \in Unsent' : m.obs # d[2]
        <4>1. CASE d \in fanned
          BY <3>1, <4>1 DEF FanOnce
        <4>2. CASE d \notin fanned
          BY <2>1, <2>3, <3>1, <4>2
        <4> QED
          BY <4>1, <4>2
      <3> QED
        BY <2>1, <3>2 DEF FanOnce
    <2>6. PlanOnce'
      BY <2>1 DEF PlanOnce
    <2>7. OneCopy'
      <3>1. \A m \in deliveryQ' : \A n \in deliveryQ' : m.dest = n.dest => m = n
        BY <2>1, <2>4 DEF OneCopy, PlanOnce
      <3>2. \A m \in deliveryQ' : m.dest \in fanned'
        BY <2>1 DEF OneCopy
      <3>3. \A c \in Consumer : \A m \in batch[c] : \A n \in deliveryQ' : m.dest # n.dest
        BY <2>1, <2>4 DEF OneCopy
      <3> QED
        BY <2>1, <3>1, <3>2, <3>3 DEF OneCopy
    <2> QED
      BY <1>0, <2>5, <2>6, <2>7
  <1>4. CASE AckMatched
    <2>1. vanished \subseteq fbatch /\ vanished \subseteq Unsent
      BY <1>4 DEF AckMatched, PlanOnce, Unsent
    <2>2. FanOnce' /\ PlanOnce'
      BY <1>4, <2>1, RetryOnce DEF AckMatched
    <2>3. OneCopy'
      BY <1>4 DEF AckMatched, OneCopy, consumers
    <2> QED
      BY <1>0, <2>2, <2>3
  <1>5. CASE FanOutFails
    <2>1. fpc = "plan"
      BY <1>5 DEF FanOutFails, Clean, TInv, TypeOK, HistoryOK
    <2>2. FanOnce' /\ PlanOnce'
      BY <1>5, <2>1, RetryOnce DEF FanOutFails, Unsent
    <2>3. OneCopy'
      BY <1>5 DEF FanOutFails, OneCopy, consumers
    <2> QED
      BY <1>0, <2>2, <2>3
  <1> QED
    BY <1>1, <1>2, <1>3, <1>4, <1>5 DEF FanOut

LEMMA OutsideOnce ==
    ASSUME TInv, Once,
           \/ \E o \in Observation : EnqueueMatched(o) \/ Expire(o)
           \/ \E w \in Webhook : Unsubscribe(w) \/ DeleteWebhook(w)
    PROVE  Once'
  <1> USE DEF Once
  <1>1. /\ UNCHANGED <<rpc, ledger, oks, cpc, cur, rowId, answer, faults>>
        /\ UNCHANGED <<batch, deliveryQ, fanned, fan>>
    BY DEF EnqueueMatched, Expire, Unsubscribe, DeleteWebhook, consumers, replay, attempts,
       bounds, matching
  <1>2. NoReplay' /\ LedgerOnce' /\ OneCopy' /\ PlanOnce'
    BY <1>1, LedgerRests DEF NoReplay, OneCopy, PlanOnce, fan, TInv, TypeOK, HistoryOK
  <1>3. CASE \E o \in Observation : EnqueueMatched(o)
    <2>1. PICK o \in Observation :
             /\ o \notin enqueued /\ enqueued' = enqueued \cup {o}
             /\ matchedQ' = matchedQ \cup {[obs |-> o, tries |-> 0]}
      BY <1>3 DEF EnqueueMatched
    <2> DEFINE n == [obs |-> o, tries |-> 0]
    <2>2. n.obs = o /\ matchedQ' = matchedQ \cup {n}
      BY <2>1
    <2>3. n \notin fbatch /\ \A m \in matchedQ \cup fbatch : m.obs # o
      BY <2>1, <2>2 DEF FanOnce
    <2>4. Unsent' = Unsent \cup {n} /\ \A d \in fanned : d[2] # o
      BY <1>1, <2>1 DEF Unsent, FanOnce, fan
    <2> HIDE DEF n
    <2>5. FanOnce'
      BY <1>1, <2>1, <2>2, <2>3, <2>4 DEF FanOnce, fan
    <2> QED
      BY <1>2, <2>5
  <1>4. CASE ~\E o \in Observation : EnqueueMatched(o)
    <2>1. FanOnce'
      BY <1>1, <1>4 DEF FanOnce, Unsent, fan, matching, Expire, Unsubscribe, DeleteWebhook
    <2> QED
      BY <1>2, <2>1
  <1> QED
    BY <1>3, <1>4

-----------------------------------------------------------------------------
(* The consumers.                                                          *)

\* Two consumers never work on one destination.
LEMMA Exclusive ==
    ASSUME TInv, OneCopy, NEW c \in Consumer, Busy(c), NEW e \in Consumer \ {c}, Busy(e)
    PROVE  cur[c].dest # cur[e].dest
  <1>1. cur[c] \in batch[c] /\ cur[e] \in batch[e]
    BY DEF TInv, WorkInv
  <1> QED
    BY <1>1 DEF OneCopy

\* A batch that is thrown back leaves one message for each destination.
LEMMA ThrowOnce ==
    ASSUME TInv, OneCopy, NEW c \in Consumer, Throw(c), UNCHANGED fanned
    PROVE  OneCopy'
  <1>1. \A m \in Message : [m EXCEPT !.tries = @ + 1].dest = m.dest
    BY DEF Message
  <1>2. batch[c] \subseteq Message /\ batch' = [batch EXCEPT ![c] = {}]
    BY DEF TInv, TypeOK, ConsumersOK, Throw, BatchEnds
  <1>3. batch'[c] = {} /\ \A e \in Consumer \ {c} : batch'[e] = batch[e]
    BY <1>2 DEF TInv, TypeOK, ConsumersOK
  <1>4. ASSUME NEW n \in deliveryQ'
        PROVE  \/ n \in deliveryQ
               \/ \E m \in batch[c] : n = [m EXCEPT !.tries = @ + 1] /\ n.dest = m.dest
    BY <1>1, <1>2 DEF Throw, Redelivered
  <1>5. \A m \in deliveryQ' : m.dest \in fanned'
    BY <1>4 DEF OneCopy
  <1>6. ASSUME NEW m \in deliveryQ', NEW n \in deliveryQ', m.dest = n.dest
        PROVE  m = n
    <2>1. CASE m \in deliveryQ /\ n \in deliveryQ
      BY <1>6, <2>1 DEF OneCopy
    <2>2. CASE m \in deliveryQ /\ n \notin deliveryQ
      BY <1>4, <1>6, <2>2 DEF OneCopy
    <2>3. CASE m \notin deliveryQ /\ n \in deliveryQ
      BY <1>4, <1>6, <2>3 DEF OneCopy
    <2>4. CASE m \notin deliveryQ /\ n \notin deliveryQ
      <3>1. PICK x \in batch[c] : m = [x EXCEPT !.tries = @ + 1] /\ m.dest = x.dest
        BY <1>4, <2>4
      <3>2. PICK y \in batch[c] : n = [y EXCEPT !.tries = @ + 1] /\ n.dest = y.dest
        BY <1>4, <2>4
      <3>3. x = y
        BY <1>6, <3>1, <3>2 DEF OneCopy
      <3> QED
        BY <3>1, <3>2, <3>3
    <2> QED
      BY <2>1, <2>2, <2>3, <2>4
  <1>7. \A e \in Consumer \ {c} : \A m \in batch[e] : \A n \in deliveryQ' : m.dest # n.dest
    BY <1>4 DEF OneCopy
  <1> QED
    BY <1>3, <1>5, <1>6, <1>7 DEF OneCopy

\* Everything of the other consumers and of the other destinations stays.
LEMMA OthersOnce ==
    ASSUME TInv, OneCopy, LedgerOnce, NEW c \in Consumer, Busy(c), oks' = oks, faults' = faults,
           \A e \in Consumer \ {c} : /\ cpc'[e] = cpc[e] /\ cur'[e] = cur[e]
                                     /\ rowId'[e] = rowId[e] /\ answer'[e] = answer[e],
           NEW d \in Dest, d = cur[c].dest,
           \A f \in Dest : f # d => ledger'[f] = ledger[f],
           RowKnown(c)',
           Paid(d)'
    PROVE  LedgerOnce'
  <1>1. ASSUME NEW e \in Consumer \ {c}
        PROVE  RowKnown(e)'
    <2>1. CASE Busy(e)
      <3>1. cur[e].dest # cur[c].dest /\ cur[e].dest \in Dest
        BY <2>1, Exclusive, CurMessage
      <3>2. ledger'[cur[e].dest] = ledger[cur[e].dest] /\ cur'[e] = cur[e]
        BY <3>1
      <3> QED
        BY <3>2 DEF LedgerOnce, RowKnown, Busy
    <2>2. CASE ~Busy(e)
      BY <2>2 DEF RowKnown, Busy
    <2> QED
      BY <2>1, <2>2
  <1>2. ASSUME NEW f \in Dest, f # d
        PROVE  Paid(f)'
    <2>1. Known(f) => Known(f)'
      BY <1>2 DEF Known
    <2>2. Paid(f) /\ oks'[f] = oks[f]
      BY DEF LedgerOnce
    <2> HIDE DEF Known
    <2> QED
      BY <2>1, <2>2 DEF Paid
  <1> QED
    BY <1>1, <1>2 DEF LedgerOnce

\* Before the request is answered, an answer of 2xx in the past has been paid for.
LEMMA UnknownPaid ==
    ASSUME TInv, OneCopy, LedgerOnce, NEW c \in Consumer, Busy(c),
           ~(cpc[c] = "record" /\ answer[c] = "ok")
    PROVE  oks[cur[c].dest] <= faults
  <1>1. cur[c].dest \in Dest
    BY CurMessage
  <1>2. ledger[cur[c].dest].status # "success"
    BY DEF LedgerOnce, RowKnown
  <1>3. \A e \in Consumer \ {c} : cpc[e] = "record" => cur[e].dest # cur[c].dest
    BY Exclusive DEF Busy
  <1>4. ~Known(cur[c].dest)
    BY <1>2, <1>3 DEF Known
  <1> QED
    BY <1>1, <1>4 DEF LedgerOnce, Paid

\* A consumer that is not about to record moves, and the ledger stays.
LEMMA MovesOnce ==
    ASSUME TInv, OneCopy, LedgerOnce, NEW c \in Consumer,
           UNCHANGED <<ledger, oks>>, faults' = faults,
           cpc[c] # "record",
           \A e \in Consumer \ {c} : /\ cpc'[e] = cpc[e] /\ cur'[e] = cur[e]
                                     /\ rowId'[e] = rowId[e] /\ answer'[e] = answer[e],
           RowKnown(c)'
    PROVE  LedgerOnce'
  <1>1. \A e \in Consumer \ {c} : RowKnown(e)'
    BY DEF LedgerOnce, RowKnown, Busy
  <1>2. ASSUME NEW d \in Dest
        PROVE  Paid(d)'
    <2>1. Known(d) => Known(d)'
      BY DEF Known
    <2>2. Paid(d) /\ oks'[d] = oks[d]
      BY DEF LedgerOnce
    <2> HIDE DEF Known
    <2> QED
      BY <2>1, <2>2 DEF Paid
  <1> QED
    BY <1>1, <1>2 DEF LedgerOnce

LEMMA ReadsOnce ==
    ASSUME TInv, OneCopy, LedgerOnce, NEW c \in Consumer,
           TakeBatch(c) \/ NextMessage(c) \/ ReadWebhook(c) \/ ReadExisting(c) \/ AckBatch(c)
    PROVE  OneCopy' /\ LedgerOnce'
  <1> USE DEF TInv, TypeOK, ConsumersOK
  <1>1. /\ UNCHANGED <<ledger, oks, faults, fanned>> /\ cpc[c] # "record"
        /\ \A e \in Consumer \ {c} : /\ cpc'[e] = cpc[e] /\ cur'[e] = cur[e]
                                     /\ rowId'[e] = rowId[e] /\ answer'[e] = answer[e]
    BY DEF TakeBatch, NextMessage, ReadWebhook, ReadExisting, AckBatch, BatchEnds, At, GoTo,
       rows, attempts, bounds, matching
  <1>2. OneCopy'
    <2>1. CASE TakeBatch(c)
      BY <1>1, <2>1 DEF TakeBatch, OneCopy
    <2>2. CASE ~TakeBatch(c)
      <3>1. /\ deliveryQ' = deliveryQ
            /\ \A e \in Consumer : batch'[e] \subseteq batch[e]
        BY <2>2 DEF NextMessage, ReadWebhook, ReadExisting, AckBatch, BatchEnds
      <3> QED
        BY <1>1, <3>1 DEF OneCopy
    <2> QED
      BY <2>1, <2>2
  <1>3. CASE TakeBatch(c) \/ NextMessage(c) \/ AckBatch(c)
    <2>1. RowKnown(c)'
      <3>1. cpc'[c] \in {"idle", "next", "webhook"}
        BY <1>3 DEF TakeBatch, NextMessage, At, AckBatch, BatchEnds, GoTo
      <3>2. ASSUME cpc'[c] = "webhook"
            PROVE  ledger'[cur'[c].dest].status # "success"
        <4>1. NextMessage(c)
          BY <1>3, <3>2 DEF TakeBatch, AckBatch, BatchEnds, GoTo
        <4> QED
          BY <3>2, <4>1 DEF NextMessage, At, HasSuccessfulDelivery, rows
      <3> QED
        BY <3>1, <3>2 DEF RowKnown, Busy
    <2> QED
      BY <1>1, <1>2, <2>1, MovesOnce
  <1>4. CASE ReadWebhook(c)
    <2>1. RowKnown(c)'
      BY <1>4 DEF ReadWebhook, At, GoTo, LedgerOnce, RowKnown, Busy, rows
    <2> QED
      BY <1>1, <1>2, <2>1, MovesOnce
  <1>5. CASE ReadExisting(c)
    <2>1. RowKnown(c)'
      BY <1>5 DEF ReadExisting, GoTo, LedgerOnce, RowKnown, Busy, rows
    <2> QED
      BY <1>1, <1>2, <2>1, MovesOnce
  <1> QED
    BY <1>3, <1>4, <1>5

\* A failure pays for what the batch may do again.
LEMMA ThrowLedgerOnce ==
    ASSUME TInv, OneCopy, LedgerOnce, NEW c \in Consumer, Throw(c), oks' = oks,
           UNCHANGED ledger, faults' = faults + 1
    PROVE  LedgerOnce'
  <1>1. /\ cpc'[c] = "idle"
        /\ \A e \in Consumer \ {c} : /\ cpc'[e] = cpc[e] /\ cur'[e] = cur[e]
                                     /\ rowId'[e] = rowId[e] /\ todo'[e] = todo[e]
    BY Idles DEF Throw
  <1>2. \A e \in Consumer : RowKnown(e)'
    BY <1>1 DEF LedgerOnce, RowKnown, Busy
  <1>3. \A d \in Dest : oks[d] \in Nat /\ faults \in Nat
    BY DEF TInv, TypeOK, HistoryOK
  <1>4. \A d \in Dest : oks[d] <= faults + 1
    BY <1>3 DEF LedgerOnce, Paid
  <1> QED
    BY <1>2, <1>4 DEF LedgerOnce, Paid

LEMMA WritesOnce ==
    ASSUME TInv, OneCopy, LedgerOnce, NEW c \in Consumer,
           InsertPending(c) \/ Post(c) \/ Record(c) \/ RecordInactive(c) \/ ConsumerFails(c)
    PROVE  OneCopy' /\ LedgerOnce'
  <1> USE DEF TInv, TypeOK, ConsumersOK
  <1> SUFFICES ASSUME NEW d, d = cur[c].dest PROVE OneCopy' /\ LedgerOnce'
    OBVIOUS
  <1>0. ledger \in [Dest -> Row] /\ oks \in [Dest -> Nat] /\ faults \in Nat
    BY DEF TablesOK, HistoryOK
  <1>1. CASE ConsumerFails(c)
    BY <1>1, ThrowOnce, ThrowLedgerOnce DEF ConsumerFails, Fault, rows, matching, attempts
  <1>2. ASSUME ~ConsumerFails(c)
        PROVE  /\ Busy(c) /\ cur[c] \in Message /\ d \in Dest /\ rowId[c] \in Nat
               /\ UNCHANGED <<fanned, faults>>
    <2>1. Busy(c) /\ UNCHANGED <<fanned, faults>>
      BY <1>2 DEF InsertPending, Post, Record, RecordInactive, At, Busy, matching, bounds
    <2> QED
      BY <2>1, CurMessage
  <1>3. CASE InsertPending(c) /\ ~ConsumerFails(c)
    <2>1. /\ cpc[c] = "insert" /\ cpc'[c] = "post" /\ InsertRow(cur[c], "pending")
          /\ UNCHANGED <<cur, rowId, answer, oks, batch, deliveryQ>>
          /\ \A e \in Consumer \ {c} : cpc'[e] = cpc[e]
      BY <1>3 DEF InsertPending, At, GoTo, attempts
    <2>2. ledger[d].status = "none" /\ rowId[c] = cur[c].id
      BY <2>1 DEF LedgerOnce, RowKnown
    <2>3. /\ ledger' = [ledger EXCEPT ![d] = [status |-> "pending", id |-> cur[c].id]]
          /\ \A f \in Dest : f # d => ledger'[f] = ledger[f]
      BY <1>0, <2>1, <2>2 DEF InsertRow
    <2>4. RowKnown(c)'
      BY <1>0, <1>2, <1>3, <2>1, <2>2, <2>3 DEF RowKnown
    <2>5. Paid(d)'
      <3>1. oks[d] <= faults
        BY <1>2, <1>3, <2>1, UnknownPaid
      <3> QED
        BY <1>2, <1>3, <2>1, <3>1 DEF Paid
    <2>6. OneCopy'
      BY <1>2, <1>3, <2>1 DEF OneCopy
    <2> QED
      BY <1>2, <1>3, <2>1, <2>3, <2>4, <2>5, <2>6, OthersOnce
  <1>4. CASE Post(c) /\ ~ConsumerFails(c)
    <2>1. /\ cpc[c] = "post" /\ cpc'[c] = "record"
          /\ UNCHANGED <<cur, rowId, ledger, batch, deliveryQ>>
          /\ \A e \in Consumer \ {c} : cpc'[e] = cpc[e] /\ answer'[e] = answer[e]
          /\ (oks' = [oks EXCEPT ![d] = @ + 1] /\ answer'[c] = "ok") \/ oks' = oks
      BY <1>4 DEF Post, At, GoTo, rows
    <2>2. OneCopy'
      BY <1>2, <1>4, <2>1 DEF OneCopy
    <2>3. \A e \in Consumer : RowKnown(e)'
      BY <2>1 DEF LedgerOnce, RowKnown, Busy
    <2>4. oks[d] <= faults
      BY <1>2, <1>4, <2>1, UnknownPaid
    <2>5. Paid(d)'
      <3>1. CASE oks' = oks
        BY <1>2, <1>4, <2>1, <2>4, <3>1 DEF Paid
      <3>2. CASE oks' = [oks EXCEPT ![d] = @ + 1] /\ answer'[c] = "ok"
        <4>1. oks'[d] = oks[d] + 1 /\ oks[d] \in Nat
          BY <1>0, <1>2, <1>4, <3>2
        <4>2. oks'[d] <= faults' + 1
          BY <1>0, <1>2, <1>4, <2>4, <4>1
        <4>3. Known(d)'
          BY <2>1, <3>2 DEF Known
        <4> QED
          BY <2>1, <4>2, <4>3 DEF Paid
      <3> QED
        BY <2>1, <3>1, <3>2
    <2>6. ASSUME NEW f \in Dest, f # d
          PROVE  Paid(f)'
      <3>1. Known(f) => Known(f)'
        BY <2>1 DEF Known
      <3>2. oks'[f] = oks[f] /\ Paid(f)
        BY <1>0, <2>1, <2>6 DEF LedgerOnce
      <3> QED
        BY <1>2, <1>4, <3>1, <3>2 DEF Paid
    <2> QED
      BY <2>2, <2>3, <2>5, <2>6 DEF LedgerOnce
  <1>5. CASE Record(c) /\ ~ConsumerFails(c)
    <2> DEFINE s == StatusFor(ClassifyDelivery(Attempt(answer[c])))
    <2>1. /\ cpc[c] = "record" /\ UpdateRow(d, rowId[c], s) /\ oks' = oks
          /\ Acknowledge(c) \/ Throw(c)
      BY <1>5 DEF Record, At, Rethrow, attempts
    <2>2. /\ s \in {"pending", "success", "dead_lettered"}
          /\ answer[c] = "ok" => s = "success"
      BY DEF StatusFor, ClassifyDelivery, Attempt
    <2>3. ledger[d].status # "none" /\ rowId[c] = ledger[d].id
      BY <2>1 DEF LedgerOnce, RowKnown
    <2> HIDE DEF s
    <2>4. ledger' = [ledger EXCEPT ![d].status = s]
      BY <2>1, <2>3 DEF UpdateRow
    <2>5. ledger'[d].status = s /\ \A f \in Dest : f # d => ledger'[f] = ledger[f]
      <3>1. [ledger[d] EXCEPT !.status = s].status = s
        BY <1>0, <1>2, <1>5 DEF Row
      <3> QED
        BY <1>0, <1>2, <1>5, <2>4, <3>1
    <2>6. /\ cpc'[c] \in {"idle", "next"}
          /\ \A e \in Consumer \ {c} : /\ cpc'[e] = cpc[e] /\ cur'[e] = cur[e]
                                       /\ rowId'[e] = rowId[e] /\ answer'[e] = answer[e]
      BY <2>1 DEF Acknowledge, Throw, BatchEnds, MessageDone, GoTo
    <2>7. RowKnown(c)'
      BY <2>6 DEF RowKnown, Busy
    <2>8. Paid(d)'
      <3>1. CASE answer[c] = "ok"
        <4>1. Known(d) /\ ledger'[d].status = "success"
          BY <2>1, <2>2, <2>5, <3>1 DEF Known
        <4>2. oks[d] <= faults + 1
          BY <1>0, <1>2, <1>5 DEF LedgerOnce, Paid
        <4>3. oks'[d] <= faults' + 1 /\ ledger'[d].status = "success"
          BY <1>2, <1>5, <2>1, <4>1, <4>2
        <4> QED
          BY <4>3 DEF Paid, Known
      <3>2. CASE answer[c] # "ok"
        BY <1>2, <1>5, <2>1, <3>2, UnknownPaid DEF Paid
      <3> QED
        BY <3>1, <3>2
    <2>9. OneCopy'
      <3>1. CASE Acknowledge(c)
        BY <1>2, <1>5, <3>1 DEF Acknowledge, OneCopy
      <3>2. CASE Throw(c)
        BY <1>2, <1>5, <3>2, ThrowOnce
      <3> QED
        BY <2>1, <3>1, <3>2
    <2> QED
      BY <1>2, <1>5, <2>1, <2>5, <2>6, <2>7, <2>8, <2>9, OthersOnce
  <1>6. CASE RecordInactive(c) /\ ~ConsumerFails(c)
    <2>1. /\ cpc'[c] = "next" /\ cpc[c] \in {"insertFailed", "updateFailed"}
          /\ InsertRow(cur[c], "failed") \/ UpdateRow(d, rowId[c], "failed")
          /\ UNCHANGED <<cur, rowId, answer, oks, batch, deliveryQ>>
          /\ \A e \in Consumer \ {c} : cpc'[e] = cpc[e]
      BY <1>6 DEF RecordInactive, MessageDone, At, GoTo, attempts
    <2>2. \A f \in Dest : f # d => ledger'[f] = ledger[f]
      BY <1>2, <1>6, <2>1, WritesKeep
    <2>3. RowKnown(c)'
      BY <2>1 DEF RowKnown, Busy
    <2>4. Paid(d)'
      <3>1. oks[d] <= faults
        BY <1>2, <1>6, <2>1, UnknownPaid
      <3> QED
        BY <1>2, <1>6, <2>1, <3>1 DEF Paid
    <2>5. OneCopy'
      BY <1>2, <1>6, <2>1 DEF OneCopy
    <2> QED
      BY <1>2, <1>6, <2>1, <2>2, <2>3, <2>4, <2>5, OthersOnce
  <1> QED
    BY <1>1, <1>3, <1>4, <1>5, <1>6

LEMMA DeliverOnce ==
    ASSUME TInv, Once, NEW c \in Consumer, Deliver(c) \/ ConsumerFails(c)
    PROVE  Once'
  <1> USE DEF Once
  <1>1. UNCHANGED <<fan, replay, matching>>
    BY DEF Deliver, TakeBatch, NextMessage, ReadWebhook, ReadExisting, InsertPending, Post,
       Record, RecordInactive, AckBatch, ConsumerFails
  <1>2. NoReplay' /\ FanOnce' /\ PlanOnce'
    BY <1>1 DEF NoReplay, FanOnce, PlanOnce, Unsent, fan, replay, matching
  <1>3. OneCopy' /\ LedgerOnce'
    BY ReadsOnce, WritesOnce DEF Deliver
  <1> QED
    BY <1>2, <1>3

LEMMA OnceStep == TInv /\ OnceInv /\ [Next]_vars => OnceInv'
  <1> SUFFICES ASSUME TInv, OnceInv, [Next]_vars, Clean' PROVE Once'
    BY DEF OnceInv
  <1>1. Clean /\ Once
    BY CleanBefore DEF OnceInv
  <1>2. CASE UNCHANGED vars
    <2>1. UNCHANGED <<ledger, oks, cpc, cur, rowId, answer, faults, rpc>>
      BY <1>2 DEF vars, rows, consumers, replay, attempts, bounds
    <2>2. LedgerOnce'
      BY <1>1, <2>1, LedgerRests DEF Once, TInv, TypeOK, HistoryOK
    <2>3. NoReplay' /\ FanOnce' /\ PlanOnce' /\ OneCopy'
      BY <1>1, <1>2, <2>1
         DEF Once, NoReplay, FanOnce, PlanOnce, OneCopy, Unsent, vars, fan, consumers, matching
    <2> QED
      BY <2>2, <2>3 DEF Once
  <1>3. ~\E r \in Replayer : ListDeadLetters(r) \/ Replay(r) \/ ReplayFails(r)
    BY <1>1 DEF Clean, Once, NoReplay, ListDeadLetters, Replay, Reopen, SendReplayed,
         ReplayFails, TInv, TypeOK, HistoryOK
  <1> QED
    BY <1>1, <1>2, <1>3, FanOutOnce, OutsideOnce, DeliverOnce DEF Next

\* However many consumers share the messages, and however often a batch is retried,
\* an endpoint takes an observation once, and once more for each failure, unless a
\* fan-out was repeated or a dead letter replayed.
THEOREM ResendsPaid == Spec => []ResendsArePaidFor
  <1>1. Spec => [](TInv /\ OnceInv)
    BY TypesInit, TypesStep, OnceInit, OnceStep, PTL DEF Spec
  <1>2. TInv /\ OnceInv => ResendsArePaidFor
    <2> SUFFICES ASSUME TInv, Once, NEW d \in Dest PROVE oks[d] <= 1 + faults
      BY DEF ResendsArePaidFor, OnceInv, Clean
    <2>1. oks[d] \in Nat /\ faults \in Nat /\ Paid(d)
      BY DEF TInv, TypeOK, HistoryOK, Once, LedgerOnce
    <2> QED
      BY <2>1 DEF Paid
  <1> QED
    BY <1>1, <1>2, PTL
=============================================================================
