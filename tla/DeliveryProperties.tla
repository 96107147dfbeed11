------------------------- MODULE DeliveryProperties -------------------------
(***************************************************************************)
(* What the delivery pipeline must do, stated over Delivery.               *)
(***************************************************************************)
EXTENDS Delivery

Message == [dest : Dest, id : Nat, via : Nat, tries : Nat]
Matched == [obs : Observation, tries : Nat]
Row     == [status : {"none", "pending", "success", "failed", "dead_lettered"}, id : Nat]

TablesOK ==
    /\ stored \subseteq Observation
    /\ webhooks \subseteq Webhook /\ subscribers \subseteq Webhook
    /\ ledger \in [Dest -> Row]

FanOutOK ==
    /\ fpc \in {"idle", "plan", "ack"}
    /\ matchedQ \subseteq Matched /\ fbatch \subseteq Matched
    /\ ftodo \subseteq Matched /\ vanished \subseteq Matched
    /\ planned \subseteq Message
    /\ fanouts \in [Observation -> Nat]
    /\ enqueued \subseteq Observation /\ dropped \subseteq Observation
    /\ fanned \subseteq Dest

QueuesOK ==
    /\ deliveryQ \subseteq Message /\ dlq \subseteq Message
    /\ rpc \in [Replayer -> {"idle", "reopen"}] /\ rnum \in [Replayer -> Nat]
    /\ rtodo \in [Replayer -> SUBSET Dest] /\ stranded \subseteq Dest
    /\ requeued \in [Replayer -> SUBSET Message]

ConsumersOK ==
    /\ cpc \in [Consumer -> {"idle", "next", "webhook", "existing", "insert", "post",
                             "record", "inactive", "insertFailed", "updateFailed"}]
    /\ batch \in [Consumer -> SUBSET Message] /\ todo \in [Consumer -> SUBSET Message]
    /\ cur \in [Consumer -> Message \cup {NoMessage}]
    /\ rowId \in [Consumer -> Nat]
    /\ answer \in [Consumer -> AnswerClass \cup {"none"}]

HistoryOK ==
    /\ tried \subseteq Dest /\ refused \subseteq Dest
    /\ oks \in [Dest -> Nat]
    /\ {faults, duplicates, replays, ops} \subseteq Nat

\* Every variable keeps the kind of value the code and the queues store in it.
TypeOK == TablesOK /\ FanOutOK /\ QueuesOK /\ ConsumersOK /\ HistoryOK

-----------------------------------------------------------------------------
(* Nothing is lost.                                                        *)

\* The messages for a destination, wherever they are.
Requeued == UNION {requeued[r] : r \in Replayer}

OnTheWay == deliveryQ \cup Requeued \cup UNION {batch[c] : c \in Consumer}

Waiting(o) == \E m \in matchedQ \cup fbatch : m.obs = o

Terminal(d) == ledger[d].status \in {"success", "failed", "dead_lettered"}

\* Whatever fails, and however batches are retried: an enqueued observation waits
\* for its fan-out until it was sent to every webhook that is still subscribed, and
\* a destination it was sent to has a message on its way until the ledger says how
\* it ended.  The exceptions are the losses by design: retries used up, on either
\* queue, and rows that a failed replay reopened.
NothingLost ==
    /\ \A o \in enqueued : \/ Waiting(o)
                           \/ o \in dropped
                           \/ \A w \in Eligible(o) : <<w, o>> \in fanned
    /\ \A d \in fanned : \/ \E m \in OnTheWay \cup dlq : m.dest = d
                         \/ Terminal(d)
                         \/ d \in stranded

\* Every destination an observation was sent to comes to its end: a delivery, a
\* verdict in the ledger, the dead-letter queue, or the row of a failed replay.
Settles ==
    \A d \in Dest :
        (d \in fanned) ~> \/ Terminal(d) \/ oks[d] > 0
                          \/ \E m \in dlq : m.dest = d
                          \/ d \in stranded

-----------------------------------------------------------------------------
(* What the ledger and the endpoints are told.                             *)

\* The delivery history is true: `success` only if the endpoint answered 2xx,
\* `dead_lettered` only if it refused, `failed` only if the webhook was deleted,
\* whichever consumer or replay wrote the row last.
LedgerTruthful ==
    \A d \in Dest :
        /\ ledger[d].status = "success" => oks[d] > 0
        /\ ledger[d].status = "dead_lettered" => d \in refused
        /\ ledger[d].status = "failed" => d[1] \notin webhooks

\* No webhook is asked to take an observation below the first block of its
\* subscription, by no fan-out, retry or replay.
OnlyEligible == \A d \in Dest : d \in tried => Boundary[d[1]] <= BlockNumber[d[2]]

\* While no fan-out was repeated and no dead letter replayed, a destination takes an
\* observation once, and once more for each failure: batches that are retried, to
\* whichever consumer, do not make it take what it has taken.
ResendsArePaidFor ==
    duplicates = 0 /\ replays = 0 => \A d \in Dest : oks[d] <= 1 + faults

-----------------------------------------------------------------------------
(* What the documents say and the code does not do.                        *)

\* A destination whose message was given up after its last retry is surfaced in the
\* ledger, where the operator lists what to replay: its row is not left `pending`.
ExhaustedAreSurfaced == \A m \in dlq : Terminal(m.dest)
=============================================================================
