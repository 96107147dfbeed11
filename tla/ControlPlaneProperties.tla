----------------------- MODULE ControlPlaneProperties -----------------------
(***************************************************************************)
(* What the control plane must do.                                         *)
(***************************************************************************)
EXTENDS ControlPlane

Kind == {"subscribe", "unsubscribe", "retry_chain"}

\* Every variable has its type.
TypeOK ==
    /\ hooks \subseteq Webhook
    /\ state \in [Sub -> {"none", "pending", "active", "unsupported", "deleting"}]
    /\ refs \in [Target -> Nat]
    /\ registry \in [Chain -> {"none", "pending", "active", "paused", "unsupported"}]
    /\ outbox \in Seq([kind : Kind, sub : Sub \cup {Nobody}, chain : Chain])
    /\ applied \subseteq DOMAIN outbox
    /\ listed \subseteq Chain \ Down /\ forgotten \subseteq Chain \ Down
    /\ wpc \in [Caller -> {"idle", "hook", "chains", "count", "next", "commit", "wait",
                           "unsubscribe", "unhook", "page", "retry", "insert"}]
    /\ todo \in [Caller -> SUBSET Sub]
    /\ goal \in [Caller -> Sub \cup Webhook \cup Chain \cup {Nobody}]
    /\ queue \in [Caller -> SUBSET DOMAIN outbox]
    /\ used \in [Caller -> Nat]
    /\ seen \in [Caller -> SUBSET Chain]
    /\ spc \in [Chain -> {"idle", "read", "resolve", "register", "hold", "activate",
                          "reject", "mark"}]
    /\ cmd \in [Chain -> {0} \cup DOMAIN outbox]
    /\ client \in [Chain -> Caller \cup {Nobody}]
    /\ requests \in 0..MaxRequests /\ faults \in 0..MaxFaults

\* The reference count of an address is the number of its live subscriptions,
\* through repeated deletions, cascades and rolled-back creations: with less the
\* scanner stops looking for somebody, with more it never stops
\* (outbox.ts:92 and 188).
RefsMatch ==
    \A t \in Target : refs[t] = Cardinality({s \in Live : TargetOf[s] = t})

\* A subscription that still waits has a command that still waits: whatever
\* failed or was given up, the cron finds it (outbox.ts:100).
PendingHasCommand ==
    \A s \in Sub : state[s] = "pending" =>
        \E n \in Pending : outbox[n] = Command("subscribe", s, ChainOf[s])

\* No live subscription outlives its webhook, also when the request that
\* creates it read the webhook's status before it was deleted
\* (subscriptions.ts:56).
LiveHasWebhook == \A s \in Live : HookOf[s] \in hooks

\* An active subscription is on a chain the cron keeps awake (index.ts:26), but for
\* two chains: one the operator paused, and one that rpc-racer denied after it had
\* listed it, which the shard marks unsupported for everybody (ScannerShard.ts:727).
ActiveIsScanned ==
    \A s \in Sub : state[s] = "active" =>
        registry[ChainOf[s]] \in {"active", "paused"} \/ ChainOf[s] \in forgotten

\* Quotas are read before the insert, so requests that run at once may exceed
\* them, by no more than a quota for each other one (subscriptions.ts:70, 92).
OvershootBounded == Cardinality(Live) <= Quota * Cardinality(Worker)

\* The control plane implements the abstract subscriptions: the deletion of one
\* is final whatever a shard is doing with it, no two live ones have the same
\* tuple, and the targets with a reference are those of the live ones.
Promised == INSTANCE Subscriptions WITH tracked <- {t \in Target : refs[t] > 0}

Implements == Promised!Spec

\* Every command is applied in the end, unless its chain cannot be asked: since
\* the requests are finitely many, there is a moment, again and again, when
\* only commands of such chains are left (outbox.ts:237, index.ts:22).
Unanswerable(n) == outbox[n].kind # "unsubscribe" /\ outbox[n].chain \in Down

CommandsApplied == []<>(\A n \in Pending : Unanswerable(n))
=============================================================================
