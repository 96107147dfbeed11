---------------------------- MODULE ControlPlane ----------------------------
(***************************************************************************)
(* Subscriptions from request to activation: the API handlers              *)
(* (src/api/subscriptions.ts, webhooks.ts, chains.ts, operator.ts), the    *)
(* command outbox they commit to (src/scanner/outbox.ts), the cron that    *)
(* redelivers it (src/index.ts) and the command handlers of the scanner    *)
(* shards (src/scanner/ScannerShard.ts).                                   *)
(*                                                                         *)
(* Every request runs in a worker of its own and any number of them at a   *)
(* time; the shard of a chain runs one operation at a time.  A step is the *)
(* code between two awaits: one read or one transaction of D1, or one call *)
(* of another service.  All subscriptions belong to one account.           *)
(***************************************************************************)
EXTENDS Integers, Sequences, FiniteSets

CONSTANTS
    Sub,            \* ids a request may draw
    Webhook, Address, Chain,
    HookOf, AddressOf, ChainOf,     \* what a subscription asks for
    Worker,         \* numbers for the API requests that may run at once
    Cron,           \* the scheduled invocation
    Nobody,
    Down,           \* chains whose upstreams never answer
    Quota,          \* active subscriptions of the account
    ChainQuota,     \* distinct chains of the account
    PageLimit,      \* commands read at once, by the cron and by a webhook's deletion
    MaxRequests,    \* bound on requests
    MaxFaults       \* bound on failed calls and crashes

ASSUME ControlAssumption ==
    /\ HookOf \in [Sub -> Webhook]
    /\ AddressOf \in [Sub -> Address]
    /\ ChainOf \in [Sub -> Chain]
    /\ Down \subseteq Chain
    /\ Cron \notin Worker /\ Nobody \notin Worker \cup {Cron}
    /\ PageLimit \in Nat \ {0}
    /\ Worker \subseteq Nat
    /\ {Quota, ChainQuota, MaxRequests, MaxFaults} \subseteq Nat
    /\ IsFiniteSet(Sub) /\ IsFiniteSet(Worker)

Caller == Worker \cup {Cron}
Target == Chain \X Address
TargetOf == [s \in Sub |-> <<ChainOf[s], AddressOf[s]>>]
TupleOf == [s \in Sub |-> <<HookOf[s], AddressOf[s], ChainOf[s]>>]

VARIABLES
    \* D1
    hooks,      \* the webhooks whose status is `active`
    state,      \* status of each subscription, "none" before it is inserted
    refs,       \* tracked_addresses: ref_count, 0 when there is no row
    registry,   \* chain_registry: status, "none" when there is no row; `degraded` is
                \* "active" too, because the cron wakes both
    outbox,     \* scanner_operations in the order of their creation
    applied,    \* the commands (positions of outbox) that are `applied`
    \* rpc-racer
    listed,     \* the chains /v1/chains knows, of those that can be asked
    forgotten,  \* the chains it knew once and has denied since (history)
    \* the requests and the cron
    wpc,
    todo,       \* subscriptions a request has still to create
    goal,       \* what the request is about
    queue,      \* commands the caller has still to dispatch
    used, seen, \* subsUsed and existingChains of a create request
    \* the shards
    spc, cmd, client,
    requests, faults    \* how much of the bounds is used

rows    == <<hooks, state, refs, registry>>
table   == <<outbox, applied>>
racer   == <<listed, forgotten>>
callers == <<wpc, todo, goal, queue, used, seen>>
shards  == <<spc, cmd, client>>
events  == <<requests, faults>>
vars == <<rows, table, racer, callers, shards, events>>

Init ==
    /\ hooks = Webhook
    /\ state = [s \in Sub |-> "none"]
    /\ refs = [t \in Target |-> 0]
    /\ registry = [c \in Chain |-> "none"]
    /\ outbox = <<>> /\ applied = {}
    /\ listed \in SUBSET (Chain \ Down) /\ forgotten = {}
    /\ wpc = [w \in Caller |-> "idle"]
    /\ todo = [w \in Caller |-> {}]
    /\ goal = [w \in Caller |-> Nobody]
    /\ queue = [w \in Caller |-> {}]
    /\ used = [w \in Caller |-> 0] /\ seen = [w \in Caller |-> {}]
    /\ spc = [c \in Chain |-> "idle"]
    /\ cmd = [c \in Chain |-> 0]
    /\ client = [c \in Chain |-> Nobody]
    /\ requests = 0 /\ faults = 0

\* Not deleted, and counted by the quotas, the unique index and ref_count.
IsLive(st) == st \in {"pending", "active", "unsupported"}
Live == {s \in Sub : IsLive(state[s])}

\* getCommand, and the filter of listPendingCommands.
Pending == DOMAIN outbox \ applied

At(w, p) == wpc[w] = p
Goto(w, p) == wpc' = [wpc EXCEPT ![w] = p]
Asked == requests < MaxRequests /\ requests' = requests + 1 /\ UNCHANGED faults
Fault == faults < MaxFaults /\ faults' = faults + 1 /\ UNCHANGED requests

-----------------------------------------------------------------------------
(* Creating subscriptions: POST /subscriptions.                            *)

\* A request names one webhook, one address and some chains.
SameRequest(S) ==
    \A s, t \in S : /\ HookOf[s] = HookOf[t] /\ AddressOf[s] = AddressOf[t]
                    /\ s # t => ChainOf[s] # ChainOf[t]

Unused(s) == state[s] = "none" /\ \A w \in Worker : s \notin todo[w] \cup {goal[w]}

\* A new id: which of the unused ones is all the same.
Fresh(s) == Unused(s) /\ s = CHOOSE t \in Sub : Unused(t) /\ TupleOf[t] = TupleOf[s]

\* A request runs in the first worker that is free: which one is all the same.
Request(w, p, g) ==
    /\ At(w, "idle") /\ \A v \in Worker : v < w => ~At(v, "idle")
    /\ Asked
    /\ Goto(w, p)
    /\ goal' = [goal EXCEPT ![w] = g]

StartCreate(w, S) ==
    /\ S # {} /\ SameRequest(S) /\ \A s \in S : Fresh(s)
    /\ Request(w, "hook", Nobody)
    /\ todo' = [todo EXCEPT ![w] = S]
    /\ UNCHANGED <<rows, table, racer, queue, used, seen, shards>>

\* The end of a request, whether it succeeds or not.
Ends(w) ==
    /\ Goto(w, "idle")
    /\ todo' = [todo EXCEPT ![w] = {}]
    /\ goal' = [goal EXCEPT ![w] = Nobody]
    /\ queue' = [queue EXCEPT ![w] = {}]
    /\ used' = [used EXCEPT ![w] = 0]
    /\ seen' = [seen EXCEPT ![w] = {}]

\* The loop over the chains goes on with T, or the request ends.
GoesOn(w, T) ==
    IF T = {} THEN Ends(w)
    ELSE /\ Goto(w, "next")
         /\ todo' = [todo EXCEPT ![w] = T]
         /\ goal' = [goal EXCEPT ![w] = Nobody]
         /\ queue' = [queue EXCEPT ![w] = {}]
         /\ UNCHANGED <<used, seen>>

\* getWebhook: an inactive webhook is refused.
ReadHook(w) ==
    /\ At(w, "hook")
    /\ \/ /\ \E s \in todo[w] : HookOf[s] \in hooks
          /\ Goto(w, "chains")
          /\ UNCHANGED <<todo, goal, queue, used, seen>>
       \/ /\ \E s \in todo[w] : HookOf[s] \notin hooks
          /\ Ends(w)
    /\ UNCHANGED <<rows, table, racer, shards, events>>

\* listActiveChainIds.
ReadChains(w) ==
    /\ At(w, "chains")
    /\ seen' = [seen EXCEPT ![w] = {ChainOf[s] : s \in Live}]
    /\ Goto(w, "count")
    /\ UNCHANGED <<rows, table, racer, todo, goal, queue, used, shards, events>>

\* countActiveSubscriptions.
CountSubs(w) ==
    /\ At(w, "count")
    /\ used' = [used EXCEPT ![w] = Cardinality(Live)]
    /\ Goto(w, "next")
    /\ UNCHANGED <<rows, table, racer, todo, goal, queue, seen, shards, events>>

HasQuota(w, s) ==
    /\ used[w] < Quota
    /\ ChainOf[s] \in seen[w] \/ Cardinality(seen[w]) < ChainQuota

\* hasActiveSubscription.
TupleExists(s) == \E t \in Live : TupleOf[t] = TupleOf[s]

\* One turn of the loop over the chains: the subscription is reported as a
\* conflict or over quota, or will be inserted.
Examine(w, s) ==
    /\ At(w, "next") /\ s \in todo[w]
    /\ \/ /\ ~TupleExists(s) /\ HasQuota(w, s)
          /\ todo' = [todo EXCEPT ![w] = @ \ {s}]
          /\ goal' = [goal EXCEPT ![w] = s]
          /\ Goto(w, "commit")
          /\ UNCHANGED <<queue, used, seen>>
       \/ /\ TupleExists(s) \/ ~HasQuota(w, s)
          /\ GoesOn(w, todo[w] \ {s})
    /\ UNCHANGED <<rows, table, racer, shards, events>>

Command(kind, s, c) == [kind |-> kind, sub |-> s, chain |-> c]

\* Mutant: the upsert resets the status of a row that exists.
RegisteredAgain(c) == [registry EXCEPT ![c] = "pending"]

\* The chain's row, when there is none yet.
Registered(c) == [registry EXCEPT ![c] = IF @ = "none" THEN "pending" ELSE @]

\* Mutant: the request does not count what it has created itself.
CountedOnce(n) == n

\* subsUsed, while the request goes through its chains.
Counted(n) == n + 1

\* The tuple is unique among live subscriptions (idx_subscriptions_active).
IndexAdmits(s) == ~TupleExists(s)

\* Mutant: there is no trigger.
TriggerAdmitsAll(s) == TRUE

\* The trigger subscriptions_require_active_webhook.
TriggerAdmits(s) == HookOf[s] \in hooks

\* submitScrSubscribe: the four rows in one transaction.
InsertSubscription(w) ==
    /\ At(w, "commit")
    /\ LET s == goal[w]
           c == ChainOf[s]
       IN /\ TriggerAdmits(s) /\ IndexAdmits(s)
          /\ state' = [state EXCEPT ![s] = "pending"]
          /\ refs' = [refs EXCEPT ![TargetOf[s]] = @ + 1]
          /\ registry' = Registered(c)
          /\ outbox' = Append(outbox, Command("subscribe", s, c))
          /\ used' = [used EXCEPT ![w] = Counted(@)]
          /\ seen' = [seen EXCEPT ![w] = @ \cup {c}]
    /\ queue' = [queue EXCEPT ![w] = {Len(outbox) + 1}]
    /\ goal' = [goal EXCEPT ![w] = Nobody]
    /\ Goto(w, "wait")
    /\ UNCHANGED <<hooks, applied, racer, todo, shards, events>>

\* The transaction is rolled back.  A lost race for the tuple is a conflict
\* and the loop goes on; the trigger's error ends the request.
InsertRefused(w) ==
    /\ At(w, "commit")
    /\ \/ /\ TriggerAdmits(goal[w]) /\ ~IndexAdmits(goal[w])
          /\ GoesOn(w, todo[w])
       \/ /\ ~TriggerAdmits(goal[w])
          /\ Ends(w)
    /\ UNCHANGED <<rows, table, racer, shards, events>>

-----------------------------------------------------------------------------
(* Deleting: DELETE /subscriptions/:id and DELETE /webhooks/:id.           *)

StartDelete(w, s) ==
    /\ state[s] # "none"
    /\ Request(w, "unsubscribe", s)
    /\ UNCHANGED <<rows, table, racer, todo, queue, used, seen, shards>>

\* The live subscriptions of a scope (unsubscribeStatements).
InScope(S) == S \cap Live

\* Mutant: the count of the address is decremented on every chain.
ReleasedEverywhere(S) ==
    [t \in Target |-> refs[t] - Cardinality({s \in S : AddressOf[s] = t[2]})]

\* Mutant: the subscriptions are marked before their references are counted.
ReleasedLate(S) == refs

\* The references that are left when those of S are taken.
Released(S) == [t \in Target |-> refs[t] - Cardinality({s \in S : TargetOf[s] = t})]

\* Their commands, in some order; a command that exists is not inserted again.
Unsubscribes(S) ==
    {q \in [1..Cardinality(S) -> {Command("unsubscribe", s, ChainOf[s]) : s \in S}] :
        \A i, j \in DOMAIN q : q[i] = q[j] => i = j}

\* The four statements of unsubscribeStatements, in one transaction.
Unsubscribe(scope) ==
    LET S == InScope(scope)
        new == {s \in S : \A n \in DOMAIN outbox :
                              outbox[n] # Command("unsubscribe", s, ChainOf[s])}
    IN /\ \E q \in Unsubscribes(new) : outbox' = outbox \o q
       /\ refs' = Released(S)
       /\ state' = [s \in Sub |-> IF s \in S THEN "deleting" ELSE state[s]]

\* submitScrUnsubscribe.  The command of a repeated deletion is dispatched again.
DeleteSubscription(w) ==
    /\ At(w, "unsubscribe")
    /\ Unsubscribe({goal[w]})
    /\ queue' = [queue EXCEPT ![w] =
           {n \in DOMAIN outbox' :
               outbox'[n] = Command("unsubscribe", goal[w], ChainOf[goal[w]])}]
    /\ Goto(w, "wait")
    /\ UNCHANGED <<hooks, registry, applied, racer, todo, goal, used, seen, shards, events>>

StartDeleteHook(w, h) ==
    /\ Request(w, "unhook", h)
    /\ UNCHANGED <<rows, table, racer, todo, queue, used, seen, shards>>

\* submitWebhookDelete: the endpoint and all its subscriptions.
DeleteHook(w) ==
    /\ At(w, "unhook")
    /\ hooks' = hooks \ {goal[w]}
    /\ Unsubscribe({s \in Sub : HookOf[s] = goal[w]})
    /\ Goto(w, "page")
    /\ UNCHANGED <<registry, applied, racer, todo, goal, queue, used, seen, shards, events>>

\* At most PageLimit of the pending commands are dispatched at once.
ReadCascade(w) ==
    /\ At(w, "page")
    /\ LET mine == {n \in Pending : /\ outbox[n].kind = "unsubscribe"
                                    /\ HookOf[outbox[n].sub] = goal[w]}
       IN \/ /\ mine # {}
             /\ \E Q \in SUBSET mine :
                   /\ Q # {} /\ Cardinality(Q) <= PageLimit
                   /\ Q = mine \/ Cardinality(Q) = PageLimit
                   /\ queue' = [queue EXCEPT ![w] = Q]
             /\ Goto(w, "wait")
             /\ UNCHANGED <<todo, goal, used, seen>>
          \/ mine = {} /\ Ends(w)
    /\ UNCHANGED <<rows, table, racer, shards, events>>

-----------------------------------------------------------------------------
(* Asking for a chain again: POST /chains/:id/retry.                       *)

\* An account needs an unsupported subscription on the chain.
StartRetry(w, c) ==
    /\ \E s \in Sub : state[s] = "unsupported" /\ ChainOf[s] = c
    /\ Request(w, "retry", c)
    /\ UNCHANGED <<rows, table, racer, todo, queue, used, seen, shards>>

\* hasPendingRetryCommand.
RetryPending(c) == \E n \in Pending : outbox[n] = Command("retry_chain", Nobody, c)

ReadRetry(w) ==
    /\ At(w, "retry")
    /\ \/ /\ RetryPending(goal[w])
          /\ Ends(w)
       \/ /\ ~RetryPending(goal[w])
          /\ Goto(w, "insert")
          /\ UNCHANGED <<todo, goal, queue, used, seen>>
    /\ UNCHANGED <<rows, table, racer, shards, events>>

\* The operator's own route asks neither question.
StartOperatorRetry(w, c) ==
    /\ Request(w, "insert", c)
    /\ UNCHANGED <<rows, table, racer, todo, queue, used, seen, shards>>

InsertRetry(w) ==
    /\ At(w, "insert")
    /\ outbox' = Append(outbox, Command("retry_chain", Nobody, goal[w]))
    /\ queue' = [queue EXCEPT ![w] = {Len(outbox) + 1}]
    /\ Goto(w, "wait")
    /\ UNCHANGED <<rows, applied, racer, todo, goal, used, seen, shards, events>>

-----------------------------------------------------------------------------
(* The cron: redispatchPending.                                            *)

\* Mutant: the page leaves out the commands of deletions.
OldestSubscribes ==
    {n \in Pending : /\ outbox[n].kind # "unsubscribe"
                     /\ Cardinality({m \in Pending : m < n}) < PageLimit}

\* listPendingCommands: the oldest ones.
OldestPending == {n \in Pending : Cardinality({m \in Pending : m < n}) < PageLimit}

StartReconcile ==
    /\ At(Cron, "idle") /\ OldestPending # {}
    /\ queue' = [queue EXCEPT ![Cron] = OldestPending]
    /\ Goto(Cron, "wait")
    /\ UNCHANGED <<rows, table, racer, todo, goal, used, seen, shards, events>>

\* The command a caller dispatches: the cron goes through its page in order.
Dispatches(w, n) ==
    /\ At(w, "wait") /\ n \in queue[w]
    /\ w = Cron => \A m \in queue[w] : n <= m
    /\ \A c \in Chain : client[c] # w

\* dispatchCommand has its answer.
Answered(w, n) ==
    IF queue[w] = {n} THEN GoesOn(w, todo[w])
    ELSE /\ queue' = [queue EXCEPT ![w] = @ \ {n}]
         /\ UNCHANGED <<wpc, todo, goal, used, seen>>

-----------------------------------------------------------------------------
(* The shard of a chain: POST /apply.                                      *)

Standing(c, p) == spc[c] = p
Step(c, p) == spc' = [spc EXCEPT ![c] = p] /\ UNCHANGED <<cmd, client>>

\* The object is free again; a caller that is still there has its answer.
Finish(c) ==
    /\ spc' = [spc EXCEPT ![c] = "idle"]
    /\ cmd' = [cmd EXCEPT ![c] = 0]
    /\ client' = [client EXCEPT ![c] = Nobody]

Replies(c) ==
    /\ Finish(c)
    /\ IF client[c] = Nobody THEN UNCHANGED callers ELSE Answered(client[c], cmd[c])

FirstStep(kind) ==
    CASE kind = "subscribe" -> "read" [] kind = "unsubscribe" -> "mark"
      [] kind = "retry_chain" -> "resolve"

\* applyCommand: a command that is not pending is done with.
Apply(c, w) ==
    /\ Standing(c, "idle")
    /\ \E n \in DOMAIN outbox :
          /\ Dispatches(w, n) /\ outbox[n].chain = c
          /\ \/ /\ n \in Pending
                /\ spc' = [spc EXCEPT ![c] = FirstStep(outbox[n].kind)]
                /\ cmd' = [cmd EXCEPT ![c] = n]
                /\ client' = [client EXCEPT ![c] = w]
                /\ UNCHANGED callers
             \/ /\ n \notin Pending
                /\ Answered(w, n)
                /\ UNCHANGED shards
    /\ UNCHANGED <<rows, table, racer, events>>

Subject(c) == outbox[cmd[c]].sub
IsSubscribe(c) == outbox[cmd[c]].kind = "subscribe"

\* getSubscriptionById: one that is deleted, or active already, needs nothing.
ReadSub(c) ==
    /\ Standing(c, "read")
    /\ Step(c, IF state[Subject(c)] \in {"deleting", "active"} THEN "mark" ELSE "resolve")
    /\ UNCHANGED <<rows, table, racer, callers, events>>

\* The registry's row is updated only where it exists.
SetRegistry(c, st) ==
    registry' = [registry EXCEPT ![c] = IF @ = "none" THEN @ ELSE st]

\* resolveChain finds the chain; the activation of a subscription reads the status
\* that it will write, a retry does not.
Resolve(c) ==
    /\ Standing(c, "resolve") /\ c \in listed
    /\ Step(c, IF IsSubscribe(c) /\ registry[c] = "paused" THEN "hold" ELSE "register")
    /\ UNCHANGED <<rows, table, racer, callers, events>>

\* The registry is told what was read, whatever it holds by now.
Register(c) ==
    /\ \/ Standing(c, "register") /\ SetRegistry(c, "active")
       \/ Standing(c, "hold") /\ SetRegistry(c, "paused")
    /\ Step(c, "activate")
    /\ UNCHANGED <<hooks, state, refs, table, racer, callers, events>>

\* A 404: the chain is unsupported.
ResolveUnknown(c) ==
    /\ Standing(c, "resolve") /\ c \notin listed \cup Down
    /\ SetRegistry(c, "unsupported")
    /\ Step(c, IF IsSubscribe(c) THEN "reject" ELSE "mark")
    /\ UNCHANGED <<hooks, state, refs, table, racer, callers, events>>

\* markCommandApplied, and the last statement of an activation.
Applies(c) == applied' = applied \cup {cmd[c]}

\* Mutant: a command whose chain does not answer is given up.
GivesUp(c) == Applies(c)

\* recordCommandRetry leaves the command pending.
Keeps(c) == UNCHANGED applied

\* No answer, or none that can be used, from the chain's metadata or from its
\* head; /apply answers ok all the same.
Unresolved(c) ==
    /\ \/ Standing(c, "resolve") /\ c \in Down /\ UNCHANGED events
       \/ spc[c] \in {"resolve", "activate"} /\ c \notin Down /\ Fault
    /\ Keeps(c)
    /\ Replies(c)
    /\ UNCHANGED <<rows, outbox, racer>>

\* Mutant: the activation does not look at the row again.
ActivatableBlindly(c) ==
    {s \in Sub : IF IsSubscribe(c) THEN s = Subject(c)
                 ELSE ChainOf[s] = c /\ state[s] = "unsupported"}

\* The subscriptions an activation is for: the command's own while it is
\* pending, or every unsupported one of the chain; of active webhooks.
Activatable(c) ==
    {s \in Sub : /\ IF IsSubscribe(c) THEN s = Subject(c) /\ state[s] = "pending"
                    ELSE ChainOf[s] = c /\ state[s] = "unsupported"
                 /\ HookOf[s] \in hooks}

\* completeSubscriptionActivation: one transaction.
Complete(c) ==
    /\ Standing(c, "activate")
    /\ LET S == Activatable(c)
       IN state' = [s \in Sub |-> IF s \in S THEN "active" ELSE state[s]]
    /\ Applies(c)
    /\ Replies(c)
    /\ UNCHANGED <<hooks, refs, registry, outbox, racer, events>>

\* setSubscriptionStatus: unless it is deleted.
Reject(c) ==
    /\ Standing(c, "reject")
    /\ state' = [state EXCEPT ![Subject(c)] = IF IsLive(@) THEN "unsupported" ELSE @]
    /\ Step(c, "mark")
    /\ UNCHANGED <<hooks, refs, registry, table, racer, callers, events>>

\* markCommandApplied.
Mark(c) ==
    /\ Standing(c, "mark")
    /\ Applies(c)
    /\ Replies(c)
    /\ UNCHANGED <<rows, outbox, racer, events>>

-----------------------------------------------------------------------------
(* Failures and the environment.                                           *)

\* The caller is given up by everyone who works for it.
Forgotten(w) == client' = [c \in Chain |-> IF client[c] = w THEN Nobody ELSE client[c]]

\* A call of a worker fails, or it dies: the request, or the cron, ends there.
\* A transaction it had committed stays.
CallerFails(w) ==
    /\ ~At(w, "idle") /\ Fault
    /\ Ends(w) /\ Forgotten(w)
    /\ UNCHANGED <<rows, table, racer, spc, cmd>>

\* A call of a shard fails, or the object is evicted: /apply answers an error,
\* and dispatchCommand throws.
ShardFails(c) ==
    /\ ~Standing(c, "idle") /\ Fault
    /\ Finish(c)
    /\ IF client[c] = Nobody THEN UNCHANGED callers ELSE Ends(client[c])
    /\ UNCHANGED <<rows, table, racer>>

\* rpc-racer learns of a chain.
ListChain(c) ==
    /\ c \notin listed \cup Down
    /\ listed' = listed \cup {c}
    /\ UNCHANGED <<rows, table, forgotten, callers, shards, events>>

\* rpc-racer answers 404 for a chain it knew, until it lists it again.
ForgetChain(c) ==
    /\ c \in listed
    /\ listed' = listed \ {c}
    /\ forgotten' = forgotten \cup {c}
    /\ UNCHANGED <<rows, table, callers, shards, events>>

\* The operator's two requests, each one statement.
PauseOrResume(c) ==
    /\ Asked
    /\ \E st \in {"paused", "active"} : SetRegistry(c, st)
    /\ UNCHANGED <<hooks, state, refs, table, racer, callers, shards>>

\* A scan pass that degrades or re-anchors the chain writes the status without
\* reading it, between two commands.
Rescan(c) ==
    /\ Standing(c, "idle") /\ c \notin Down
    /\ registry[c] \in {"paused", "unsupported"}
    /\ SetRegistry(c, "active")
    /\ UNCHANGED <<hooks, state, refs, table, racer, callers, shards, events>>

-----------------------------------------------------------------------------
Proceed(w) ==
    \/ ReadHook(w) \/ ReadChains(w) \/ CountSubs(w)
    \/ \E s \in Sub : Examine(w, s)
    \/ InsertSubscription(w) \/ InsertRefused(w)
    \/ DeleteSubscription(w) \/ DeleteHook(w) \/ ReadCascade(w)
    \/ ReadRetry(w) \/ InsertRetry(w)

Ask(w) ==
    \/ \E S \in SUBSET Sub : StartCreate(w, S)
    \/ \E s \in Sub : StartDelete(w, s)
    \/ \E h \in Webhook : StartDeleteHook(w, h)
    \/ \E c \in Chain : StartRetry(w, c) \/ StartOperatorRetry(w, c)

Serve(c) ==
    \/ ReadSub(c) \/ Resolve(c) \/ Register(c) \/ ResolveUnknown(c) \/ Unresolved(c)
    \/ Complete(c) \/ Reject(c) \/ Mark(c)

\* What happens to a chain beside the commands.
Beside(c) == ListChain(c) \/ ForgetChain(c) \/ PauseOrResume(c) \/ Rescan(c)

Next ==
    \/ \E w \in Worker : Ask(w) \/ Proceed(w)
    \/ StartReconcile
    \/ \E c \in Chain, w \in Caller : Apply(c, w)
    \/ \E c \in Chain : Serve(c)
    \/ \E w \in Caller : CallerFails(w)
    \/ \E c \in Chain : ShardFails(c) \/ Beside(c)

Spec == Init /\ [][Next]_vars

\* The cron comes back, requests and shards go on, and a shard that is
\* free takes one of the requests that wait for it.
Fairness ==
    /\ WF_vars(StartReconcile)
    /\ WF_vars(\E w \in Worker : Proceed(w))
    /\ \A c \in Chain : WF_vars(Serve(c))
    /\ \A c \in Chain : WF_vars(\E w \in Caller : Apply(c, w))

FairSpec == Spec /\ Fairness
=============================================================================
