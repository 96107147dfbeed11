------------------------- MODULE ControlPlaneProofs -------------------------
(***************************************************************************)
(* What is proved of the control plane, for any number of workers,         *)
(* subscriptions, webhooks and chains, and without any bound.              *)
(***************************************************************************)
EXTENDS ControlPlaneProperties, FiniteSetTheorems, TLAPS

Status == {"none", "pending", "active", "unsupported", "deleting"}

\* What happens to a chain beside the commands changes its row, or what
\* rpc-racer knows of it, and nothing else.
LEMMA BesideFrame ==
    ASSUME NEW c \in Chain, Beside(c)
    PROVE  UNCHANGED <<hooks, state, refs, table, callers, shards>>
<1>1. CASE ListChain(c) \/ ForgetChain(c)
  BY <1>1 DEF ListChain, ForgetChain, rows
<1>2. CASE PauseOrResume(c) \/ Rescan(c)
  BY <1>2 DEF PauseOrResume, Rescan
<1> QED BY <1>1, <1>2 DEF Beside

\* The part of the state that matters to the webhooks' subscriptions.
HookInv ==
    /\ state \in [Sub -> Status]
    /\ LiveHasWebhook

\* A step that changes neither the subscriptions nor the webhooks.
LEMMA HookFrame ==
    HookInv /\ UNCHANGED <<state, hooks>> => HookInv'
  BY DEF HookInv, LiveHasWebhook, Live, IsLive, Status

\* The subscriptions of a scope become `deleting`, the others stay.
LEMMA ScopeDeleted ==
    ASSUME HookInv, NEW scope, Unsubscribe(scope)
    PROVE  /\ state' \in [Sub -> Status]
           /\ \A s \in Sub : IsLive(state'[s]) => IsLive(state[s]) /\ s \notin scope
  BY DEF HookInv, Unsubscribe, InScope, Live, IsLive, Status

\* The only steps that change a subscription or a webhook.
LEMMA HookSteps ==
    ASSUME HookInv, Next
    PROVE  HookInv'
<1>1. ASSUME NEW w \in Worker, Ask(w) PROVE HookInv'
  <2>1. UNCHANGED <<state, hooks>>
    BY <1>1 DEF Ask, StartCreate, StartDelete, StartDeleteHook, StartRetry,
                StartOperatorRetry, rows
  <2> QED BY <2>1, HookFrame
<1>2. ASSUME NEW w \in Worker, Proceed(w) PROVE HookInv'
  <2>1. CASE InsertSubscription(w)
    <3>1. HookOf[goal[w]] \in hooks
      BY <2>1 DEF InsertSubscription, TriggerAdmits
    <3>2. hooks' = hooks /\ state' = [state EXCEPT ![goal[w]] = "pending"]
      BY <2>1 DEF InsertSubscription
    <3> QED BY <3>1, <3>2 DEF HookInv, LiveHasWebhook, Live, IsLive, Status
  <2>2. CASE DeleteSubscription(w)
    <3>1. hooks' = hooks /\ Unsubscribe({goal[w]})
      BY <2>2 DEF DeleteSubscription
    <3> QED BY <3>1, ScopeDeleted DEF HookInv, LiveHasWebhook, Live
  <2>3. CASE DeleteHook(w)
    <3>1. hooks' = hooks \ {goal[w]} /\ Unsubscribe({s \in Sub : HookOf[s] = goal[w]})
      BY <2>3 DEF DeleteHook
    <3> QED BY <3>1, ScopeDeleted DEF HookInv, LiveHasWebhook, Live
  <2>4. CASE \/ ReadHook(w) \/ ReadChains(w) \/ CountSubs(w) \/ InsertRefused(w)
             \/ \E s \in Sub : Examine(w, s)
             \/ ReadCascade(w) \/ ReadRetry(w) \/ InsertRetry(w)
    <3>1. UNCHANGED <<state, hooks>>
      BY <2>4 DEF ReadHook, ReadChains, CountSubs, InsertRefused, Examine,
                  ReadCascade, ReadRetry, InsertRetry, rows
    <3> QED BY <3>1, HookFrame
  <2> QED BY <1>2, <2>1, <2>2, <2>3, <2>4 DEF Proceed
<1>3. ASSUME NEW c \in Chain, Serve(c) PROVE HookInv'
  <2>1. CASE Complete(c)
    <3>1. hooks' = hooks
          /\ state' = [s \in Sub |-> IF s \in Activatable(c) THEN "active" ELSE state[s]]
      BY <2>1 DEF Complete
    <3>2. \A s \in Activatable(c) : HookOf[s] \in hooks
      BY DEF Activatable
    <3> QED BY <3>1, <3>2 DEF HookInv, LiveHasWebhook, Live, IsLive, Status
  <2>2. CASE Reject(c)
    <3>1. hooks' = hooks
          /\ state' = [state EXCEPT ![Subject(c)] =
                          IF IsLive(@) THEN "unsupported" ELSE @]
      BY <2>2 DEF Reject
    <3> QED BY <3>1 DEF HookInv, LiveHasWebhook, Live, IsLive, Status
  <2>3. CASE \/ ReadSub(c) \/ Resolve(c) \/ Register(c) \/ ResolveUnknown(c)
             \/ Unresolved(c) \/ Mark(c)
    <3>1. UNCHANGED <<state, hooks>>
      BY <2>3 DEF ReadSub, Resolve, Register, ResolveUnknown, Unresolved, Mark, rows
    <3> QED BY <3>1, HookFrame
  <2> QED BY <1>3, <2>1, <2>2, <2>3 DEF Serve
<1>4. CASE \/ StartReconcile
           \/ \E c \in Chain, w \in Caller : Apply(c, w)
           \/ \E w \in Caller : CallerFails(w)
           \/ \E c \in Chain : ShardFails(c) \/ Beside(c)
  <2>1. UNCHANGED <<state, hooks>>
    BY <1>4, BesideFrame DEF StartReconcile, Apply, CallerFails, ShardFails, rows
  <2> QED BY <2>1, HookFrame
<1> QED BY <1>1, <1>2, <1>3, <1>4 DEF Next

\* No live subscription outlives its webhook: the insert asks the schema's
\* trigger, the cascade takes every live one, and an activation looks at the
\* webhook once more (0003_subscription_boundaries.sql:21, outbox.ts:178,
\* repository.ts:1238).
THEOREM HookOutlives == Spec => []LiveHasWebhook
<1>1. Init => HookInv
  BY DEF Init, HookInv, LiveHasWebhook, Live, IsLive, Status
<1>2. HookInv /\ [Next]_vars => HookInv'
  <2> SUFFICES ASSUME HookInv, [Next]_vars PROVE HookInv'
    OBVIOUS
  <2>1. CASE Next
    BY <2>1, HookSteps
  <2>2. CASE UNCHANGED vars
    BY <2>2, HookFrame DEF vars, rows
  <2> QED BY <2>1, <2>2
<1>3. HookInv => LiveHasWebhook
  BY DEF HookInv
<1> QED BY <1>1, <1>2, <1>3, PTL DEF Spec

-----------------------------------------------------------------------------
(* The reference counts.  A request has ids it is going to insert: they are *)
(* nobody else's and not in the database, so that an insert adds exactly    *)
(* one live subscription.                                                   *)

Pc == {"idle", "hook", "chains", "count", "next", "commit", "wait", "unsubscribe",
       "unhook", "page", "retry", "insert"}

\* The request is going to insert s.
Holds(w, s) == s \in todo[w] \/ (At(w, "commit") /\ s = goal[w])

CallerTypes ==
    /\ wpc \in [Caller -> Pc]
    /\ todo \in [Caller -> SUBSET Sub]
    /\ goal \in [Caller -> Sub \cup Webhook \cup Chain \cup {Nobody}]

ClaimInv ==
    /\ state \in [Sub -> Status]
    /\ CallerTypes
    /\ \A w \in Worker : At(w, "commit") => goal[w] \in Sub /\ goal[w] \notin todo[w]
    /\ \A w \in Worker, s \in Sub : Holds(w, s) => state[s] = "none"
    /\ \A v, w \in Worker, s \in Sub : Holds(v, s) /\ Holds(w, s) => v = w

\* No request gets a new id in this step.
NoNewClaim ==
    /\ CallerTypes'
    /\ \A w \in Worker :
          /\ todo'[w] \subseteq todo[w]
          /\ At(w, "commit")' => At(w, "commit") /\ goal'[w] = goal[w]

\* No id that is unused is used in this step.
NoneStays ==
    /\ state' \in [Sub -> Status]
    /\ \A s \in Sub : state[s] = "none" => state'[s] = "none"

LEMMA ClaimsKept ==
    ASSUME ClaimInv, NoNewClaim, NoneStays
    PROVE  ClaimInv'
  BY DEF ClaimInv, NoNewClaim, NoneStays, CallerTypes, At, Holds

LEMMA CallersFrame ==
    ASSUME ClaimInv, UNCHANGED <<wpc, todo, goal>>
    PROVE  NoNewClaim
  BY DEF ClaimInv, NoNewClaim, CallerTypes, At

\* A request goes to a place other than the commit, with fewer ids.
LEMMA CallerMoves ==
    ASSUME ClaimInv, NEW w, NEW p \in Pc \ {"commit"}, NEW T,
           NEW g \in Sub \cup Webhook \cup Chain \cup {Nobody},
           w \in Caller => T \subseteq todo[w],
           wpc' = [wpc EXCEPT ![w] = p],
           todo' = [todo EXCEPT ![w] = T],
           goal' = [goal EXCEPT ![w] = g]
    PROVE  NoNewClaim
<1>1. CallerTypes'
  <2>1. CASE w \in Caller
    <3>1. T \in SUBSET Sub
      BY <2>1 DEF ClaimInv, CallerTypes
    <3> QED BY <2>1, <3>1 DEF ClaimInv, CallerTypes
  <2>2. CASE w \notin Caller
    <3>1. wpc' = wpc /\ todo' = todo /\ goal' = goal
      BY <2>2 DEF ClaimInv, CallerTypes
    <3> QED BY <3>1 DEF ClaimInv, CallerTypes
  <2> QED BY <2>1, <2>2
<1>2. ASSUME NEW v \in Worker
      PROVE  /\ todo'[v] \subseteq todo[v]
             /\ wpc'[v] = "commit" => wpc[v] = "commit" /\ goal'[v] = goal[v]
  <2>1. v \in Caller
    BY DEF Caller
  <2>2. CASE v = w
    BY <2>1, <2>2 DEF ClaimInv, CallerTypes
  <2>3. CASE v # w
    <3>1. wpc'[v] = wpc[v] /\ todo'[v] = todo[v] /\ goal'[v] = goal[v]
      BY <2>1, <2>3 DEF ClaimInv, CallerTypes
    <3> QED BY <3>1
  <2> QED BY <2>2, <2>3
<1> QED BY <1>1, <1>2 DEF NoNewClaim, At

\* The same, when the ids and the goal stay.
LEMMA CallerGoes ==
    ASSUME ClaimInv, NEW w, NEW p \in Pc \ {"commit"}, Goto(w, p),
           UNCHANGED <<todo, goal>>
    PROVE  NoNewClaim
<1>1. CallerTypes'
  BY DEF ClaimInv, CallerTypes, Goto
<1>2. ASSUME NEW v \in Worker
      PROVE  wpc'[v] = "commit" => wpc[v] = "commit"
  BY DEF ClaimInv, CallerTypes, Goto, Caller
<1> QED BY <1>1, <1>2 DEF NoNewClaim, At

LEMMA CallerEnds ==
    ASSUME ClaimInv, NEW w, Ends(w)
    PROVE  NoNewClaim
  BY CallerMoves DEF Ends, Goto, Pc

LEMMA CallerGoesOn ==
    ASSUME ClaimInv, NEW w, NEW T, GoesOn(w, T), w \in Caller => T \subseteq todo[w]
    PROVE  NoNewClaim
<1>1. CASE T = {}
  BY <1>1, CallerEnds DEF GoesOn
<1>2. CASE T # {}
  <2>1. /\ wpc' = [wpc EXCEPT ![w] = "next"]
        /\ todo' = [todo EXCEPT ![w] = T]
        /\ goal' = [goal EXCEPT ![w] = Nobody]
    BY <1>2 DEF GoesOn, Goto
  <2>2. "next" \in Pc \ {"commit"}
    BY DEF Pc
  <2> QED BY <2>1, <2>2, CallerMoves
<1> QED BY <1>1, <1>2

LEMMA CallerAnswered ==
    ASSUME ClaimInv, NEW w, NEW n, Answered(w, n)
    PROVE  NoNewClaim
<1>1. CASE queue[w] = {n}
  BY <1>1, CallerGoesOn DEF Answered
<1>2. CASE queue[w] # {n}
  BY <1>2, CallersFrame DEF Answered
<1> QED BY <1>1, <1>2

LEMMA ShardReplies ==
    ASSUME ClaimInv, NEW c, Replies(c)
    PROVE  NoNewClaim
<1>1. CASE client[c] = Nobody
  BY <1>1, CallersFrame DEF Replies, callers
<1>2. CASE client[c] # Nobody
  BY <1>2, CallerAnswered DEF Replies
<1> QED BY <1>1, <1>2

-----------------------------------------------------------------------------
(* The claims, action by action.                                           *)

\* A new request that creates: its ids are unused, and nobody else's.
LEMMA CreateClaims ==
    ASSUME ClaimInv, NEW w \in Worker, NEW S \in SUBSET Sub, StartCreate(w, S)
    PROVE  ClaimInv'
<1>1. /\ wpc' = [wpc EXCEPT ![w] = "hook"]
      /\ todo' = [todo EXCEPT ![w] = S]
      /\ goal' = [goal EXCEPT ![w] = Nobody]
      /\ state' = state
  BY DEF StartCreate, Request, Goto, rows
<1>2. \A s \in S : state[s] = "none" /\ \A v \in Worker : ~Holds(v, s)
  BY DEF StartCreate, Fresh, Unused, Holds
<1>3. CallerTypes'
  BY <1>1 DEF ClaimInv, CallerTypes, Pc
<1>4. w \in Caller /\ wpc'[w] = "hook" /\ todo'[w] = S
  BY <1>1 DEF ClaimInv, CallerTypes, Caller
<1>5. ASSUME NEW v \in Worker, v # w
      PROVE  wpc'[v] = wpc[v] /\ todo'[v] = todo[v] /\ goal'[v] = goal[v]
  BY <1>1, <1>5 DEF ClaimInv, CallerTypes, Caller
<1>6. ASSUME NEW s \in Sub PROVE Holds(w, s)' <=> s \in S
  BY <1>4 DEF Holds, At
<1>7. ASSUME NEW v \in Worker, v # w, NEW s \in Sub PROVE Holds(v, s)' <=> Holds(v, s)
  BY <1>5, <1>7 DEF Holds, At
<1> QED
  BY <1>1, <1>2, <1>3, <1>4, <1>5, <1>6, <1>7 DEF ClaimInv, At

\* The loop takes an id: what was in `todo` is in `goal`.
LEMMA ExamineClaims ==
    ASSUME ClaimInv, NEW w \in Worker, NEW s \in Sub, Examine(w, s)
    PROVE  ClaimInv'
<1>0. state' = state /\ s \in todo[w] /\ w \in Caller /\ At(w, "next")
  BY DEF Examine, rows, Caller
<1>1. CASE GoesOn(w, todo[w] \ {s})
  <2>1. NoNewClaim
    BY <1>1, CallerGoesOn
  <2> QED BY <1>0, <2>1, ClaimsKept DEF NoneStays, ClaimInv
<1>2. CASE /\ wpc' = [wpc EXCEPT ![w] = "commit"]
           /\ todo' = [todo EXCEPT ![w] = todo[w] \ {s}]
           /\ goal' = [goal EXCEPT ![w] = s]
  <2>1. CallerTypes'
    BY <1>0, <1>2 DEF ClaimInv, CallerTypes, Pc
  <2>2. wpc'[w] = "commit" /\ todo'[w] = todo[w] \ {s} /\ goal'[w] = s
    BY <1>0, <1>2 DEF ClaimInv, CallerTypes
  <2>3. ASSUME NEW v \in Worker, v # w
        PROVE  wpc'[v] = wpc[v] /\ todo'[v] = todo[v] /\ goal'[v] = goal[v]
    BY <1>2, <2>3 DEF ClaimInv, CallerTypes, Caller
  <2>4. ASSUME NEW t \in Sub PROVE Holds(w, t)' => Holds(w, t)
    BY <1>0, <2>2 DEF Holds, At
  <2>5. ASSUME NEW v \in Worker, v # w, NEW t \in Sub PROVE Holds(v, t)' <=> Holds(v, t)
    BY <2>3, <2>5 DEF Holds, At
  <2> QED BY <1>0, <2>1, <2>2, <2>3, <2>4, <2>5 DEF ClaimInv, At
<1> QED BY <1>1, <1>2 DEF Examine, Goto

\* The insert: the id is in the database and nobody's any more.
LEMMA InsertClaims ==
    ASSUME ClaimInv, NEW w \in Worker, InsertSubscription(w)
    PROVE  ClaimInv'
<1>1. /\ wpc' = [wpc EXCEPT ![w] = "wait"]
      /\ todo' = todo
      /\ goal' = [goal EXCEPT ![w] = Nobody]
      /\ state' = [state EXCEPT ![goal[w]] = "pending"]
      /\ At(w, "commit")
  BY DEF InsertSubscription, Goto
<1>2. goal[w] \in Sub /\ goal[w] \notin todo[w] /\ Holds(w, goal[w])
  BY <1>1 DEF ClaimInv, Holds
<1>3. CallerTypes' /\ state' \in [Sub -> Status]
  BY <1>1, <1>2 DEF ClaimInv, CallerTypes, Pc, Status
<1>4. wpc'[w] = "wait"
  BY <1>1 DEF ClaimInv, CallerTypes, Caller
<1>5. ASSUME NEW v \in Worker, v # w
      PROVE  wpc'[v] = wpc[v] /\ goal'[v] = goal[v]
  BY <1>1, <1>5 DEF ClaimInv, CallerTypes, Caller
<1>6. ASSUME NEW s \in Sub PROVE Holds(w, s)' => Holds(w, s) /\ s # goal[w]
  BY <1>1, <1>2, <1>4 DEF Holds, At
<1>7. ASSUME NEW v \in Worker, v # w, NEW s \in Sub
      PROVE  Holds(v, s)' => Holds(v, s) /\ s # goal[w]
  BY <1>1, <1>2, <1>5, <1>7 DEF Holds, At, ClaimInv
<1>8. ASSUME NEW s \in Sub, s # goal[w] PROVE state'[s] = state[s]
  BY <1>1, <1>8 DEF ClaimInv
<1> QED
  BY <1>1, <1>2, <1>3, <1>4, <1>5, <1>6, <1>7, <1>8 DEF ClaimInv, At

\* A scope's deletion frees no id.
LEMMA ScopeStays ==
    ASSUME ClaimInv, NEW scope, Unsubscribe(scope)
    PROVE  NoneStays
  BY DEF ClaimInv, Unsubscribe, InScope, Live, IsLive, Status, NoneStays

\* What a step does to the ids, when it is not one of the three above.
LEMMA ClaimSteps ==
    ASSUME ClaimInv, Next
    PROVE  ClaimInv'
<1>0. UNCHANGED state => NoneStays
  BY DEF ClaimInv, NoneStays
<1>1. ASSUME NEW w \in Worker, Ask(w) PROVE ClaimInv'
  <2>1. ASSUME NEW S \in SUBSET Sub, StartCreate(w, S) PROVE ClaimInv'
    BY <2>1, CreateClaims
  <2>2. ASSUME NEW p \in {"unsubscribe", "unhook", "retry", "insert"},
               NEW g \in Sub \cup Webhook \cup Chain,
               Request(w, p, g), UNCHANGED <<state, todo>>
        PROVE  ClaimInv'
    <3>1. wpc' = [wpc EXCEPT ![w] = p] /\ goal' = [goal EXCEPT ![w] = g]
      BY <2>2 DEF Request, Goto
    <3>2. todo' = [todo EXCEPT ![w] = todo[w]]
      BY <2>2 DEF ClaimInv, CallerTypes
    <3>3. p \in Pc \ {"commit"} /\ g \in Sub \cup Webhook \cup Chain \cup {Nobody}
      BY DEF Pc
    <3>4. NoNewClaim
      BY <3>1, <3>2, <3>3, CallerMoves
    <3> QED BY <1>0, <2>2, <3>4, ClaimsKept
  <2>3. ASSUME NEW s \in Sub, StartDelete(w, s) PROVE ClaimInv'
    BY <2>2, <2>3 DEF StartDelete, rows
  <2>4. ASSUME NEW h \in Webhook, StartDeleteHook(w, h) PROVE ClaimInv'
    BY <2>2, <2>4 DEF StartDeleteHook, rows
  <2>5. ASSUME NEW c \in Chain, StartRetry(w, c) \/ StartOperatorRetry(w, c) PROVE ClaimInv'
    BY <2>2, <2>5 DEF StartRetry, StartOperatorRetry, rows
  <2> QED BY <1>1, <2>1, <2>3, <2>4, <2>5 DEF Ask
<1>2. ASSUME NEW w \in Worker, Proceed(w) PROVE ClaimInv'
  <2>1. ASSUME NEW s \in Sub, Examine(w, s) PROVE ClaimInv'
    BY <2>1, ExamineClaims
  <2>2. CASE InsertSubscription(w)
    BY <2>2, InsertClaims
  <2>3. CASE ReadHook(w)
    <3>1. NoNewClaim
      BY <2>3, CallerGoes, CallerEnds DEF ReadHook, Pc
    <3> QED BY <1>0, <2>3, <3>1, ClaimsKept DEF ReadHook, rows
  <2>4. CASE ReadChains(w) \/ CountSubs(w) \/ InsertRetry(w)
    <3>1. NoNewClaim
      BY <2>4, CallerGoes DEF ReadChains, CountSubs, InsertRetry, Pc
    <3> QED BY <1>0, <2>4, <3>1, ClaimsKept DEF ReadChains, CountSubs, InsertRetry, rows
  <2>5. CASE InsertRefused(w)
    <3>1. NoNewClaim
      BY <2>5, CallerGoesOn, CallerEnds DEF InsertRefused
    <3> QED BY <1>0, <2>5, <3>1, ClaimsKept DEF InsertRefused, rows
  <2>6. CASE DeleteSubscription(w)
    <3>1. NoNewClaim
      BY <2>6, CallerGoes DEF DeleteSubscription, Pc
    <3> QED BY <2>6, <3>1, ScopeStays, ClaimsKept DEF DeleteSubscription
  <2>7. CASE DeleteHook(w)
    <3>1. NoNewClaim
      BY <2>7, CallerGoes DEF DeleteHook, Pc
    <3> QED BY <2>7, <3>1, ScopeStays, ClaimsKept DEF DeleteHook
  <2>8. CASE ReadCascade(w)
    <3>1. NoNewClaim
      BY <2>8, CallerGoes, CallerEnds DEF ReadCascade, Pc
    <3> QED BY <1>0, <2>8, <3>1, ClaimsKept DEF ReadCascade, rows
  <2>9. CASE ReadRetry(w)
    <3>1. NoNewClaim
      BY <2>9, CallerGoes, CallerEnds DEF ReadRetry, Pc
    <3> QED BY <1>0, <2>9, <3>1, ClaimsKept DEF ReadRetry, rows
  <2> QED BY <1>2, <2>1, <2>2, <2>3, <2>4, <2>5, <2>6, <2>7, <2>8, <2>9 DEF Proceed
<1>3. ASSUME NEW c \in Chain, Serve(c) PROVE ClaimInv'
  <2>1. CASE Complete(c)
    <3>1. NoneStays
      BY <2>1 DEF Complete, Activatable, NoneStays, ClaimInv, Status
    <3> QED BY <2>1, <3>1, ShardReplies, ClaimsKept DEF Complete
  <2>2. CASE Reject(c)
    <3>1. NoneStays
      BY <2>2 DEF Reject, IsLive, NoneStays, ClaimInv, Status
    <3> QED BY <2>2, <3>1, CallersFrame, ClaimsKept DEF Reject, callers
  <2>3. CASE Unresolved(c) \/ Mark(c)
    <3>1. NoNewClaim /\ UNCHANGED state
      BY <2>3, ShardReplies DEF Unresolved, Mark, rows
    <3> QED BY <1>0, <3>1, ClaimsKept
  <2>4. CASE ReadSub(c) \/ Resolve(c) \/ Register(c) \/ ResolveUnknown(c)
    <3>1. UNCHANGED <<state, wpc, todo, goal>>
      BY <2>4 DEF ReadSub, Resolve, Register, ResolveUnknown, rows, callers
    <3> QED BY <1>0, <3>1, CallersFrame, ClaimsKept
  <2> QED BY <1>3, <2>1, <2>2, <2>3, <2>4 DEF Serve
<1>4. CASE StartReconcile
  <2>1. NoNewClaim /\ UNCHANGED state
    BY <1>4, CallerGoes DEF StartReconcile, Pc, rows
  <2> QED BY <1>0, <2>1, ClaimsKept
<1>5. ASSUME NEW c \in Chain, NEW w \in Caller, Apply(c, w) PROVE ClaimInv'
  <2>1. UNCHANGED state
    BY <1>5 DEF Apply, rows
  <2>2. NoNewClaim
    BY <1>5, CallersFrame, CallerAnswered DEF Apply, callers
  <2> QED BY <1>0, <2>1, <2>2, ClaimsKept
<1>6. ASSUME NEW w \in Caller, CallerFails(w) PROVE ClaimInv'
  BY <1>0, <1>6, CallerEnds, ClaimsKept DEF CallerFails, rows
<1>7. ASSUME NEW c \in Chain, ShardFails(c) PROVE ClaimInv'
  <2>1. NoNewClaim
    BY <1>7, CallersFrame, CallerEnds DEF ShardFails, callers
  <2> QED BY <1>0, <1>7, <2>1, ClaimsKept DEF ShardFails, rows
<1>8. ASSUME NEW c \in Chain, Beside(c) PROVE ClaimInv'
  BY <1>0, <1>8, BesideFrame, CallersFrame, ClaimsKept DEF callers
<1> QED BY <1>1, <1>2, <1>3, <1>4, <1>5, <1>6, <1>7, <1>8 DEF Next

-----------------------------------------------------------------------------
(* The counts themselves.                                                  *)

LiveAt(t) == {s \in Live : TargetOf[s] = t}

RefsInv ==
    /\ ClaimInv
    /\ refs \in [Target -> Nat]
    /\ RefsMatch

LEMMA LiveAtFinite ==
    ASSUME NEW t, NEW S \in SUBSET Live
    PROVE  /\ IsFiniteSet({s \in S : TargetOf[s] = t})
           /\ Cardinality({s \in S : TargetOf[s] = t}) \in Nat
<1>1. IsFiniteSet(Sub) /\ {s \in S : TargetOf[s] = t} \subseteq Sub
  BY ControlAssumption DEF Live
<1> QED BY <1>1, FS_Subset, FS_CardinalityType

\* A step after which the same subscriptions are live.
LEMMA SameLive ==
    ASSUME RefsInv, ClaimInv', refs' = refs,
           \A s \in Sub : IsLive(state'[s]) <=> IsLive(state[s])
    PROVE  RefsInv'
<1>1. Live' = Live
  BY DEF Live
<1> QED BY <1>1 DEF RefsInv, RefsMatch

\* An insert adds one to its target and to no other.
LEMMA InsertCounts ==
    ASSUME RefsInv, NEW w \in Worker, InsertSubscription(w)
    PROVE  RefsInv'
<1> DEFINE g == goal[w]
<1>1. g \in Sub /\ state[g] = "none"
  BY DEF RefsInv, ClaimInv, InsertSubscription, Holds
<1>2. /\ state' = [state EXCEPT ![g] = "pending"]
      /\ refs' = [refs EXCEPT ![TargetOf[g]] = @ + 1]
  BY DEF InsertSubscription
<1>3. ClaimInv'
  BY InsertClaims DEF RefsInv
<1>4. g \notin Live /\ Live' = Live \cup {g}
  BY <1>1, <1>2 DEF Live, IsLive, RefsInv, ClaimInv, Status
<1>5. TargetOf[g] \in Target
  BY <1>1, ControlAssumption DEF TargetOf, Target
<1>6. ASSUME NEW t \in Target PROVE refs'[t] = Cardinality(LiveAt(t)')
  <2>1. IsFiniteSet(LiveAt(t)) /\ refs[t] = Cardinality(LiveAt(t))
    BY LiveAtFinite DEF RefsInv, RefsMatch, LiveAt
  <2>2. CASE t = TargetOf[g]
    <3>1. LiveAt(t)' = LiveAt(t) \cup {g} /\ g \notin LiveAt(t)
      BY <1>4, <2>2 DEF LiveAt
    <3>2. Cardinality(LiveAt(t)') = Cardinality(LiveAt(t)) + 1
      BY <2>1, <3>1, FS_AddElement
    <3> QED BY <1>2, <1>5, <2>1, <2>2, <3>2 DEF RefsInv
  <2>3. CASE t # TargetOf[g]
    <3>1. LiveAt(t)' = LiveAt(t)
      BY <1>4, <2>3 DEF LiveAt
    <3> QED BY <1>2, <2>1, <2>3, <3>1 DEF RefsInv
  <2> QED BY <2>2, <2>3
<1>7. refs' \in [Target -> Nat]
  BY <1>2, <1>5 DEF RefsInv
<1> QED BY <1>3, <1>6, <1>7 DEF RefsInv, RefsMatch, LiveAt

\* A deletion takes one for each live subscription of its scope, and the ones
\* that are deleted already take none.
LEMMA DeletionCounts ==
    ASSUME RefsInv, ClaimInv', NEW scope, Unsubscribe(scope)
    PROVE  RefsInv'
<1> DEFINE S == InScope(scope)
           Gone(t) == {s \in S : TargetOf[s] = t}
<1>1. S \subseteq Live /\ Live \subseteq Sub
  BY DEF InScope, Live
<1>2. /\ refs' = [t \in Target |-> refs[t] - Cardinality(Gone(t))]
      /\ state' = [s \in Sub |-> IF s \in S THEN "deleting" ELSE state[s]]
  BY DEF Unsubscribe, Released
<1>3. Live' = Live \ S
  BY <1>1, <1>2 DEF Live, IsLive, RefsInv, ClaimInv
<1>4. ASSUME NEW t \in Target
      PROVE  refs'[t] = Cardinality(LiveAt(t)') /\ refs'[t] \in Nat
  <2>1. LiveAt(t) = LiveAt(t)' \cup Gone(t) /\ LiveAt(t)' \cap Gone(t) = {}
    BY <1>1, <1>3 DEF LiveAt
  <2>2. IsFiniteSet(LiveAt(t)) /\ refs[t] = Cardinality(LiveAt(t))
    BY LiveAtFinite DEF RefsInv, RefsMatch, LiveAt
  <2>3. IsFiniteSet(LiveAt(t)') /\ IsFiniteSet(Gone(t))
    BY <2>1, <2>2, FS_Subset
  <2>4. Cardinality(LiveAt(t)') \in Nat /\ Cardinality(Gone(t)) \in Nat
    BY <2>3, FS_CardinalityType
  <2>5. Cardinality(LiveAt(t)) = Cardinality(LiveAt(t)') + Cardinality(Gone(t))
    <3>1. Cardinality(LiveAt(t)' \cap Gone(t)) = 0
      BY <2>1, FS_EmptySet
    <3>2. Cardinality(LiveAt(t)' \cup Gone(t)) =
              Cardinality(LiveAt(t)') + Cardinality(Gone(t))
                  - Cardinality(LiveAt(t)' \cap Gone(t))
      BY <2>3, FS_Union
    <3> QED BY <2>1, <2>4, <3>1, <3>2
  <2> QED BY <1>2, <2>2, <2>4, <2>5
<1> QED BY <1>2, <1>4 DEF RefsInv, RefsMatch, LiveAt

LEMMA RefsSteps ==
    ASSUME RefsInv, Next
    PROVE  RefsInv'
<1>1. ClaimInv'
  BY ClaimSteps DEF RefsInv
<1>2. ASSUME UNCHANGED <<state, refs>> PROVE RefsInv'
  BY <1>1, <1>2, SameLive
<1>3. ASSUME NEW w \in Worker, Ask(w) PROVE RefsInv'
  BY <1>2, <1>3 DEF Ask, StartCreate, StartDelete, StartDeleteHook, StartRetry,
                    StartOperatorRetry, rows
<1>4. ASSUME NEW w \in Worker, Proceed(w) PROVE RefsInv'
  <2>1. CASE InsertSubscription(w)
    BY <2>1, InsertCounts
  <2>2. CASE DeleteSubscription(w)
    BY <1>1, <2>2, DeletionCounts DEF DeleteSubscription
  <2>3. CASE DeleteHook(w)
    BY <1>1, <2>3, DeletionCounts DEF DeleteHook
  <2>4. CASE \/ ReadHook(w) \/ ReadChains(w) \/ CountSubs(w) \/ InsertRefused(w)
             \/ \E s \in Sub : Examine(w, s)
             \/ ReadCascade(w) \/ ReadRetry(w) \/ InsertRetry(w)
    BY <1>2, <2>4 DEF ReadHook, ReadChains, CountSubs, InsertRefused, Examine,
                      ReadCascade, ReadRetry, InsertRetry, rows
  <2> QED BY <1>4, <2>1, <2>2, <2>3, <2>4 DEF Proceed
<1>5. ASSUME NEW c \in Chain, Serve(c) PROVE RefsInv'
  <2>1. CASE Complete(c)
    <3>1. \A s \in Sub : IsLive(state'[s]) <=> IsLive(state[s])
      BY <2>1 DEF Complete, Activatable, IsLive
    <3> QED BY <1>1, <2>1, <3>1, SameLive DEF Complete
  <2>2. CASE Reject(c)
    <3>1. \A s \in Sub : IsLive(state'[s]) <=> IsLive(state[s])
      BY <2>2 DEF Reject, IsLive, RefsInv, ClaimInv
    <3> QED BY <1>1, <2>2, <3>1, SameLive DEF Reject
  <2>3. CASE \/ ReadSub(c) \/ Resolve(c) \/ Register(c) \/ ResolveUnknown(c)
             \/ Unresolved(c) \/ Mark(c)
    BY <1>2, <2>3 DEF ReadSub, Resolve, Register, ResolveUnknown, Unresolved, Mark, rows
  <2> QED BY <1>5, <2>1, <2>2, <2>3 DEF Serve
<1>6. CASE \/ StartReconcile
           \/ \E c \in Chain, w \in Caller : Apply(c, w)
           \/ \E w \in Caller : CallerFails(w)
           \/ \E c \in Chain : ShardFails(c) \/ Beside(c)
  BY <1>2, <1>6, BesideFrame DEF StartReconcile, Apply, CallerFails, ShardFails, rows
<1> QED BY <1>3, <1>4, <1>5, <1>6 DEF Next

LEMMA RefsInit == Init => RefsInv
<1> SUFFICES ASSUME Init PROVE RefsInv
  OBVIOUS
<1>1. ClaimInv
  <2>1. CallerTypes /\ state \in [Sub -> Status]
    BY DEF Init, CallerTypes, Status, Pc
  <2>2. \A w \in Worker : wpc[w] = "idle" /\ todo[w] = {}
    BY DEF Init, Caller
  <2> QED BY <2>1, <2>2 DEF ClaimInv, Holds, At
<1>2. \A t \in Target : LiveAt(t) = {}
  BY DEF Init, LiveAt, Live, IsLive
<1> QED BY <1>1, <1>2, FS_EmptySet DEF Init, RefsInv, RefsMatch, LiveAt

LEMMA RefsStutter == RefsInv /\ UNCHANGED vars => RefsInv'
<1> SUFFICES ASSUME RefsInv, UNCHANGED vars PROVE RefsInv'
  OBVIOUS
<1>1. ClaimInv'
  BY CallersFrame, ClaimsKept DEF RefsInv, ClaimInv, NoneStays, vars, rows, callers
<1> QED BY <1>1, SameLive DEF vars, rows

\* Every reference count is the number of the live subscriptions of its target,
\* after any number of creations that race or are rolled back, repeated
\* deletions, cascades, activations and failures (outbox.ts:92 and 188).
THEOREM RefsCorrect == Spec => []RefsMatch
<1>1. RefsInv /\ [Next]_vars => RefsInv'
  BY RefsSteps, RefsStutter
<1>2. RefsInv => RefsMatch
  BY DEF RefsInv
<1> QED BY <1>1, <1>2, RefsInit, PTL DEF Spec

-----------------------------------------------------------------------------
(* The commands and the shards.  While a shard is at a subscription, no     *)
(* other one can activate it: they serve other chains.                      *)

CommandType ==
    [kind : Kind, sub : Sub \cup {Nobody}, chain : Sub \cup Webhook \cup Chain \cup {Nobody}]

ShardPc == {"idle", "read", "resolve", "register", "hold", "activate", "reject", "mark"}

\* Where a shard is with a subscription that is not active yet.
Deciding == {"resolve", "register", "hold", "activate", "reject"}

\* A command to subscribe names a subscription of its own chain.
WellAddressed(x) == x.kind = "subscribe" => x.sub \in Sub /\ x.chain = ChainOf[x.sub]

\* Where the shard of c may be with command n.
MayStand(c, p, n) ==
    p # "idle" =>
        /\ n \in DOMAIN outbox /\ outbox[n].chain = c
        /\ p = "reject" => outbox[n].kind = "subscribe"
        /\ p \in Deciding /\ outbox[n].kind = "subscribe" =>
               state[outbox[n].sub] # "active"

CommandInv ==
    /\ outbox \in Seq(CommandType)
    /\ \A n \in DOMAIN outbox : WellAddressed(outbox[n])
    /\ spc \in [Chain -> ShardPc]
    /\ cmd = [c \in Chain |-> cmd[c]]
    /\ \A c \in Chain : MayStand(c, spc[c], cmd[c])

\* No subscription of chain c is activated in this step.
NoActivation(c) ==
    \A s \in Sub : ChainOf[s] = c /\ state'[s] = "active" => state[s] = "active"

\* The outbox grows, the shards stay where they are.
LEMMA OutboxGrows ==
    ASSUME CommandInv, NEW q \in Seq(CommandType), outbox' = outbox \o q,
           \A n \in DOMAIN q : WellAddressed(q[n]),
           UNCHANGED <<spc, cmd>>, \A c \in Chain : NoActivation(c)
    PROVE  CommandInv'
<1>1. outbox' \in Seq(CommandType) /\ DOMAIN outbox \subseteq DOMAIN outbox'
  BY DEF CommandInv
<1>2. \A n \in DOMAIN outbox : outbox'[n] = outbox[n]
  BY DEF CommandInv
<1>3. ASSUME NEW n \in DOMAIN outbox' PROVE WellAddressed(outbox'[n])
  <2>1. CASE n \in DOMAIN outbox
    BY <1>2, <2>1 DEF CommandInv
  <2>2. CASE n \notin DOMAIN outbox
    <3>1. n - Len(outbox) \in DOMAIN q /\ outbox'[n] = q[n - Len(outbox)]
      BY <2>2 DEF CommandInv
    <3> QED BY <3>1
  <2> QED BY <2>1, <2>2
<1>4. ASSUME NEW c \in Chain PROVE MayStand(c, spc[c], cmd[c])'
  <2>1. MayStand(c, spc[c], cmd[c])
    BY DEF CommandInv
  <2>2. CASE spc[c] = "idle"
    BY <2>2 DEF MayStand
  <2>3. CASE spc[c] # "idle"
    <3>1. cmd[c] \in DOMAIN outbox /\ outbox[cmd[c]].chain = c
          /\ WellAddressed(outbox[cmd[c]])
      BY <2>1, <2>3 DEF MayStand, CommandInv
    <3>2. outbox'[cmd[c]] = outbox[cmd[c]] /\ cmd[c] \in DOMAIN outbox'
      BY <1>1, <1>2, <3>1
    <3> QED BY <2>1, <2>3, <3>1, <3>2 DEF MayStand, WellAddressed, NoActivation
  <2> QED BY <2>2, <2>3
<1> QED BY <1>1, <1>3, <1>4 DEF CommandInv

\* One shard moves; it may activate subscriptions of its own chain.
LEMMA ShardMoves ==
    ASSUME CommandInv, outbox' = outbox, NEW c \in Chain, NEW p \in ShardPc, NEW n,
           spc' = [spc EXCEPT ![c] = p], cmd' = [cmd EXCEPT ![c] = n],
           MayStand(c, p, n)', \A d \in Chain \ {c} : NoActivation(d)
    PROVE  CommandInv'
<1>1. ASSUME NEW d \in Chain PROVE MayStand(d, spc[d], cmd[d])'
  <2>1. CASE d = c
    <3>1. spc'[d] = p /\ cmd'[d] = n
      BY <2>1 DEF CommandInv
    <3> QED BY <2>1, <3>1 DEF MayStand
  <2>2. CASE d # c
    <3>1. spc'[d] = spc[d] /\ cmd'[d] = cmd[d]
      BY <2>2 DEF CommandInv
    <3>2. MayStand(d, spc[d], cmd[d]) /\ NoActivation(d)
      BY <2>2 DEF CommandInv
    <3>3. cmd[d] \in DOMAIN outbox => WellAddressed(outbox[cmd[d]])
      BY DEF CommandInv
    <3> QED BY <3>1, <3>2, <3>3 DEF MayStand, NoActivation, WellAddressed
  <2> QED BY <2>1, <2>2
<1>2. \A m \in DOMAIN outbox : WellAddressed(outbox[m])'
  BY DEF CommandInv, WellAddressed
<1>3. /\ outbox' \in Seq(CommandType) /\ spc' \in [Chain -> ShardPc]
      /\ cmd' = [d \in Chain |-> cmd'[d]]
  BY DEF CommandInv
<1> QED BY <1>1, <1>2, <1>3 DEF CommandInv

LEMMA ShardsFrame ==
    ASSUME CommandInv, UNCHANGED <<outbox, spc, cmd>>, \A c \in Chain : NoActivation(c)
    PROVE  CommandInv'
<1> DEFINE q == << >>
<1>1. outbox' = outbox \o q
  BY DEF CommandInv
<1>2. q \in Seq(CommandType) /\ \A n \in DOMAIN q : WellAddressed(q[n])
  OBVIOUS
<1> HIDE DEF q
<1> QED BY <1>1, <1>2, OutboxGrows

\* One more command.
LEMMA CommandAdded ==
    ASSUME CommandInv, NEW x \in CommandType, WellAddressed(x), outbox' = Append(outbox, x),
           UNCHANGED <<spc, cmd>>, \A c \in Chain : NoActivation(c)
    PROVE  CommandInv'
<1> DEFINE q == <<x>>
<1>1. outbox' = outbox \o q
  BY DEF CommandInv
<1>2. q \in Seq(CommandType) /\ \A n \in DOMAIN q : WellAddressed(q[n])
  OBVIOUS
<1> HIDE DEF q
<1> QED BY <1>1, <1>2, OutboxGrows

\* The commands of a deletion.
LEMMA DeletionAdded ==
    ASSUME ClaimInv, CommandInv, NEW scope, Unsubscribe(scope), UNCHANGED <<spc, cmd>>
    PROVE  CommandInv'
<1>1. PICK S \in SUBSET Sub : \E q \in Unsubscribes(S) : outbox' = outbox \o q
  <2>1. {s \in InScope(scope) :
           \A n \in DOMAIN outbox : outbox[n] # Command("unsubscribe", s, ChainOf[s])}
            \in SUBSET Sub
    BY DEF InScope, Live
  <2> QED BY <2>1 DEF Unsubscribe
<1>0. PICK q \in Unsubscribes(S) : outbox' = outbox \o q
  BY <1>1
<1>2. q \in [1..Cardinality(S) -> {Command("unsubscribe", s, ChainOf[s]) : s \in S}]
  BY DEF Unsubscribes
<1>3. IsFiniteSet(S)
  BY ControlAssumption, FS_Subset
<1>4. Cardinality(S) \in Nat
  BY <1>3, FS_CardinalityType
<1>5. ASSUME NEW s \in S
      PROVE  /\ Command("unsubscribe", s, ChainOf[s]) \in CommandType
             /\ WellAddressed(Command("unsubscribe", s, ChainOf[s]))
  BY ControlAssumption DEF Command, CommandType, Kind, WellAddressed
<1>6. \A n \in DOMAIN q : q[n] \in CommandType /\ WellAddressed(q[n])
  BY <1>2, <1>5
<1>7. q \in Seq(CommandType)
  BY <1>2, <1>4, <1>6
<1>8. \A c \in Chain : NoActivation(c)
  BY DEF Unsubscribe, NoActivation
<1> QED BY <1>0, <1>6, <1>7, <1>8, OutboxGrows

\* The object is free again.
LEMMA ShardFinishes ==
    ASSUME CommandInv, outbox' = outbox, NEW c \in Chain, Finish(c),
           \A d \in Chain \ {c} : NoActivation(d)
    PROVE  CommandInv'
<1>1. MayStand(c, "idle", 0)' /\ "idle" \in ShardPc
  BY DEF MayStand, ShardPc
<1> QED BY <1>1, ShardMoves DEF Finish

\* The shard goes on with its command.
LEMMA ShardSteps ==
    ASSUME CommandInv, outbox' = outbox, NEW c \in Chain, NEW p \in ShardPc, Step(c, p),
           spc[c] # "idle",
           p = "reject" => IsSubscribe(c),
           p \in Deciding /\ IsSubscribe(c) =>
               state'[Subject(c)] # "active",
           \A d \in Chain \ {c} : NoActivation(d)
    PROVE  CommandInv'
<1>1. PICK n : n = cmd[c]
  OBVIOUS
<1>2. cmd' = [cmd EXCEPT ![c] = n] /\ spc' = [spc EXCEPT ![c] = p]
  BY <1>1 DEF CommandInv, Step
<1>3. n \in DOMAIN outbox /\ outbox[n].chain = c
  BY <1>1 DEF CommandInv, MayStand
<1>4. MayStand(c, p, n)'
  BY <1>1, <1>3 DEF MayStand, IsSubscribe, Subject
<1> QED BY <1>2, <1>4, ShardMoves

LEMMA CommandSteps ==
    ASSUME ClaimInv, CommandInv, Next
    PROVE  CommandInv'
<1>1. ASSUME UNCHANGED state PROVE \A c \in Chain : NoActivation(c)
  BY <1>1 DEF NoActivation
<1>2. ASSUME UNCHANGED <<state, outbox, spc, cmd>> PROVE CommandInv'
  BY <1>1, <1>2, ShardsFrame
<1>3. ASSUME NEW w \in Worker, Ask(w) PROVE CommandInv'
  BY <1>2, <1>3 DEF Ask, StartCreate, StartDelete, StartDeleteHook, StartRetry,
                    StartOperatorRetry, rows, table, shards
<1>4. ASSUME NEW w \in Worker, Proceed(w) PROVE CommandInv'
  <2>1. CASE InsertSubscription(w)
    <3>1. PICK x : x = Command("subscribe", goal[w], ChainOf[goal[w]])
      OBVIOUS
    <3>2. goal[w] \in Sub
      BY <2>1 DEF InsertSubscription, ClaimInv
    <3>3. x \in CommandType /\ WellAddressed(x)
      BY <3>1, <3>2, ControlAssumption DEF CommandType, Command, Kind, WellAddressed
    <3>4. \A c \in Chain : NoActivation(c)
      BY <2>1, <3>2 DEF InsertSubscription, NoActivation, ClaimInv
    <3> QED BY <2>1, <3>1, <3>3, <3>4, CommandAdded DEF InsertSubscription, shards
  <2>2. CASE DeleteSubscription(w) \/ DeleteHook(w)
    BY <2>2, DeletionAdded DEF DeleteSubscription, DeleteHook, shards
  <2>3. CASE InsertRetry(w)
    <3>1. PICK x : x = Command("retry_chain", Nobody, goal[w])
      OBVIOUS
    <3>2. x \in CommandType /\ WellAddressed(x)
      BY <3>1 DEF CommandType, Command, Kind, WellAddressed, ClaimInv, CallerTypes, Caller
    <3> QED BY <1>1, <2>3, <3>1, <3>2, CommandAdded DEF InsertRetry, shards, rows
  <2>4. CASE \/ ReadHook(w) \/ ReadChains(w) \/ CountSubs(w) \/ InsertRefused(w)
             \/ \E s \in Sub : Examine(w, s)
             \/ ReadCascade(w) \/ ReadRetry(w)
    BY <1>2, <2>4 DEF ReadHook, ReadChains, CountSubs, InsertRefused, Examine,
                      ReadCascade, ReadRetry, rows, table, shards
  <2> QED BY <1>4, <2>1, <2>2, <2>3, <2>4 DEF Proceed
<1>5. ASSUME NEW c \in Chain, Serve(c) PROVE CommandInv'
  <2>0. spc[c] # "idle" => /\ cmd[c] \in DOMAIN outbox
                           /\ IsSubscribe(c) => Subject(c) \in Sub /\ ChainOf[Subject(c)] = c
    BY DEF CommandInv, MayStand, WellAddressed, IsSubscribe, Subject
  <2>1. CASE ReadSub(c)
    BY <1>1, <2>1, ShardSteps DEF ReadSub, Standing, rows, table, ShardPc, Deciding
  <2>2. CASE Resolve(c)
    <3>1. IsSubscribe(c) => state[Subject(c)] # "active"
      BY <2>2 DEF Resolve, Standing, CommandInv, MayStand, IsSubscribe, Subject, Deciding
    <3>2. PICK p \in {"register", "hold"} : Step(c, p) /\ spc[c] # "idle"
      BY <2>2 DEF Resolve, Standing
    <3> QED BY <1>1, <2>2, <3>1, <3>2, ShardSteps DEF Resolve, rows, table, ShardPc
  <2>7. CASE Register(c)
    <3>1. spc[c] # "idle" /\ (IsSubscribe(c) => state[Subject(c)] # "active")
      BY <2>7 DEF Register, Standing, CommandInv, MayStand, IsSubscribe, Subject, Deciding
    <3> QED BY <1>1, <2>7, <3>1, ShardSteps DEF Register, table, ShardPc
  <2>3. CASE ResolveUnknown(c)
    <3>1. IsSubscribe(c) => state[Subject(c)] # "active"
      BY <2>3 DEF ResolveUnknown, Standing, CommandInv, MayStand, IsSubscribe, Subject,
                  Deciding
    <3> QED BY <1>1, <2>3, <3>1, ShardSteps DEF ResolveUnknown, Standing, table, ShardPc
  <2>4. CASE Unresolved(c) \/ Mark(c)
    BY <1>1, <2>4, ShardFinishes DEF Unresolved, Mark, Replies, rows
  <2>5. CASE Complete(c)
    <3>1. \A d \in Chain \ {c} : NoActivation(d)
      BY <2>0, <2>5 DEF Complete, Standing, Activatable, NoActivation
    <3> QED BY <2>5, <3>1, ShardFinishes DEF Complete, Replies
  <2>6. CASE Reject(c)
    <3>1. \A d \in Chain : NoActivation(d)
      BY <2>6 DEF Reject, NoActivation, ClaimInv
    <3> QED BY <2>6, <3>1, ShardSteps DEF Reject, Standing, table, ShardPc, Deciding
  <2> QED BY <1>5, <2>1, <2>2, <2>3, <2>4, <2>5, <2>6, <2>7 DEF Serve
<1>6. CASE StartReconcile
  BY <1>2, <1>6 DEF StartReconcile, rows, table, shards
<1>7. ASSUME NEW c \in Chain, NEW w \in Caller, Apply(c, w) PROVE CommandInv'
  <2>1. state' = state /\ outbox' = outbox
    BY <1>7 DEF Apply, rows, table
  <2>2. CASE UNCHANGED shards
    BY <1>2, <2>1, <2>2 DEF shards
  <2>3. ASSUME NEW n \in DOMAIN outbox, outbox[n].chain = c,
               spc' = [spc EXCEPT ![c] = FirstStep(outbox[n].kind)],
               cmd' = [cmd EXCEPT ![c] = n]
        PROVE  CommandInv'
    <3>0. outbox[n] \in CommandType
      BY DEF CommandInv
    <3>1. outbox[n].kind \in Kind
      BY <3>0 DEF CommandType
    <3>2. PICK p : p = FirstStep(outbox[n].kind)
      OBVIOUS
    <3>3. p \in ShardPc /\ p # "reject" /\ (p \in Deciding => outbox[n].kind # "subscribe")
      BY <3>1, <3>2 DEF FirstStep, Kind, ShardPc, Deciding
    <3>4. MayStand(c, p, n)'
      BY <2>1, <2>3, <3>3 DEF MayStand
    <3> QED BY <1>1, <2>1, <2>3, <3>2, <3>3, <3>4, ShardMoves
  <2> QED BY <1>7, <2>2, <2>3 DEF Apply
<1>8. ASSUME NEW w \in Caller, CallerFails(w) PROVE CommandInv'
  BY <1>2, <1>8 DEF CallerFails, rows, table
<1>9. ASSUME NEW c \in Chain, ShardFails(c) \/ Beside(c) PROVE CommandInv'
  <2>1. CASE ShardFails(c)
    BY <1>1, <2>1, ShardFinishes DEF ShardFails, rows, table
  <2>2. CASE Beside(c)
    BY <1>2, <2>2, BesideFrame DEF table, shards
  <2> QED BY <1>9, <2>1, <2>2
<1> QED BY <1>3, <1>4, <1>5, <1>6, <1>7, <1>8, <1>9 DEF Next

-----------------------------------------------------------------------------
(* The refinement.                                                         *)

ControlInv == RefsInv /\ CommandInv

\* Tracked are the targets of the live subscriptions.
TrackedAreLive == {t \in Target : refs[t] > 0} = {TargetOf[s] : s \in Live}

LEMMA Tracked == RefsInv => TrackedAreLive
<1> SUFFICES ASSUME RefsInv PROVE TrackedAreLive
  OBVIOUS
<1>1. ASSUME NEW t \in Target PROVE refs[t] > 0 <=> LiveAt(t) # {}
  <2>1. /\ IsFiniteSet(LiveAt(t)) /\ Cardinality(LiveAt(t)) \in Nat
        /\ refs[t] = Cardinality(LiveAt(t))
    BY LiveAtFinite DEF RefsInv, RefsMatch, LiveAt
  <2>2. Cardinality(LiveAt(t)) = 0 <=> LiveAt(t) = {}
    BY <2>1, FS_EmptySet
  <2> QED BY <2>1, <2>2
<1>2. \A s \in Live : TargetOf[s] \in Target
  BY ControlAssumption DEF Live, TargetOf, Target
<1> QED BY <1>1, <1>2 DEF LiveAt, TrackedAreLive

LEMMA TrackedNext == RefsInv' => TrackedAreLive'
  BY Tracked, PTL

\* A step that changes the states as Move does tracks what Move tracks.
LEMMA Moves ==
    ASSUME RefsInv', NEW S, NEW st,
           state' = [s \in Sub |-> IF s \in S THEN st ELSE state[s]]
    PROVE  Promised!Move(S, st)
<1>1. {t \in Target : refs'[t] > 0} = {TargetOf[s] : s \in Live'}
  BY TrackedNext DEF TrackedAreLive
<1>2. Live' = {s \in Sub : state'[s] \in Promised!LiveState}
  BY DEF Live, IsLive, Promised!LiveState
<1> QED BY <1>1, <1>2 DEF Promised!Move, Promised!Live

\* Each step is a step of Subscriptions, or changes nothing there.
LEMMA StepsRefine ==
    ASSUME ControlInv, ControlInv', Next
    PROVE  Promised!Next \/ UNCHANGED Promised!vars
<1> DEFINE Goal == Promised!Next \/ UNCHANGED Promised!vars
<1> USE DEF ControlInv
<1>1. ASSUME UNCHANGED <<state, refs>> PROVE Goal
  BY <1>1 DEF Promised!vars
<1>2. Promised!Live = Live
  BY DEF Promised!Live, Promised!LiveState, Live, IsLive
<1>3. ASSUME NEW scope, Unsubscribe(scope) PROVE Goal
  <2>1. PICK S : S = InScope(scope)
    OBVIOUS
  <2>2. Promised!Move(S, "deleting")
    BY <1>3, <2>1, Moves DEF Unsubscribe
  <2>3. S \in SUBSET Sub /\ S \subseteq Promised!Live
    BY <1>2, <2>1 DEF InScope, Live
  <2> QED BY <2>2, <2>3 DEF Promised!Next, Promised!Delete
<1>4. ASSUME NEW w \in Worker, InsertSubscription(w) PROVE Goal
  <2>1. PICK g : g = goal[w]
    OBVIOUS
  <2>2. g \in Sub /\ state[g] = "none"
    BY <1>4, <2>1 DEF InsertSubscription, RefsInv, ClaimInv, Holds
  <2>3. state' = [s \in Sub |-> IF s \in {g} THEN "pending" ELSE state[s]]
    BY <1>4, <2>1, <2>2 DEF InsertSubscription, RefsInv, ClaimInv
  <2>4. Promised!Move({g}, "pending")
    BY <2>3, Moves
  <2>5. \A t \in Promised!Live : TupleOf[t] # TupleOf[g]
    BY <1>2, <1>4, <2>1 DEF InsertSubscription, IndexAdmits, TupleExists
  <2> QED BY <2>2, <2>4, <2>5 DEF Promised!Next, Promised!Create
<1>5. ASSUME NEW c \in Chain, Complete(c) PROVE Goal
  <2>1. PICK S : S = Activatable(c)
    OBVIOUS
  <2>2. Promised!Move(S, "active")
    BY <1>5, <2>1, Moves DEF Complete
  <2>3. S \in SUBSET Sub /\ \A s \in S : state[s] \in {"pending", "unsupported"}
    BY <2>1 DEF Activatable
  <2> QED BY <2>2, <2>3 DEF Promised!Next, Promised!Activate
<1>6. ASSUME NEW c \in Chain, Reject(c) PROVE Goal
  <2>1. PICK s : s = Subject(c)
    OBVIOUS
  <2>2. s \in Sub /\ state[s] # "active"
    BY <1>6, <2>1 DEF Reject, Standing, CommandInv, MayStand, WellAddressed, Subject,
                      Deciding
  <2>3. CASE state[s] = "pending"
    <3>1. state' = [t \in Sub |-> IF t \in {s} THEN "unsupported" ELSE state[t]]
      BY <1>6, <2>1, <2>2, <2>3 DEF Reject, IsLive, RefsInv, ClaimInv
    <3>2. Promised!Move({s}, "unsupported")
      BY <3>1, Moves
    <3> QED BY <2>2, <2>3, <3>2 DEF Promised!Next, Promised!Reject
  <2>4. CASE state[s] # "pending"
    <3>1. state' = state /\ refs' = refs
      BY <1>6, <2>1, <2>2, <2>4 DEF Reject, IsLive, RefsInv, ClaimInv
    <3> QED BY <1>1, <3>1
  <2> QED BY <2>3, <2>4
<1>7. ASSUME NEW w \in Worker, Ask(w) PROVE Goal
  BY <1>1, <1>7 DEF Ask, StartCreate, StartDelete, StartDeleteHook, StartRetry,
                    StartOperatorRetry, rows
<1>8. ASSUME NEW w \in Worker, Proceed(w) PROVE Goal
  <2>1. CASE DeleteSubscription(w) \/ DeleteHook(w)
    BY <1>3, <2>1 DEF DeleteSubscription, DeleteHook
  <2>2. CASE \/ ReadHook(w) \/ ReadChains(w) \/ CountSubs(w) \/ InsertRefused(w)
             \/ \E s \in Sub : Examine(w, s)
             \/ ReadCascade(w) \/ ReadRetry(w) \/ InsertRetry(w)
    BY <1>1, <2>2 DEF ReadHook, ReadChains, CountSubs, InsertRefused, Examine,
                      ReadCascade, ReadRetry, InsertRetry, rows
  <2> QED BY <1>4, <1>8, <2>1, <2>2 DEF Proceed
<1>9. ASSUME NEW c \in Chain, Serve(c) PROVE Goal
  <2>1. CASE \/ ReadSub(c) \/ Resolve(c) \/ Register(c) \/ ResolveUnknown(c)
             \/ Unresolved(c) \/ Mark(c)
    BY <1>1, <2>1 DEF ReadSub, Resolve, Register, ResolveUnknown, Unresolved, Mark, rows
  <2> QED BY <1>5, <1>6, <1>9, <2>1 DEF Serve
<1>10. CASE \/ StartReconcile
            \/ \E c \in Chain, w \in Caller : Apply(c, w)
            \/ \E w \in Caller : CallerFails(w)
            \/ \E c \in Chain : ShardFails(c) \/ Beside(c)
  BY <1>1, <1>10, BesideFrame DEF StartReconcile, Apply, CallerFails, ShardFails, rows
<1> QED BY <1>7, <1>8, <1>9, <1>10 DEF Next

LEMMA ControlInductive == Spec => []ControlInv
<1>1. Init => ControlInv
  <2>1. Init => CommandInv
    BY DEF Init, CommandInv, ShardPc, MayStand
  <2> QED BY <2>1, RefsInit DEF ControlInv
<1>2. ControlInv /\ [Next]_vars => ControlInv'
  <2> SUFFICES ASSUME ControlInv, [Next]_vars PROVE ControlInv'
    OBVIOUS
  <2>1. CASE Next
    BY <2>1, RefsSteps, CommandSteps DEF ControlInv, RefsInv
  <2>2. CASE UNCHANGED vars
    <3>1. CommandInv'
      BY <2>2, ShardsFrame DEF ControlInv, NoActivation, vars, rows, table, shards
    <3> QED BY <2>2, <3>1, RefsStutter DEF ControlInv
  <2> QED BY <2>1, <2>2
<1> QED BY <1>1, <1>2, PTL DEF Spec

\* The control plane implements the abstract subscriptions: whatever requests,
\* shards and failures do, a deletion is final, two live subscriptions never
\* have one tuple, and a target is tracked exactly while somebody wants it
\* (outbox.ts:58 and 166, repository.ts:1204).
THEOREM ControlImplements == Spec => Implements
<1>1. Init => Promised!Init
  BY DEF Init, Promised!Init
<1>2. ControlInv /\ ControlInv' /\ [Next]_vars => [Promised!Next]_(Promised!vars)
  <2>1. ControlInv /\ ControlInv' /\ Next => [Promised!Next]_(Promised!vars)
    BY StepsRefine
  <2>2. UNCHANGED vars => UNCHANGED Promised!vars
    BY DEF vars, rows, Promised!vars
  <2> QED BY <2>1, <2>2
<1> QED BY <1>1, <1>2, ControlInductive, PTL DEF Spec, Implements, Promised!Spec
=============================================================================
