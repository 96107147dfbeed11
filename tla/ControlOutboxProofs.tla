------------------------ MODULE ControlOutboxProofs ------------------------
(***************************************************************************)
(* The types of the control plane, and what its outbox, its registry and   *)
(* its quota promise: a pending subscription has a pending command, an     *)
(* active one is on a chain the cron keeps awake, and the quota is         *)
(* exceeded by no more than the requests at a time.                        *)
(***************************************************************************)
EXTENDS ControlPlaneProofs

-----------------------------------------------------------------------------
(* Types.  A command names a chain because the request that inserts it has  *)
(* one at that place.                                                       *)

TypedCommand == [kind : Kind, sub : Sub \cup {Nobody}, chain : Chain]

RegistryStatus == {"none", "pending", "active", "paused", "unsupported"}

RowTypes ==
    /\ hooks \subseteq Webhook
    /\ registry \in [Chain -> RegistryStatus]
    /\ listed \subseteq Chain \ Down /\ forgotten \subseteq Chain \ Down

TableTypes ==
    /\ outbox \in Seq(TypedCommand)
    /\ applied \subseteq DOMAIN outbox

CallerData ==
    /\ queue \in [Caller -> SUBSET DOMAIN outbox]
    /\ used \in [Caller -> Nat]
    /\ seen \in [Caller -> SUBSET Chain]

\* What a request is about, where its kind shows.
GoalFits(w) ==
    /\ wpc[w] \in {"retry", "insert"} => goal[w] \in Chain
    /\ wpc[w] = "unsubscribe" => goal[w] \in Sub

ShardTypes ==
    /\ spc \in [Chain -> ShardPc]
    /\ cmd \in [Chain -> {0} \cup DOMAIN outbox]
    /\ client \in [Chain -> Caller \cup {Nobody}]

EventTypes == requests \in 0..MaxRequests /\ faults \in 0..MaxFaults

TypeInv ==
    /\ ControlInv
    /\ RowTypes
    /\ TableTypes
    /\ CallerData
    /\ \A w \in Worker : GoalFits(w)
    /\ ShardTypes
    /\ EventTypes

LEMMA TypesFollow == TypeInv => TypeOK
  BY DEF TypeInv, TypeOK, ControlInv, RefsInv, ClaimInv, CallerTypes, Status, Pc,
         RowTypes, RegistryStatus, TableTypes, TypedCommand, CallerData, ShardTypes,
         ShardPc, EventTypes

LEMMA TypesStart == Init => TypeInv
<1> SUFFICES ASSUME Init PROVE TypeInv
  OBVIOUS
<1>1. ControlInv
  <2>1. CommandInv
    BY DEF Init, CommandInv, ShardPc, MayStand
  <2> QED BY <2>1, RefsInit DEF ControlInv
<1>2. RowTypes /\ TableTypes
  BY DEF Init, RowTypes, RegistryStatus, TableTypes
<1>3. CallerData /\ \A w \in Worker : GoalFits(w)
  BY DEF Init, CallerData, GoalFits, Caller
<1>4. ShardTypes /\ EventTypes
  BY ControlAssumption DEF Init, ShardTypes, ShardPc, EventTypes
<1> QED BY <1>1, <1>2, <1>3, <1>4 DEF TypeInv

\* The outbox grows by commands that name a chain, or stays.
Grows == /\ outbox' \in Seq(TypedCommand)
         /\ DOMAIN outbox \subseteq DOMAIN outbox'

LEMMA Extended ==
    ASSUME TypeInv, NEW q \in Seq(TypedCommand), outbox' = outbox \o q
    PROVE  Grows /\ \A n \in DOMAIN outbox : outbox'[n] = outbox[n]
  BY DEF TypeInv, TableTypes, Grows

LEMMA Unchanging ==
    ASSUME TypeInv, UNCHANGED outbox
    PROVE  Grows
  BY DEF TypeInv, TableTypes, Grows

\* The commands of a deletion name the chains of its subscriptions.
LEMMA DeletionTyped ==
    ASSUME TypeInv, NEW scope, Unsubscribe(scope)
    PROVE  /\ Grows
           /\ \A n \in DOMAIN outbox : outbox'[n] = outbox[n]
           /\ \A n \in DOMAIN outbox' \ DOMAIN outbox : outbox'[n].kind = "unsubscribe"
<1>1. PICK S \in SUBSET Sub : \E q \in Unsubscribes(S) : outbox' = outbox \o q
  <2>1. {s \in InScope(scope) :
           \A n \in DOMAIN outbox : outbox[n] # Command("unsubscribe", s, ChainOf[s])}
            \in SUBSET Sub
    BY DEF InScope, Live
  <2> QED BY <2>1 DEF Unsubscribe
<1>2. PICK q \in Unsubscribes(S) : outbox' = outbox \o q
  BY <1>1
<1>3. q \in [1..Cardinality(S) -> {Command("unsubscribe", s, ChainOf[s]) : s \in S}]
  BY DEF Unsubscribes
<1>4. IsFiniteSet(S) /\ Cardinality(S) \in Nat
  BY ControlAssumption, FS_Subset, FS_CardinalityType
<1>5. ASSUME NEW s \in S PROVE Command("unsubscribe", s, ChainOf[s]) \in TypedCommand
  BY ControlAssumption DEF Command, TypedCommand, Kind
<1>6. q \in Seq(TypedCommand) /\ \A n \in DOMAIN q : q[n].kind = "unsubscribe"
  BY <1>3, <1>4, <1>5 DEF Command
<1>7. ASSUME NEW n \in DOMAIN outbox' \ DOMAIN outbox PROVE outbox'[n].kind = "unsubscribe"
  <2>1. n - Len(outbox) \in DOMAIN q /\ outbox'[n] = q[n - Len(outbox)]
    BY <1>2, <1>6 DEF TypeInv, TableTypes
  <2> QED BY <1>6, <2>1
<1> QED BY <1>2, <1>6, <1>7, Extended

LEMMA OutboxTyped ==
    ASSUME TypeInv, Next
    PROVE  Grows /\ \A n \in DOMAIN outbox : outbox'[n] = outbox[n]
<1> DEFINE Goal == Grows /\ \A n \in DOMAIN outbox : outbox'[n] = outbox[n]
<1>1. ASSUME UNCHANGED outbox PROVE Goal
  BY <1>1, Unchanging
<1>2. ASSUME NEW x \in TypedCommand, outbox' = Append(outbox, x) PROVE Goal
  <2>1. <<x>> \in Seq(TypedCommand) /\ outbox' = outbox \o <<x>>
    BY <1>2 DEF TypeInv, TableTypes
  <2> QED BY <2>1, Extended
<1>3. ASSUME NEW w \in Worker, Proceed(w) PROVE Goal
  <2>1. CASE InsertSubscription(w)
    <3>1. goal[w] \in Sub
      BY <2>1 DEF InsertSubscription, TypeInv, ControlInv, RefsInv, ClaimInv
    <3>2. Command("subscribe", goal[w], ChainOf[goal[w]]) \in TypedCommand
      BY <3>1, ControlAssumption DEF Command, TypedCommand, Kind
    <3> QED BY <1>2, <2>1, <3>2 DEF InsertSubscription
  <2>2. CASE InsertRetry(w)
    <3>1. goal[w] \in Chain
      BY <2>2 DEF InsertRetry, At, TypeInv, GoalFits
    <3>2. Command("retry_chain", Nobody, goal[w]) \in TypedCommand
      BY <3>1 DEF Command, TypedCommand, Kind
    <3> QED BY <1>2, <2>2, <3>2 DEF InsertRetry
  <2>3. CASE DeleteSubscription(w) \/ DeleteHook(w)
    BY <2>3, DeletionTyped DEF DeleteSubscription, DeleteHook
  <2>4. CASE \/ ReadHook(w) \/ ReadChains(w) \/ CountSubs(w) \/ InsertRefused(w)
             \/ \E s \in Sub : Examine(w, s)
             \/ ReadCascade(w) \/ ReadRetry(w)
    BY <1>1, <2>4 DEF ReadHook, ReadChains, CountSubs, InsertRefused, Examine,
                      ReadCascade, ReadRetry, table
  <2> QED BY <1>3, <2>1, <2>2, <2>3, <2>4 DEF Proceed
<1>4. ASSUME NEW w \in Worker, Ask(w) PROVE Goal
  BY <1>1, <1>4 DEF Ask, StartCreate, StartDelete, StartDeleteHook, StartRetry,
                    StartOperatorRetry, table
<1>5. ASSUME NEW c \in Chain, Serve(c) PROVE Goal
  BY <1>1, <1>5 DEF Serve, ReadSub, Resolve, Register, ResolveUnknown, Unresolved,
                    Complete, Reject, Mark, table
<1>6. CASE \/ StartReconcile
           \/ \E c \in Chain, w \in Caller : Apply(c, w)
           \/ \E w \in Caller : CallerFails(w)
           \/ \E c \in Chain : ShardFails(c) \/ Beside(c)
  BY <1>1, <1>6, BesideFrame DEF StartReconcile, Apply, CallerFails, ShardFails, table
<1> QED BY <1>3, <1>4, <1>5, <1>6 DEF Next

-----------------------------------------------------------------------------
(* The callers.                                                            *)

CallersTyped == CallerData /\ \A w \in Worker : GoalFits(w)

LEMMA CallersRest ==
    ASSUME TypeInv, Grows, UNCHANGED callers
    PROVE  CallersTyped'
  BY DEF TypeInv, Grows, callers, CallersTyped, CallerData, GoalFits

\* The request ends, or goes on with its loop.
LEMMA EndsTyped ==
    ASSUME TypeInv, Grows, NEW w \in Caller, Ends(w)
    PROVE  CallersTyped'
<1>1. CallerData'
  BY DEF TypeInv, Grows, CallerData, Ends
<1>2. ASSUME NEW v \in Worker PROVE GoalFits(v)'
  BY DEF TypeInv, ControlInv, RefsInv, ClaimInv, CallerTypes, Caller, Ends, Goto, GoalFits
<1> QED BY <1>1, <1>2 DEF CallersTyped

LEMMA GoesOnTyped ==
    ASSUME TypeInv, Grows, NEW w \in Caller, NEW T, GoesOn(w, T)
    PROVE  CallersTyped'
<1>1. CASE T = {}
  BY <1>1, EndsTyped DEF GoesOn
<1>2. CASE T # {}
  <2>1. CallerData'
    BY <1>2 DEF TypeInv, Grows, CallerData, GoesOn
  <2>2. ASSUME NEW v \in Worker PROVE GoalFits(v)'
    BY <1>2 DEF TypeInv, ControlInv, RefsInv, ClaimInv, CallerTypes, Caller, GoesOn,
                Goto, GoalFits
  <2> QED BY <2>1, <2>2 DEF CallersTyped
<1> QED BY <1>1, <1>2

LEMMA AnsweredTyped ==
    ASSUME TypeInv, Grows, NEW w \in Caller, NEW n, Answered(w, n)
    PROVE  CallersTyped'
<1>1. CASE queue[w] = {n}
  BY <1>1, GoesOnTyped DEF Answered
<1>2. CASE queue[w] # {n}
  BY <1>2 DEF TypeInv, Grows, Answered, CallersTyped, CallerData, GoalFits
<1> QED BY <1>1, <1>2

LEMMA RepliesTyped ==
    ASSUME TypeInv, Grows, NEW c \in Chain, Replies(c)
    PROVE  CallersTyped'
<1>1. client[c] \in Caller \cup {Nobody}
  BY DEF TypeInv, ShardTypes
<1>2. CASE client[c] = Nobody
  BY <1>2, CallersRest DEF Replies
<1>3. CASE client[c] # Nobody
  BY <1>1, <1>3, AnsweredTyped DEF Replies
<1> QED BY <1>2, <1>3

\* A caller goes somewhere, with what it has to dispatch and has read.
LEMMA GoesTyped ==
    ASSUME TypeInv, Grows, CallerData', NEW w \in Caller, NEW p, Goto(w, p),
           \A v \in Worker \ {w} : goal'[v] = goal[v],
           w \in Worker => \/ p \notin {"unsubscribe", "retry", "insert"}
                           \/ p = "unsubscribe" /\ goal'[w] \in Sub
                           \/ p \in {"retry", "insert"} /\ goal'[w] \in Chain
    PROVE  CallersTyped'
<1>1. ASSUME NEW v \in Worker PROVE GoalFits(v)'
  BY DEF TypeInv, ControlInv, RefsInv, ClaimInv, CallerTypes, Caller, Goto, GoalFits
<1> QED BY <1>1 DEF CallersTyped

\* A new request.
LEMMA AsksTyped ==
    ASSUME TypeInv, Grows, NEW w \in Worker, Ask(w)
    PROVE  CallersTyped'
<1>0. w \in Caller
  BY DEF Caller
<1>1. UNCHANGED <<queue, used, seen>>
  BY DEF Ask, StartCreate, StartDelete, StartDeleteHook, StartRetry, StartOperatorRetry
<1>2. CallerData'
  BY <1>1 DEF TypeInv, Grows, CallerData
<1>3. ASSUME NEW p, NEW g, Request(w, p, g),
             \/ p \notin {"unsubscribe", "retry", "insert"}
             \/ p = "unsubscribe" /\ g \in Sub
             \/ p \in {"retry", "insert"} /\ g \in Chain
      PROVE  CallersTyped'
  <2>1. Goto(w, p) /\ goal' = [goal EXCEPT ![w] = g]
    BY <1>3 DEF Request
  <2>2. goal'[w] = g /\ \A v \in Worker \ {w} : goal'[v] = goal[v]
    BY <1>0, <2>1 DEF TypeInv, ControlInv, RefsInv, ClaimInv, CallerTypes, Caller
  <2> QED BY <1>0, <1>2, <1>3, <2>1, <2>2, GoesTyped
<1>4. ASSUME NEW S \in SUBSET Sub, StartCreate(w, S) PROVE CallersTyped'
  BY <1>3, <1>4 DEF StartCreate
<1>5. ASSUME NEW s \in Sub, StartDelete(w, s) PROVE CallersTyped'
  BY <1>3, <1>5 DEF StartDelete
<1>6. ASSUME NEW h \in Webhook, StartDeleteHook(w, h) PROVE CallersTyped'
  BY <1>3, <1>6 DEF StartDeleteHook
<1>7. ASSUME NEW c \in Chain, StartRetry(w, c) \/ StartOperatorRetry(w, c)
      PROVE  CallersTyped'
  BY <1>3, <1>7 DEF StartRetry, StartOperatorRetry
<1> QED BY <1>4, <1>5, <1>6, <1>7 DEF Ask

\* A request goes on.
LEMMA ProceedsTyped ==
    ASSUME TypeInv, Grows, NEW w \in Worker, Proceed(w)
    PROVE  CallersTyped'
<1>0. w \in Caller
  BY DEF Caller
<1>1. ASSUME UNCHANGED <<queue, used, seen>> PROVE CallerData'
  BY <1>1 DEF TypeInv, Grows, CallerData
<1>2. ASSUME NEW Q \in SUBSET DOMAIN outbox', queue' = [queue EXCEPT ![w] = Q],
             UNCHANGED <<used, seen>>
      PROVE  CallerData'
  BY <1>2 DEF TypeInv, Grows, CallerData
<1>3. CASE ReadHook(w) \/ InsertRefused(w)
  <2>1. ASSUME NEW p, p \in {"chains"}, Goto(w, p), UNCHANGED <<goal, queue, used, seen>>
        PROVE  CallersTyped'
    BY <1>0, <1>1, <2>1, GoesTyped
  <2> QED BY <1>0, <1>3, <2>1, EndsTyped, GoesOnTyped DEF ReadHook, InsertRefused
<1>4. CASE ReadChains(w)
  <2>1. {ChainOf[s] : s \in Live} \in SUBSET Chain
    BY ControlAssumption DEF Live
  <2>2. CallerData'
    BY <1>4, <2>1 DEF ReadChains, TypeInv, Grows, CallerData
  <2> QED BY <1>0, <1>4, <2>2, GoesTyped DEF ReadChains
<1>5. CASE CountSubs(w)
  <2>1. Cardinality(Live) \in Nat
    BY ControlAssumption, FS_Subset, FS_CardinalityType DEF Live
  <2>2. CallerData'
    BY <1>5, <2>1 DEF CountSubs, TypeInv, Grows, CallerData
  <2> QED BY <1>0, <1>5, <2>2, GoesTyped DEF CountSubs
<1>6. ASSUME NEW s \in Sub, Examine(w, s) PROVE CallersTyped'
  <2>1. CASE GoesOn(w, todo[w] \ {s})
    BY <1>0, <2>1, GoesOnTyped
  <2>2. CASE /\ goal' = [goal EXCEPT ![w] = s]
             /\ Goto(w, "commit")
             /\ UNCHANGED <<queue, used, seen>>
    <3>1. \A v \in Worker \ {w} : goal'[v] = goal[v]
      BY <2>2 DEF TypeInv, ControlInv, RefsInv, ClaimInv, CallerTypes, Caller
    <3> QED BY <1>0, <1>1, <2>2, <3>1, GoesTyped
  <2> QED BY <1>6, <2>1, <2>2 DEF Examine
<1>7. CASE InsertSubscription(w)
  <2>1. goal[w] \in Sub
    BY <1>7 DEF InsertSubscription, TypeInv, ControlInv, RefsInv, ClaimInv
  <2>2. Len(outbox) + 1 \in DOMAIN outbox' /\ ChainOf[goal[w]] \in Chain
    BY <1>7, <2>1, ControlAssumption DEF InsertSubscription, TypeInv, TableTypes
  <2>3. CallerData'
    <3>1. /\ queue' = [queue EXCEPT ![w] = {Len(outbox) + 1}]
          /\ used' = [used EXCEPT ![w] = @ + 1]
          /\ seen' = [seen EXCEPT ![w] = @ \cup {ChainOf[goal[w]]}]
      BY <1>7 DEF InsertSubscription, Counted
    <3> QED BY <1>0, <2>2, <3>1 DEF TypeInv, Grows, CallerData
  <2>4. \A v \in Worker \ {w} : goal'[v] = goal[v]
    BY <1>7 DEF InsertSubscription, TypeInv, ControlInv, RefsInv, ClaimInv, CallerTypes,
                Caller
  <2> QED BY <1>0, <1>7, <2>3, <2>4, GoesTyped DEF InsertSubscription
<1>8. CASE DeleteSubscription(w)
  <2>1. CallerData'
    BY <1>8 DEF DeleteSubscription, TypeInv, Grows, CallerData
  <2> QED BY <1>0, <1>8, <2>1, GoesTyped DEF DeleteSubscription
<1>9. CASE DeleteHook(w)
  BY <1>0, <1>1, <1>9, GoesTyped DEF DeleteHook
<1>10. CASE ReadCascade(w)
  <2>1. CASE Ends(w)
    BY <1>0, <2>1, EndsTyped
  <2>2. ASSUME NEW Q \in SUBSET Pending, queue' = [queue EXCEPT ![w] = Q],
               Goto(w, "wait"), UNCHANGED <<goal, used, seen>>
        PROVE  CallersTyped'
    <3>1. Q \in SUBSET DOMAIN outbox'
      BY DEF Pending, Grows
    <3> QED BY <1>0, <1>2, <2>2, <3>1, GoesTyped
  <2>3. {n \in Pending : outbox[n].kind = "unsubscribe" /\ HookOf[outbox[n].sub] = goal[w]}
            \in SUBSET Pending
    OBVIOUS
  <2> QED BY <1>10, <2>1, <2>2, <2>3 DEF ReadCascade
<1>11. CASE ReadRetry(w)
  <2>1. goal[w] \in Chain
    BY <1>11 DEF ReadRetry, At, TypeInv, GoalFits
  <2> QED BY <1>0, <1>1, <1>11, <2>1, EndsTyped, GoesTyped DEF ReadRetry
<1>12. CASE InsertRetry(w)
  <2>1. {Len(outbox) + 1} \in SUBSET DOMAIN outbox'
    BY <1>12 DEF InsertRetry, TypeInv, TableTypes
  <2> QED BY <1>0, <1>2, <1>12, <2>1, GoesTyped DEF InsertRetry
<1> QED BY <1>3, <1>4, <1>5, <1>6, <1>7, <1>8, <1>9, <1>10, <1>11, <1>12 DEF Proceed

LEMMA CallerSteps ==
    ASSUME TypeInv, Next
    PROVE  CallersTyped'
<1>0. Grows
  BY OutboxTyped
<1>1. ASSUME NEW w \in Worker, Ask(w) \/ Proceed(w) PROVE CallersTyped'
  BY <1>0, <1>1, AsksTyped, ProceedsTyped
<1>2. CASE StartReconcile
  <2>1. Cron \in Caller /\ Cron \notin Worker /\ OldestPending \in SUBSET DOMAIN outbox'
    BY <1>0, ControlAssumption DEF Caller, OldestPending, Pending, Grows
  <2>2. CallerData'
    BY <1>0, <1>2, <2>1 DEF StartReconcile, TypeInv, Grows, CallerData
  <2> QED BY <1>0, <1>2, <2>1, <2>2, GoesTyped DEF StartReconcile
<1>3. ASSUME NEW c \in Chain, NEW w \in Caller, Apply(c, w) PROVE CallersTyped'
  BY <1>0, <1>3, CallersRest, AnsweredTyped DEF Apply
<1>4. ASSUME NEW c \in Chain, Serve(c) PROVE CallersTyped'
  BY <1>0, <1>4, CallersRest, RepliesTyped
     DEF Serve, ReadSub, Resolve, Register, ResolveUnknown, Unresolved, Complete, Reject, Mark
<1>5. ASSUME NEW w \in Caller, CallerFails(w) PROVE CallersTyped'
  BY <1>0, <1>5, EndsTyped DEF CallerFails
<1>6. ASSUME NEW c \in Chain, ShardFails(c) PROVE CallersTyped'
  BY <1>0, <1>6, CallersRest, EndsTyped DEF ShardFails, TypeInv, ShardTypes
<1>7. ASSUME NEW c \in Chain, Beside(c) PROVE CallersTyped'
  BY <1>0, <1>7, CallersRest, BesideFrame
<1> QED BY <1>1, <1>2, <1>3, <1>4, <1>5, <1>6, <1>7 DEF Next

-----------------------------------------------------------------------------
(* The shards, the rows and the bounds.                                    *)

LEMMA FinishTyped ==
    ASSUME TypeInv, Grows, NEW c \in Chain, Finish(c)
    PROVE  ShardTypes'
  BY DEF TypeInv, Grows, ShardTypes, ShardPc, Finish

LEMMA ShardsRest ==
    ASSUME TypeInv, Grows, UNCHANGED shards
    PROVE  ShardTypes'
  BY DEF TypeInv, Grows, ShardTypes, shards

LEMMA StepTyped ==
    ASSUME TypeInv, Grows, NEW c \in Chain, NEW p \in ShardPc, Step(c, p)
    PROVE  ShardTypes'
  BY DEF TypeInv, Grows, ShardTypes, Step

LEMMA ShardTypesStep ==
    ASSUME TypeInv, Next
    PROVE  ShardTypes'
<1>0. Grows
  BY OutboxTyped
<1>1. ASSUME NEW w \in Worker, Ask(w) \/ Proceed(w) PROVE ShardTypes'
  BY <1>0, <1>1, ShardsRest
     DEF Ask, StartCreate, StartDelete, StartDeleteHook, StartRetry, StartOperatorRetry,
         Proceed, ReadHook, ReadChains, CountSubs, Examine, InsertSubscription,
         InsertRefused, DeleteSubscription, DeleteHook, ReadCascade, ReadRetry, InsertRetry
<1>2. CASE StartReconcile
  BY <1>0, <1>2, ShardsRest DEF StartReconcile
<1>3. ASSUME NEW c \in Chain, NEW w \in Caller, Apply(c, w) PROVE ShardTypes'
  <2>1. CASE UNCHANGED shards
    BY <1>0, <2>1, ShardsRest
  <2>2. ASSUME NEW n \in DOMAIN outbox,
               spc' = [spc EXCEPT ![c] = FirstStep(outbox[n].kind)],
               cmd' = [cmd EXCEPT ![c] = n],
               client' = [client EXCEPT ![c] = w]
        PROVE  ShardTypes'
    <3>0. outbox[n] \in TypedCommand
      BY DEF TypeInv, TableTypes
    <3>1. outbox[n].kind \in Kind
      BY <3>0 DEF TypedCommand
    <3>2. FirstStep(outbox[n].kind) \in ShardPc
      BY <3>1 DEF FirstStep, Kind, ShardPc
    <3> QED BY <1>0, <2>2, <3>2 DEF TypeInv, Grows, ShardTypes
  <2> QED BY <1>3, <2>1, <2>2 DEF Apply
<1>4. ASSUME NEW c \in Chain, Serve(c) PROVE ShardTypes'
  <2>1. CASE ReadSub(c) \/ Resolve(c) \/ Register(c) \/ ResolveUnknown(c) \/ Reject(c)
    BY <1>0, <2>1, StepTyped DEF ReadSub, Resolve, Register, ResolveUnknown, Reject, ShardPc
  <2>2. CASE Unresolved(c) \/ Complete(c) \/ Mark(c)
    BY <1>0, <2>2, FinishTyped DEF Unresolved, Complete, Mark, Replies
  <2> QED BY <1>4, <2>1, <2>2 DEF Serve
<1>5. ASSUME NEW w \in Caller, CallerFails(w) PROVE ShardTypes'
  BY <1>0, <1>5 DEF CallerFails, Forgotten, TypeInv, Grows, ShardTypes
<1>6. ASSUME NEW c \in Chain, ShardFails(c) PROVE ShardTypes'
  BY <1>0, <1>6, FinishTyped DEF ShardFails
<1>7. ASSUME NEW c \in Chain, Beside(c) PROVE ShardTypes'
  BY <1>0, <1>7, ShardsRest, BesideFrame
<1> QED BY <1>1, <1>2, <1>3, <1>4, <1>5, <1>6, <1>7 DEF Next

LEMMA RowTypesStep ==
    ASSUME TypeInv, Next
    PROVE  RowTypes'
<1>0. ASSUME NEW c \in Chain, NEW st \in {"active", "paused", "unsupported"},
             SetRegistry(c, st), UNCHANGED <<hooks, racer>>
      PROVE  RowTypes'
  BY <1>0 DEF SetRegistry, TypeInv, RowTypes, RegistryStatus, racer
<1>1. ASSUME UNCHANGED <<hooks, registry, racer>> PROVE RowTypes'
  BY <1>1 DEF TypeInv, RowTypes, racer
<1>2. ASSUME NEW w \in Worker, Ask(w) PROVE RowTypes'
  BY <1>1, <1>2 DEF Ask, StartCreate, StartDelete, StartDeleteHook, StartRetry,
                    StartOperatorRetry, rows
<1>3. ASSUME NEW w \in Worker, Proceed(w) PROVE RowTypes'
  <2>1. CASE InsertSubscription(w)
    BY <2>1 DEF InsertSubscription, Registered, TypeInv, RowTypes, RegistryStatus, racer
  <2>2. CASE DeleteHook(w)
    BY <2>2 DEF DeleteHook, TypeInv, RowTypes, racer
  <2>3. CASE \/ ReadHook(w) \/ ReadChains(w) \/ CountSubs(w) \/ InsertRefused(w)
             \/ \E s \in Sub : Examine(w, s)
             \/ DeleteSubscription(w) \/ ReadCascade(w) \/ ReadRetry(w) \/ InsertRetry(w)
    BY <1>1, <2>3 DEF ReadHook, ReadChains, CountSubs, InsertRefused, Examine,
                      DeleteSubscription, ReadCascade, ReadRetry, InsertRetry, rows
  <2> QED BY <1>3, <2>1, <2>2, <2>3 DEF Proceed
<1>4. ASSUME NEW c \in Chain, Serve(c) PROVE RowTypes'
  <2>1. CASE Register(c) \/ ResolveUnknown(c)
    BY <1>0, <2>1 DEF Register, ResolveUnknown
  <2>2. CASE ReadSub(c) \/ Resolve(c) \/ Unresolved(c) \/ Complete(c) \/ Reject(c) \/ Mark(c)
    BY <1>1, <2>2 DEF ReadSub, Resolve, Unresolved, Complete, Reject, Mark, rows
  <2> QED BY <1>4, <2>1, <2>2 DEF Serve
<1>5. ASSUME NEW c \in Chain, Beside(c) PROVE RowTypes'
  <2>1. CASE ListChain(c) \/ ForgetChain(c)
    BY <2>1 DEF ListChain, ForgetChain, rows, TypeInv, RowTypes
  <2>2. CASE PauseOrResume(c) \/ Rescan(c)
    BY <1>0, <2>2 DEF PauseOrResume, Rescan
  <2> QED BY <1>5, <2>1, <2>2 DEF Beside
<1>6. CASE \/ StartReconcile
           \/ \E c \in Chain, w \in Caller : Apply(c, w)
           \/ \E w \in Caller : CallerFails(w)
           \/ \E c \in Chain : ShardFails(c)
  BY <1>1, <1>6 DEF StartReconcile, Apply, CallerFails, ShardFails, rows
<1> QED BY <1>2, <1>3, <1>4, <1>5, <1>6 DEF Next

\* A command is applied by the shard that holds it; nothing else changes what
\* is applied.
LEMMA AppliedSteps ==
    ASSUME TypeInv, Next
    PROVE  \/ applied' = applied
           \/ \E c \in Chain : /\ Complete(c) \/ Mark(c)
                               /\ applied' = applied \cup {cmd[c]}
                               /\ cmd[c] \in DOMAIN outbox /\ outbox[cmd[c]].chain = c
<1> DEFINE Goal == \/ applied' = applied
                   \/ \E c \in Chain : /\ Complete(c) \/ Mark(c)
                                       /\ applied' = applied \cup {cmd[c]}
                                       /\ cmd[c] \in DOMAIN outbox
                                       /\ outbox[cmd[c]].chain = c
<1>1. ASSUME NEW w \in Worker, Ask(w) \/ Proceed(w) PROVE Goal
  BY <1>1 DEF Ask, StartCreate, StartDelete, StartDeleteHook, StartRetry,
              StartOperatorRetry, Proceed, ReadHook, ReadChains, CountSubs, Examine,
              InsertSubscription, InsertRefused, DeleteSubscription, DeleteHook,
              ReadCascade, ReadRetry, InsertRetry, table
<1>2. ASSUME NEW c \in Chain, Serve(c) PROVE Goal
  <2>1. CASE Complete(c) \/ Mark(c)
    <3>1. spc[c] # "idle"
      BY <2>1 DEF Complete, Mark, Standing
    <3>2. cmd[c] \in DOMAIN outbox /\ outbox[cmd[c]].chain = c
      BY <3>1 DEF TypeInv, ControlInv, CommandInv, MayStand
    <3>3. applied' = applied \cup {cmd[c]}
      BY <2>1 DEF Complete, Mark, Applies
    <3> QED BY <2>1, <3>2, <3>3
  <2>2. CASE \/ ReadSub(c) \/ Resolve(c) \/ Register(c) \/ ResolveUnknown(c)
             \/ Unresolved(c) \/ Reject(c)
    BY <2>2 DEF ReadSub, Resolve, Register, ResolveUnknown, Unresolved, Keeps, Reject, table
  <2> QED BY <1>2, <2>1, <2>2 DEF Serve
<1>3. CASE \/ StartReconcile
           \/ \E c \in Chain, w \in Caller : Apply(c, w)
           \/ \E w \in Caller : CallerFails(w)
           \/ \E c \in Chain : ShardFails(c) \/ Beside(c)
  BY <1>3, BesideFrame DEF StartReconcile, Apply, CallerFails, ShardFails, table
<1> QED BY <1>1, <1>2, <1>3 DEF Next

LEMMA EventTypesStep ==
    ASSUME TypeInv, Next
    PROVE  EventTypes'
<1>0. {MaxRequests, MaxFaults} \subseteq Nat
  BY ControlAssumption
<1>1. ASSUME UNCHANGED events \/ Asked \/ Fault PROVE EventTypes'
  BY <1>0, <1>1 DEF events, Asked, Fault, TypeInv, EventTypes
<1>2. ASSUME NEW w \in Worker, Ask(w) PROVE EventTypes'
  BY <1>1, <1>2 DEF Ask, StartCreate, StartDelete, StartDeleteHook, StartRetry,
                    StartOperatorRetry, Request
<1>3. ASSUME NEW w \in Worker, Proceed(w) PROVE EventTypes'
  BY <1>1, <1>3 DEF Proceed, ReadHook, ReadChains, CountSubs, Examine,
                    InsertSubscription, InsertRefused, DeleteSubscription, DeleteHook,
                    ReadCascade, ReadRetry, InsertRetry
<1>4. ASSUME NEW c \in Chain, Serve(c) PROVE EventTypes'
  BY <1>1, <1>4 DEF Serve, ReadSub, Resolve, Register, ResolveUnknown, Unresolved,
                    Complete, Reject, Mark
<1>5. CASE \/ StartReconcile
           \/ \E c \in Chain, w \in Caller : Apply(c, w)
           \/ \E w \in Caller : CallerFails(w)
           \/ \E c \in Chain : ShardFails(c) \/ Beside(c)
  BY <1>1, <1>5 DEF StartReconcile, Apply, CallerFails, ShardFails, Beside, ListChain,
                    ForgetChain, PauseOrResume, Rescan
<1> QED BY <1>2, <1>3, <1>4, <1>5 DEF Next

LEMMA TypesStep == TypeInv /\ [Next]_vars => TypeInv'
<1> SUFFICES ASSUME TypeInv, [Next]_vars PROVE TypeInv'
  OBVIOUS
<1>1. CASE Next
  <2>1. ControlInv'
    BY <1>1, RefsSteps, CommandSteps DEF TypeInv, ControlInv, RefsInv
  <2>2. TableTypes'
    BY <1>1, OutboxTyped, AppliedSteps DEF Grows, TypeInv, TableTypes
  <2>3. RowTypes' /\ CallersTyped' /\ ShardTypes' /\ EventTypes'
    BY <1>1, RowTypesStep, CallerSteps, ShardTypesStep, EventTypesStep
  <2> QED BY <2>1, <2>2, <2>3 DEF TypeInv, CallersTyped
<1>2. CASE UNCHANGED vars
  <2>1. CommandInv' /\ RefsInv'
    BY <1>2, ShardsFrame, RefsStutter
       DEF TypeInv, ControlInv, NoActivation, vars, rows, table, shards
  <2>2. Grows
    BY <1>2, Unchanging DEF vars, table
  <2>3. CallersTyped' /\ ShardTypes'
    BY <1>2, <2>2, CallersRest, ShardsRest DEF vars
  <2>4. RowTypes' /\ TableTypes' /\ EventTypes'
    BY <1>2 DEF TypeInv, RowTypes, TableTypes, EventTypes, vars, rows, table, racer, events
  <2> QED BY <2>1, <2>3, <2>4 DEF TypeInv, CallersTyped, ControlInv
<1> QED BY <1>1, <1>2

\* Every variable of the control plane keeps its type, whatever requests, the
\* cron and the shards do and wherever they fail.
THEOREM ControlTypes == Spec => []TypeOK
<1> QED BY TypesStart, TypesStep, TypesFollow, PTL DEF Spec

-----------------------------------------------------------------------------
(* Pending subscriptions.  A command is applied only when its subscription  *)
(* is pending no more: an activation takes a pending one, whose webhook is  *)
(* active (LiveHasWebhook), and a command is marked only behind a status    *)
(* that is final for it.                                                    *)

IsCommandOf(x, s) == x = Command("subscribe", s, ChainOf[s])

\* A subscription somebody has a command for was inserted.
Inserted(n) == outbox[n].kind = "subscribe" => state[outbox[n].sub] # "none"

\* The shard that marks a subscription's command is done with it.
MarkedBehind(c) ==
    spc[c] = "mark" /\ IsSubscribe(c) => state[Subject(c)] # "pending"

OutboxInv ==
    /\ TypeInv
    /\ HookInv
    /\ \A n \in DOMAIN outbox : Inserted(n)
    /\ \A c \in Chain : MarkedBehind(c)
    /\ PendingHasCommand

\* What a step does to the subscriptions and their commands.
StatesMove ==
    \A s \in Sub :
        /\ state[s] # "none" => state'[s] # "none"
        /\ state'[s] = "pending" =>
               \/ state[s] = "pending"
               \/ /\ state[s] = "none"
                  /\ \E n \in DOMAIN outbox' \ DOMAIN outbox : IsCommandOf(outbox'[n], s)

CommandsMove ==
    \A n \in DOMAIN outbox' \ DOMAIN outbox :
        outbox'[n].kind = "subscribe" => state'[outbox'[n].sub] # "none"

LEMMA InsertMoves ==
    ASSUME TypeInv, NEW w \in Worker, InsertSubscription(w)
    PROVE  StatesMove /\ CommandsMove
<1>1. goal[w] \in Sub /\ state[goal[w]] = "none" /\ state \in [Sub -> Status]
  BY DEF InsertSubscription, TypeInv, ControlInv, RefsInv, ClaimInv, Holds
<1>2. /\ state' = [state EXCEPT ![goal[w]] = "pending"]
      /\ outbox' = Append(outbox, Command("subscribe", goal[w], ChainOf[goal[w]]))
  BY DEF InsertSubscription
<1>3. /\ DOMAIN outbox' \ DOMAIN outbox = {Len(outbox) + 1}
      /\ outbox'[Len(outbox) + 1] = Command("subscribe", goal[w], ChainOf[goal[w]])
  BY <1>2 DEF TypeInv, TableTypes
<1>4. StatesMove
  BY <1>1, <1>2, <1>3 DEF StatesMove, IsCommandOf
<1>5. CommandsMove
  BY <1>1, <1>2, <1>3 DEF CommandsMove, Command
<1> QED BY <1>4, <1>5

LEMMA MoveSteps ==
    ASSUME TypeInv, Next
    PROVE  StatesMove /\ CommandsMove
<1>0. state \in [Sub -> Status]
  BY DEF TypeInv, ControlInv, RefsInv, ClaimInv
<1>1. ASSUME UNCHANGED state PROVE StatesMove
  BY <1>1 DEF StatesMove
<1>2. ASSUME UNCHANGED outbox PROVE CommandsMove
  BY <1>2 DEF CommandsMove
<1>3. ASSUME NEW w \in Worker, Ask(w) PROVE UNCHANGED <<state, outbox>>
  BY <1>3 DEF Ask, StartCreate, StartDelete, StartDeleteHook, StartRetry,
              StartOperatorRetry, rows, table
<1>4. ASSUME NEW w \in Worker, Proceed(w) PROVE StatesMove /\ CommandsMove
  <2>1. CASE InsertSubscription(w)
    BY <2>1, InsertMoves
  <2>2. CASE DeleteSubscription(w) \/ DeleteHook(w)
    <3>1. PICK scope : Unsubscribe(scope)
      BY <2>2 DEF DeleteSubscription, DeleteHook
    <3>2. StatesMove
      BY <1>0, <3>1 DEF Unsubscribe, StatesMove
    <3>3. CommandsMove
      BY <3>1, DeletionTyped DEF CommandsMove
    <3> QED BY <3>2, <3>3
  <2>3. CASE InsertRetry(w)
    <3>1. /\ DOMAIN outbox' \ DOMAIN outbox = {Len(outbox) + 1}
          /\ outbox'[Len(outbox) + 1] = Command("retry_chain", Nobody, goal[w])
      BY <2>3 DEF InsertRetry, TypeInv, TableTypes
    <3>2. CommandsMove
      BY <3>1 DEF CommandsMove, Command
    <3> QED BY <1>1, <2>3, <3>2 DEF InsertRetry, rows
  <2>4. CASE \/ ReadHook(w) \/ ReadChains(w) \/ CountSubs(w) \/ InsertRefused(w)
             \/ \E s \in Sub : Examine(w, s)
             \/ ReadCascade(w) \/ ReadRetry(w)
    BY <1>1, <1>2, <2>4 DEF ReadHook, ReadChains, CountSubs, InsertRefused, Examine,
                            ReadCascade, ReadRetry, rows, table
  <2> QED BY <1>4, <2>1, <2>2, <2>3, <2>4 DEF Proceed
<1>5. ASSUME NEW c \in Chain, Serve(c) PROVE StatesMove /\ CommandsMove
  <2>1. CASE Complete(c)
    BY <1>0, <1>2, <2>1 DEF Complete, StatesMove
  <2>2. CASE Reject(c)
    BY <1>0, <1>2, <2>2 DEF Reject, StatesMove, IsLive, table
  <2>3. CASE \/ ReadSub(c) \/ Resolve(c) \/ Register(c) \/ ResolveUnknown(c)
             \/ Unresolved(c) \/ Mark(c)
    BY <1>1, <1>2, <2>3 DEF ReadSub, Resolve, Register, ResolveUnknown, Unresolved, Mark,
                            rows, table
  <2> QED BY <1>5, <2>1, <2>2, <2>3 DEF Serve
<1>6. CASE \/ StartReconcile
           \/ \E c \in Chain, w \in Caller : Apply(c, w)
           \/ \E w \in Caller : CallerFails(w)
           \/ \E c \in Chain : ShardFails(c) \/ Beside(c)
  BY <1>1, <1>2, <1>6, BesideFrame DEF StartReconcile, Apply, CallerFails, ShardFails,
                          rows, table
<1> QED BY <1>1, <1>2, <1>3, <1>4, <1>5, <1>6 DEF Next

\* How a shard comes to the places of an activation, and to where it marks.
Ahead == {"mark", "register", "hold", "activate"}

Arrives(c) ==
    \/ spc'[c] = spc[c] /\ cmd'[c] = cmd[c]
    \/ /\ spc'[c] = "mark" /\ cmd'[c] \in DOMAIN outbox
       /\ outbox[cmd'[c]].kind # "subscribe"
    \/ ReadSub(c) /\ spc'[c] = "mark" /\ cmd'[c] = cmd[c]
    \/ Reject(c) /\ spc'[c] = "mark" /\ cmd'[c] = cmd[c]
    \/ Resolve(c) /\ spc'[c] \in {"register", "hold"} /\ cmd'[c] = cmd[c]
    \/ Register(c) /\ spc'[c] = "activate" /\ cmd'[c] = cmd[c]

LEMMA StepArrives ==
    ASSUME TypeInv, NEW c \in Chain, NEW d \in Chain, NEW p, Step(d, p), d # c
    PROVE  Arrives(c)
  BY DEF TypeInv, ShardTypes, Step, Arrives

LEMMA FinishArrives ==
    ASSUME TypeInv, NEW c \in Chain, NEW d \in Chain, Finish(d),
           spc'[c] \in Ahead
    PROVE  Arrives(c)
  BY DEF TypeInv, ShardTypes, Finish, Arrives, Ahead

LEMMA ArriveSteps ==
    ASSUME TypeInv, Next, NEW c \in Chain, spc'[c] \in Ahead
    PROVE  Arrives(c)
<1>1. ASSUME UNCHANGED <<spc, cmd>> PROVE Arrives(c)
  BY <1>1 DEF Arrives
<1>2. ASSUME NEW w \in Worker, Ask(w) \/ Proceed(w) PROVE UNCHANGED <<spc, cmd>>
  BY <1>2 DEF Ask, StartCreate, StartDelete, StartDeleteHook, StartRetry,
              StartOperatorRetry, Proceed, ReadHook, ReadChains, CountSubs, Examine,
              InsertSubscription, InsertRefused, DeleteSubscription, DeleteHook,
              ReadCascade, ReadRetry, InsertRetry, shards
<1>3. ASSUME NEW d \in Chain, Serve(d) PROVE Arrives(c)
  <2>1. CASE Unresolved(d) \/ Complete(d) \/ Mark(d)
    BY <2>1, FinishArrives DEF Unresolved, Complete, Mark, Replies
  <2>2. CASE /\ d # c
            /\ \/ ReadSub(d) \/ Resolve(d) \/ Register(d)
               \/ ResolveUnknown(d) \/ Reject(d)
    <3>1. \E p \in ShardPc : Step(d, p)
      BY <2>2 DEF ReadSub, Resolve, Register, ResolveUnknown, Reject, ShardPc
    <3> QED BY <2>2, <3>1, StepArrives
  <2>3. ASSUME NEW p, Step(c, p) PROVE spc'[c] = p /\ cmd'[c] = cmd[c]
    BY <2>3 DEF Step, TypeInv, ShardTypes
  <2>4. CASE d = c /\ ReadSub(c)
    BY <2>3, <2>4 DEF ReadSub, Arrives, Ahead
  <2>5. CASE d = c /\ Resolve(c)
    BY <2>3, <2>5 DEF Resolve, Arrives
  <2>6. CASE d = c /\ ResolveUnknown(c)
    <3>1. cmd[c] \in DOMAIN outbox
      BY <2>6 DEF ResolveUnknown, Standing, TypeInv, ControlInv, CommandInv, MayStand
    <3> QED BY <2>3, <2>6, <3>1 DEF ResolveUnknown, IsSubscribe, Arrives, Ahead
  <2>7. CASE d = c /\ Reject(c)
    BY <2>3, <2>7 DEF Reject, Arrives
  <2>8. CASE d = c /\ Register(c)
    BY <2>3, <2>8 DEF Register, Arrives
  <2> QED BY <1>3, <2>1, <2>2, <2>4, <2>5, <2>6, <2>7, <2>8 DEF Serve
<1>4. ASSUME NEW d \in Chain, NEW w \in Caller, Apply(d, w) PROVE Arrives(c)
  <2>1. CASE UNCHANGED shards
    BY <1>1, <2>1 DEF shards
  <2>2. ASSUME NEW n \in DOMAIN outbox,
               spc' = [spc EXCEPT ![d] = FirstStep(outbox[n].kind)],
               cmd' = [cmd EXCEPT ![d] = n]
        PROVE  Arrives(c)
    <3>1. CASE d # c
      BY <2>2, <3>1 DEF TypeInv, ShardTypes, Arrives
    <3>2. CASE d = c
      <4>1. outbox[n] \in TypedCommand
        BY DEF TypeInv, TableTypes
      <4>2. outbox[n].kind \in Kind
        BY <4>1 DEF TypedCommand
      <4>3. spc'[c] = FirstStep(outbox[n].kind) /\ cmd'[c] = n
        BY <2>2, <3>2 DEF TypeInv, ShardTypes
      <4> QED BY <4>2, <4>3 DEF FirstStep, Kind, Arrives, Ahead
    <3> QED BY <3>1, <3>2
  <2> QED BY <1>4, <2>1, <2>2 DEF Apply
<1>5. ASSUME NEW d \in Chain, ShardFails(d) PROVE Arrives(c)
  BY <1>5, FinishArrives DEF ShardFails
<1>6. CASE \/ StartReconcile
           \/ \E w \in Caller : CallerFails(w)
           \/ \E d \in Chain : Beside(d)
  BY <1>1, <1>6, BesideFrame DEF StartReconcile, CallerFails, shards
<1> QED BY <1>1, <1>2, <1>3, <1>4, <1>5, <1>6 DEF Next

\* A command a shard is at, and its subscription, stay what they are.
LEMMA CommandStays ==
    ASSUME TypeInv, Next, NEW n \in DOMAIN outbox
    PROVE  /\ n \in DOMAIN outbox' /\ outbox'[n] = outbox[n]
           /\ outbox[n].kind = "subscribe" =>
                  outbox[n].sub \in Sub /\ outbox[n].chain = ChainOf[outbox[n].sub]
<1>1. n \in DOMAIN outbox' /\ outbox'[n] = outbox[n]
  BY OutboxTyped DEF Grows
<1>2. WellAddressed(outbox[n])
  BY DEF TypeInv, ControlInv, CommandInv
<1> QED BY <1>1, <1>2 DEF WellAddressed

LEMMA PendingKept ==
    ASSUME OutboxInv, Next, NEW s \in Sub, state'[s] = "pending"
    PROVE  \E n \in Pending' : IsCommandOf(outbox'[n], s)
<1>0. TypeInv /\ StatesMove /\ applied \subseteq DOMAIN outbox
  BY MoveSteps DEF OutboxInv, TypeInv, TableTypes
<1>1. applied' \subseteq DOMAIN outbox
  BY <1>0, AppliedSteps
<1>2. CASE state[s] = "none"
  BY <1>0, <1>1, <1>2 DEF StatesMove, Pending
<1>3. CASE state[s] = "pending"
  <2>1. PICK n \in Pending : IsCommandOf(outbox[n], s)
    BY <1>3 DEF OutboxInv, PendingHasCommand, IsCommandOf
  <2>2. n \in DOMAIN outbox' /\ outbox'[n] = outbox[n] /\ n \notin applied
    BY <1>0, <2>1, CommandStays DEF Pending
  <2>3. n \notin applied'
    <3>1. SUFFICES ASSUME n \in applied' PROVE FALSE
      OBVIOUS
    <3>2. PICK c \in Chain : (Complete(c) \/ Mark(c)) /\ n = cmd[c]
      BY <1>0, <2>2, <3>1, AppliedSteps
    <3>3. IsSubscribe(c) /\ Subject(c) = s
      BY <2>1, <3>2 DEF IsSubscribe, Subject, IsCommandOf, Command
    <3>4. CASE Mark(c)
      BY <1>3, <3>3, <3>4 DEF Mark, Standing, OutboxInv, MarkedBehind
    <3>5. CASE Complete(c)
      <4>1. HookOf[s] \in hooks
        BY <1>3 DEF OutboxInv, HookInv, LiveHasWebhook, Live, IsLive
      <4>2. s \in Activatable(c)
        BY <1>3, <3>3, <4>1 DEF Activatable
      <4>3. state'[s] = "active"
        BY <3>5, <4>2 DEF Complete
      <4> QED BY <4>3
    <3> QED BY <3>2, <3>4, <3>5
  <2> QED BY <2>1, <2>2, <2>3 DEF Pending, IsCommandOf
<1> QED BY <1>0, <1>2, <1>3 DEF StatesMove

LEMMA MarkedKept ==
    ASSUME OutboxInv, Next, NEW c \in Chain
    PROVE  MarkedBehind(c)'
<1>0. TypeInv /\ StatesMove /\ state \in [Sub -> Status]
  BY MoveSteps DEF OutboxInv, TypeInv, ControlInv, RefsInv, ClaimInv
<1>1. SUFFICES ASSUME spc'[c] = "mark", IsSubscribe(c)' PROVE state'[Subject(c)'] # "pending"
  BY DEF MarkedBehind
<1>2. Arrives(c)
  BY <1>0, <1>1, ArriveSteps DEF Ahead
<1>3. ASSUME spc[c] # "idle", cmd'[c] = cmd[c]
      PROVE  /\ IsSubscribe(c) /\ Subject(c)' = Subject(c) /\ Subject(c) \in Sub
             /\ state[Subject(c)] # "none"
  <2>1. cmd[c] \in DOMAIN outbox
    BY <1>0, <1>3 DEF TypeInv, ControlInv, CommandInv, MayStand
  <2>2. outbox'[cmd[c]] = outbox[cmd[c]] /\ IsSubscribe(c)
    BY <1>0, <1>1, <1>3, <2>1, CommandStays DEF IsSubscribe
  <2> QED BY <1>0, <1>3, <2>1, <2>2, CommandStays
          DEF IsSubscribe, Subject, OutboxInv, Inserted
<1>4. CASE spc'[c] = spc[c] /\ cmd'[c] = cmd[c]
  BY <1>0, <1>1, <1>3, <1>4 DEF StatesMove, OutboxInv, MarkedBehind
<1>5. CASE cmd'[c] \in DOMAIN outbox /\ outbox[cmd'[c]].kind # "subscribe"
  BY <1>0, <1>1, <1>5, CommandStays DEF IsSubscribe
<1>6. CASE ReadSub(c) /\ spc'[c] = "mark" /\ cmd'[c] = cmd[c]
  <2>1. state' = state /\ spc[c] = "read"
    BY <1>6 DEF ReadSub, Standing, rows
  <2>2. state[Subject(c)] \in {"deleting", "active"}
    BY <1>0, <1>6 DEF ReadSub, Step, TypeInv, ShardTypes
  <2> QED BY <1>3, <1>6, <2>1, <2>2
<1>7. CASE Reject(c) /\ spc'[c] = "mark" /\ cmd'[c] = cmd[c]
  <2>1. spc[c] = "reject"
    BY <1>7 DEF Reject, Standing
  <2>2. state'[Subject(c)] # "pending"
    BY <1>0, <1>3, <1>7, <2>1 DEF Reject, IsLive
  <2> QED BY <1>3, <1>7, <2>1, <2>2
<1> QED BY <1>1, <1>2, <1>4, <1>5, <1>6, <1>7 DEF Arrives

LEMMA OutboxStep == OutboxInv /\ [Next]_vars => OutboxInv'
<1> SUFFICES ASSUME OutboxInv, [Next]_vars PROVE OutboxInv'
  OBVIOUS
<1>0. TypeInv'
  BY TypesStep DEF OutboxInv
<1>1. CASE Next
  <2>1. HookInv' /\ \A c \in Chain : MarkedBehind(c)'
    BY <1>1, HookSteps, MarkedKept DEF OutboxInv
  <2>2. PendingHasCommand'
    BY <1>1, PendingKept DEF PendingHasCommand, IsCommandOf
  <2>3. ASSUME NEW n \in DOMAIN outbox' PROVE Inserted(n)'
    <3>1. StatesMove /\ CommandsMove /\ TypeInv
      BY <1>1, MoveSteps DEF OutboxInv
    <3>2. CASE n \in DOMAIN outbox
      BY <1>1, <3>1, <3>2, CommandStays DEF OutboxInv, Inserted, StatesMove
    <3>3. CASE n \notin DOMAIN outbox
      BY <3>1, <3>3 DEF CommandsMove, Inserted
    <3> QED BY <3>2, <3>3
  <2> QED BY <1>0, <2>1, <2>2, <2>3 DEF OutboxInv
<1>2. CASE UNCHANGED vars
  <2>1. HookInv'
    BY <1>2, HookFrame DEF OutboxInv, vars, rows
  <2>2. PendingHasCommand'
    BY <1>2 DEF OutboxInv, PendingHasCommand, Pending, vars, rows, table
  <2>3. \A n \in DOMAIN outbox' : Inserted(n)'
    BY <1>2 DEF OutboxInv, Inserted, vars, rows, table
  <2>4. \A c \in Chain : MarkedBehind(c)'
    BY <1>2 DEF OutboxInv, MarkedBehind, IsSubscribe, Subject, vars, rows, table, shards
  <2> QED BY <1>0, <2>1, <2>2, <2>3, <2>4 DEF OutboxInv
<1> QED BY <1>1, <1>2

LEMMA OutboxStart == Init => OutboxInv
<1> SUFFICES ASSUME Init PROVE OutboxInv
  OBVIOUS
<1>1. TypeInv
  BY TypesStart
<1>2. HookInv
  BY DEF Init, HookInv, LiveHasWebhook, Live, IsLive, Status
<1>3. DOMAIN outbox = {} /\ PendingHasCommand /\ \A c \in Chain : MarkedBehind(c)
  BY DEF Init, PendingHasCommand, MarkedBehind
<1> QED BY <1>1, <1>2, <1>3 DEF OutboxInv

\* A subscription that waits has a command that waits, for as long as it does:
\* neither a failure between the two, nor an unanswered chain, nor a command
\* delivered twice or given up by its caller leaves it behind (outbox.ts:100,
\* ScannerShard.ts:748).
THEOREM PendingIsCommanded == Spec => []PendingHasCommand
<1>1. OutboxInv => PendingHasCommand
  BY DEF OutboxInv
<1> QED BY <1>1, OutboxStart, OutboxStep, PTL DEF Spec

-----------------------------------------------------------------------------
(* Active subscriptions.  A shard that is about to activate has found its   *)
(* chain, and has told the registry so, or there was no row then and        *)
(* nothing to activate.  Only the denial of a chain undoes it, and a chain  *)
(* that was found and is denied has been forgotten.                         *)

NothingUnsupported(c) == \A s \in Sub : ChainOf[s] = c => state[s] # "unsupported"

\* The cron keeps the chain awake, or the operator has told it not to.
Kept(c) == registry[c] \in {"active", "paused"}

\* rpc-racer lists the chain, or has listed it.
Known(c) == c \in listed \cup forgotten

FoundBefore(c) == spc[c] \in {"register", "hold", "activate"} => Known(c)

ReadyToActivate(c) ==
    spc[c] = "activate" =>
        \/ Kept(c) \/ c \in forgotten
        \/ ~IsSubscribe(c) /\ NothingUnsupported(c)

ScannedInv ==
    /\ OutboxInv
    /\ \A s \in Sub : state[s] # "none" => registry[ChainOf[s]] # "none"
    /\ \A c \in Chain : FoundBefore(c) /\ ReadyToActivate(c)
    /\ \A s \in Sub : state[s] = "active" => Known(ChainOf[s])
    /\ ActiveIsScanned

\* The registry keeps its rows, a chain that is listed stays awake or paused, and
\* what rpc-racer has known stays known, or forgotten.
RegistryMoves ==
    \A c \in Chain :
        /\ registry[c] # "none" => registry'[c] # "none"
        /\ Kept(c) /\ c \in listed => Kept(c)'
        /\ Known(c) => Known(c)'
        /\ c \in forgotten => c \in forgotten'

LEMMA RegistrySteps ==
    ASSUME TypeInv, Next
    PROVE  RegistryMoves
<1>0. registry \in [Chain -> RegistryStatus]
  BY DEF TypeInv, RowTypes
<1>1. ASSUME UNCHANGED <<registry, racer>> PROVE RegistryMoves
  BY <1>1 DEF RegistryMoves, Kept, Known, racer
<1>7. ASSUME NEW c \in Chain, NEW st \in {"active", "paused"}, SetRegistry(c, st),
             UNCHANGED racer
      PROVE  RegistryMoves
  BY <1>0, <1>7 DEF SetRegistry, RegistryMoves, Kept, Known, racer
<1>2. ASSUME NEW w \in Worker, Ask(w) PROVE RegistryMoves
  BY <1>1, <1>2 DEF Ask, StartCreate, StartDelete, StartDeleteHook, StartRetry,
                    StartOperatorRetry, rows
<1>3. ASSUME NEW w \in Worker, Proceed(w) PROVE RegistryMoves
  <2>1. CASE InsertSubscription(w)
    <3>1. registry' = Registered(ChainOf[goal[w]]) /\ UNCHANGED racer
      BY <2>1 DEF InsertSubscription
    <3> QED BY <1>0, <3>1 DEF Registered, RegistryMoves, Kept, Known, racer
  <2>2. CASE \/ ReadHook(w) \/ ReadChains(w) \/ CountSubs(w) \/ InsertRefused(w)
             \/ \E s \in Sub : Examine(w, s)
             \/ DeleteSubscription(w) \/ DeleteHook(w) \/ ReadCascade(w)
             \/ ReadRetry(w) \/ InsertRetry(w)
    BY <1>1, <2>2 DEF ReadHook, ReadChains, CountSubs, InsertRefused, Examine,
                      DeleteSubscription, DeleteHook, ReadCascade, ReadRetry,
                      InsertRetry, rows
  <2> QED BY <1>3, <2>1, <2>2 DEF Proceed
<1>4. ASSUME NEW c \in Chain, Serve(c) PROVE RegistryMoves
  <2>1. CASE Register(c)
    BY <1>7, <2>1 DEF Register
  <2>2. CASE ResolveUnknown(c)
    BY <1>0, <2>2 DEF ResolveUnknown, SetRegistry, RegistryMoves, Kept, Known, racer
  <2>3. CASE ReadSub(c) \/ Resolve(c) \/ Unresolved(c) \/ Complete(c) \/ Reject(c) \/ Mark(c)
    BY <1>1, <2>3 DEF ReadSub, Resolve, Unresolved, Complete, Reject, Mark, rows
  <2> QED BY <1>4, <2>1, <2>2, <2>3 DEF Serve
<1>5. ASSUME NEW c \in Chain, Beside(c) PROVE RegistryMoves
  <2>1. CASE ListChain(c)
    BY <2>1 DEF ListChain, rows, RegistryMoves, Kept, Known
  <2>2. CASE ForgetChain(c)
    BY <2>2 DEF ForgetChain, rows, RegistryMoves, Kept, Known
  <2>3. CASE PauseOrResume(c) \/ Rescan(c)
    BY <1>7, <2>3 DEF PauseOrResume, Rescan
  <2> QED BY <1>5, <2>1, <2>2, <2>3 DEF Beside
<1>6. CASE \/ StartReconcile
           \/ \E c \in Chain, w \in Caller : Apply(c, w)
           \/ \E w \in Caller : CallerFails(w)
           \/ \E c \in Chain : ShardFails(c)
  BY <1>1, <1>6 DEF StartReconcile, Apply, CallerFails, ShardFails, rows
<1> QED BY <1>2, <1>3, <1>4, <1>5, <1>6 DEF Next

\* The steps after which a subscription is active, unsupported or in the
\* database that was not before.
StatesCome ==
    \A s \in Sub :
        /\ state'[s] # "none" /\ state[s] = "none" => registry'[ChainOf[s]] # "none"
        /\ state'[s] = "active" /\ state[s] # "active" =>
               \E c \in Chain : Complete(c) /\ s \in Activatable(c)
        /\ state'[s] = "unsupported" /\ state[s] # "unsupported" =>
               \E c \in Chain : Reject(c) /\ s = Subject(c)

LEMMA ComeSteps ==
    ASSUME TypeInv, Next
    PROVE  StatesCome
<1>0. /\ state \in [Sub -> Status]
      /\ registry \in [Chain -> RegistryStatus]
  BY DEF TypeInv, ControlInv, RefsInv, ClaimInv, RowTypes
<1>1. ASSUME UNCHANGED state PROVE StatesCome
  BY <1>1 DEF StatesCome
<1>2. ASSUME NEW w \in Worker, Ask(w) PROVE StatesCome
  BY <1>1, <1>2 DEF Ask, StartCreate, StartDelete, StartDeleteHook, StartRetry,
                    StartOperatorRetry, rows
<1>3. ASSUME NEW w \in Worker, Proceed(w) PROVE StatesCome
  <2>1. CASE InsertSubscription(w)
    <3>1. goal[w] \in Sub /\ ChainOf[goal[w]] \in Chain
      BY <2>1, ControlAssumption DEF InsertSubscription, TypeInv, ControlInv, RefsInv, ClaimInv
    <3>2. /\ state' = [state EXCEPT ![goal[w]] = "pending"]
          /\ registry'[ChainOf[goal[w]]] # "none"
      BY <1>0, <2>1, <3>1 DEF InsertSubscription, Registered
    <3> QED BY <1>0, <3>1, <3>2 DEF StatesCome
  <2>2. CASE DeleteSubscription(w) \/ DeleteHook(w)
    <3>1. PICK scope : Unsubscribe(scope)
      BY <2>2 DEF DeleteSubscription, DeleteHook
    <3>2. state' = [s \in Sub |-> IF s \in InScope(scope) THEN "deleting" ELSE state[s]]
      BY <3>1 DEF Unsubscribe
    <3>3. \A s \in InScope(scope) : state[s] # "none"
      BY DEF InScope, Live, IsLive
    <3> QED BY <3>2, <3>3 DEF StatesCome
  <2>3. CASE \/ ReadHook(w) \/ ReadChains(w) \/ CountSubs(w) \/ InsertRefused(w)
             \/ \E s \in Sub : Examine(w, s)
             \/ ReadCascade(w) \/ ReadRetry(w) \/ InsertRetry(w)
    BY <1>1, <2>3 DEF ReadHook, ReadChains, CountSubs, InsertRefused, Examine,
                      ReadCascade, ReadRetry, InsertRetry, rows
  <2> QED BY <1>3, <2>1, <2>2, <2>3 DEF Proceed
<1>4. ASSUME NEW c \in Chain, Serve(c) PROVE StatesCome
  <2>1. CASE Complete(c)
    <3>1. state' = [s \in Sub |-> IF s \in Activatable(c) THEN "active" ELSE state[s]]
      BY <2>1 DEF Complete
    <3>2. \A s \in Activatable(c) : state[s] # "none"
      BY DEF Activatable
    <3> QED BY <2>1, <3>1, <3>2 DEF StatesCome
  <2>2. CASE Reject(c)
    BY <1>0, <2>2 DEF Reject, IsLive, StatesCome
  <2>3. CASE \/ ReadSub(c) \/ Resolve(c) \/ Register(c) \/ ResolveUnknown(c)
             \/ Unresolved(c) \/ Mark(c)
    BY <1>1, <2>3 DEF ReadSub, Resolve, Register, ResolveUnknown, Unresolved, Mark, rows
  <2> QED BY <1>4, <2>1, <2>2, <2>3 DEF Serve
<1>5. CASE \/ StartReconcile
           \/ \E c \in Chain, w \in Caller : Apply(c, w)
           \/ \E w \in Caller : CallerFails(w)
           \/ \E c \in Chain : ShardFails(c) \/ Beside(c)
  BY <1>1, <1>5, BesideFrame DEF StartReconcile, Apply, CallerFails, ShardFails, rows
<1> QED BY <1>2, <1>3, <1>4, <1>5 DEF Next

\* The command of a shard that is at work.
LEMMA AtWork ==
    ASSUME OutboxInv, NEW c \in Chain, spc[c] # "idle"
    PROVE  /\ cmd[c] \in DOMAIN outbox
           /\ IsSubscribe(c) => /\ Subject(c) \in Sub /\ ChainOf[Subject(c)] = c
                                /\ state[Subject(c)] # "none"
           /\ spc[c] = "reject" => IsSubscribe(c)
<1>1. MayStand(c, spc[c], cmd[c])
  BY DEF OutboxInv, TypeInv, ControlInv, CommandInv
<1>2. cmd[c] \in DOMAIN outbox /\ outbox[cmd[c]].chain = c
  BY <1>1 DEF MayStand
<1>3. WellAddressed(outbox[cmd[c]]) /\ Inserted(cmd[c])
  BY <1>2 DEF OutboxInv, TypeInv, ControlInv, CommandInv
<1> QED BY <1>1, <1>2, <1>3 DEF WellAddressed, Inserted, IsSubscribe, Subject, MayStand

LEMMA ReadyKept ==
    ASSUME ScannedInv, Next, NEW c \in Chain
    PROVE  ReadyToActivate(c)'
<1>0. TypeInv /\ OutboxInv /\ RegistryMoves /\ StatesCome
  BY RegistrySteps, ComeSteps DEF ScannedInv, OutboxInv
<1>1. SUFFICES ASSUME spc'[c] = "activate"
               PROVE  \/ Kept(c)' \/ c \in forgotten'
                      \/ (~IsSubscribe(c) /\ NothingUnsupported(c))'
  BY DEF ReadyToActivate
<1>2. Arrives(c)
  BY <1>0, <1>1, ArriveSteps DEF Ahead
<1>3. ASSUME spc[c] # "idle", cmd'[c] = cmd[c] PROVE IsSubscribe(c)' <=> IsSubscribe(c)
  BY <1>0, <1>3, AtWork, CommandStays DEF IsSubscribe
<1>4. CASE spc'[c] = spc[c] /\ cmd'[c] = cmd[c]
  <2>0. Known(c)
    BY <1>1, <1>4 DEF ScannedInv, FoundBefore
  <2>1. CASE Kept(c) \/ c \in forgotten
    BY <1>0, <2>0, <2>1 DEF RegistryMoves, Known
  <2>2. CASE ~IsSubscribe(c) /\ NothingUnsupported(c)
    <3>1. ASSUME NEW s \in Sub, ChainOf[s] = c, state'[s] = "unsupported" PROVE FALSE
      <4>1. PICK d \in Chain : Reject(d) /\ s = Subject(d)
        BY <1>0, <2>2, <3>1 DEF NothingUnsupported, StatesCome
      <4>2. spc[d] = "reject"
        BY <4>1 DEF Reject, Standing
      <4>3. d = c
        BY <1>0, <3>1, <4>1, <4>2, AtWork
      <4> QED BY <1>1, <1>4, <4>2, <4>3
    <3>2. NothingUnsupported(c)'
      BY <3>1 DEF NothingUnsupported
    <3> QED BY <1>1, <1>3, <1>4, <2>2, <3>2
  <2> QED BY <1>1, <1>4, <2>1, <2>2 DEF ScannedInv, ReadyToActivate
<1>5. CASE Register(c) /\ cmd'[c] = cmd[c]
  <2>1. PICK st \in {"active", "paused"} :
            registry' = [registry EXCEPT ![c] = IF @ = "none" THEN @ ELSE st]
    BY <1>5 DEF Register, SetRegistry
  <2>2. spc[c] # "idle" /\ state' = state
    BY <1>5 DEF Register, Standing
  <2>3. CASE registry[c] # "none"
    BY <1>0, <2>1, <2>3 DEF TypeInv, RowTypes, Kept
  <2>4. CASE registry[c] = "none"
    <3>1. \A s \in Sub : ChainOf[s] = c => state[s] = "none"
      BY <2>4 DEF ScannedInv
    <3>2. ~IsSubscribe(c)
      BY <1>0, <2>2, <3>1, AtWork
    <3>3. NothingUnsupported(c)'
      BY <2>2, <3>1 DEF NothingUnsupported
    <3> QED BY <1>3, <1>5, <2>2, <3>2, <3>3
  <2> QED BY <2>3, <2>4
<1> QED BY <1>1, <1>2, <1>4, <1>5 DEF Arrives

LEMMA FoundKept ==
    ASSUME ScannedInv, Next, NEW c \in Chain
    PROVE  FoundBefore(c)'
<1>0. TypeInv /\ RegistryMoves
  BY RegistrySteps DEF ScannedInv, OutboxInv
<1>1. SUFFICES ASSUME spc'[c] \in {"register", "hold", "activate"} PROVE Known(c)
  BY <1>0 DEF FoundBefore, RegistryMoves
<1>2. Arrives(c)
  BY <1>0, <1>1, ArriveSteps DEF Ahead
<1>3. CASE spc'[c] = spc[c] \/ Register(c)
  BY <1>1, <1>3 DEF Register, Standing, ScannedInv, FoundBefore
<1>4. CASE Resolve(c)
  BY <1>4 DEF Resolve, Known
<1> QED BY <1>1, <1>2, <1>3, <1>4 DEF Arrives

LEMMA ScannedStep == ScannedInv /\ [Next]_vars => ScannedInv'
<1> SUFFICES ASSUME ScannedInv, [Next]_vars PROVE ScannedInv'
  OBVIOUS
<1>0. OutboxInv'
  BY OutboxStep DEF ScannedInv
<1>1. CASE Next
  <2>0. TypeInv /\ RegistryMoves /\ StatesCome
    BY <1>1, RegistrySteps, ComeSteps DEF ScannedInv, OutboxInv
  <2>1. \A s \in Sub : state'[s] # "none" => registry'[ChainOf[s]] # "none"
    <3>1. \A s \in Sub : ChainOf[s] \in Chain
      BY ControlAssumption
    <3> QED BY <2>0, <3>1 DEF ScannedInv, RegistryMoves, StatesCome
  <2>3. \A c \in Chain : FoundBefore(c)' /\ ReadyToActivate(c)'
    BY <1>1, FoundKept, ReadyKept
  <2>4. ASSUME NEW s \in Sub, state'[s] = "active"
        PROVE  /\ Known(ChainOf[s])'
               /\ Kept(ChainOf[s])' \/ ChainOf[s] \in forgotten'
    <3>0. ChainOf[s] \in Chain
      BY ControlAssumption
    <3>1. SUFFICES Known(ChainOf[s]) /\ (Kept(ChainOf[s]) \/ ChainOf[s] \in forgotten)
      BY <2>0, <3>0 DEF RegistryMoves, Known
    <3>2. CASE state[s] = "active"
      BY <3>2 DEF ScannedInv, ActiveIsScanned, Kept
    <3>3. CASE state[s] # "active"
      <4>1. PICK c \in Chain : Complete(c) /\ s \in Activatable(c)
        BY <2>0, <2>4, <3>3 DEF StatesCome
      <4>2. spc[c] = "activate" /\ ReadyToActivate(c) /\ Known(c)
        BY <4>1 DEF Complete, Standing, ScannedInv, FoundBefore
      <4>3. ChainOf[s] = c
        BY <4>1, <4>2, AtWork DEF Activatable, ScannedInv
      <4>4. ~IsSubscribe(c) => state[s] = "unsupported"
        BY <4>1 DEF Activatable
      <4> QED BY <4>2, <4>3, <4>4 DEF ReadyToActivate, NothingUnsupported
    <3> QED BY <3>2, <3>3
  <2> QED BY <1>0, <2>1, <2>3, <2>4 DEF ScannedInv, ActiveIsScanned, Kept
<1>2. CASE UNCHANGED vars
  BY <1>0, <1>2 DEF ScannedInv, ReadyToActivate, FoundBefore, Kept, Known,
                    NothingUnsupported, IsSubscribe, ActiveIsScanned, vars, rows, table,
                    racer, shards
<1> QED BY <1>1, <1>2

LEMMA ScannedStart == Init => ScannedInv
<1> SUFFICES ASSUME Init PROVE ScannedInv
  OBVIOUS
<1>1. OutboxInv
  BY OutboxStart
<1>2. \A s \in Sub : state[s] = "none"
  BY DEF Init
<1>3. \A c \in Chain : registry[c] = "none" /\ spc[c] = "idle"
  BY DEF Init
<1> QED BY <1>1, <1>2, <1>3 DEF ScannedInv, ReadyToActivate, FoundBefore, ActiveIsScanned

\* Every active subscription is on a chain whose row is active, so that the cron
\* wakes its shard, or that the operator has paused, or that rpc-racer has denied
\* after listing it: also when the row did not exist yet while the shard asked for
\* the chain, and whichever command, pass or request changes the row after it,
\* between the shard's read of it and its write too (index.ts:26,
\* ScannerShard.ts:727 and 748).
THEOREM ActiveChainsScanned == Spec => []ActiveIsScanned
<1>1. ScannedInv => ActiveIsScanned
  BY DEF ScannedInv
<1> QED BY <1>1, ScannedStart, ScannedStep, PTL DEF Spec

-----------------------------------------------------------------------------
(***************************************************************************)
(* How far the quota of subscriptions can be exceeded, for any number of   *)
(* requests at a time and any quota.  A request that has counted the live  *)
(* subscriptions may still insert as many as it found free: these are its  *)
(* reservations.  The live subscriptions and the reservations together     *)
(* never exceed one quota per worker, since a request that counts has no   *)
(* reservation yet, and what it then reserves is what the live ones leave  *)
(* of one quota.                                                           *)
(***************************************************************************)

\* The request may still insert subscriptions.
MayInsert(w) ==
    \/ wpc[w] = "commit"
    \/ wpc[w] \in {"next", "wait"} /\ todo[w] # {}

Reserved(w) == IF MayInsert(w) THEN (used[w] + 1)..Quota ELSE {}

Reservations == {x \in Worker \X (1..Quota) : x[2] \in Reserved(x[1])}

Budget == Cardinality(Live) + Cardinality(Reservations) <= Quota * Cardinality(Worker)

\* A request that creates nothing has nothing to create, and one that is about
\* to insert has found room.
Fits(w) ==
    /\ wpc[w] \in {"idle", "unsubscribe", "unhook", "page", "retry", "insert"} => todo[w] = {}
    /\ wpc[w] = "commit" => used[w] < Quota

\* A shard answers a caller that waits for it, and for no other shard.
Attended(c) ==
    client[c] # Nobody =>
        /\ wpc[client[c]] = "wait"
        /\ \A d \in Chain : client[d] = client[c] => d = c

QuotaInv ==
    /\ TypeInv
    /\ \A w \in Worker : Fits(w)
    /\ \A c \in Chain : Attended(c)
    /\ Budget

-----------------------------------------------------------------------------
(* Shards and the callers they answer.                                     *)

LEMMA StillAttended ==
    ASSUME QuotaInv, TypeInv',
           \A c \in Chain : client'[c] # Nobody =>
               client'[c] = client[c] /\ wpc'[client[c]] = wpc[client[c]]
    PROVE  \A c \in Chain : Attended(c)'
  BY DEF QuotaInv, TypeInv, ShardTypes, Attended

\* One caller goes somewhere; it is no longer the caller of a shard.
OnlyMoves(w) == \A v \in Caller : v # w => wpc'[v] = wpc[v]

LEMMA OnlyEnds ==
    ASSUME QuotaInv, NEW w, NEW T, Ends(w) \/ GoesOn(w, T)
    PROVE  OnlyMoves(w)
  BY DEF Ends, GoesOn, Goto, OnlyMoves, QuotaInv, TypeInv, ControlInv, RefsInv, ClaimInv,
         CallerTypes

LEMMA OnlyAnswered ==
    ASSUME QuotaInv, NEW w, NEW n, Answered(w, n)
    PROVE  OnlyMoves(w)
  BY OnlyEnds DEF Answered, OnlyMoves

LEMMA OnlyGoes ==
    ASSUME QuotaInv, NEW w, NEW p, Goto(w, p)
    PROVE  OnlyMoves(w)
  BY DEF Goto, OnlyMoves, QuotaInv, TypeInv, ControlInv, RefsInv, ClaimInv, CallerTypes

\* A caller that does not wait moves.
LEMMA MoverAttended ==
    ASSUME QuotaInv, TypeInv', NEW w \in Caller, OnlyMoves(w), UNCHANGED client,
           \A c \in Chain : client[c] # w
    PROVE  \A c \in Chain : Attended(c)'
<1>1. \A c \in Chain : client[c] # Nobody => client[c] \in Caller
  BY DEF QuotaInv, TypeInv, ShardTypes
<1> QED BY <1>1, StillAttended DEF OnlyMoves

\* A shard is free again, and its caller has its answer or has ended.
LEMMA FinishAttended ==
    ASSUME QuotaInv, TypeInv', NEW c \in Chain, Finish(c),
           client[c] = Nobody => UNCHANGED callers,
           client[c] # Nobody => OnlyMoves(client[c])
    PROVE  \A d \in Chain : Attended(d)'
<1>1. ASSUME NEW d \in Chain, client'[d] # Nobody
      PROVE  client'[d] = client[d] /\ wpc'[client[d]] = wpc[client[d]]
  <2>1. d # c /\ client'[d] = client[d]
    BY <1>1 DEF Finish, QuotaInv, TypeInv, ShardTypes
  <2>2. client[d] \in Caller /\ client[d] # client[c]
    BY <1>1, <2>1 DEF QuotaInv, TypeInv, ShardTypes, Attended
  <2> QED BY <2>1, <2>2 DEF OnlyMoves, callers
<1> QED BY <1>1, StillAttended

LEMMA AttendedSteps ==
    ASSUME QuotaInv, TypeInv', Next
    PROVE  \A c \in Chain : Attended(c)'
<1> DEFINE Goal == \A c \in Chain : Attended(c)'
<1>1. ASSUME UNCHANGED <<client, wpc>> PROVE Goal
  BY <1>1 DEF QuotaInv, Attended
<1>2. ASSUME NEW w \in Worker, Ask(w) \/ Proceed(w) PROVE Goal
  <2>1. w \in Caller /\ ~At(w, "wait") /\ UNCHANGED client
    BY <1>2 DEF Caller, At, Ask, StartCreate, StartDelete, StartDeleteHook, StartRetry,
                StartOperatorRetry, Request, Proceed, ReadHook, ReadChains, CountSubs,
                Examine, InsertSubscription, InsertRefused, DeleteSubscription,
                DeleteHook, ReadCascade, ReadRetry, InsertRetry, shards
  <2>2. OnlyMoves(w)
    <3>1. CASE Ask(w)
      BY <3>1, OnlyGoes DEF Ask, StartCreate, StartDelete, StartDeleteHook, StartRetry,
                            StartOperatorRetry, Request
    <3>2. CASE Proceed(w)
      BY <3>2, OnlyGoes, OnlyEnds
         DEF Proceed, ReadHook, ReadChains, CountSubs, Examine, InsertSubscription,
             InsertRefused, DeleteSubscription, DeleteHook, ReadCascade, ReadRetry,
             InsertRetry
    <3> QED BY <1>2, <3>1, <3>2
  <2>3. w # Nobody
    BY <2>1, ControlAssumption DEF Caller
  <2>4. \A c \in Chain : client[c] # w
    BY <2>1, <2>3 DEF QuotaInv, Attended, At
  <2> QED BY <2>1, <2>2, <2>4, MoverAttended
<1>3. CASE StartReconcile
  <2>1. Cron \in Caller /\ Cron # Nobody
    BY ControlAssumption DEF Caller
  <2>2. wpc[Cron] = "idle" /\ OnlyMoves(Cron) /\ UNCHANGED client
    BY <1>3, OnlyGoes DEF StartReconcile, At, shards
  <2>3. \A c \in Chain : client[c] # Cron
    BY <2>1, <2>2 DEF QuotaInv, Attended
  <2> QED BY <2>1, <2>2, <2>3, MoverAttended
<1>4. ASSUME NEW c \in Chain, NEW w \in Caller, Apply(c, w) PROVE Goal
  <2>1. wpc[w] = "wait" /\ \A d \in Chain : client[d] # w
    BY <1>4 DEF Apply, Dispatches, At
  <2>2. ASSUME NEW n, Answered(w, n), UNCHANGED shards PROVE Goal
    BY <2>1, <2>2, OnlyAnswered, MoverAttended DEF shards
  <2>3. CASE client' = [client EXCEPT ![c] = w] /\ UNCHANGED callers
    BY <2>1, <2>3 DEF QuotaInv, TypeInv, ShardTypes, Attended, callers
  <2> QED BY <1>4, <2>2, <2>3 DEF Apply
<1>5. ASSUME NEW c \in Chain, Serve(c) PROVE Goal
  <2>1. CASE ReadSub(c) \/ Resolve(c) \/ Register(c) \/ ResolveUnknown(c) \/ Reject(c)
    BY <1>1, <2>1 DEF ReadSub, Resolve, Register, ResolveUnknown, Reject, Step, callers
  <2>2. CASE Unresolved(c) \/ Complete(c) \/ Mark(c)
    <3>1. Replies(c)
      BY <2>2 DEF Unresolved, Complete, Mark
    <3> QED BY <3>1, OnlyAnswered, FinishAttended DEF Replies
  <2> QED BY <1>5, <2>1, <2>2 DEF Serve
<1>6. ASSUME NEW w \in Caller, CallerFails(w) PROVE Goal
  <2>1. OnlyMoves(w) /\ client' = [c \in Chain |-> IF client[c] = w THEN Nobody ELSE client[c]]
    BY <1>6, OnlyEnds DEF CallerFails, Forgotten
  <2>2. \A c \in Chain : client[c] # Nobody => client[c] \in Caller
    BY DEF QuotaInv, TypeInv, ShardTypes
  <2> QED BY <2>1, <2>2, StillAttended DEF OnlyMoves
<1>7. ASSUME NEW c \in Chain, ShardFails(c) PROVE Goal
  BY <1>7, OnlyEnds, FinishAttended DEF ShardFails
<1>8. ASSUME NEW c \in Chain, Beside(c) PROVE Goal
  BY <1>1, <1>8, BesideFrame DEF shards, callers
<1> QED BY <1>2, <1>3, <1>4, <1>5, <1>6, <1>7, <1>8 DEF Next

-----------------------------------------------------------------------------
(* Reservations.  Only a count makes new ones.                             *)

Settled == \A v \in Worker : Fits(v)' /\ Reserved(v)' \subseteq Reserved(v)

LEMMA RestSettled ==
    ASSUME QuotaInv, UNCHANGED callers
    PROVE  Settled
  BY DEF QuotaInv, Settled, Fits, Reserved, MayInsert, callers

\* A request without anything to insert, or with the same count and no more to
\* insert than before.
LEMMA MoveSettled ==
    ASSUME QuotaInv, TypeInv', NEW w \in Caller, OnlyMoves(w),
           \A v \in Worker \ {w} : todo'[v] = todo[v] /\ used'[v] = used[v],
           w \in Worker => /\ Fits(w)'
                           /\ MayInsert(w)' => MayInsert(w) /\ used'[w] = used[w]
    PROVE  Settled
<1>1. ASSUME NEW v \in Worker, v # w PROVE Fits(v)' /\ Reserved(v)' = Reserved(v)
  <2>1. wpc'[v] = wpc[v] /\ todo'[v] = todo[v] /\ used'[v] = used[v]
    BY <1>1 DEF OnlyMoves, Caller
  <2> QED BY <2>1 DEF QuotaInv, Fits, Reserved, MayInsert
<1>2. ASSUME w \in Worker PROVE Fits(w)' /\ Reserved(w)' \subseteq Reserved(w)
  BY <1>2 DEF Reserved
<1> QED BY <1>1, <1>2 DEF Settled

LEMMA EndsSettled ==
    ASSUME QuotaInv, TypeInv', NEW w \in Caller, Ends(w)
    PROVE  Settled
<1>1. wpc'[w] = "idle" /\ todo'[w] = {}
  BY DEF Ends, Goto, QuotaInv, TypeInv, ControlInv, RefsInv, ClaimInv, CallerTypes
<1>2. \A v \in Worker \ {w} : todo'[v] = todo[v] /\ used'[v] = used[v]
  BY DEF Ends, QuotaInv, TypeInv, ControlInv, RefsInv, ClaimInv, CallerTypes, CallerData,
         Caller
<1> QED BY <1>1, <1>2, OnlyEnds, MoveSettled DEF Fits, MayInsert

LEMMA GoesOnSettled ==
    ASSUME QuotaInv, TypeInv', NEW w \in Caller, NEW T \in SUBSET todo[w], GoesOn(w, T),
           wpc[w] \in {"next", "commit", "wait"}
    PROVE  Settled
<1>1. CASE T = {}
  BY <1>1, EndsSettled DEF GoesOn
<1>2. CASE T # {}
  <2>1. wpc'[w] = "next" /\ todo'[w] = T /\ used' = used
    BY <1>2 DEF GoesOn, Goto, QuotaInv, TypeInv, ControlInv, RefsInv, ClaimInv, CallerTypes
  <2>2. \A v \in Worker \ {w} : todo'[v] = todo[v]
    BY <1>2 DEF GoesOn, QuotaInv, TypeInv, ControlInv, RefsInv, ClaimInv, CallerTypes, Caller
  <2> QED BY <2>1, <2>2, OnlyEnds, MoveSettled DEF Fits, MayInsert
<1> QED BY <1>1, <1>2

LEMMA AnsweredSettled ==
    ASSUME QuotaInv, TypeInv', NEW w \in Caller, NEW n, Answered(w, n), wpc[w] = "wait"
    PROVE  Settled
<1>1. CASE queue[w] = {n}
  BY <1>1, GoesOnSettled DEF Answered
<1>2. CASE queue[w] # {n}
  BY <1>2 DEF Answered, QuotaInv, Settled, Fits, Reserved, MayInsert
<1> QED BY <1>1, <1>2

LEMMA RepliesSettled ==
    ASSUME QuotaInv, TypeInv', NEW c \in Chain, Replies(c)
    PROVE  Settled
<1>1. CASE client[c] = Nobody
  BY <1>1, RestSettled DEF Replies
<1>2. CASE client[c] # Nobody
  <2>1. client[c] \in Caller /\ wpc[client[c]] = "wait"
    BY <1>2 DEF QuotaInv, TypeInv, ShardTypes, Attended
  <2> QED BY <1>2, <2>1, AnsweredSettled DEF Replies
<1> QED BY <1>1, <1>2

\* A caller that goes somewhere with the ids and the count it has.
LEMMA GoesSettled ==
    ASSUME QuotaInv, TypeInv', NEW w \in Caller, NEW p, Goto(w, p), UNCHANGED <<todo, used>>,
           p \in {"hook", "chains", "count", "wait", "unhook", "page", "insert"},
           w \in Worker /\ p \notin {"hook", "chains", "count"} => todo[w] = {}
    PROVE  Settled
<1>1. wpc'[w] = p
  BY DEF Goto, QuotaInv, TypeInv, ControlInv, RefsInv, ClaimInv, CallerTypes
<1> QED BY <1>1, OnlyGoes, MoveSettled DEF Fits, MayInsert

LEMMA AsksSettled ==
    ASSUME QuotaInv, TypeInv', NEW w \in Worker, Ask(w)
    PROVE  Settled
<1>0. w \in Caller /\ wpc[w] = "idle" /\ todo[w] = {} /\ UNCHANGED used
  BY DEF Caller, Ask, StartCreate, StartDelete, StartDeleteHook, StartRetry,
         StartOperatorRetry, Request, At, QuotaInv, Fits
<1>1. ASSUME NEW S \in SUBSET Sub, StartCreate(w, S) PROVE Settled
  <2>1. wpc'[w] = "hook" /\ OnlyMoves(w)
    BY <1>0, <1>1, OnlyGoes DEF StartCreate, Request, Goto, QuotaInv, TypeInv, ControlInv,
                      RefsInv, ClaimInv, CallerTypes
  <2>2. \A v \in Worker \ {w} : todo'[v] = todo[v]
    BY <1>1 DEF StartCreate, QuotaInv, TypeInv, ControlInv, RefsInv, ClaimInv,
                CallerTypes, Caller
  <2> QED BY <1>0, <2>1, <2>2, MoveSettled DEF Fits, MayInsert
<1>2. ASSUME NEW p \in {"unsubscribe", "unhook", "retry", "insert"}, Goto(w, p),
             UNCHANGED todo
      PROVE  Settled
  <2>1. wpc'[w] = p
    BY <1>0, <1>2 DEF Goto, QuotaInv, TypeInv, ControlInv, RefsInv, ClaimInv, CallerTypes
  <2> QED BY <1>0, <1>2, <2>1, OnlyGoes, MoveSettled DEF Fits, MayInsert
<1> QED BY <1>1, <1>2 DEF Ask, StartDelete, StartDeleteHook, StartRetry,
                          StartOperatorRetry, Request

\* A request takes an id for which there is room.
LEMMA ExamineSettled ==
    ASSUME QuotaInv, TypeInv', NEW w \in Worker, NEW s \in Sub, Examine(w, s)
    PROVE  Settled
<1>0. w \in Caller /\ wpc[w] = "next" /\ s \in todo[w]
  BY DEF Caller, Examine, At
<1>1. CASE GoesOn(w, todo[w] \ {s})
  BY <1>0, <1>1, GoesOnSettled
<1>2. CASE /\ HasQuota(w, s)
           /\ todo' = [todo EXCEPT ![w] = @ \ {s}]
           /\ Goto(w, "commit")
           /\ UNCHANGED used
  <2>1. wpc'[w] = "commit" /\ used[w] < Quota
    BY <1>0, <1>2 DEF HasQuota, Goto, QuotaInv, TypeInv, ControlInv, RefsInv, ClaimInv,
                      CallerTypes
  <2>2. \A v \in Worker \ {w} : todo'[v] = todo[v]
    BY <1>2 DEF QuotaInv, TypeInv, ControlInv, RefsInv, ClaimInv, CallerTypes, Caller
  <2> QED BY <1>0, <1>2, <2>1, <2>2, OnlyGoes, MoveSettled DEF Fits, MayInsert
<1> QED BY <1>1, <1>2 DEF Examine

\* Every other step of a request.
LEMMA ProceedsSettled ==
    ASSUME QuotaInv, TypeInv', NEW w \in Worker, Proceed(w)
    PROVE  Settled \/ CountSubs(w) \/ InsertSubscription(w)
<1>0. w \in Caller /\ Fits(w)
  BY DEF Caller, QuotaInv
<1>1. CASE ReadHook(w) \/ ReadChains(w)
  BY <1>0, <1>1, EndsSettled, GoesSettled DEF ReadHook, ReadChains
<1>2. ASSUME NEW s \in Sub, Examine(w, s) PROVE Settled
  BY <1>2, ExamineSettled
<1>3. CASE InsertRefused(w)
  BY <1>0, <1>3, EndsSettled, GoesOnSettled DEF InsertRefused, At
<1>4. CASE DeleteSubscription(w) \/ DeleteHook(w) \/ ReadCascade(w) \/ ReadRetry(w)
           \/ InsertRetry(w)
  <2>1. todo[w] = {}
    BY <1>0, <1>4 DEF DeleteSubscription, DeleteHook, ReadCascade, ReadRetry, InsertRetry,
                      At, Fits
  <2> QED BY <1>0, <1>4, <2>1, EndsSettled, GoesSettled
          DEF DeleteSubscription, DeleteHook, ReadCascade, ReadRetry, InsertRetry
<1> QED BY <1>1, <1>2, <1>3, <1>4 DEF Proceed

LEMMA ReservationSteps ==
    ASSUME QuotaInv, TypeInv', Next
    PROVE  Settled \/ \E w \in Worker : CountSubs(w) \/ InsertSubscription(w)
<1>1. ASSUME NEW w \in Worker, Ask(w) PROVE Settled
  BY <1>1, AsksSettled
<1>2. CASE StartReconcile
  BY <1>2, GoesSettled, ControlAssumption DEF StartReconcile, Caller
<1>3. ASSUME NEW c \in Chain, NEW w \in Caller, Apply(c, w) PROVE Settled
  BY <1>3, RestSettled, AnsweredSettled DEF Apply, Dispatches, At
<1>4. ASSUME NEW c \in Chain, Serve(c) PROVE Settled
  BY <1>4, RestSettled, RepliesSettled
     DEF Serve, ReadSub, Resolve, Register, ResolveUnknown, Unresolved, Complete, Reject, Mark
<1>5. ASSUME NEW w \in Caller, CallerFails(w) PROVE Settled
  BY <1>5, EndsSettled DEF CallerFails
<1>6. ASSUME NEW c \in Chain, ShardFails(c) PROVE Settled
  BY <1>6, RestSettled, EndsSettled DEF ShardFails, QuotaInv, TypeInv, ShardTypes
<1>7. ASSUME NEW c \in Chain, Beside(c) PROVE Settled
  BY <1>7, RestSettled, BesideFrame
<1> QED BY <1>1, <1>2, <1>3, <1>4, <1>5, <1>6, <1>7, ProceedsSettled DEF Next

-----------------------------------------------------------------------------
(* The budget.                                                             *)

LEMMA QuotaNat == Quota \in Nat /\ IsFiniteSet(Worker) /\ Cardinality(Worker) \in Nat
  BY ControlAssumption, FS_CardinalityType

LEMMA LiveFinite ==
    ASSUME NEW S \in SUBSET Sub
    PROVE  IsFiniteSet(S) /\ Cardinality(S) \in Nat
  BY ControlAssumption, FS_Subset, FS_CardinalityType

\* The reservations of some workers are no more than a quota for each.
LEMMA ReservationsOf ==
    ASSUME NEW W \in SUBSET Worker, NEW R \in SUBSET (W \X (1..Quota))
    PROVE  /\ IsFiniteSet(R) /\ Cardinality(R) \in Nat
           /\ Cardinality(R) <= Quota * Cardinality(W)
<1>1. IsFiniteSet(W) /\ Cardinality(W) \in Nat
  BY QuotaNat, FS_Subset, FS_CardinalityType
<1>2. IsFiniteSet(1..Quota) /\ Cardinality(1..Quota) = Quota
  BY QuotaNat, FS_Interval
<1>3. /\ IsFiniteSet(W \X (1..Quota))
      /\ Cardinality(W \X (1..Quota)) = Cardinality(W) * Quota
  BY <1>1, <1>2, FS_Product
<1>4. IsFiniteSet(R) /\ Cardinality(R) <= Cardinality(W \X (1..Quota))
  BY <1>3, FS_Subset
<1>5. Cardinality(W) * Quota = Quota * Cardinality(W)
  BY <1>1, QuotaNat
<1>6. Cardinality(R) \in Nat
  BY <1>4, FS_CardinalityType
<1> QED BY <1>3, <1>4, <1>5, <1>6

LEMMA ReservationsFinite ==
    /\ IsFiniteSet(Reservations) /\ Cardinality(Reservations) \in Nat
    /\ Cardinality(Reservations) <= Quota * Cardinality(Worker)
<1>1. Reservations \in SUBSET (Worker \X (1..Quota)) /\ Worker \in SUBSET Worker
  BY DEF Reservations
<1> QED BY <1>1, ReservationsOf

\* With no more live subscriptions and no more reservations.
LEMMA BudgetShrinks ==
    ASSUME QuotaInv, Live' \subseteq Live, \A v \in Worker : Reserved(v)' \subseteq Reserved(v)
    PROVE  Budget'
<1>1. Reservations' \subseteq Reservations
  BY DEF Reservations
<1>2. IsFiniteSet(Live) /\ Live' \in SUBSET Sub /\ Live \in SUBSET Sub
  BY LiveFinite DEF Live
<1>3. Cardinality(Live') <= Cardinality(Live)
  BY <1>2, FS_Subset
<1>4. Cardinality(Reservations') <= Cardinality(Reservations)
  BY <1>1, ReservationsFinite, FS_Subset
<1>5. Cardinality(Reservations') \in Nat
  BY <1>1, ReservationsFinite, FS_Subset, FS_CardinalityType
<1>6. Cardinality(Live) \in Nat /\ Cardinality(Live') \in Nat
  BY <1>2, LiveFinite
<1>7. Quota * Cardinality(Worker) \in Nat
  BY QuotaNat
<1> QED BY <1>3, <1>4, <1>5, <1>6, <1>7, ReservationsFinite DEF QuotaInv, Budget

\* A count reserves what the live subscriptions leave of one quota; the others
\* have reserved at most a quota each.
LEMMA CountBudget ==
    ASSUME QuotaInv, TypeInv', NEW w \in Worker, CountSubs(w)
    PROVE  Budget' /\ \A v \in Worker : Fits(v)'
<1> DEFINE n == Cardinality(Live)
           Others == {x \in Reservations : x[1] # w}
           Mine == {w} \X ((n + 1)..Quota)
<1>0. w \in Caller /\ n \in Nat
  BY LiveFinite DEF Caller, Live
<1>1. /\ wpc[w] = "count" /\ wpc'[w] = "next" /\ todo' = todo /\ state' = state
      /\ used'[w] = n
      /\ \A v \in Worker \ {w} : wpc'[v] = wpc[v] /\ used'[v] = used[v]
  BY <1>0 DEF CountSubs, At, Goto, Caller, rows, QuotaInv, TypeInv, ControlInv, RefsInv,
              ClaimInv, CallerTypes, CallerData
<1>2. Live' = Live
  BY <1>1 DEF Live
<1>3. /\ \A v \in Worker \ {w} : Fits(v)' /\ Reserved(v)' = Reserved(v)
      /\ Fits(w)' /\ Reserved(w)' \subseteq (n + 1)..Quota
  BY <1>1 DEF QuotaInv, Fits, Reserved, MayInsert
<1>4. Reservations' \subseteq Others \cup Mine
  BY <1>3 DEF Reservations
<1>5. /\ IsFiniteSet(Others) /\ Cardinality(Others) \in Nat
      /\ Cardinality(Others) <= Quota * (Cardinality(Worker) - 1)
  <2>1. Worker \ {w} \in SUBSET Worker /\ Others \in SUBSET ((Worker \ {w}) \X (1..Quota))
    BY DEF Reservations
  <2>2. Cardinality(Worker \ {w}) = Cardinality(Worker) - 1
    BY QuotaNat, FS_RemoveElement
  <2> QED BY <2>1, <2>2, ReservationsOf
<1>6. CASE n >= Quota
  <2>1. Mine = {}
    BY <1>0, <1>6, QuotaNat
  <2>2. \A v \in Worker : Reserved(v)' \subseteq Reserved(v)
    BY <1>0, <1>3, <1>6, QuotaNat
  <2> QED BY <1>2, <1>3, <2>2, BudgetShrinks
<1>7. CASE n < Quota
  <2>1. IsFiniteSet((n + 1)..Quota) /\ Cardinality((n + 1)..Quota) = Quota - n
    <3>1. n + 1 \in Int /\ Quota \in Int /\ ~(n + 1 > Quota) /\ Quota - (n + 1) + 1 = Quota - n
      BY <1>0, <1>7, QuotaNat
    <3> HIDE DEF n
    <3> QED BY <3>1, FS_Interval
  <2>2. IsFiniteSet({w}) /\ Cardinality({w}) = 1
    BY FS_Singleton
  <2>3. IsFiniteSet(Mine) /\ Cardinality(Mine) = Quota - n
    <3>1. IsFiniteSet(Mine) /\ Cardinality(Mine) = 1 * (Quota - n)
      BY <2>1, <2>2, FS_Product
    <3> QED BY <1>0, <3>1, QuotaNat
  <2>4. Others \cap Mine = {}
    OBVIOUS
  <2>5. /\ IsFiniteSet(Others \cup Mine)
        /\ Cardinality(Others \cup Mine) = Cardinality(Others) + (Quota - n)
    <3>1. Cardinality(Others \cap Mine) = 0
      BY <2>4, FS_EmptySet
    <3>2. /\ IsFiniteSet(Others \cup Mine)
          /\ Cardinality(Others \cup Mine) =
                 Cardinality(Others) + Cardinality(Mine) - Cardinality(Others \cap Mine)
      BY <1>5, <2>3, FS_Union
    <3> HIDE DEF Others, Mine, n
    <3> QED BY <1>0, <1>5, <2>3, <3>1, <3>2, QuotaNat
  <2>6. Cardinality(Reservations') <= Cardinality(Others) + (Quota - n)
        /\ Cardinality(Reservations') \in Nat
    BY <1>4, <2>5, FS_Subset, FS_CardinalityType
  <2>7. Quota * (Cardinality(Worker) - 1) = Quota * Cardinality(Worker) - Quota
    BY QuotaNat
  <2>8. n + Cardinality(Reservations') <= Quota * Cardinality(Worker)
    <3>1. PICK q \in Int : q = Quota * Cardinality(Worker)
      BY QuotaNat
    <3> HIDE DEF Others, Mine, n
    <3> QED BY <1>0, <1>5, <2>6, <2>7, <3>1, QuotaNat
  <2> QED BY <1>2, <1>3, <2>8 DEF Budget
<1> QED BY <1>0, <1>6, <1>7, QuotaNat

\* An insert takes one of its request's reservations.
LEMMA InsertBudget ==
    ASSUME QuotaInv, TypeInv', NEW w \in Worker, InsertSubscription(w)
    PROVE  Budget' /\ \A v \in Worker : Fits(v)'
<1> DEFINE taken == <<w, used[w] + 1>>
<1>0. w \in Caller /\ used[w] \in Nat /\ wpc[w] = "commit" /\ used[w] < Quota
  BY DEF Caller, InsertSubscription, At, QuotaInv, Fits, TypeInv, CallerData
<1>1. /\ wpc'[w] = "wait" /\ todo' = todo /\ used'[w] = used[w] + 1
      /\ \A v \in Worker \ {w} : wpc'[v] = wpc[v] /\ used'[v] = used[v]
  <2>1. /\ wpc' = [wpc EXCEPT ![w] = "wait"] /\ todo' = todo
        /\ used' = [used EXCEPT ![w] = @ + 1]
    BY DEF InsertSubscription, Goto, Counted
  <2> QED BY <1>0, <2>1 DEF Caller, QuotaInv, TypeInv, ControlInv, RefsInv, ClaimInv,
                            CallerTypes, CallerData
<1>2. /\ \A v \in Worker \ {w} : Fits(v)' /\ Reserved(v)' = Reserved(v)
      /\ Fits(w)' /\ Reserved(w)' \subseteq (used[w] + 2)..Quota
  <2>1. used[w] + 1 + 1 = used[w] + 2
    BY <1>0
  <2> QED BY <1>1, <2>1 DEF QuotaInv, Fits, Reserved, MayInsert
<1>3. taken \in Reservations
  <2>1. used[w] + 1 \in (used[w] + 1)..Quota /\ used[w] + 1 \in 1..Quota
    BY <1>0, QuotaNat
  <2> QED BY <1>0, <2>1 DEF Reservations, Reserved, MayInsert
<1>4. Reservations' \subseteq Reservations \ {taken}
  <2>1. ASSUME NEW x \in Reservations' PROVE x \in Reservations /\ x # taken
    <3>1. x \in Worker \X (1..Quota) /\ x[2] \in Reserved(x[1])'
      BY DEF Reservations
    <3>2. CASE x[1] # w
      BY <1>2, <3>1, <3>2 DEF Reservations
    <3>3. CASE x[1] = w
      <4>1. x[2] \in (used[w] + 2)..Quota
        BY <1>2, <3>1, <3>3
      <4>2. x[2] \in (used[w] + 1)..Quota /\ x[2] # used[w] + 1
        BY <1>0, <4>1, QuotaNat
      <4> QED BY <1>0, <3>1, <3>3, <4>2 DEF Reservations, Reserved, MayInsert
    <3> QED BY <3>2, <3>3
  <2> QED BY <2>1
<1>5. /\ Cardinality(Reservations') \in Nat
      /\ Cardinality(Reservations') <= Cardinality(Reservations) - 1
  <2>1. /\ IsFiniteSet(Reservations \ {taken})
        /\ Cardinality(Reservations \ {taken}) = Cardinality(Reservations) - 1
    BY <1>3, ReservationsFinite, FS_RemoveElement
  <2> QED BY <1>4, <2>1, FS_Subset, FS_CardinalityType
<1>6. Cardinality(Live') = Cardinality(Live) + 1 /\ Cardinality(Live) \in Nat
  <2>1. goal[w] \in Sub /\ state[goal[w]] = "none" /\ state \in [Sub -> Status]
    BY DEF InsertSubscription, QuotaInv, TypeInv, ControlInv, RefsInv, ClaimInv, Holds
  <2>2. state' = [state EXCEPT ![goal[w]] = "pending"]
    BY DEF InsertSubscription
  <2>3. goal[w] \notin Live /\ Live' = Live \cup {goal[w]}
    BY <2>1, <2>2 DEF Live, IsLive, Status
  <2>4. IsFiniteSet(Live) /\ Cardinality(Live) \in Nat
    BY LiveFinite DEF Live
  <2> QED BY <2>3, <2>4, FS_AddElement
<1>7. Budget'
  <2>1. Quota * Cardinality(Worker) \in Nat
    BY QuotaNat
  <2> QED BY <1>5, <1>6, <2>1, ReservationsFinite DEF QuotaInv, Budget
<1> QED BY <1>2, <1>7

\* Nothing but an insert makes a subscription live.
LEMMA LiveShrinks ==
    ASSUME TypeInv, Next, \A w \in Worker : ~InsertSubscription(w)
    PROVE  Live' \subseteq Live
<1>0. state \in [Sub -> Status]
  BY DEF TypeInv, ControlInv, RefsInv, ClaimInv
<1>1. ASSUME UNCHANGED state PROVE Live' \subseteq Live
  BY <1>1 DEF Live
<1>2. ASSUME NEW w \in Worker, Ask(w) PROVE UNCHANGED state
  BY <1>2 DEF Ask, StartCreate, StartDelete, StartDeleteHook, StartRetry,
              StartOperatorRetry, rows
<1>3. ASSUME NEW w \in Worker, Proceed(w) PROVE Live' \subseteq Live
  <2>1. CASE DeleteSubscription(w) \/ DeleteHook(w)
    <3>1. PICK scope : Unsubscribe(scope)
      BY <2>1 DEF DeleteSubscription, DeleteHook
    <3> QED BY <1>0, <3>1 DEF Unsubscribe, Live, IsLive
  <2>2. CASE \/ ReadHook(w) \/ ReadChains(w) \/ CountSubs(w) \/ InsertRefused(w)
             \/ \E s \in Sub : Examine(w, s)
             \/ ReadCascade(w) \/ ReadRetry(w) \/ InsertRetry(w)
    BY <1>1, <2>2 DEF ReadHook, ReadChains, CountSubs, InsertRefused, Examine,
                      ReadCascade, ReadRetry, InsertRetry, rows
  <2> QED BY <1>3, <2>1, <2>2 DEF Proceed
<1>4. ASSUME NEW c \in Chain, Serve(c) PROVE Live' \subseteq Live
  <2>1. CASE Complete(c)
    BY <1>0, <2>1 DEF Complete, Activatable, Live, IsLive
  <2>2. CASE Reject(c)
    BY <1>0, <2>2 DEF Reject, Live, IsLive
  <2>3. CASE \/ ReadSub(c) \/ Resolve(c) \/ Register(c) \/ ResolveUnknown(c)
             \/ Unresolved(c) \/ Mark(c)
    BY <1>1, <2>3 DEF ReadSub, Resolve, Register, ResolveUnknown, Unresolved, Mark, rows
  <2> QED BY <1>4, <2>1, <2>2, <2>3 DEF Serve
<1>5. CASE \/ StartReconcile
           \/ \E c \in Chain, w \in Caller : Apply(c, w)
           \/ \E w \in Caller : CallerFails(w)
           \/ \E c \in Chain : ShardFails(c) \/ Beside(c)
  BY <1>1, <1>5, BesideFrame DEF StartReconcile, Apply, CallerFails, ShardFails, rows
<1> QED BY <1>1, <1>2, <1>3, <1>4, <1>5 DEF Next

LEMMA QuotaStep == QuotaInv /\ [Next]_vars => QuotaInv'
<1> SUFFICES ASSUME QuotaInv, [Next]_vars PROVE QuotaInv'
  OBVIOUS
<1>0. TypeInv'
  BY TypesStep DEF QuotaInv
<1>1. CASE Next
  <2>1. \A c \in Chain : Attended(c)'
    BY <1>0, <1>1, AttendedSteps
  <2>2. Budget' /\ \A w \in Worker : Fits(w)'
    <3>1. CASE \E w \in Worker : CountSubs(w) \/ InsertSubscription(w)
      BY <1>0, <3>1, CountBudget, InsertBudget
    <3>2. CASE ~\E w \in Worker : CountSubs(w) \/ InsertSubscription(w)
      <4>1. Settled
        BY <1>0, <1>1, <3>2, ReservationSteps
      <4>2. Live' \subseteq Live
        BY <1>1, <3>2, LiveShrinks DEF QuotaInv
      <4> QED BY <4>1, <4>2, BudgetShrinks DEF Settled
    <3> QED BY <3>1, <3>2
  <2> QED BY <1>0, <2>1, <2>2 DEF QuotaInv
<1>2. CASE UNCHANGED vars
  <2>1. Settled /\ Live' = Live
    BY <1>2, RestSettled DEF vars, rows, Live
  <2>2. Budget'
    BY <2>1, BudgetShrinks DEF Settled
  <2>3. \A c \in Chain : Attended(c)'
    BY <1>2 DEF QuotaInv, Attended, vars, callers, shards
  <2> QED BY <1>0, <2>1, <2>2, <2>3 DEF QuotaInv, Settled
<1> QED BY <1>1, <1>2

LEMMA QuotaStart == Init => QuotaInv
<1> SUFFICES ASSUME Init PROVE QuotaInv
  OBVIOUS
<1>1. TypeInv
  BY TypesStart
<1>2. \A w \in Worker : wpc[w] = "idle" /\ todo[w] = {}
  BY DEF Init, Caller
<1>3. Live = {} /\ Reservations = {}
  BY <1>2 DEF Init, Live, IsLive, Reservations, Reserved, MayInsert
<1>4. Cardinality(Live) = 0 /\ Cardinality(Reservations) = 0
  BY <1>3, FS_EmptySet
<1>5. Quota * Cardinality(Worker) \in Nat
  BY QuotaNat
<1>6. Budget
  BY <1>4, <1>5 DEF Budget
<1>7. \A c \in Chain : client[c] = Nobody
  BY DEF Init
<1> QED BY <1>1, <1>2, <1>6, <1>7 DEF QuotaInv, Fits, Attended

\* However many requests read the quota before any of them inserts, and however
\* they fail, conflict and come again, an account has at most one quota of live
\* subscriptions per request that can run at a time (subscriptions.ts:70, 92).
THEOREM QuotaOvershoot == Spec => []OvershootBounded
<1>1. QuotaInv => OvershootBounded
  <2> SUFFICES ASSUME QuotaInv PROVE OvershootBounded
    OBVIOUS
  <2>1. Cardinality(Live) \in Nat /\ Quota * Cardinality(Worker) \in Nat
    BY LiveFinite, QuotaNat DEF Live
  <2> QED BY <2>1, ReservationsFinite DEF QuotaInv, Budget, OvershootBounded
<1> QED BY <1>1, QuotaStart, QuotaStep, PTL DEF Spec
=============================================================================
