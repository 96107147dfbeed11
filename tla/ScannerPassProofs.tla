------------------------- MODULE ScannerPassProofs -------------------------
(***************************************************************************)
(* Theorems about the scanner's passes, for every chain, every workload    *)
(* and every value of the limits.  What a theorem needs of the numbers of  *)
(* the blocks it assumes.                                                  *)
(***************************************************************************)
EXTENDS ScannerProofs, ArrayProofs

(* The scanner's position, its window and the blocks it prefetched stay in *)
(* step, through the reorg branch too; TypeOK, WindowLinked,               *)
(* HeldBlocksRecorded, NoReorgVerdict and LoopIsPrefetched follow, and are *)
(* not inductive without that.                                             *)

\* Numbers rise along parent links, as they do on every well-formed chain: what the
\* code relies on when it takes the held blocks of higher numbers for the orphans.
Increasing ==
    \A b \in Block : Parent[b] # NoBlock => Height[Parent[b]] < Height[b]

Rising(w) == \A i, j \in 1..Len(w) : i < j => Height[w[i]] < Height[w[j]]

\* A window the scanner may rely on.
Sound(w) ==
    w \in Seq(Block) /\ RecordedUpTo(w) /\ (Increasing => Linked(w) /\ Rising(w))

WindowInv == Sound(window) /\ Sound(wnd)

\* The control points of the loop, and those of its reorg branch.
LoopPoints == {"loop", "upsert", "enqueue", "flush"}
UndoPoints == {"mark", "notify", "prune", "rewind"}
PassPoints == LoopPoints \cup UndoPoints

\* The blocks read so far are the blocks of their numbers; a pass starts empty.
FetchedInv ==
    /\ \A n \in DOMAIN fetched : fetched[n] \in Block /\ Height[fetched[n]] = n
    /\ pc \in {"idle", "head", "registry"} => fetched = <<>> /\ processed = 0
    /\ pc = "fetch" => /\ processed = 0 /\ 0 < next
                       /\ next <= from /\ from <= stop
                       /\ DOMAIN fetched = next..(from - 1)
                       /\ stop = PrefetchEnd(next)
    /\ pc \in PassPoints => /\ processed < next
                            /\ DOMAIN fetched = (next - processed)..stop
                            /\ stop = PrefetchEnd(next - processed)

\* The last block accepted is the window's tip, and the next number the one above.
\* A replay does not rewind the number; where numbers do not rise along parent links
\* a block of the ancestor's number may be above the ancestor in the window.
PositionInv ==
    pc \in LoopPoints \cup {"fetch"}
      => /\ last \in Block
         /\ WellFormed => next = Height[last] + 1
         /\ Increasing /\ wnd # <<>> => last = Tip(wnd)

\* While a block is processed its verdict stands, and the observations before the
\* current one have their rows.
ItemInv ==
    IF pc \in {"upsert", "enqueue"}
      THEN /\ LoopGoesOn /\ Verdict = "ok"
           /\ item \in 1..Items[Candidate]
           /\ \A j \in 1..(item - 1) : obs[<<Candidate, j>>] # "absent"
           /\ pc = "enqueue" => obs[ThisObs] # "absent"
      ELSE item = 0

\* The reorg branch runs only where numbers do not follow parent links; the ancestor
\* stays in the window, as its tip once the orphans are dropped.
UndoInv ==
    pc \in UndoPoints
      => /\ ~WellFormed
         /\ LoopGoesOn
         /\ Ancestor \in HeldIn(wnd)
         /\ Increasing /\ pc = "rewind" => Tip(wnd) = Ancestor

\* The blocks the scanner's position is, or may become after a failure or a reorg.
Reached(b) == b \in {cursor, pendingTip, last} \cup HeldIn(window) \cup HeldIn(wnd)

\* Nothing is reached or recorded above the head, nor further above the head read by
\* the activation in progress than the upstreams lag.
BoundaryInv ==
    /\ head <= Height[tip]
    /\ \A b \in Block : Reached(b) => Height[b] <= Height[tip]
    /\ \A o \in Obs : obs[o] # "absent" => Height[o[1]] <= Height[tip]
    /\ pc \in {"applying", "activate", "complete"} => sub = "pending"
    /\ pc = "applying" => seen # "none"
    /\ pc = "complete"
         => /\ \A o \in Obs : obs[o] # "absent" => Height[o[1]] <= head + HeadLag
            /\ \A b \in Block : b \in {Position, last} => Height[b] <= head + HeadLag

PassInv == FetchedInv /\ PositionInv /\ ItemInv /\ UndoInv

IInv == TypeOK /\ WindowInv /\ PassInv /\ BoundaryInv

-----------------------------------------------------------------------------
(* Windows.                                                                *)

\* An observation is one of its block's.
LEMMA ObsParts ==
    ASSUME NEW o \in Obs
    PROVE  o[1] \in Block /\ o[2] \in 1..Items[o[1]] /\ o = <<o[1], o[2]>>
  BY DEF Obs

LEMMA EmptySound == Sound(<<>>)
  BY DEF Sound, Linked, Rising, RecordedUpTo

LEMMA AnchorSound ==
    ASSUME NEW b \in Block
    PROVE  Sound(<<b>>) /\ <<b>> # <<>> /\ Tip(<<b>>) = b /\ HeldIn(<<b>>) = {b}
  BY DEF Sound, Linked, Rising, RecordedUpTo, Tip, HeldIn

LEMMA TipInBlock ==
    ASSUME NEW w \in Seq(Block), w # <<>>
    PROVE  Tip(w) \in Block /\ Tip(w) \in HeldIn(w)
  BY DEF Tip, HeldIn

LEMMA HeldBlocks ==
    ASSUME NEW w \in Seq(Block)
    PROVE  HeldIn(w) \subseteq Block
  BY DEF HeldIn

\* Numbers that follow the parent links rise along them.
LEMMA WellFormedRises ==
    ASSUME BlockAssumption, WellFormed
    PROVE  Increasing
  <1>1. ASSUME NEW b \in Block, Parent[b] # NoBlock
        PROVE  Height[Parent[b]] < Height[b]
    <2>1. Parent[b] \in Block /\ Height[b] = Height[Parent[b]] + 1
      BY <1>1 DEF BlockAssumption, WellFormed
    <2>2. Height[Parent[b]] \in Nat
      BY <2>1 DEF BlockAssumption
    <2> QED
      BY <2>1, <2>2
  <1> QED
    BY <1>1 DEF Increasing

\* Appending a recorded child of the tip keeps a window sound.
LEMMA AppendSound ==
    ASSUME BlockAssumption, NEW w, Sound(w), NEW b \in Block,
           Increasing /\ w # <<>> => Parent[b] = Tip(w),
           \A o \in Obs : o[1] = b => obs[o] # "absent"
    PROVE  Sound(Append(w, b)) /\ Len(Append(w, b)) = Len(w) + 1
           /\ Tip(Append(w, b)) = b /\ HeldIn(Append(w, b)) = HeldIn(w) \cup {b}
  <1> DEFINE v == Append(w, b)
  <1>1. w \in Seq(Block) /\ Len(w) \in Nat
    BY DEF Sound
  <1>2. /\ v \in Seq(Block) /\ Len(v) = Len(w) + 1 /\ v[Len(w) + 1] = b
        /\ \A i \in 1..Len(w) : v[i] = w[i]
    BY <1>1
  <1>3. Increasing => Linked(v)
    BY <1>1, <1>2 DEF Sound, Linked, Tip
  <1>4. Increasing => Rising(v)
    <2> SUFFICES ASSUME Increasing, NEW i \in 1..Len(v), NEW j \in 1..Len(v), i < j
                 PROVE  Height[v[i]] < Height[v[j]]
      BY DEF Rising
    <2>1. i \in 1..Len(w) /\ w # <<>> /\ v[i] = w[i]
      BY <1>1, <1>2
    <2>2. Height[w[i]] \in Nat
      BY <1>1, <2>1 DEF BlockAssumption
    <2>3. CASE j \in 1..Len(w)
      BY <1>2, <2>1, <2>3 DEF Sound, Rising
    <2>4. CASE j = Len(w) + 1
      <3>1. Tip(w) \in Block /\ Tip(w) # NoBlock /\ Height[Tip(w)] \in Nat
        BY <1>1, <2>1, TipInBlock DEF BlockAssumption
      <3>2. Height[Tip(w)] < Height[b] /\ Height[b] \in Nat
        BY <2>1, <3>1 DEF Increasing, BlockAssumption
      <3>3. Height[w[i]] <= Height[Tip(w)]
        <4>1. CASE i = Len(w)
          BY <2>2, <4>1 DEF Tip
        <4>2. CASE i < Len(w)
          BY <1>1, <2>1, <2>2, <3>1, <4>2 DEF Sound, Rising, Tip
        <4> QED
          BY <1>1, <2>1, <4>1, <4>2
      <3> HIDE DEF v
      <3> QED
        BY <1>2, <2>1, <2>2, <2>4, <3>1, <3>2, <3>3
    <2>5. j \in 1..Len(w) \/ j = Len(w) + 1
      <3> HIDE DEF v
      <3> QED
        BY <1>1, <1>2
    <2> QED
      BY <2>3, <2>4, <2>5
  <1>5. RecordedUpTo(v)
    BY <1>1, <1>2 DEF Sound, RecordedUpTo
  <1>6. HeldIn(v) = HeldIn(w) \cup {b}
    <2>1. DOMAIN v = 1..(Len(w) + 1) /\ DOMAIN w = 1..Len(w)
      BY <1>1, <1>2
    <2> HIDE DEF v
    <2>2. \A i \in DOMAIN v : v[i] \in HeldIn(w) \cup {b}
      BY <1>1, <1>2, <2>1 DEF HeldIn
    <2>3. \A i \in DOMAIN w : w[i] = v[i] /\ i \in DOMAIN v
      BY <1>1, <1>2, <2>1
    <2>4. b = v[Len(w) + 1] /\ Len(w) + 1 \in DOMAIN v
      BY <1>1, <1>2, <2>1
    <2> QED
      BY <2>2, <2>3, <2>4 DEF HeldIn
  <1> QED
    BY <1>2, <1>3, <1>4, <1>5, <1>6 DEF Sound, Tip

\* So does forgetting its oldest blocks.
LEMMA SuffixSound ==
    ASSUME BlockAssumption, NEW w, Sound(w), NEW k \in 1..Len(w)
    PROVE  LET v == SubSeq(w, k, Len(w))
           IN  Sound(v) /\ v # <<>> /\ Tip(v) = Tip(w) /\ HeldIn(v) \subseteq HeldIn(w)
  <1> DEFINE v == SubSeq(w, k, Len(w))
  <1>1. w \in Seq(Block) /\ Len(w) \in Nat
    BY DEF Sound
  <1>2. /\ v \in Seq(Block) /\ Len(v) = Len(w) - k + 1
        /\ \A i \in 1..Len(v) : v[i] = w[i + k - 1]
    BY <1>1
  <1> HIDE DEF v
  <1>3. v # <<>> /\ Tip(v) = Tip(w)
    BY SMTT(30), <1>1, <1>2 DEF Tip
  <1>4. Increasing => Linked(v)
    <2>1. ASSUME Increasing, NEW i \in 1..(Len(v) - 1) PROVE Parent[v[i + 1]] = v[i]
      <3>0. i \in 1..Len(v) /\ i + 1 \in 1..Len(v) /\ (i + 1) + k - 1 = i + k
        <4>1. Len(v) \in Int /\ k \in Int /\ i \in Int /\ 1 <= i /\ i <= Len(v) - 1
          BY <1>1, <1>2
        <4>2. i \in 1..Len(v) /\ i + 1 \in 1..Len(v)
          BY <4>1
        <4>3. (i + 1) + k - 1 = i + k
          BY <4>1
        <4> QED
          BY <4>2, <4>3
      <3>1. v[i] = w[i + k - 1] /\ v[i + 1] = w[(i + 1) + k - 1]
        BY <1>2, <3>0
      <3>2. i + k - 1 \in 1..(Len(w) - 1) /\ (i + k - 1) + 1 = i + k
        BY <1>1, <1>2
      <3>3. Parent[w[(i + k - 1) + 1]] = w[i + k - 1]
        BY <2>1, <3>2 DEF Sound, Linked
      <3> QED
        BY <3>0, <3>1, <3>2, <3>3
    <2> QED
      BY <2>1 DEF Linked
  <1>a. \A i \in 1..Len(v) : i + k - 1 \in 1..Len(w) /\ v[i] = w[i + k - 1]
    BY <1>1, <1>2
  <1>5. Increasing => Rising(v)
    <2>1. ASSUME Increasing, NEW i \in 1..Len(v), NEW j \in 1..Len(v), i < j
          PROVE  Height[v[i]] < Height[v[j]]
      <3>1. i + k - 1 \in 1..Len(w) /\ v[i] = w[i + k - 1]
        BY <1>a
      <3>2. j + k - 1 \in 1..Len(w) /\ v[j] = w[j + k - 1]
        BY <1>a
      <3>3. i + k - 1 < j + k - 1
        BY <2>1
      <3>4. Rising(w)
        BY <2>1 DEF Sound
      <3> DEFINE x == i + k - 1
      <3> DEFINE y == j + k - 1
      <3>5. x \in 1..Len(w) /\ y \in 1..Len(w) /\ x < y /\ v[i] = w[x] /\ v[j] = w[y]
        BY <3>1, <3>2, <3>3
      <3> HIDE DEF x, y
      <3> QED
        BY <3>4, <3>5 DEF Rising
    <2> QED
      BY <2>1 DEF Rising
  <1>6. RecordedUpTo(v)
    <2>1. ASSUME NEW i \in 2..Len(v), NEW o \in Obs, o[1] = v[i]
          PROVE  obs[o] # "absent"
      <3>1. i + k - 1 \in 2..Len(w) /\ v[i] = w[i + k - 1]
        BY <1>1, <1>2
      <3> QED
        BY <2>1, <3>1 DEF Sound, RecordedUpTo
    <2> QED
      BY <2>1 DEF RecordedUpTo
  <1>7. HeldIn(v) \subseteq HeldIn(w)
    <2>1. ASSUME NEW i \in 1..Len(v) PROVE v[i] \in HeldIn(w)
      <3>1. i + k - 1 \in DOMAIN w /\ v[i] = w[i + k - 1]
        BY <1>1, <1>2
      <3> QED
        BY <3>1 DEF HeldIn
    <2> QED
      BY <1>2, <2>1 DEF HeldIn
  <1> QED
    BY <1>2, <1>3, <1>4, <1>5, <1>6, <1>7 DEF Sound, v

LEMMA PushSound ==
    ASSUME BlockAssumption, WindowLimitAssumption, NEW w, Sound(w), NEW b \in Block,
           Increasing /\ w # <<>> => Parent[b] = Tip(w),
           \A o \in Obs : o[1] = b => obs[o] # "absent"
    PROVE  Sound(PushWindow(w, b)) /\ Tip(PushWindow(w, b)) = b
           /\ HeldIn(PushWindow(w, b)) \subseteq HeldIn(w) \cup {b}
  <1> DEFINE v == Append(w, b)
  <1>1. /\ Sound(v) /\ Len(v) = Len(w) + 1 /\ Tip(v) = b
        /\ HeldIn(v) = HeldIn(w) \cup {b}
    BY AppendSound
  <1>2. Len(w) \in Nat
    BY DEF Sound
  <1> HIDE DEF v
  <1>3. CASE Len(v) > WindowLimit
    <2>1. Len(v) - WindowLimit + 1 \in 1..Len(v)
      BY <1>1, <1>2, <1>3 DEF WindowLimitAssumption
    <2> QED
      BY <1>1, <1>3, <2>1, SuffixSound DEF PushWindow, v
  <1>4. CASE ~(Len(v) > WindowLimit)
    BY <1>1, <1>4 DEF PushWindow, v
  <1> QED
    BY <1>3, <1>4

\* Dropping the blocks above a held one keeps a window sound, and keeps that block: as
\* the tip, where numbers rise.  What is dropped is exactly what has a higher number.
LEMMA PruneSound ==
    ASSUME BlockAssumption, NEW w, Sound(w), NEW a \in HeldIn(w)
    PROVE  LET v == PruneTo(w, a)
           IN  /\ Sound(v) /\ v # <<>> /\ a \in HeldIn(v)
               /\ HeldIn(v) = {b \in HeldIn(w) : Height[b] <= Height[a]}
               /\ Increasing => Tip(v) = a
  <1> DEFINE P == {i \in DOMAIN w : Height[w[i]] <= Height[a]}
  <1> DEFINE n == Cardinality(P)
  <1> DEFINE v == PruneTo(w, a)
  <1>1. /\ w \in Seq(Block) /\ Len(w) \in Nat /\ DOMAIN w = 1..Len(w)
        /\ \A i \in DOMAIN w : w[i] \in Block /\ Height[w[i]] \in Nat
    BY DEF Sound, BlockAssumption
  <1>2. P \subseteq 1..Len(w) /\ P \subseteq Int /\ IsFiniteSet(P)
    <2>1. P \subseteq 1..Len(w) /\ P \subseteq Int
      BY <1>1
    <2>2. IsFiniteSet(1..Len(w))
      BY <1>1, FS_Interval
    <2> QED
      BY <2>1, <2>2, FS_Subset
  <1>3. /\ v \in Seq(Block) /\ Len(v) = n /\ n \in Nat
        /\ \E at : KeepsOrder(v, w, P, at)
    <2>1. \A i \in P : w[i] \in Block
      BY <1>1
    <2>2. v = Filtered(w, P)
      BY DEF PruneTo
    <2>3. n \in Nat
      BY <1>2, FS_CardinalityType
    <2> HIDE DEF P
    <2>4. P \subseteq Int /\ IsFiniteSet(P)
      BY <1>2
    <2>5. Filtered(w, P) \in Seq(Block)
      BY <2>1, <2>4, FilteredIsSeq, Zenon
    <2>6. \E at : KeepsOrder(Filtered(w, P), w, P, at)
      BY <2>4, FilterKeepsOrder, Zenon
    <2> HIDE DEF n, v
    <2>7. Len(v) = n
      <3>1. DOMAIN Filtered(w, P) = 1..n
        BY <2>6 DEF KeepsOrder, n
      <3> QED
        BY <2>2, <2>3, <2>5, <3>1, LenProperties
    <2> QED
      BY <2>2, <2>3, <2>5, <2>6, <2>7
  <1> HIDE DEF P, n, v
  <1>at. PICK at \in [1..n -> 1..Len(w)] :
           /\ \A k \in 1..n : at[k] \in P /\ v[k] = w[at[k]]
           /\ \A i \in P : \E k \in 1..n : at[k] = i
           /\ \A j, k \in 1..n : j < k => at[j] < at[k]
    <2>1. PICK at : KeepsOrder(v, w, P, at)
      BY <1>3
    <2>2. at \in [1..n -> 1..Len(w)] /\ \A k \in 1..n : at[k] \in P
      BY <1>2, <2>1 DEF KeepsOrder, n
    <2> QED
      BY <2>1, <2>2 DEF KeepsOrder, n
  <1>b. \A i : i \in P <=> i \in DOMAIN w /\ Height[w[i]] <= Height[a]
    BY DEF P
  <1>4. PICK p \in DOMAIN w : a = w[p]
    BY DEF HeldIn
  <1>5. p \in P /\ a \in Block
    <2>1. a \in Block /\ Height[a] \in Nat
      BY <1>1, <1>4
    <2> QED
      BY <1>4, <1>b, <2>1
  <1>6. PICK k \in 1..n : at[k] = p
    BY <1>3, <1>at, <1>5
  <1>7. \A i \in 1..n : at[i] \in 1..Len(w) /\ v[i] = w[at[i]] /\ Height[v[i]] <= Height[a]
    BY <1>2, <1>3, <1>at, <1>b
  <1>8. v \in Seq(Block) /\ Len(v) = n /\ DOMAIN v = 1..n
    BY <1>3
  <1>9. a \in HeldIn(v) /\ v # <<>>
    <2>1. v[k] = a /\ k \in DOMAIN v
      BY <1>4, <1>6, <1>7, <1>8
    <2> QED
      BY <2>1 DEF HeldIn
  <1>10. HeldIn(v) = {b \in HeldIn(w) : Height[b] <= Height[a]}
    <2>1. \A i \in 1..n : v[i] \in HeldIn(w) /\ Height[v[i]] <= Height[a]
      BY <1>1, <1>7 DEF HeldIn
    <2>2. ASSUME NEW i \in DOMAIN w, Height[w[i]] <= Height[a]
          PROVE  w[i] \in HeldIn(v)
      <3>1. i \in P
        BY <1>b, <2>2
      <3>2. PICK m \in 1..n : at[m] = i
        BY <1>3, <1>at, <3>1
      <3> QED
        BY <1>7, <1>8, <3>2 DEF HeldIn
    <2> QED
      BY <1>8, <2>1, <2>2 DEF HeldIn
  <1>11. RecordedUpTo(v)
    <2>1. ASSUME NEW i \in 2..Len(v), NEW o \in Obs, o[1] = v[i]
          PROVE  obs[o] # "absent"
      <3>1. i \in 1..n /\ 1 \in 1..n /\ 1 < i
        BY <1>3, <1>at, <1>8
      <3>2. at[1] < at[i] /\ at[1] \in 1..Len(w) /\ at[i] \in 1..Len(w)
        BY <1>3, <1>at, <1>7, <3>1
      <3>3. at[i] \in 2..Len(w)
        BY <1>1, <3>2
      <3> QED
        BY <1>7, <2>1, <3>1, <3>3 DEF Sound, RecordedUpTo
    <2> QED
      BY <2>1 DEF RecordedUpTo
  <1>12. ASSUME Increasing
         PROVE  Linked(v) /\ Rising(v) /\ Tip(v) = a
    <2>1. \A i, j \in 1..Len(w) : i < j => Height[w[i]] < Height[w[j]]
      BY <1>12 DEF Sound, Rising
    <2>2. \A i, j \in 1..n : i < j => Height[v[i]] < Height[v[j]]
      <3> SUFFICES ASSUME NEW i \in 1..n, NEW j \in 1..n, i < j
                   PROVE  Height[v[i]] < Height[v[j]]
        OBVIOUS
      <3>1. at[i] < at[j] /\ at[i] \in 1..Len(w) /\ at[j] \in 1..Len(w)
        BY <1>at
      <3>2. Height[w[at[i]]] < Height[w[at[j]]]
        BY <2>1, <3>1
      <3> QED
        BY <1>at, <3>2
    <2>3. Rising(v)
      BY <1>8, <2>2 DEF Rising
    <2>4. k = n
      <3> SUFFICES ASSUME k < n PROVE FALSE
        BY <1>3, <1>at, <1>6
      <3>1. n \in 1..n /\ Height[v[k]] < Height[v[n]] /\ v[k] = a /\ Height[v[n]] <= Height[a]
        BY <1>3, <1>at, <1>4, <1>6, <1>7, <2>2
      <3>2. Height[v[n]] \in Nat /\ Height[a] \in Nat
        BY <1>1, <1>5, <1>7, <3>1 DEF BlockAssumption
      <3> QED
        BY <3>1, <3>2
    <2>5. Tip(v) = a
      BY <1>4, <1>6, <1>7, <1>8, <2>4 DEF Tip
    <2>6. ASSUME NEW i \in 1..(n - 1)
          PROVE  at[i + 1] = at[i] + 1
      <3>1. /\ i \in 1..n /\ i + 1 \in 1..n /\ i < i + 1
            /\ at[i] \in 1..Len(w) /\ at[i + 1] \in 1..Len(w) /\ at[i] < at[i + 1]
        <4>1. i \in 1..n /\ i + 1 \in 1..n /\ i < i + 1
          BY <1>3
        <4> QED
          BY <1>at, <4>1
      <3>2. at[i] + 1 \in 1..Len(w) /\ at[i] + 1 <= at[i + 1]
        BY <1>1, <3>1
      <3>3. at[i] + 1 \in P
        <4> DEFINE q == at[i] + 1
        <4> DEFINE r == at[i + 1]
        <4> HIDE DEF q, r
        <4>1. /\ q \in 1..Len(w) /\ r \in 1..Len(w) /\ q <= r
              /\ Height[w[r]] <= Height[a]
          BY <1>7, <3>1, <3>2 DEF q, r
        <4>2. Height[w[q]] \in Nat /\ Height[w[r]] \in Nat /\ Height[a] \in Nat
          BY <1>1, <1>5, <4>1 DEF BlockAssumption
        <4>3. Height[w[q]] <= Height[w[r]]
          <5>1. CASE q = r
            BY <4>2, <5>1
          <5>2. CASE q < r
            BY <2>1, <4>1, <4>2, <5>2
          <5> QED
            BY <4>1, <5>1, <5>2
        <4>4. Height[w[q]] <= Height[a]
          BY <4>1, <4>2, <4>3
        <4> QED
          BY <1>1, <1>b, <4>1, <4>4 DEF q
      <3>4. PICK m \in 1..n : at[m] = at[i] + 1
        BY <1>3, <1>at, <3>3
      <3>5. i < m
        <4> SUFFICES ASSUME m <= i PROVE FALSE
          BY <3>1
        <4>1. at[m] <= at[i] /\ at[m] \in 1..Len(w)
          <5>1. CASE m = i
            BY <3>1, <5>1
          <5>2. CASE m < i
            <6>1. at[m] < at[i] /\ at[m] \in 1..Len(w)
              BY <1>at, <3>1, <5>2
            <6> QED
              BY <3>1, <6>1
          <5> QED
            BY <3>1, <5>1, <5>2
        <4> QED
          BY <3>1, <3>4, <4>1
      <3>6. at[i + 1] <= at[m]
        <4>1. CASE i + 1 = m
          BY <3>1, <4>1
        <4>2. CASE i + 1 < m
          BY <1>3, <1>at, <1>7, <3>1, <4>2
        <4> QED
          BY <3>1, <3>5, <4>1, <4>2
      <3> QED
        BY <3>1, <3>2, <3>4, <3>6
    <2>7. Linked(v)
      <3>1. ASSUME NEW i \in 1..(n - 1) PROVE Parent[v[i + 1]] = v[i]
        <4>1. i \in 1..n /\ i + 1 \in 1..n
          BY <1>3, <1>at
        <4>2. v[i] = w[at[i]] /\ v[i + 1] = w[at[i] + 1]
          BY <1>7, <2>6, <4>1
        <4>3. at[i] \in 1..(Len(w) - 1)
          BY <1>1, <1>7, <2>6, <4>1
        <4> QED
          BY <1>12, <4>2, <4>3 DEF Sound, Linked
      <3> QED
        BY <1>8, <3>1 DEF Linked
    <2> QED
      BY <2>3, <2>5, <2>7
  <1> QED
    BY <1>8, <1>9, <1>10, <1>11, <1>12 DEF Sound, v

-----------------------------------------------------------------------------
(* What the steps have in common.                                          *)

Assumptions ==
    /\ BlockAssumption /\ WindowLimitAssumption
    /\ ChainAssumption /\ ScannerAssumption

LEMMA AssumptionsHold == Assumptions
  BY BlockAssumption, WindowLimitAssumption, ChainAssumption, ScannerAssumption
     DEF Assumptions

LEMMA Heights ==
    ASSUME Assumptions
    PROVE  /\ \A b \in Block : Height[b] \in Nat
           /\ \A b \in Block : Chain[b] \subseteq Block
           /\ \A b \in Block : \A c \in Chain[b] : Height[c] <= Height[b]
  BY DEF Assumptions, BlockAssumption, ChainAssumption

\* The heads that can be reported, and the blocks a read by number can return.
LEMMA Reads ==
    ASSUME Assumptions, tip \in Block
    PROVE  /\ \A n \in Heads : n \in Nat /\ n <= Height[tip] /\ Height[tip] <= n + HeadLag
           /\ \A n : \A b \in BlocksAt(n) :
                 b \in Block /\ Height[b] = n /\ Height[b] <= Height[tip]
  BY Heights DEF Heads, BlocksAt

\* No row disappears.
Kept == \A o \in Obs : obs[o] # "absent" => obs'[o] # "absent"

LEMMA WindowStep ==
    ASSUME Sound(window'), Sound(wnd'), Kept
    PROVE  WindowInv'
  BY DEF Sound, Linked, Rising, RecordedUpTo, WindowInv, Kept

\* A step that leaves the pass but not the operation.
Away ==
    /\ pc' \in {"anchored", "settle", "degrade", "reset", "recover", "reanchored",
                "reactivate", "applying", "activate", "complete"}
    /\ fetched' = fetched /\ item' = 0

LEMMA AwayStep ==
    ASSUME PassInv, Away
    PROVE  PassInv'
  BY DEF PassInv, Away, FetchedInv, PositionInv, ItemInv, UndoInv, PassPoints, LoopPoints,
           UndoPoints

\* A step that ends an operation, or abandons it to skip its block.
LEMMA EndStep ==
    ASSUME Cleared, pc' \in {"idle", "due", "skip"}
    PROVE  PassInv'
  <1>1. \A n \in DOMAIN fetched' : FALSE
    BY DEF Cleared
  <1> QED
    BY <1>1 DEF Cleared, PassInv, FetchedInv, PositionInv, ItemInv, UndoInv, PassPoints, LoopPoints,
           UndoPoints

LEMMA ClearedTypes ==
    ASSUME Cleared
    PROVE  /\ {head', next', from', stop', processed', item', goal'} \subseteq Nat
           /\ wnd' \in Seq(Block) /\ Sound(wnd') /\ last' = NoBlock
           /\ \A n \in DOMAIN fetched' : fetched'[n] \in Block
           /\ orphans' \subseteq Nat /\ rows' \subseteq Obs
           /\ resched' \in BOOLEAN /\ seen' \in {"none", "active", "paused"}
  <1>1. wnd' \in Seq(Block) /\ Sound(wnd')
    BY DEF Cleared, Sound, Linked, Rising, RecordedUpTo
  <1>2. \A n \in DOMAIN fetched' : fetched'[n] \in Block
    BY DEF Cleared
  <1>3. {head', next', from', stop', processed', item', goal'} \subseteq Nat
    BY DEF Cleared
  <1>4. last' = NoBlock
    BY DEF Cleared
  <1>5. orphans' \subseteq Nat /\ rows' \subseteq Obs
    BY DEF Cleared
  <1>6. resched' \in BOOLEAN /\ seen' \in {"none", "active", "paused"}
    BY DEF Cleared
  <1> QED
    BY <1>1, <1>2, <1>3, <1>4, <1>5, <1>6

\* A step that records nothing and is not one of an activation.
Calm ==
    /\ UNCHANGED <<tip, obs>>
    /\ head' \in {head, 0} \cup Heads
    /\ pc' \notin {"applying", "activate", "complete"}
    /\ \A b \in Block : Reached(b)' => Reached(b) \/ Height[b] <= Height[tip]

LEMMA CalmStep ==
    ASSUME Assumptions, TypeOK, BoundaryInv, Calm
    PROVE  BoundaryInv' /\ Kept
  <1>1. tip \in Block /\ Height[tip] \in Nat
    BY Heights DEF TypeOK
  <1>2. head' <= Height[tip]
    BY <1>1, Reads DEF BoundaryInv, Calm
  <1>3. \A b \in Block : Reached(b)' => Height[b] <= Height[tip]
    BY DEF BoundaryInv, Calm
  <1> QED
    BY <1>2, <1>3 DEF BoundaryInv, Calm, Kept

\* The end of an operation reaches nothing new.
Ending ==
    /\ UNCHANGED <<tip, obs>> /\ Cleared /\ pc' \in {"idle", "due", "skip"}
    /\ window' \in {window, wnd}
    /\ pendingTip' \in {pendingTip, PendingTipRead, NoBlock}
    /\ cursor' \in {cursor, pendingTip, PendingTipRead, last}

LEMMA EndingStep ==
    ASSUME Assumptions, TypeOK, BoundaryInv, Ending
    PROVE  BoundaryInv'
  <1>1. NoBlock \notin Block /\ wnd' = <<>> /\ last' = NoBlock /\ head' = 0
    BY DEF Assumptions, BlockAssumption, Ending, Cleared
  <1>2. \A b \in Block : b = PendingTipRead => Reached(b)
    BY TipInBlock DEF PendingTipRead, Reached, TypeOK
  <1>3. ASSUME NEW b \in Block, Reached(b)'
        PROVE  Reached(b)
    <2>1. b \in {cursor', pendingTip'} \/ b \in HeldIn(window')
      BY <1>1, <1>3 DEF Reached, HeldIn
    <2>2. CASE b \in {cursor', pendingTip'}
      BY <1>1, <1>2, <2>2 DEF Ending, Reached
    <2>3. CASE b \in HeldIn(window')
      BY <2>3 DEF Ending, Reached
    <2> QED
      BY <2>1, <2>2, <2>3
  <1>4. Calm
    BY <1>1, <1>3 DEF Calm, Ending
  <1> QED
    BY <1>4, CalmStep

\* A step outside the operation in progress.
Beside ==
    /\ UNCHANGED <<cursor, obs, window, pc, registers>>
    /\ pendingTip' \in {pendingTip, NoBlock}
    /\ Height[tip] <= Height[tip']
    /\ sub = "pending" => sub' = "pending"

LEMMA BesideStep ==
    ASSUME Assumptions, IInv, Beside, tip' \in Block
    PROVE  WindowInv' /\ PassInv' /\ BoundaryInv'
  <1> USE DEF registers, plan, held, undo, redo
  <1>1. WindowInv'
    BY WindowStep DEF IInv, WindowInv, Beside, Kept
  <1>2. PassInv'
    BY DEF IInv, PassInv, FetchedInv, PositionInv, ItemInv, UndoInv, PassPoints, LoopPoints,
           UndoPoints,
           PrefetchEnd, LoopGoesOn, Verdict, Candidate, ThisObs, ClassifyChain,
           Ancestor, FindAncestor, HeldIn, Tip, Beside
  <1>3. BoundaryInv'
    <2>1. Height[tip] \in Nat /\ Height[tip'] \in Nat /\ head \in Nat
      BY Heights DEF IInv, TypeOK
    <2>2. \A o \in Obs : Height[o[1]] \in Nat
      BY ObsParts, Heights
    <2>3. \A b \in Block : (Reached(b)' => Reached(b)) /\ Height[b] \in Nat
      BY Heights DEF Reached, HeldIn, Beside, Assumptions, BlockAssumption
    <2>4. Position' = Position
      BY DEF Position, Tip, Beside
    <2> QED
      BY <2>1, <2>2, <2>3, <2>4 DEF IInv, BoundaryInv, Beside
  <1> QED
    BY <1>1, <1>2, <1>3

-----------------------------------------------------------------------------
(* The candidate of the loop.                                              *)

LEMMA CandidateStep ==
    ASSUME Assumptions, IInv, pc \in PassPoints, LoopGoesOn
    PROVE  /\ next \in DOMAIN fetched
           /\ Candidate \in Block /\ Height[Candidate] = next
           /\ next <= head /\ next <= Height[tip]
  <1>1. /\ next \in Nat /\ processed \in Nat /\ stop \in Nat /\ head \in Nat
        /\ tip \in Block /\ next <= head /\ processed < MaxBlocksPerPass
        /\ MaxBlocksPerPass \in Nat
    BY DEF IInv, TypeOK, LoopGoesOn, Assumptions, ScannerAssumption
  <1>2. /\ processed < next
        /\ DOMAIN fetched = (next - processed)..stop
        /\ stop = PrefetchEnd(next - processed)
    BY DEF IInv, PassInv, FetchedInv
  <1>3. next \in DOMAIN fetched
    BY <1>1, <1>2 DEF PrefetchEnd
  <1>4. Height[tip] \in Nat /\ head <= Height[tip]
    BY <1>1, Heights DEF IInv, BoundaryInv
  <1> QED
    BY <1>1, <1>3, <1>4 DEF IInv, PassInv, FetchedInv, Candidate

\* On a well-formed chain the parent of the candidate is the tip of the window or
\* not in the window at all.
LEMMA NoReorg ==
    ASSUME Assumptions, WellFormed, IInv, pc \in LoopPoints, LoopGoesOn
    PROVE  Verdict # "reorg"
  <1> SUFFICES ASSUME Verdict = "reorg" PROVE FALSE
    OBVIOUS
  <1> DEFINE p == Parent[Candidate]
  <1>1. Candidate \in Block /\ Height[Candidate] = next
    BY CandidateStep DEF PassPoints
  <1>2. last # NoBlock /\ last # p /\ p \in HeldIn(wnd)
    BY DEF Verdict, ClassifyChain, FindAncestor
  <1>3. Increasing
    BY WellFormedRises DEF Assumptions
  <1>4. /\ last \in Block /\ next = Height[last] + 1 /\ (wnd # <<>> => last = Tip(wnd))
        /\ wnd \in Seq(Block) /\ Rising(wnd)
    BY <1>3 DEF IInv, PassInv, PositionInv, WindowInv, Sound
  <1>5. PICK i \in DOMAIN wnd : p = wnd[i]
    BY <1>2 DEF HeldIn
  <1>6. i \in 1..Len(wnd) /\ Len(wnd) \in Nat /\ p \in Block /\ wnd # <<>>
    BY <1>4, <1>5
  <1>7. p # NoBlock
    BY <1>6 DEF Assumptions, BlockAssumption
  <1>8. Height[Candidate] = Height[p] + 1
    BY <1>1, <1>7 DEF WellFormed
  <1>9. Height[p] \in Nat /\ Height[last] \in Nat
    BY <1>4, <1>6, Heights
  <1> HIDE DEF p
  <1>10. Height[p] = Height[last]
    BY <1>1, <1>4, <1>8, <1>9
  <1>11. last = wnd[Len(wnd)]
    BY <1>4, <1>6 DEF Tip
  <1>12. i < Len(wnd) => Height[p] < Height[last]
    BY <1>4, <1>5, <1>6, <1>11 DEF Rising
  <1> QED
    BY <1>2, <1>5, <1>6, <1>9, <1>10, <1>11, <1>12

\* The block after its last observation is accepted, and the invariant survives.
LEMMA AcceptStep ==
    ASSUME Assumptions, IInv, pc \in LoopPoints, LoopGoesOn, Verdict = "ok",
           \A o \in Obs : o[1] = Candidate => obs[o] # "absent",
           AcceptCandidate, UNCHANGED <<tip, cursor, obs, sub, window, head, stop, fetched>>
    PROVE  /\ WindowInv' /\ PassInv' /\ BoundaryInv'
           /\ pendingTip' \in Block /\ last' \in Block /\ wnd' \in Seq(Block)
           /\ failures' = NoCount
           /\ next' \in Nat /\ processed' \in Nat /\ item' = 0 /\ pc' = "flush"
  <1>1. /\ next \in DOMAIN fetched /\ Candidate \in Block
        /\ Height[Candidate] = next /\ next <= head
    BY CandidateStep DEF PassPoints
  <1>2. /\ wnd' = PushWindow(wnd, Candidate)
        /\ last' = Candidate /\ pendingTip' = Candidate /\ failures' = NoCount
        /\ next' = next + 1 /\ processed' = processed + 1
        /\ item' = 0 /\ pc' = "flush"
    BY DEF AcceptCandidate
  <1>3. last \in Block /\ (Increasing /\ wnd # <<>> => last = Tip(wnd))
    BY DEF IInv, PassInv, PositionInv
  <1>4. last = Parent[Candidate]
    BY <1>3 DEF Verdict, ClassifyChain, Assumptions, BlockAssumption
  <1>5. /\ Sound(PushWindow(wnd, Candidate)) /\ Tip(PushWindow(wnd, Candidate)) = Candidate
        /\ HeldIn(PushWindow(wnd, Candidate)) \subseteq HeldIn(wnd) \cup {Candidate}
    BY <1>1, <1>3, <1>4, PushSound DEF IInv, WindowInv, Assumptions
  <1>6. /\ Sound(wnd') /\ Tip(wnd') = Candidate
        /\ HeldIn(wnd') \subseteq HeldIn(wnd) \cup {Candidate}
    BY <1>2, <1>5
  <1>7. WindowInv'
    BY <1>6, WindowStep DEF IInv, WindowInv, Kept
  <1>8. /\ next \in Nat /\ processed \in Nat /\ processed < next
        /\ DOMAIN fetched = (next - processed)..stop
        /\ stop = PrefetchEnd(next - processed)
        /\ \A n \in DOMAIN fetched : fetched[n] \in Block /\ Height[fetched[n]] = n
    BY DEF IInv, TypeOK, PassInv, FetchedInv, PassPoints
  <1>9. next' - processed' = next - processed /\ processed' < next'
    BY <1>2, <1>8
  <1>10. stop' = PrefetchEnd(next - processed)'
    BY <1>8, <1>9 DEF PrefetchEnd
  <1>11. FetchedInv'
    <2>1. \A n \in DOMAIN fetched' : fetched'[n] \in Block /\ Height[fetched'[n]] = n
      BY <1>8
    <2>2. DOMAIN fetched' = (next' - processed')..stop'
      BY <1>8, <1>9
    <2> QED
      BY <1>2, <1>9, <1>10, <2>1, <2>2 DEF FetchedInv, PassPoints, UndoPoints
  <1>12. PositionInv'
    BY <1>1, <1>2, <1>6 DEF PositionInv, Tip
  <1>13. ItemInv' /\ UndoInv'
    BY <1>2 DEF ItemInv, UndoInv, UndoPoints
  <1>14. BoundaryInv'
    <2>1. Height[Candidate] <= Height[tip]
      BY CandidateStep DEF PassPoints
    <2>2. \A b \in Block : Reached(b)' => Reached(b) \/ b = Candidate
      BY <1>2, <1>6 DEF Reached, HeldIn
    <2> QED
      BY <1>1, <1>2, <2>1, <2>2, CalmStep DEF Calm, IInv
  <1>15. wnd' \in Seq(Block)
    BY <1>6 DEF Sound
  <1> QED
    BY <1>1, <1>2, <1>7, <1>8, <1>11, <1>12, <1>13, <1>14, <1>15 DEF PassInv

LEMMA NextItemInv ==
    ASSUME Assumptions, IInv, pc \in LoopPoints, LoopGoesOn, Verdict = "ok",
           item \in 0..Items[Candidate],
           \A j \in 1..item : obs[<<Candidate, j>>] # "absent",
           NextItem, UNCHANGED <<tip, cursor, obs, sub, window, head, stop, fetched>>
    PROVE  /\ WindowInv' /\ PassInv' /\ BoundaryInv'
           /\ {pendingTip', last'} \subseteq Block \cup {NoBlock}
           /\ wnd' \in Seq(Block) /\ failures' \in [block : Nat, count : Nat]
           /\ {next', processed', item'} \subseteq Nat
           /\ pc' \in {"upsert", "flush"}
  <1>0. Candidate \in Block /\ Items[Candidate] \in Nat
    BY CandidateStep DEF Assumptions, ScannerAssumption, PassPoints
  <1>1. CASE MoreItems
    <2>1. /\ item' = item + 1 /\ pc' = "upsert"
          /\ UNCHANGED <<memory, next, processed, wnd, last>>
      BY <1>1 DEF NextItem
    <2>2. WindowInv'
      BY <2>1, WindowStep DEF IInv, WindowInv, Kept
    <2>3. FetchedInv'
      BY <2>1 DEF IInv, PassInv, FetchedInv, PassPoints, LoopPoints, PrefetchEnd
    <2>4. PositionInv' /\ UndoInv'
      BY <2>1 DEF IInv, PassInv, PositionInv, LoopPoints, UndoInv, UndoPoints, Tip
    <2>5. Candidate' = Candidate
      BY <2>1 DEF Candidate
    <2>6. item' \in 1..Items[Candidate] /\ item' - 1 = item
      BY <1>0, <1>1, <2>1 DEF MoreItems
    <2>7. LoopGoesOn' /\ Verdict' = "ok"
      BY <2>1 DEF LoopGoesOn, Verdict, Candidate, ClassifyChain, FindAncestor, HeldIn
    <2>8. \A j \in 1..(item' - 1) : obs'[<<Candidate', j>>] # "absent"
      BY <2>5, <2>6
    <2>9. ItemInv'
      BY <2>1, <2>5, <2>6, <2>7, <2>8 DEF ItemInv
    <2>10. BoundaryInv'
      BY <2>1, CalmStep DEF memory, Calm, Reached, HeldIn, MaybeFlushCursor, IInv
    <2> QED
      BY <2>1, <2>2, <2>3, <2>4, <2>6, <2>9, <2>10 DEF PassInv, IInv, TypeOK, memory
  <1>2. CASE ~MoreItems
    <2>1. AcceptCandidate
      BY <1>2 DEF NextItem
    <2>2. item = Items[Candidate]
      BY <1>0, <1>2 DEF MoreItems
    <2>3. \A o \in Obs : o[1] = Candidate => obs[o] # "absent"
      BY <2>2, ObsParts
    <2>4. /\ WindowInv' /\ PassInv' /\ BoundaryInv'
          /\ pendingTip' \in Block /\ last' \in Block /\ wnd' \in Seq(Block)
          /\ failures' = NoCount
          /\ next' \in Nat /\ processed' \in Nat /\ item' = 0 /\ pc' = "flush"
      BY <2>1, <2>3, AcceptStep
    <2> QED
      BY <2>4 DEF NoCount
  <1> QED
    BY <1>1, <1>2

-----------------------------------------------------------------------------
(* The initial states and the steps, group by group.                       *)

LEMMA InitPass == Assumptions /\ Init => IInv
  <1> SUFFICES ASSUME Assumptions, Init PROVE IInv
    OBVIOUS
  <1>1. TypeOK
    <2>1. /\ obs \in [Obs -> {"absent", "observed", "reverted"}]
          /\ matched \in [Obs -> Nat] /\ reverts \in [Obs -> Nat]
      BY DEF Init
    <2>2. /\ window \in Seq(Block) /\ wnd \in Seq(Block)
          /\ \A n \in DOMAIN fetched : fetched[n] \in Block
      BY DEF Init
    <2>3. failures \in [block : Nat, count : Nat]
      BY DEF Init, NoCount
    <2>4. {head, next, from, stop, processed, item, goal} \subseteq Nat
      BY DEF Init
    <2>5. /\ status \in {"pending", "active", "degraded", "paused"}
          /\ cursor \in Block \cup {NoBlock} /\ {alarm, resched} \subseteq BOOLEAN
          /\ others \in BOOLEAN
      BY DEF Init
    <2>6. {moves, faults, ops} \subseteq Nat /\ activeFrom \in Nat /\ unresolvable \in Nat
      BY DEF Init
    <2>7. /\ pc = "idle" /\ sub = "none" /\ seen = "none" /\ orphans = {} /\ rows = {}
          /\ pendingTip = NoBlock /\ last = NoBlock /\ tip \in Block
      BY DEF Init
    <2> QED
      BY <2>1, <2>2, <2>3, <2>4, <2>5, <2>6, <2>7 DEF TypeOK
  <1>2. WindowInv
    BY EmptySound DEF Init, WindowInv
  <1>3. \A n \in DOMAIN fetched : FALSE
    BY DEF Init
  <1>4. PassInv
    BY <1>3 DEF Init, PassInv, FetchedInv, PositionInv, ItemInv, UndoInv, PassPoints, LoopPoints,
           UndoPoints
  <1>5. BoundaryInv
    <2>1. HeldIn(window) = {} /\ HeldIn(wnd) = {}
      BY DEF Init, HeldIn
    <2> QED
      BY <2>1, Heights DEF Init, BoundaryInv, Reached, Assumptions, BlockAssumption
  <1> QED
    BY <1>1, <1>2, <1>4, <1>5 DEF IInv

LEMMA PositionStep ==
    ASSUME Assumptions, IInv
    PROVE  /\ Position \in Block \cup {NoBlock}
           /\ PendingTipRead \in Block \cup {NoBlock}
           /\ window # <<>> => Position = Tip(window)
  BY TipInBlock DEF Position, PendingTipRead, IInv, TypeOK

LEMMA ReadHeadPass ==
    ASSUME Assumptions, IInv, ReadHead
    PROVE  IInv'
  <1> USE DEF d1, subs, storage, memory, held, undo, redo, queues, bounds, ReadHead
  <1>1. TypeOK'
    BY SMTT(30), Reads DEF IInv, TypeOK, Unguarded
  <1>2. WindowInv'
    BY WindowStep DEF IInv, WindowInv, Kept
  <1>3. PassInv'
    BY DEF IInv, PassInv, FetchedInv, PositionInv, ItemInv, UndoInv, PassPoints, LoopPoints,
           UndoPoints
  <1>4. BoundaryInv'
    BY CalmStep DEF IInv, Calm, Reached, HeldIn, MaybeFlushCursor
  <1> QED
    BY <1>1, <1>2, <1>3, <1>4 DEF IInv

LEMMA NothingToScanPass ==
    ASSUME Assumptions, IInv, NothingToScan
    PROVE  IInv'
  <1> USE DEF d1, subs, storage, memory, queues, bounds, NothingToScan,
              ScheduleNext
  <1>1. /\ cursor' \in Block \cup {NoBlock} /\ pendingTip' \in Block \cup {NoBlock}
    BY PositionStep DEF IInv, TypeOK, MaybeFlushCursor
  <1>2. TypeOK'
    BY <1>1, ClearedTypes DEF IInv, TypeOK, Unguarded
  <1>3. WindowInv'
    BY ClearedTypes, WindowStep DEF IInv, WindowInv, Kept
  <1>4. PassInv'
    BY EndStep
  <1>5. BoundaryInv'
    BY EndingStep DEF IInv, Ending, MaybeFlushCursor
  <1> QED
    BY <1>2, <1>3, <1>4, <1>5 DEF IInv

LEMMA AnchorAtHeadPass ==
    ASSUME Assumptions, IInv, AnchorAtHead
    PROVE  IInv'
  <1> USE DEF d1, subs, storage, memory, plan, undo, redo, queues, bounds
  <1>1. PICK b \in BlocksAt(head) :
            pendingTip' = b /\ cursor' = b /\ wnd' = <<b>>
    BY DEF AnchorAtHead
  <1>2. b \in Block /\ Height[b] <= Height[tip]
    BY Reads DEF IInv, TypeOK
  <1>3. TypeOK'
    BY SMTT(30), <1>1, <1>2 DEF AnchorAtHead, IInv, TypeOK, Unguarded
  <1>4. Sound(wnd')
    BY <1>1, <1>2, AnchorSound
  <1>5. WindowInv'
    BY <1>4, WindowStep DEF AnchorAtHead, IInv, WindowInv, Kept
  <1>6. PassInv'
    BY AwayStep DEF AnchorAtHead, Away, IInv, PassInv, ItemInv
  <1>7. BoundaryInv'
    BY <1>1, <1>2, CalmStep DEF AnchorAtHead, IInv, Calm, Reached, HeldIn, MaybeFlushCursor
  <1> QED
    BY <1>3, <1>5, <1>6, <1>7 DEF IInv

LEMMA SaveAnchorPass ==
    ASSUME Assumptions, IInv, SaveAnchor
    PROVE  IInv'
  <1> USE DEF d1, subs, storage, memory, queues, bounds, SaveAnchor,
              ScheduleNext
  <1>1. TypeOK'
    BY ClearedTypes DEF IInv, TypeOK, Unguarded
  <1>2. WindowInv'
    BY ClearedTypes, WindowStep DEF IInv, WindowInv, Kept
  <1>3. PassInv'
    BY EndStep
  <1>4. BoundaryInv'
    BY EndingStep DEF IInv, Ending, MaybeFlushCursor
  <1> QED
    BY <1>1, <1>2, <1>3, <1>4 DEF IInv

LEMMA PlanPassPass ==
    ASSUME Assumptions, IInv, PlanPass
    PROVE  IInv'
  <1> USE DEF d1, subs, storage, memory, undo, redo, queues, bounds, PlanPass
  <1>1. Position \in Block /\ PendingTipRead \in Block \cup {NoBlock}
    BY PositionStep
  <1>2. /\ Height[Position] \in Nat /\ Height[Position] < head /\ head \in Nat
        /\ next' = Height[Position] + 1
        /\ MaxBlocksPerPass \in Nat \ {0}
    BY <1>1, Heights DEF IInv, TypeOK, Assumptions, ScannerAssumption
  <1>3. /\ stop' = PrefetchEnd(next') /\ stop' \in Nat /\ next' \in Nat
        /\ 0 < next' /\ next' <= stop'
        /\ stop' = PrefetchEnd(next)'
    BY <1>2 DEF PrefetchEnd
  <1>4. TypeOK'
    BY <1>1, <1>3 DEF IInv, TypeOK
  <1>5. WindowInv'
    BY WindowStep DEF IInv, WindowInv, Kept
  <1>6. fetched' = <<>> /\ processed' = 0 /\ item' = 0 /\ from' = next'
    BY DEF IInv, PassInv, FetchedInv, ItemInv
  <1>7. FetchedInv'
    <2>1. DOMAIN fetched' = {} /\ next'..(from' - 1) = {}
      BY <1>3, <1>6
    <2> QED
      BY <1>3, <1>6, <2>1 DEF FetchedInv, PassPoints, LoopPoints, UndoPoints
  <1>8. PositionInv'
    BY <1>1, PositionStep DEF PositionInv, Tip
  <1>9. ItemInv' /\ UndoInv'
    BY <1>6 DEF ItemInv, UndoInv, UndoPoints
  <1>10. \A b \in Block : Reached(b)' => Reached(b)
    <2>1. \A b \in Block : b \in {Position, PendingTipRead} => Reached(b)
      BY TipInBlock DEF Reached, Position, PendingTipRead, IInv, TypeOK
    <2> QED
      BY <2>1 DEF Reached
  <1>11. BoundaryInv'
    BY <1>10, CalmStep DEF IInv, Calm
  <1> QED
    BY <1>4, <1>5, <1>7, <1>8, <1>9, <1>11 DEF IInv, PassInv

LEMMA FetchRangePass ==
    ASSUME Assumptions, IInv, FetchRange
    PROVE  IInv'
  <1> USE DEF d1, subs, storage, memory, held, undo, redo, queues, bounds
  <1> DEFINE to == IF from + MaxBlocksPerRange - 1 > stop THEN stop
                   ELSE from + MaxBlocksPerRange - 1
  <1>1. PICK items \in [from..to -> Chain[tip]] :
            /\ NumbersMatch(items, from, to)
            /\ fetched' = [n \in next..to |-> IF n < from THEN fetched[n] ELSE items[n]]
    BY DEF FetchRange
  <1>2. /\ from' = to + 1 /\ pc = "fetch"
        /\ pc' = IF to = stop THEN "loop" ELSE "fetch"
    BY DEF FetchRange
  <1>3. /\ next \in Nat /\ from \in Nat /\ stop \in Nat /\ tip \in Block
        /\ next <= from /\ from <= stop /\ processed = 0 /\ 0 < next
        /\ DOMAIN fetched = next..(from - 1) /\ stop = PrefetchEnd(next)
        /\ \A n \in DOMAIN fetched : fetched[n] \in Block /\ Height[fetched[n]] = n
    BY <1>2 DEF IInv, TypeOK, PassInv, FetchedInv
  <1>4. to \in Nat /\ from <= to /\ to <= stop
    BY SMTT(30), <1>3 DEF Assumptions, ScannerAssumption
  <1> HIDE DEF to
  <1>5. \A n \in from..to : items[n] \in Block /\ Height[items[n]] = n
    BY <1>1, <1>3, Heights DEF NumbersMatch
  <1>6. DOMAIN fetched' = next..to
    BY <1>1
  <1>7. \A n \in DOMAIN fetched' : fetched'[n] \in Block /\ Height[fetched'[n]] = n
    <2>1. ASSUME NEW n \in next..to
          PROVE  fetched'[n] \in Block /\ Height[fetched'[n]] = n
      <3>1. CASE n < from
        BY <1>1, <1>3, <3>1
      <3>2. CASE ~(n < from)
        BY <1>1, <1>3, <1>4, <1>5, <3>2
      <3> QED
        BY <3>1, <3>2
    <2> QED
      BY <1>6, <2>1
  <1>8. UNCHANGED <<tip, d1, storage, memory, head, next, stop, processed,
                    held, undo, redo, queues, bounds>>
    BY DEF FetchRange
  <1>10. TypeOK'
    BY SMTT(30), <1>2, <1>4, <1>7, <1>8 DEF IInv, TypeOK, Unguarded
  <1>11. WindowInv'
    BY <1>8, WindowStep DEF IInv, WindowInv, Kept
  <1>12. FetchedInv'
    <2>1. CASE to = stop
      BY <1>2, <1>3, <1>6, <1>7, <1>8, <2>1 DEF FetchedInv, PassPoints, LoopPoints, UndoPoints, PrefetchEnd
    <2>2. CASE to # stop
      BY <1>2, <1>3, <1>4, <1>6, <1>7, <1>8, <2>2 DEF FetchedInv, PassPoints, LoopPoints, UndoPoints, PrefetchEnd
    <2> QED
      BY <2>1, <2>2
  <1>13. PositionInv'
    BY <1>2, <1>8 DEF IInv, PassInv, PositionInv, Tip
  <1>14. ItemInv' /\ UndoInv'
    BY <1>2, <1>8 DEF IInv, PassInv, ItemInv, UndoInv, UndoPoints
  <1>15. BoundaryInv'
    BY <1>2, <1>8, CalmStep DEF IInv, Calm, Reached, HeldIn, MaybeFlushCursor
  <1> QED
    BY <1>10, <1>11, <1>12, <1>13, <1>14, <1>15 DEF IInv, PassInv

LEMMA ReadReceiptsPass ==
    ASSUME Assumptions, IInv, ReadReceipts
    PROVE  IInv'
  <1> USE DEF d1, subs, storage, memory, undo, redo, queues, bounds
  <1>1. /\ pc = "loop" /\ LoopGoesOn /\ Verdict = "ok" /\ NextItem
        /\ UNCHANGED <<tip, d1, storage, head, from, stop, fetched, undo, redo,
                       queues, bounds>>
    BY DEF ReadReceipts, InLoop
  <1>2. item = 0 /\ item \in 0..Items[Candidate]
    BY <1>1, CandidateStep
       DEF IInv, PassInv, ItemInv, PassPoints, LoopPoints, Assumptions, ScannerAssumption
  <1>3. /\ WindowInv' /\ PassInv' /\ BoundaryInv'
        /\ {pendingTip', last'} \subseteq Block \cup {NoBlock}
        /\ wnd' \in Seq(Block) /\ failures' \in [block : Nat, count : Nat]
        /\ {next', processed', item'} \subseteq Nat /\ pc' \in {"upsert", "flush"}
    BY <1>1, <1>2, NextItemInv DEF LoopPoints
  <1>4. TypeOK'
    BY SMTT(30), <1>1, <1>3 DEF IInv, TypeOK, Unguarded
  <1> QED
    BY <1>3, <1>4 DEF IInv

\* A row that is created is for the candidate.
LEMMA InsertStep ==
    ASSUME Assumptions, IInv, pc \in {"upsert", "enqueue"},
           obs' = [obs EXCEPT ![ThisObs] = StatusOf(ThisObs)],
           tip' = tip
    PROVE  /\ obs' \in [Obs -> {"absent", "observed", "reverted"}]
           /\ ThisObs \in Obs /\ obs'[ThisObs] # "absent" /\ Kept
           /\ \A o \in Obs : obs'[o] # "absent" => Height[o[1]] <= Height[tip]
  <1>1. /\ Candidate \in Block /\ Height[Candidate] = next /\ next <= Height[tip]
        /\ item \in 1..Items[Candidate]
    BY CandidateStep DEF IInv, PassInv, ItemInv, PassPoints, LoopPoints
  <1>2. ThisObs \in Obs /\ ThisObs[1] = Candidate
    BY <1>1 DEF Obs, ThisObs
  <1>3. obs \in [Obs -> {"absent", "observed", "reverted"}]
    BY DEF IInv, TypeOK
  <1>4. \A o \in Obs : obs[o] # "absent" => Height[o[1]] <= Height[tip]
    BY DEF IInv, BoundaryInv
  <1>5. StatusOf(ThisObs) \in {"observed", "reverted"}
    BY DEF StatusOf
  <1> DEFINE t == ThisObs
  <1> HIDE DEF t
  <1>6. obs' = [obs EXCEPT ![t] = StatusOf(t)] /\ t \in Obs /\ Height[t[1]] <= Height[tip]
        /\ StatusOf(t) \in {"observed", "reverted"}
    BY <1>1, <1>2, <1>5 DEF t
  <1>7. \A o \in Obs : obs'[o] = IF o = t THEN StatusOf(t) ELSE obs[o]
    BY <1>3, <1>6
  <1>8. obs' \in [Obs -> {"absent", "observed", "reverted"}]
    BY <1>3, <1>6
  <1>9. Kept /\ obs'[t] # "absent"
    BY <1>6, <1>7 DEF Kept
  <1>10. \A o \in Obs : obs'[o] # "absent" => Height[o[1]] <= Height[tip]
    BY <1>4, <1>6, <1>7
  <1> QED
    BY <1>6, <1>8, <1>9, <1>10 DEF t

LEMMA UpsertPass ==
    ASSUME Assumptions, IInv, UpsertObservation
    PROVE  IInv'
  <1> USE DEF d1, subs, storage, memory, held, undo, redo, queues, bounds
  <1>1. /\ pc = "upsert"
        /\ UNCHANGED <<tip, cursor, status, subs, storage, head, from, stop,
                       fetched, undo, redo, queues, bounds>>
    BY DEF UpsertObservation
  <1>2. /\ LoopGoesOn /\ Verdict = "ok" /\ item \in 1..Items[Candidate]
        /\ \A j \in 1..(item - 1) : obs[<<Candidate, j>>] # "absent"
    BY <1>1 DEF IInv, PassInv, ItemInv
  <1>3. Candidate \in Block /\ Items[Candidate] \in Nat
    BY <1>1, <1>2, CandidateStep DEF PassPoints, LoopPoints, Assumptions, ScannerAssumption
  <1>4. CASE /\ obs' = [obs EXCEPT ![ThisObs] = StatusOf(ThisObs)]
             /\ pc' = "enqueue"
             /\ UNCHANGED <<memory, next, processed, held>>
    <2>1. /\ obs' \in [Obs -> {"absent", "observed", "reverted"}]
          /\ ThisObs \in Obs /\ obs'[ThisObs] # "absent" /\ Kept
          /\ \A o \in Obs : obs'[o] # "absent" => Height[o[1]] <= Height[tip]
      BY <1>1, <1>4, InsertStep
    <2>2. TypeOK'
      BY <1>1, <1>4, <2>1 DEF IInv, TypeOK, Unguarded
    <2>3. WindowInv'
      BY <1>1, <1>4, <2>1, WindowStep DEF IInv, WindowInv
    <2>4. Candidate' = Candidate /\ ThisObs' = ThisObs
      BY <1>1, <1>4 DEF Candidate, ThisObs
    <2>5. FetchedInv' /\ PositionInv' /\ UndoInv'
      BY <1>1, <1>4 DEF IInv, PassInv, FetchedInv, PositionInv, UndoInv, PassPoints,
                        LoopPoints, UndoPoints, PrefetchEnd, Tip
    <2>6. LoopGoesOn' /\ Verdict' = "ok"
      BY <1>1, <1>2, <1>4
         DEF LoopGoesOn, Verdict, Candidate, ClassifyChain, FindAncestor, HeldIn
    <2>7. \A j \in 1..(item - 1) : obs'[<<Candidate, j>>] # "absent"
      <3>1. ASSUME NEW j \in 1..(item - 1) PROVE obs'[<<Candidate, j>>] # "absent"
        <4>1. <<Candidate, j>> \in Obs
          BY <1>2, <1>3 DEF Obs
        <4> QED
          BY <1>2, <2>1, <4>1 DEF Kept
      <3> QED
        BY <3>1
    <2>8. ItemInv'
      BY <1>2, <1>4, <2>1, <2>4, <2>6, <2>7 DEF ItemInv
    <2>9. BoundaryInv'
      BY <1>1, <1>4, <2>1 DEF IInv, BoundaryInv, Reached, HeldIn
    <2> QED
      BY <2>2, <2>3, <2>5, <2>8, <2>9 DEF IInv, PassInv
  <1>5. CASE ~Inserted /\ UNCHANGED obs /\ NextItem
    <2>1. \A j \in 1..item : obs[<<Candidate, j>>] # "absent"
      BY <1>2, <1>5 DEF Inserted, ThisObs
    <2>2. /\ WindowInv' /\ PassInv' /\ BoundaryInv'
          /\ {pendingTip', last'} \subseteq Block \cup {NoBlock}
          /\ wnd' \in Seq(Block) /\ failures' \in [block : Nat, count : Nat]
          /\ {next', processed', item'} \subseteq Nat /\ pc' \in {"upsert", "flush"}
      BY <1>1, <1>2, <1>3, <1>5, <2>1, NextItemInv DEF LoopPoints
    <2>3. TypeOK'
      BY SMTT(30), <1>1, <1>5, <2>2 DEF IInv, TypeOK, Unguarded
    <2> QED
      BY <2>2, <2>3 DEF IInv
  <1> QED
    BY <1>4, <1>5 DEF UpsertObservation

LEMMA EnqueuePass ==
    ASSUME Assumptions, IInv, EnqueueMatched
    PROVE  IInv'
  <1> USE DEF d1, subs, storage, memory, undo, redo, bounds
  <1>1. /\ pc = "enqueue" /\ NextItem
        /\ matched' = [matched EXCEPT ![ThisObs] = matched[ThisObs] + 1]
        /\ UNCHANGED <<tip, d1, storage, head, from, stop, fetched, undo, redo,
                       reverts, bounds>>
    BY DEF EnqueueMatched
  <1>2. /\ LoopGoesOn /\ Verdict = "ok" /\ item \in 1..Items[Candidate]
        /\ \A j \in 1..(item - 1) : obs[<<Candidate, j>>] # "absent"
        /\ obs[ThisObs] # "absent"
    BY <1>1 DEF IInv, PassInv, ItemInv
  <1>3. \A j \in 1..item : obs[<<Candidate, j>>] # "absent"
    BY <1>2 DEF ThisObs
  <1>4. /\ WindowInv' /\ PassInv' /\ BoundaryInv'
        /\ {pendingTip', last'} \subseteq Block \cup {NoBlock}
        /\ wnd' \in Seq(Block) /\ failures' \in [block : Nat, count : Nat]
        /\ {next', processed', item'} \subseteq Nat /\ pc' \in {"upsert", "flush"}
    BY <1>1, <1>2, <1>3, NextItemInv, CandidateStep
       DEF PassPoints, LoopPoints, Assumptions, ScannerAssumption
  <1>5. matched' \in [Obs -> Nat]
    BY <1>1, OneMore DEF IInv, TypeOK
  <1>6. UNCHANGED <<tip, d1, storage, head, from, stop, fetched, undo, redo, reverts,
                    bounds>>
    BY <1>1
  <1>7. TypeOK'
    <2>1. /\ tip' \in Block /\ cursor' \in Block \cup {NoBlock}
          /\ status' \in {"pending", "active", "degraded", "paused"}
          /\ obs' \in [Obs -> {"absent", "observed", "reverted"}]
          /\ others' \in BOOLEAN /\ sub' \in {"none", "pending", "active"}
          /\ activeFrom' \in Nat /\ window' \in Seq(Block) /\ unresolvable' \in Nat
          /\ {alarm', resched'} \subseteq BOOLEAN
      BY <1>4, <1>6 DEF IInv, TypeOK
    <2>2. /\ {head', from', stop', goal'} \subseteq Nat
          /\ \A n \in DOMAIN fetched' : fetched'[n] \in Block
          /\ orphans' \subseteq Nat /\ rows' \subseteq Obs
          /\ seen' \in {"none", "active", "paused"}
          /\ reverts' \in [Obs -> Nat] /\ {moves', faults', ops'} \subseteq Nat
      BY <1>6 DEF IInv, TypeOK
    <2> QED
      BY <1>4, <1>5, <2>1, <2>2 DEF TypeOK, Unguarded
  <1> QED
    BY <1>4, <1>7 DEF IInv

LEMMA FlushPass ==
    ASSUME Assumptions, IInv, FlushCursor
    PROVE  IInv'
  <1> USE DEF subs, storage, memory, registers, plan, held, undo, redo, queues, bounds,
              FlushCursor
  <1>1. cursor' \in Block \cup {NoBlock}
    BY DEF MaybeFlushCursor, IInv, TypeOK
  <1>2. TypeOK'
    BY <1>1 DEF IInv, TypeOK, Unguarded
  <1>3. WindowInv'
    BY WindowStep DEF IInv, WindowInv, Kept
  <1>4. PassInv'
    BY DEF IInv, PassInv, FetchedInv, PositionInv, ItemInv, UndoInv, PassPoints, LoopPoints,
           UndoPoints,
           PrefetchEnd, Tip
  <1>5. BoundaryInv'
    BY CalmStep DEF IInv, Calm, Reached, HeldIn, MaybeFlushCursor
  <1> QED
    BY <1>2, <1>3, <1>4, <1>5 DEF IInv

LEMMA SavePassPass ==
    ASSUME Assumptions, IInv, SavePass
    PROVE  IInv'
  <1> USE DEF d1, subs, memory, registers, plan, held, undo, redo, queues, bounds,
              SavePass
  <1>1. TypeOK'
    BY DEF IInv, TypeOK, Unguarded
  <1>2. WindowInv'
    BY WindowStep DEF IInv, WindowInv, Kept
  <1>3. PassInv'
    BY AwayStep DEF Away, IInv, PassInv, ItemInv
  <1>4. BoundaryInv'
    BY CalmStep DEF IInv, Calm, Reached, HeldIn, MaybeFlushCursor
  <1> QED
    BY <1>1, <1>2, <1>3, <1>4 DEF IInv

LEMMA SettlePass ==
    ASSUME Assumptions, IInv, Settle
    PROVE  IInv'
  <1> USE DEF subs, storage, memory, queues, bounds, Settle, ScheduleNext
  <1>1. cursor' \in Block \cup {NoBlock}
    BY DEF MaybeFlushCursor, IInv, TypeOK
  <1>2. TypeOK'
    BY <1>1, ClearedTypes DEF IInv, TypeOK, Unguarded
  <1>3. WindowInv'
    BY ClearedTypes, WindowStep DEF IInv, WindowInv, Kept
  <1>4. PassInv'
    BY EndStep
  <1>5. BoundaryInv'
    BY EndingStep DEF IInv, Ending, MaybeFlushCursor
  <1> QED
    BY <1>2, <1>3, <1>4, <1>5 DEF IInv

LEMMA SchedulePass ==
    ASSUME Assumptions, IInv, Schedule
    PROVE  IInv'
  <1> USE DEF d1, subs, memory, queues, bounds, Schedule, Return
  <1>1. TypeOK'
    BY ClearedTypes DEF IInv, TypeOK
  <1>2. WindowInv'
    BY ClearedTypes, WindowStep DEF IInv, WindowInv, Kept
  <1>3. PassInv'
    BY EndStep
  <1>4. BoundaryInv'
    BY EndingStep DEF IInv, Ending, MaybeFlushCursor
  <1> QED
    BY <1>1, <1>2, <1>3, <1>4 DEF IInv

LEMMA ScanPass ==
    ASSUME Assumptions, IInv, ScanStep
    PROVE  IInv'
  BY ReadHeadPass, NothingToScanPass, AnchorAtHeadPass, SaveAnchorPass, PlanPassPass,
     FetchRangePass, ReadReceiptsPass, UpsertPass, EnqueuePass, FlushPass, SavePassPass,
     SettlePass, SchedulePass
     DEF ScanStep

\* The reorg branch: the marks touch rows only, and the ancestor stays in the window
\* when the orphans are dropped.
LEMMA ReorgPass ==
    ASSUME Assumptions, IInv, ReorgStep
    PROVE  IInv'
  <1> USE DEF d1, subs, storage, memory, plan, redo, queues, bounds
  <1>0. wnd \in Seq(Block) /\ Sound(wnd) /\ item \in Nat
    BY DEF IInv, TypeOK, WindowInv
  <1>1. CASE StartReorg
    <2>1. /\ pc = "loop" /\ LoopGoesOn /\ Verdict = "reorg"
          /\ orphans' = OrphanedHeights(wnd, Ancestor)
          /\ pc' \in {"notify", "mark"}
          /\ UNCHANGED <<tip, d1, storage, memory, plan, held, rows, redo, queues, bounds>>
      BY <1>1 DEF StartReorg, InLoop
    <2>2. orphans' \subseteq Nat
      BY <1>0, <2>1, HeldBlocks, Heights DEF OrphanedHeights
    <2>3. TypeOK'
      BY <2>1, <2>2 DEF IInv, TypeOK, Unguarded, held
    <2>4. WindowInv'
      BY <2>1, WindowStep DEF IInv, WindowInv, Kept, held
    <2>5. ~WellFormed
      BY <2>1, NoReorg DEF LoopPoints
    <2>6. Ancestor \in HeldIn(wnd)
      BY <2>1 DEF Verdict, ClassifyChain, Ancestor, FindAncestor
    <2>7. UNCHANGED <<Ancestor, LoopGoesOn>>
      BY <2>1 DEF Ancestor, Candidate, LoopGoesOn, held
    <2>8. FetchedInv' /\ PositionInv' /\ ItemInv'
      BY <2>1 DEF IInv, PassInv, FetchedInv, PositionInv, ItemInv, PassPoints, LoopPoints,
                  UndoPoints, PrefetchEnd, held
    <2>9. UndoInv'
      BY <2>1, <2>5, <2>6, <2>7 DEF UndoInv, UndoPoints, held
    <2>10. BoundaryInv'
      BY <2>1, CalmStep DEF IInv, Calm, Reached, HeldIn, held
    <2> QED
      BY <2>3, <2>4, <2>8, <2>9, <2>10 DEF IInv, PassInv
  <1>2. CASE MarkReverted
    <2>1. PICK n \in orphans :
            /\ obs' = [o \in Obs |->
                         IF o \in ObservedRows(n) THEN "reverted" ELSE obs[o]]
            /\ rows' = rows \cup ObservedRows(n)
            /\ orphans' = orphans \ {n}
      BY <1>2 DEF MarkReverted, Listed
    <2>2. /\ pc = "mark" /\ pc' \in {"notify", "mark"}
          /\ UNCHANGED <<tip, cursor, status, subs, storage, memory, plan, held, redo,
                         queues, bounds>>
      BY <1>2 DEF MarkReverted
    <2>3. \A o \in Obs : obs'[o] = IF o \in ObservedRows(n) THEN "reverted" ELSE obs[o]
      BY <2>1
    <2>4. ObservedRows(n) \subseteq Obs /\ \A o \in ObservedRows(n) : obs[o] = "observed"
      BY DEF ObservedRows
    <2>5. obs' \in [Obs -> {"absent", "observed", "reverted"}]
      BY <2>1 DEF IInv, TypeOK
    <2>6. rows' \subseteq Obs /\ orphans' \subseteq Nat
      BY <2>1, <2>4 DEF IInv, TypeOK
    <2>7. TypeOK'
      BY <2>2, <2>5, <2>6 DEF IInv, TypeOK, Unguarded, held
    <2>8. \A o \in Obs : obs'[o] # "absent" <=> obs[o] # "absent"
      BY <2>3, <2>4
    <2>9. WindowInv'
      BY <2>2, <2>8, WindowStep DEF IInv, WindowInv, Kept, held
    <2>10. UNCHANGED <<Ancestor, LoopGoesOn>>
      BY <2>2 DEF Ancestor, Candidate, LoopGoesOn, held
    <2>11. FetchedInv' /\ PositionInv' /\ ItemInv'
      BY <2>2 DEF IInv, PassInv, FetchedInv, PositionInv, ItemInv, PassPoints, LoopPoints,
                  UndoPoints, PrefetchEnd, held
    <2>12. UndoInv'
      BY <2>2, <2>10 DEF IInv, PassInv, UndoInv, UndoPoints, held
    <2>13. BoundaryInv'
      BY <2>2, <2>8 DEF IInv, BoundaryInv, Reached, HeldIn, held
    <2> QED
      BY <2>7, <2>9, <2>11, <2>12, <2>13 DEF IInv, PassInv
  <1>3. CASE NotifyReverted
    <2>1. /\ pc = "notify" /\ pc' = "prune" /\ rows' = {}
          /\ reverts' = [o \in Obs |->
                           IF o \in rows THEN reverts[o] + 1 ELSE reverts[o]]
          /\ UNCHANGED <<tip, d1, storage, memory, plan, held, orphans, redo, matched,
                         bounds>>
      BY <1>3 DEF NotifyReverted
    <2>2. reverts' \in [Obs -> Nat]
      BY <2>1 DEF IInv, TypeOK
    <2>3. TypeOK'
      BY <2>1, <2>2 DEF IInv, TypeOK, Unguarded, held
    <2>4. WindowInv'
      BY <2>1, WindowStep DEF IInv, WindowInv, Kept, held
    <2>5. UNCHANGED <<Ancestor, LoopGoesOn>>
      BY <2>1 DEF Ancestor, Candidate, LoopGoesOn, held
    <2>6. FetchedInv' /\ PositionInv' /\ ItemInv'
      BY <2>1 DEF IInv, PassInv, FetchedInv, PositionInv, ItemInv, PassPoints, LoopPoints,
                  UndoPoints, PrefetchEnd, held
    <2>7. UndoInv'
      BY <2>1, <2>5 DEF IInv, PassInv, UndoInv, UndoPoints, held
    <2>8. BoundaryInv'
      BY <2>1, CalmStep DEF IInv, Calm, Reached, HeldIn, held
    <2> QED
      BY <2>3, <2>4, <2>6, <2>7, <2>8 DEF IInv, PassInv
  <1>4. CASE PruneWindow
    <2>1. /\ pc = "prune" /\ pc' = "rewind"
          /\ wnd' = PruneTo(wnd, Ancestor) /\ window' = wnd'
          /\ UNCHANGED <<tip, d1, unresolvable, alarm, memory, plan, last, item, undo, redo,
                         queues, bounds>>
      BY <1>4 DEF PruneWindow
    <2>2. ~WellFormed /\ LoopGoesOn /\ Ancestor \in HeldIn(wnd)
      BY <2>1 DEF IInv, PassInv, UndoInv, UndoPoints
    <2>3. /\ Sound(PruneTo(wnd, Ancestor)) /\ Ancestor \in HeldIn(PruneTo(wnd, Ancestor))
          /\ HeldIn(PruneTo(wnd, Ancestor)) \subseteq HeldIn(wnd)
          /\ Increasing => Tip(PruneTo(wnd, Ancestor)) = Ancestor
      BY <1>0, <2>2, PruneSound DEF Assumptions
    <2>4. /\ Sound(wnd') /\ Sound(window') /\ wnd' \in Seq(Block) /\ window' \in Seq(Block)
          /\ Ancestor \in HeldIn(wnd') /\ HeldIn(wnd') \subseteq HeldIn(wnd)
          /\ Increasing => Tip(wnd') = Ancestor
      BY <2>1, <2>3 DEF Sound
    <2>5. TypeOK'
      BY <2>1, <2>4 DEF IInv, TypeOK, Unguarded, undo
    <2>6. WindowInv'
      BY <2>1, <2>4, WindowStep DEF Kept
    <2>7. Ancestor' = Ancestor
      BY <2>1, <2>2, <2>4 DEF Ancestor, Candidate, FindAncestor
    <2>8. LoopGoesOn' = LoopGoesOn
      BY <2>1 DEF LoopGoesOn
    <2>9. FetchedInv' /\ PositionInv' /\ ItemInv'
      BY <2>1 DEF IInv, PassInv, FetchedInv, PositionInv, ItemInv, PassPoints, LoopPoints,
                  UndoPoints, PrefetchEnd
    <2>10. UndoInv'
      BY <2>1, <2>2, <2>4, <2>7, <2>8 DEF UndoInv
    <2>11. \A b \in Block : Reached(b)' => Reached(b)
      BY <2>1, <2>4 DEF Reached, HeldIn
    <2>12. BoundaryInv'
      BY <2>1, <2>11, CalmStep DEF IInv, Calm
    <2> QED
      BY <2>5, <2>6, <2>9, <2>10, <2>12 DEF IInv, PassInv
  <1>5. CASE RewindCursor
    <2>1. /\ pc = "rewind" /\ pc' = "loop" /\ cursor' = Ancestor /\ last' = Ancestor
          /\ UNCHANGED <<tip, status, obs, subs, storage, memory, plan, wnd, item, undo,
                         redo, queues, bounds>>
      BY <1>5 DEF RewindCursor
    <2>2. /\ ~WellFormed /\ Ancestor \in HeldIn(wnd)
          /\ Increasing => Tip(wnd) = Ancestor
      BY <2>1 DEF IInv, PassInv, UndoInv, UndoPoints
    <2>3. Ancestor \in Block
      BY <1>0, <2>2, HeldBlocks
    <2>4. TypeOK'
      BY <2>1, <2>3 DEF IInv, TypeOK, Unguarded, undo
    <2>5. WindowInv'
      BY <2>1, WindowStep DEF IInv, WindowInv, Kept
    <2>6. FetchedInv'
      BY <2>1 DEF IInv, PassInv, FetchedInv, PassPoints, LoopPoints, UndoPoints, PrefetchEnd
    <2>7. PositionInv'
      BY <2>1, <2>2, <2>3 DEF PositionInv, Tip
    <2>8. ItemInv' /\ UndoInv'
      BY <2>1 DEF IInv, PassInv, ItemInv, UndoInv, UndoPoints
    <2>9. \A b \in Block : Reached(b)' => Reached(b)
      BY <2>1, <2>2 DEF Reached, HeldIn
    <2>10. BoundaryInv'
      BY <2>1, <2>9, CalmStep DEF IInv, Calm
    <2> QED
      BY <2>4, <2>5, <2>6, <2>7, <2>8, <2>10 DEF IInv, PassInv
  <1> QED
    BY <1>1, <1>2, <1>3, <1>4, <1>5 DEF ReorgStep

LEMMA AnchorNat ==
    ASSUME NEW h \in Nat, NEW depth \in Nat
    PROVE  AnchorNumber(h, depth) \in Nat
  BY DEF AnchorNumber

\* The steps that count, give up and re-anchor only move the window to an anchor.
LEMMA RecoveryPass ==
    ASSUME Assumptions, IInv, RecoveryStep
    PROVE  IInv'
  <1> USE DEF d1, subs, storage, memory, queues, bounds
  <1>0. item = 0 \/ pc \in {"upsert", "enqueue"}
    BY DEF IInv, PassInv, ItemInv
  <1>1. CASE CountUnresolvable
    <2> USE <1>1 DEF CountUnresolvable, InLoop, registers, plan, held, undo, redo
    <2>1. TypeOK'
      BY SMTT(30) DEF IInv, TypeOK, Unguarded
    <2>2. WindowInv' /\ PassInv' /\ BoundaryInv'
      BY <1>0, WindowStep, AwayStep, CalmStep DEF Away, IInv, WindowInv, Kept, Calm, Reached, HeldIn, MaybeFlushCursor
    <2> QED
      BY <2>1, <2>2 DEF IInv
  <1>2. CASE Degrade
    <2> USE <1>2 DEF Degrade, ScheduleNext
    <2>1. TypeOK'
      BY ClearedTypes DEF IInv, TypeOK, Unguarded
    <2>2. WindowInv'
      BY ClearedTypes, WindowStep DEF IInv, WindowInv, Kept
    <2>3. PassInv' /\ BoundaryInv'
      BY EndStep, EndingStep DEF IInv, Ending, MaybeFlushCursor
    <2> QED
      BY <2>1, <2>2, <2>3 DEF IInv
  <1>3. CASE GiveUpCounting
    <2> USE <1>3 DEF GiveUpCounting, Recover, plan, held, undo
    <2>1. goal' \in Nat
      <3>1. head \in Nat /\ ReanchorDepth \in Nat
        BY DEF IInv, TypeOK, Assumptions, ScannerAssumption
      <3> QED
        BY <3>1, AnchorNat
    <2>2. TypeOK'
      BY <2>1 DEF IInv, TypeOK
    <2>3. WindowInv' /\ PassInv' /\ BoundaryInv'
      BY <1>0, WindowStep, AwayStep, CalmStep DEF Away, IInv, WindowInv, Kept, Calm, Reached, HeldIn, MaybeFlushCursor
    <2> QED
      BY <2>2, <2>3 DEF IInv
  <1>4. CASE Reanchor
    <2> USE <1>4 DEF plan, undo, redo
    <2>1. PICK b \in BlocksAt(goal) : pendingTip' = b /\ window' = <<b>> /\ last' = b
      BY DEF Reanchor
    <2>2. b \in Block /\ Height[b] <= Height[tip]
      BY Reads DEF IInv, TypeOK
    <2>3. TypeOK'
      BY <2>1, <2>2 DEF Reanchor, IInv, TypeOK, Unguarded
    <2>4. Sound(window')
      BY <2>1, <2>2, AnchorSound
    <2>5. WindowInv'
      BY <2>4, WindowStep DEF Reanchor, IInv, WindowInv, Kept
    <2>6. PassInv' /\ BoundaryInv'
      BY <1>0, <2>1, <2>2, AwayStep, CalmStep DEF Reanchor, Away, IInv, Calm, Reached, HeldIn, MaybeFlushCursor
    <2> QED
      BY <2>3, <2>5, <2>6 DEF IInv
  <1>5. CASE ReanchorFails
    <2> USE <1>5 DEF ReanchorFails, ScheduleNext, Return
    <2>1. alarm' \in BOOLEAN /\ faults' \in Nat
      BY DEF IInv, TypeOK
    <2>2. TypeOK'
      BY <2>1, ClearedTypes DEF IInv, TypeOK, Unguarded
    <2>3. WindowInv'
      BY ClearedTypes, WindowStep DEF IInv, WindowInv, Kept
    <2>4. PassInv' /\ BoundaryInv'
      BY EndStep, EndingStep DEF IInv, Ending, MaybeFlushCursor
    <2> QED
      BY <2>2, <2>3, <2>4 DEF IInv
  <1>6. CASE ReanchorCursor
    <2> USE <1>6 DEF ReanchorCursor, registers, plan, held, undo, redo
    <2>1. TypeOK'
      BY DEF IInv, TypeOK, Unguarded
    <2>2. WindowInv' /\ PassInv' /\ BoundaryInv'
      BY <1>0, WindowStep, AwayStep, CalmStep DEF Away, IInv, WindowInv, Kept, Calm, Reached, HeldIn, MaybeFlushCursor
    <2> QED
      BY <2>1, <2>2 DEF IInv
  <1>7. CASE Reactivate
    <2> USE <1>7 DEF Reactivate, ScheduleNext
    <2>1. TypeOK'
      BY ClearedTypes DEF IInv, TypeOK, Unguarded
    <2>2. WindowInv'
      BY ClearedTypes, WindowStep DEF IInv, WindowInv, Kept
    <2>3. PassInv' /\ BoundaryInv'
      BY EndStep, EndingStep DEF IInv, Ending, MaybeFlushCursor
    <2> QED
      BY <2>1, <2>2, <2>3 DEF IInv
  <1>8. CASE SkipBlock
    <2> USE <1>8 DEF SkipBlock, Recover, plan, held, undo
    <2>1. goal' \in Nat /\ resched' \in BOOLEAN /\ faults' \in Nat
      <3>1. faults \in Nat /\ \A h \in Heads : h \in Nat
        BY Reads DEF IInv, TypeOK
      <3>2. \A h \in Heads \cup {0} : AnchorNumber(h, 0) \in Nat
        BY <3>1, AnchorNat
      <3>3. /\ \E h \in Heads \cup {0} : goal' = AnchorNumber(h, 0)
            /\ resched' = FALSE
        OBVIOUS
      <3>4. faults' \in Nat
        BY <3>1 DEF Fault
      <3> QED
        BY <3>2, <3>3, <3>4
    <2>2. TypeOK'
      BY <2>1 DEF IInv, TypeOK
    <2>3. WindowInv' /\ PassInv' /\ BoundaryInv'
      BY <1>0, WindowStep, AwayStep, CalmStep DEF Away, IInv, WindowInv, Kept, Calm, Reached, HeldIn, MaybeFlushCursor
    <2> QED
      BY <2>2, <2>3 DEF IInv
  <1> QED
    BY <1>1, <1>2, <1>3, <1>4, <1>5, <1>6, <1>7, <1>8 DEF RecoveryStep

\* An activation reads the head while nothing can be recorded.
LEMMA ActivationPass ==
    ASSUME Assumptions, IInv, ActivationStep \/ ApplySubscribe
    PROVE  IInv'
  <1> USE DEF d1, subs, storage, memory, queues, bounds
  <1>0. item = 0 \/ pc \in {"upsert", "enqueue"}
    BY DEF IInv, PassInv, ItemInv
  <1>1. CASE ApplySubscribe
    <2> USE <1>1 DEF ApplySubscribe, Open, plan, held, undo
    <2>1. TypeOK'
      BY DEF IInv, TypeOK, Unguarded
    <2>2. WindowInv' /\ PassInv'
      BY <1>0, WindowStep, AwayStep DEF Away, IInv, WindowInv, Kept
    <2>3. BoundaryInv'
      BY DEF IInv, BoundaryInv, Reached, HeldIn
    <2> QED
      BY <2>1, <2>2, <2>3 DEF IInv
  <1>2. CASE ResolveChain
    <2> USE <1>2 DEF ResolveChain, registers, plan, held, undo, redo
    <2>1. TypeOK'
      BY DEF IInv, TypeOK, BoundaryInv, Unguarded
    <2>2. WindowInv' /\ PassInv'
      BY <1>0, WindowStep, AwayStep DEF Away, IInv, WindowInv, Kept
    <2>3. BoundaryInv'
      BY DEF IInv, BoundaryInv, Reached, HeldIn
    <2> QED
      BY <2>1, <2>2, <2>3 DEF IInv
  <1>3. CASE ReadBoundary
    <2> USE <1>3 DEF undo, redo
    <2>0. tip \in Block /\ Height[tip] \in Nat /\ head' \in Heads
      BY Heights DEF ReadBoundary, IInv, TypeOK
    <2>1. /\ head' \in Nat /\ head' <= Height[tip] /\ Height[tip] <= head' + HeadLag
          /\ last' \in Block \cup {NoBlock}
          /\ last' \in Block => Height[last'] <= Height[tip]
      BY <2>0, Reads DEF ReadBoundary, Assumptions, BlockAssumption
    <2>2. TypeOK'
      BY <2>1 DEF ReadBoundary, IInv, TypeOK, Unguarded
    <2>3. WindowInv' /\ PassInv'
      BY <1>0, WindowStep, AwayStep DEF ReadBoundary, Away, IInv, WindowInv, Kept
    <2>4. Position' = Position /\ \A b \in Block : b = Position => Reached(b)
      BY TipInBlock DEF ReadBoundary, Position, Reached, Tip, IInv, TypeOK
    <2>5. \A b \in Block : Reached(b)' => Reached(b) \/ b = last'
      BY DEF ReadBoundary, Reached, HeldIn
    <2>6. \A n \in Nat : n <= Height[tip] => n <= head' + HeadLag
      BY <2>0, <2>1 DEF Assumptions, ScannerAssumption
    <2>7. \A b \in Block : Reached(b)' => Height[b] <= Height[tip]
      BY <2>1, <2>5 DEF IInv, BoundaryInv
    <2>8. /\ \A o \in Obs : obs[o] # "absent" => Height[o[1]] <= head' + HeadLag
          /\ \A b \in Block : b \in {Position', last'} => Height[b] <= head' + HeadLag
      BY <2>1, <2>4, <2>6, Heights, ObsParts DEF IInv, BoundaryInv
    <2>9. BoundaryInv'
      BY <2>1, <2>7, <2>8 DEF ReadBoundary, IInv, BoundaryInv
    <2> QED
      BY <2>2, <2>3, <2>9 DEF IInv
  <1>4. CASE CompleteActivation
    <2> USE <1>4 DEF CompleteActivation, ScheduleNext
    <2>1. activeFrom' \in Nat /\ cursor' \in Block \cup {NoBlock}
      BY SMTT(30) DEF FirstBlock, IInv, TypeOK
    <2>2. TypeOK'
      BY <2>1, ClearedTypes DEF IInv, TypeOK, Unguarded
    <2>3. WindowInv'
      BY ClearedTypes, WindowStep DEF IInv, WindowInv, Kept
    <2>4. PassInv' /\ BoundaryInv'
      BY EndStep, EndingStep DEF IInv, Ending, MaybeFlushCursor
    <2> QED
      BY <2>2, <2>3, <2>4 DEF IInv
  <1>5. CASE ActivationFails
    <2> USE <1>5 DEF ActivationFails, Return, Fault
    <2>1. faults' \in Nat
      BY DEF IInv, TypeOK
    <2>2. TypeOK'
      BY <2>1, ClearedTypes DEF IInv, TypeOK
    <2>3. WindowInv'
      BY ClearedTypes, WindowStep DEF IInv, WindowInv, Kept
    <2>4. PassInv' /\ BoundaryInv'
      BY EndStep, EndingStep DEF IInv, Ending
    <2> QED
      BY <2>2, <2>3, <2>4 DEF IInv
  <1> QED
    BY <1>1, <1>2, <1>3, <1>4, <1>5 DEF ActivationStep

LEMMA BlockFailurePass ==
    ASSUME Assumptions, IInv, NEW n \in Nat, RegisterBlockFailure(n)
    PROVE  /\ Cleared /\ pc' \in {"due", "skip"}
           /\ failures' \in [block : Nat, count : Nat]
  <1> DEFINE c == IF failures.block = n THEN failures.count + 1 ELSE 1
  <1>1. c \in Nat
    BY DEF IInv, TypeOK
  <1>2. Cleared /\ pc' \in {"due", "skip"}
    BY DEF RegisterBlockFailure, ScheduleNext
  <1>3. failures' \in {failures, NoCount, [block |-> n, count |-> c]}
    BY DEF RegisterBlockFailure
  <1> QED
    BY SMTT(30), <1>1, <1>2, <1>3 DEF NoCount, IInv, TypeOK

LEMMA FailurePass ==
    ASSUME Assumptions, IInv, RpcFails \/ BlockFails
    PROVE  IInv'
  <1> USE DEF d1, subs, storage, memory, queues, bounds, Fault
  <1>1. CASE RpcFails
    <2> USE <1>1 DEF RpcFails, ScheduleNext
    <2>1. faults' \in Nat
      BY DEF IInv, TypeOK
    <2>2. TypeOK'
      BY <2>1, ClearedTypes DEF IInv, TypeOK, Unguarded
    <2>3. WindowInv'
      BY ClearedTypes, WindowStep DEF IInv, WindowInv, Kept
    <2>4. PassInv' /\ BoundaryInv'
      BY EndStep, EndingStep DEF IInv, Ending, MaybeFlushCursor
    <2> QED
      BY <2>2, <2>3, <2>4 DEF IInv
  <1>2. CASE BlockFails
    <2>1. UNCHANGED <<tip, cursor, status, subs, storage, pendingTip,
                      reverts, moves, ops>>
      BY <1>2 DEF BlockFails
    <2>2. faults' \in Nat
      BY <1>2 DEF BlockFails, IInv, TypeOK
    <2>3. RegisterBlockFailure(from) \/ RegisterBlockFailure(next)
      BY <1>2 DEF BlockFails
    <2>4. /\ Cleared /\ pc' \in {"due", "skip"}
          /\ failures' \in [block : Nat, count : Nat]
      BY <2>3, BlockFailurePass DEF IInv, TypeOK
    <2>5. matched' \in [Obs -> Nat]
      <3>1. matched' = matched \/ matched' = [matched EXCEPT ![ThisObs] = matched[ThisObs] + 1]
        BY <1>2 DEF BlockFails
      <3> DEFINE t == ThisObs
      <3> HIDE DEF t
      <3>2. matched' = matched \/ matched' = [matched EXCEPT ![t] = matched[t] + 1]
        BY <3>1 DEF t
      <3>3. matched \in [Obs -> Nat]
        BY DEF IInv, TypeOK
      <3> QED
        BY <3>2, <3>3, OneMore
    <2>6. /\ obs' \in [Obs -> {"absent", "observed", "reverted"}]
          /\ \A o \in Obs : obs'[o] # "absent" => Height[o[1]] <= Height[tip]
          /\ Kept
      <3>1. CASE obs' = obs
        BY <3>1 DEF IInv, TypeOK, BoundaryInv, Kept
      <3>2. CASE /\ obs' = [obs EXCEPT ![ThisObs] = StatusOf(ThisObs)]
                 /\ pc = "upsert"
        BY <2>1, <3>2, InsertStep
      <3> QED
        BY <1>2, <3>1, <3>2 DEF BlockFails
    <2>7. TypeOK'
      <3>1. /\ tip' \in Block /\ cursor' \in Block \cup {NoBlock}
            /\ status' \in {"pending", "active", "degraded", "paused"}
            /\ others' \in BOOLEAN /\ sub' \in {"none", "pending", "active"}
            /\ activeFrom' \in Nat /\ window' \in Seq(Block) /\ unresolvable' \in Nat
            /\ alarm' \in BOOLEAN /\ pendingTip' \in Block \cup {NoBlock} /\ reverts' \in [Obs -> Nat]
            /\ {moves', ops'} \subseteq Nat
        BY <2>1 DEF IInv, TypeOK
      <3>2. obs' \in [Obs -> {"absent", "observed", "reverted"}]
        BY <2>6
      <3>3. /\ {head', next', from', stop', processed', item', goal'} \subseteq Nat
            /\ wnd' \in Seq(Block) /\ last' = NoBlock
            /\ \A n \in DOMAIN fetched' : fetched'[n] \in Block
            /\ orphans' \subseteq Nat /\ rows' \subseteq Obs
            /\ resched' \in BOOLEAN /\ seen' \in {"none", "active", "paused"}
        BY <2>4, ClearedTypes
      <3> QED
        BY <2>2, <2>4, <2>5, <3>1, <3>2, <3>3 DEF TypeOK, Unguarded
    <2>8. WindowInv'
      BY <2>1, <2>4, <2>6, ClearedTypes, WindowStep DEF IInv, WindowInv
    <2>9. PassInv'
      BY <2>4, EndStep
    <2>10. BoundaryInv'
      <3>1. tip \in Block /\ head' = 0 /\ last' = NoBlock /\ wnd' = <<>>
        BY <2>4 DEF Cleared, IInv, TypeOK
      <3>2. NoBlock \notin Block /\ Height[tip] \in Nat
        BY <3>1, Heights DEF Assumptions, BlockAssumption
      <3>3. \A b \in Block : Reached(b)' => Reached(b)
        BY <2>1, <3>1, <3>2 DEF Reached, HeldIn
      <3> QED
        BY <2>1, <2>4, <2>6, <3>1, <3>2, <3>3 DEF BoundaryInv, IInv
    <2> QED
      BY <2>7, <2>8, <2>9, <2>10 DEF IInv
  <1> QED
    BY <1>1, <1>2

LEMMA EnvironmentPass ==
    ASSUME Assumptions, IInv, Environment
    PROVE  IInv'
  <1> USE DEF d1, subs, storage, memory, queues, bounds, Fault
  <1>0. Height[tip] \in Nat
    BY Heights DEF IInv, TypeOK
  <1>1. CASE ChainMoves
    <2> USE <1>1 DEF ChainMoves
    <2>1. tip' \in Block /\ Height[tip] <= Height[tip']
      BY <1>0, Heights
    <2>2. TypeOK'
      BY SMTT(30), <2>1 DEF IInv, TypeOK, registers, plan, held, undo, redo
    <2> QED
      BY <2>1, <2>2, BesideStep DEF Beside, IInv
  <1>2. CASE Subscribe \/ OthersLeave \/ Pause \/ Resume \/ Wake \/ Hibernate
    <2>1. /\ UNCHANGED <<tip, cursor, obs, window, pc, registers>>
          /\ pendingTip' \in {pendingTip, NoBlock}
          /\ sub = "pending" => sub' = "pending"
      BY <1>2 DEF Subscribe, OthersLeave, Pause, Resume, Wake, Hibernate
    <2>2. ASSUME Subscribe \/ OthersLeave PROVE TypeOK'
      BY <2>2 DEF Subscribe, OthersLeave, IInv, TypeOK, registers, plan, held, undo, redo
    <2>3. ASSUME Pause \/ Resume PROVE TypeOK'
      <3>1. /\ ops' \in {ops, ops + 1} /\ status' \in {"active", "paused"}
            /\ UNCHANGED <<tip, cursor, obs, subs, storage, memory, pc, registers,
                           queues, moves, faults>>
        BY <2>3 DEF Pause, Resume
      <3>2. ops \in Nat
        BY DEF IInv, TypeOK
      <3> QED
        BY SMTT(30), <3>1, <3>2 DEF IInv, TypeOK, registers, plan, held, undo, redo
    <2>4. ASSUME Wake PROVE TypeOK'
      BY <2>4 DEF Wake, IInv, TypeOK, registers, plan, held, undo, redo
    <2>5. ASSUME Hibernate PROVE TypeOK'
      BY SMTT(30), <2>5 DEF Hibernate, NoCount, IInv, TypeOK, registers, plan, held, undo, redo
    <2>6. TypeOK'
      BY <1>2, <2>2, <2>3, <2>4, <2>5
    <2>7. tip' \in Block /\ Height[tip] <= Height[tip']
      BY <1>0, <2>1 DEF IInv, TypeOK
    <2> QED
      BY <2>1, <2>6, <2>7, BesideStep DEF Beside, IInv
  <1>3. CASE Interrupt
    <2> USE <1>3 DEF Interrupt, Return
    <2>1. /\ faults' \in Nat /\ alarm' \in BOOLEAN
          /\ pendingTip' \in Block \cup {NoBlock} /\ failures' \in [block : Nat, count : Nat]
      <3>0. faults \in Nat /\ alarm \in BOOLEAN
        BY DEF IInv, TypeOK
      <3>a. faults' \in Nat
        BY <3>0
      <3>b. alarm' \in BOOLEAN
        BY <3>0
      <3>1. faults' \in Nat /\ alarm' \in BOOLEAN
        BY <3>a, <3>b
      <3>2. \/ UNCHANGED <<pendingTip, failures>>
            \/ pendingTip' = NoBlock /\ failures' = NoCount
        OBVIOUS
      <3>3. NoCount \in [block : Nat, count : Nat]
        BY DEF NoCount
      <3> QED
        BY <3>1, <3>2, <3>3 DEF IInv, TypeOK
    <2>2. TypeOK'
      BY <2>1, ClearedTypes DEF IInv, TypeOK
    <2>3. WindowInv'
      BY ClearedTypes, WindowStep DEF IInv, WindowInv, Kept
    <2>4. PassInv' /\ BoundaryInv'
      BY EndStep, EndingStep DEF IInv, Ending, MaybeFlushCursor
    <2> QED
      BY <2>2, <2>3, <2>4 DEF IInv
  <1> QED
    BY <1>1, <1>2, <1>3 DEF Environment

LEMMA NextPass ==
    ASSUME Assumptions
    PROVE  IInv /\ [Next]_vars => IInv'
  <1> SUFFICES ASSUME IInv, [Next]_vars PROVE IInv'
    OBVIOUS
  <1> USE DEF d1, subs, storage, memory, queues, bounds
  <1>1. CASE \E byAlarm \in BOOLEAN : BeginPass(byAlarm)
    <2> USE DEF registers, plan, held, undo, redo
    <2>1. PICK byAlarm \in BOOLEAN : BeginPass(byAlarm)
      BY <1>1
    <2>2. /\ UNCHANGED <<tip, d1, window, unresolvable, memory, registers, queues,
                         moves, faults>>
          /\ pc = "idle" /\ pc' \in {"idle", "head"}
          /\ alarm' \in BOOLEAN /\ ops' \in Nat
      <3>1. /\ UNCHANGED <<tip, d1, window, unresolvable, memory, registers, queues,
                           moves, faults>>
            /\ pc = "idle" /\ pc' \in {"idle", "head"}
            /\ ops' \in {ops, ops + 1} /\ alarm' \in {TRUE, alarm /\ ~byAlarm}
        BY <2>1 DEF BeginPass
      <3>2. ops' \in Nat
        BY <3>1 DEF IInv, TypeOK
      <3>3. alarm' \in BOOLEAN
        BY <3>1 DEF IInv, TypeOK
      <3> QED
        BY <3>1, <3>2, <3>3
    <2>3. TypeOK'
      BY SMTT(30), <2>2 DEF IInv, TypeOK, Unguarded
    <2>4. WindowInv' /\ BoundaryInv'
      BY <2>2, WindowStep, CalmStep DEF IInv, WindowInv, Kept, Calm, Reached, HeldIn, MaybeFlushCursor
    <2>5. PassInv'
      BY <2>2 DEF IInv, PassInv, FetchedInv, PositionInv, ItemInv, UndoInv, PassPoints, LoopPoints,
           UndoPoints
    <2> QED
      BY <2>3, <2>4, <2>5 DEF IInv
  <1>2. CASE OperatorReanchor
    <2> USE <1>2 DEF OperatorReanchor, Recover, plan, held, undo
    <2>1. goal' \in Nat
      <3>1. ReanchorDepth \in Nat /\ \A h \in Heads : h \in Nat
        BY Reads DEF IInv, TypeOK, Assumptions, ScannerAssumption
      <3> QED
        BY <3>1, AnchorNat
    <2>2. TypeOK'
      <3>1. ops' \in Nat
        BY SMTT(30) DEF IInv, TypeOK
      <3>2. {alarm', resched'} \subseteq BOOLEAN
        BY DEF IInv, TypeOK
      <3>3. UNCHANGED <<tip, d1, window, memory, plan, held, undo, seen, queues,
                        moves, faults>>
            /\ unresolvable' = 0 /\ pc' = "recover"
        OBVIOUS
      <3> HIDE <1>2 DEF OperatorReanchor, Recover
      <3> QED
        BY <2>1, <3>1, <3>2, <3>3 DEF IInv, TypeOK
    <2>3. WindowInv' /\ PassInv' /\ BoundaryInv'
      BY WindowStep, AwayStep, CalmStep
         DEF Away, IInv, PassInv, ItemInv, WindowInv, Kept, Calm, Reached, HeldIn, MaybeFlushCursor
    <2> QED
      BY <2>2, <2>3 DEF IInv
  <1>3. CASE ApplySubscribe
    BY <1>3, ActivationPass
  <1>4. CASE Step
    BY <1>4, ScanPass, ReorgPass, RecoveryPass, ActivationPass, FailurePass DEF Step
  <1>5. CASE Environment
    BY <1>5, EnvironmentPass
  <1>6. CASE UNCHANGED vars
    <2> USE <1>6 DEF vars, registers, plan, held, undo, redo
    <2>1. TypeOK'
      BY SMTT(30) DEF IInv, TypeOK
    <2>2. tip' \in Block /\ Height[tip] <= Height[tip']
      BY Heights DEF IInv, TypeOK
    <2> QED
      BY <2>1, <2>2, BesideStep DEF Beside, IInv
  <1> QED
    BY <1>1, <1>2, <1>3, <1>4, <1>5, <1>6 DEF Next

-----------------------------------------------------------------------------
(* The theorems.                                                           *)

LEMMA Invariance == Spec => []IInv
  <1>1. IInv /\ [Next]_vars => IInv'
    BY AssumptionsHold, NextPass
  <1>2. Init => IInv
    BY AssumptionsHold, InitPass
  <1> QED
    BY <1>1, <1>2, PTL DEF Spec

\* Every variable keeps the kind of value the code stores.
THEOREM TypeCorrect == Spec => []TypeOK
  BY Invariance, PTL DEF IInv

\* Where numbers rise along parent links the durable window is a piece of one chain,
\* however reorgs, failures and crashes interleave with the passes.
THEOREM WindowIsLinked ==
    ASSUME Increasing
    PROVE  Spec => []WindowLinked
  <1>1. IInv => WindowLinked
    BY DEF IInv, WindowInv, Sound, WindowLinked
  <1> QED
    BY <1>1, Invariance, PTL

\* No block enters the window before each of its observations has a row.
THEOREM HeldAreRecorded == Spec => []HeldBlocksRecorded
  <1>1. IInv => HeldBlocksRecorded
    BY DEF IInv, WindowInv, Sound, HeldBlocksRecorded
  <1> QED
    BY <1>1, Invariance, PTL

\* The branch that compensates orphaned blocks is dead on every well-formed chain.
THEOREM NeverReorg ==
    ASSUME WellFormed
    PROVE  Spec => []NoReorgVerdict
  <1>1. IInv => NoReorgVerdict
    BY AssumptionsHold, NoReorg DEF NoReorgVerdict, InLoop, LoopPoints
  <1> QED
    BY <1>1, Invariance, PTL

\* The loop's read of a single block is dead on every chain: after a reorg too, since
\* the replay does not rewind the number.
THEOREM LoopNeverReads == Spec => []LoopIsPrefetched
  <1>1. IInv => LoopIsPrefetched
    BY AssumptionsHold, CandidateStep DEF LoopIsPrefetched, InLoop, PassPoints, LoopPoints
  <1> QED
    BY <1>1, Invariance, PTL

\* Where the branch does run, it drops no block with a row still `observed`, on any
\* chain and wherever the operation is interrupted.
THEOREM DroppedAreMarked == Spec => DroppedBlocksMarked
  <1> DEFINE Marked ==
        pc = "prune" /\ pc' = "rewind"
          => \A o \in Obs : o[1] \in HeldIn(wnd) \ HeldIn(window') => obs[o] # "observed"
  <1>1. ASSUME IInv, MarkInv, [Next]_vars PROVE Marked
    <2> SUFFICES ASSUME pc = "prune", pc' = "rewind",
                        NEW o \in Obs, o[1] \in HeldIn(wnd) \ HeldIn(window')
                 PROVE  obs[o] # "observed"
      OBVIOUS
    <2>1. PruneWindow
      BY <1>1 DEF Next, Step, ScanStep, ReorgStep, RecoveryStep, ActivationStep,
           Environment, vars, BeginPass, OperatorReanchor, Recover, ApplySubscribe,
           ReadHead, NothingToScan, AnchorAtHead, SaveAnchor, PlanPass, FetchRange,
           ReadReceipts, UpsertObservation, EnqueueMatched, FlushCursor, SavePass,
           Settle, Schedule, StartReorg, MarkReverted, NotifyReverted, RewindCursor,
           CountUnresolvable, Degrade, GiveUpCounting, Reanchor, ReanchorFails,
           ReanchorCursor, Reactivate, SkipBlock, ResolveChain, ReadBoundary,
           ActivationFails, CompleteActivation, RpcFails, BlockFails,
           ChainMoves, Subscribe, OthersLeave, Pause, Resume, Wake, Hibernate, Interrupt,
           ScheduleNext, Return, InLoop
    <2>2. Sound(wnd) /\ wnd \in Seq(Block) /\ Ancestor \in HeldIn(wnd)
      BY <1>1 DEF IInv, TypeOK, WindowInv, PassInv, UndoInv, UndoPoints
    <2>3. HeldIn(PruneTo(wnd, Ancestor)) = {b \in HeldIn(wnd) : Height[b] <= Height[Ancestor]}
      BY <2>2, AssumptionsHold, PruneSound DEF Assumptions
    <2>4. window' = PruneTo(wnd, Ancestor)
      BY <2>1 DEF PruneWindow
    <2>5. o[1] \in HeldIn(wnd) /\ ~(Height[o[1]] <= Height[Ancestor])
      BY <2>3, <2>4 DEF HeldIn
    <2>6. Height[o[1]] \in Nat /\ Height[Ancestor] \in Nat
      BY <2>2, <2>5, AssumptionsHold, HeldBlocks, Heights
    <2>7. Height[o[1]] > Height[Ancestor]
      <3> DEFINE x == Height[o[1]]
                 y == Height[Ancestor]
      <3>1. ~(x <= y) /\ x \in Nat /\ y \in Nat
        BY <2>5, <2>6
      <3> HIDE DEF x, y
      <3>2. x > y
        BY <3>1
      <3> QED
        BY <3>2 DEF x, y
    <2>8. Height[o[1]] \in OrphanedHeights(wnd, Ancestor)
      BY <2>5, <2>7 DEF OrphanedHeights
    <2>9. ObservedRows(Height[o[1]]) = {}
      BY <1>1, <2>8 DEF MarkInv, Marking
    <2> QED
      BY <2>9 DEF ObservedRows
  <1>2. IInv /\ MarkInv /\ [Next]_vars => [Marked]_vars
    BY <1>1
  <1> QED
    BY <1>2, Invariance, InitMark, NextMark, PTL DEF Spec, DroppedBlocksMarked

\* For every lag of the heads reported: the blocks from its first block on that a
\* subscription misses when it becomes active lie less than the lag above that block.
THEOREM ActivationMissesLag == Spec => ActivationMissesAtMostLag
  <1> DEFINE Complete ==
        sub # "active" /\ sub' = "active"
          => /\ Position' # NoBlock => Height[Position'] < activeFrom' + HeadLag
             /\ \A o \in Obs : obs[o] # "absent" => Height[o[1]] < activeFrom' + HeadLag
  <1>1. ASSUME IInv, [Next]_vars PROVE Complete
    <2> SUFFICES ASSUME sub # "active", sub' = "active"
                 PROVE  /\ Position' # NoBlock => Height[Position'] < activeFrom' + HeadLag
                        /\ \A o \in Obs : obs[o] # "absent" => Height[o[1]] < activeFrom' + HeadLag
      OBVIOUS
    <2>1. CompleteActivation
      BY <1>1 DEF Next, Step, ScanStep, ReorgStep, RecoveryStep, ActivationStep,
           Environment, vars, d1, subs, BeginPass, OperatorReanchor, ApplySubscribe,
           ReadHead, NothingToScan, AnchorAtHead, SaveAnchor, PlanPass, FetchRange,
           ReadReceipts, UpsertObservation, EnqueueMatched, FlushCursor, SavePass,
           Settle, Schedule, StartReorg, MarkReverted, NotifyReverted, PruneWindow, RewindCursor,
           CountUnresolvable, Degrade, GiveUpCounting, Reanchor, ReanchorFails,
           ReanchorCursor, Reactivate, SkipBlock, ResolveChain, ReadBoundary,
           ActivationFails, RpcFails, BlockFails, ChainMoves, Subscribe, OthersLeave,
           Pause, Resume, Wake, Hibernate, Interrupt
    <2>2. sub = "pending" /\ activeFrom' = head + 1
      BY <1>1, <2>1 DEF CompleteActivation, FirstBlock, IInv, BoundaryInv
    <2>3. /\ head \in Nat /\ HeadLag \in Nat
          /\ \A o \in Obs : Height[o[1]] \in Nat
          /\ \A o \in Obs : obs[o] # "absent" => Height[o[1]] <= head + HeadLag
      BY <1>1, <2>1, AssumptionsHold, ScannerAssumption, Heights, ObsParts
         DEF CompleteActivation, IInv, BoundaryInv, TypeOK
    <2>4. Position' \in {Position, last}
      BY <2>1 DEF CompleteActivation, storage, Position, Tip
    <2>5. Position \in Block \cup {NoBlock} /\ last \in Block \cup {NoBlock}
      BY <1>1, AssumptionsHold, PositionStep DEF IInv, TypeOK
    <2>6. \A b \in Block : b \in {Position, last} => Height[b] <= head + HeadLag /\ Height[b] \in Nat
      BY <1>1, <2>1, AssumptionsHold, Heights DEF CompleteActivation, IInv, BoundaryInv
    <2> QED
      BY <2>2, <2>3, <2>4, <2>5, <2>6
  <1>2. IInv /\ [Next]_vars => [Complete]_vars
    BY <1>1
  <1> QED
    BY <1>2, Invariance, PTL DEF Spec, ActivationMissesAtMostLag, MissesLessThan

-----------------------------------------------------------------------------
(* Scheduling.  The alarm that fires is gone until the pass sets another:  *)
(* every way out of a pass must.                                           *)

\* A chain serves a block of every number up to its head.
Dense == \A b \in Block : \A n \in 1..Height[b] : \E c \in Chain[b] : Height[c] = n

\* Where the chain is known to have a block.
Reading == PassPoints \cup {"fetch", "skip"}

\* Without an alarm the operation is one that will set it: the recovery that gives
\* up without (`resched` is false) has a number it can read.
AlarmInv ==
    /\ pc \in Reading => Height[tip] >= 1
    /\ faults = 0 /\ cursor # NoBlock /\ ~alarm
         => /\ pc \notin {"idle", "applying", "activate", "complete"}
            /\ pc = "recover" => resched \/ goal \in 1..Height[tip]

\* The operation will set an alarm.
LEMMA AlarmDue ==
    ASSUME ScheduleNext
    PROVE  AlarmInv'
  BY DEF ScheduleNext, AlarmInv, Reading, PassPoints, LoopPoints, UndoPoints

\* The operation goes on, to a point that will set an alarm.
LEMMA AlarmOn ==
    ASSUME AlarmInv, UNCHANGED tip,
           pc' \in Reading \cup {"idle", "applying", "activate", "complete", "recover"}
             => pc \in Reading /\ pc' \in Reading
    PROVE  AlarmInv'
  BY DEF AlarmInv, Reading, PassPoints, LoopPoints, UndoPoints

\* The operation stands still, or goes on before it has an anchor.
LEMMA AlarmStays ==
    ASSUME IInv, AlarmInv, UNCHANGED <<alarm, cursor, resched, goal>>,
           faults' \in {faults, faults + 1},
           Height[tip'] \in Nat, Height[tip] \in Nat, Height[tip] <= Height[tip'],
           \/ pc' = pc
           \/ /\ pc \in {"idle", "applying", "activate", "complete"}
              /\ pc' \in {"idle", "applying", "activate", "complete"}
    PROVE  AlarmInv'
  <1>1. faults \in Nat /\ goal \in Nat
    BY DEF IInv, TypeOK
  <1>2. pc' \in Reading => pc \in Reading
    BY DEF Reading, PassPoints, LoopPoints, UndoPoints
  <1>3. pc' = "recover" => pc = "recover"
    OBVIOUS
  <1> QED
    BY <1>1, <1>2, <1>3 DEF AlarmInv

LEMMA AlarmScan ==
    ASSUME Assumptions, IInv, AlarmInv, ScanStep
    PROVE  AlarmInv'
  <1> USE DEF Reading, PassPoints, LoopPoints, UndoPoints
  <1>1. CASE NothingToScan \/ SaveAnchor \/ Settle
    BY <1>1, AlarmDue DEF NothingToScan, SaveAnchor, Settle
  <1>7. CASE Schedule
    BY <1>7 DEF Schedule, Return, AlarmInv
  <1>2. CASE ReadHead \/ AnchorAtHead \/ FetchRange \/ FlushCursor \/ SavePass
    BY <1>2, AlarmOn DEF ReadHead, AnchorAtHead, FetchRange, FlushCursor, SavePass
  <1>3. CASE ReadReceipts
    BY <1>3, AlarmOn DEF ReadReceipts, InLoop, NextItem, AcceptCandidate
  <1>4. CASE UpsertObservation
    BY <1>4, AlarmOn DEF UpsertObservation, NextItem, AcceptCandidate
  <1>5. CASE EnqueueMatched
    BY <1>5, AlarmOn DEF EnqueueMatched, NextItem, AcceptCandidate
  <1>6. CASE PlanPass
    <2>1. Position \in Block /\ Height[Position] \in Nat /\ Height[Position] < head
      BY <1>6, PositionStep, Heights DEF PlanPass, IInv, TypeOK
    <2>2. head \in Nat /\ head <= Height[tip] /\ Height[tip] \in Nat
      BY Heights DEF IInv, TypeOK, BoundaryInv
    <2>3. pc' = "fetch" /\ tip' = tip
      BY <1>6 DEF PlanPass
    <2> QED
      BY <2>1, <2>2, <2>3 DEF AlarmInv
  <1> QED
    BY <1>1, <1>2, <1>3, <1>4, <1>5, <1>6, <1>7 DEF ScanStep

LEMMA AlarmRecovery ==
    ASSUME Assumptions, Dense, IInv, AlarmInv, RecoveryStep
    PROVE  AlarmInv'
  <1> USE DEF Reading, PassPoints, LoopPoints, UndoPoints
  <1>0. tip \in Block /\ Height[tip] \in Nat /\ faults \in Nat /\ alarm \in BOOLEAN
    BY Heights DEF IInv, TypeOK
  <1>1. CASE Degrade \/ Reactivate
    BY <1>1, AlarmDue DEF Degrade, Reactivate
  <1>2. CASE CountUnresolvable \/ Reanchor \/ ReanchorCursor
    BY <1>2, AlarmOn DEF CountUnresolvable, InLoop, Reanchor, ReanchorCursor
  <1>3. CASE GiveUpCounting
    BY <1>3 DEF GiveUpCounting, Recover, AlarmInv
  <1>4. CASE ReanchorFails
    <2>1. CASE resched
      BY <1>4, <2>1, AlarmDue DEF ReanchorFails
    <2>2. CASE ~resched
      <3>1. /\ pc = "recover" /\ pc' = "idle" /\ UNCHANGED <<cursor, alarm>>
            /\ (BlocksAt(goal) = {} /\ faults' = faults) \/ faults' = faults + 1
        BY <1>4, <2>2 DEF ReanchorFails, Return, d1, storage
      <3>2. \A n \in 1..Height[tip] : BlocksAt(n) # {}
        BY <1>0 DEF Dense, BlocksAt
      <3>3. faults' = 0 /\ cursor # NoBlock => alarm
        BY <1>0, <2>2, <3>1, <3>2 DEF AlarmInv
      <3> QED
        BY <1>0, <3>1, <3>3 DEF AlarmInv
    <2> QED
      BY <2>1, <2>2
  <1>5. CASE SkipBlock
    <2>1. /\ pc = "skip" /\ pc' = "recover" /\ UNCHANGED <<tip, cursor, alarm>>
          /\ \/ \E h \in Heads : goal' = AnchorNumber(h, 0)
             \/ faults' = faults + 1
      BY <1>5 DEF SkipBlock, Recover, Fault, d1, storage
    <2>2. Height[tip] >= 1
      BY <2>1 DEF AlarmInv
    <2>3. CASE \E h \in Heads : goal' = AnchorNumber(h, 0)
      <3>1. goal' \in 1..Height[tip]
        BY <1>0, <2>2, <2>3, Reads DEF AnchorNumber
      <3> QED
        BY <2>1, <3>1 DEF AlarmInv
    <2>4. CASE faults' = faults + 1
      BY <1>0, <2>1, <2>4 DEF AlarmInv
    <2> QED
      BY <2>1, <2>3, <2>4
  <1> QED
    BY <1>1, <1>2, <1>3, <1>4, <1>5 DEF RecoveryStep

LEMMA AlarmActivation ==
    ASSUME Assumptions, IInv, AlarmInv, ActivationStep \/ ApplySubscribe
    PROVE  AlarmInv'
  <1>0. tip \in Block /\ Height[tip] \in Nat /\ faults \in Nat
    BY Heights DEF IInv, TypeOK
  <1> USE DEF d1, storage, bounds, redo
  <1>1. CASE ApplySubscribe \/ ResolveChain
    BY <1>0, <1>1, AlarmStays DEF ApplySubscribe, ResolveChain, registers
  <1>2. CASE ReadBoundary
    BY <1>0, <1>2, AlarmStays DEF ReadBoundary
  <1>3. CASE CompleteActivation
    BY <1>3, AlarmDue DEF CompleteActivation
  <1>4. CASE ActivationFails
    <2>1. /\ pc = "activate" /\ pc' = "idle" /\ UNCHANGED <<tip, alarm, cursor>>
          /\ faults' = faults + 1 \/ faults' = faults
      BY <1>4 DEF ActivationFails, Fault, Return
    <2> QED
      BY <1>0, <2>1 DEF AlarmInv, Reading, PassPoints, LoopPoints, UndoPoints
  <1> QED
    BY <1>1, <1>2, <1>3, <1>4 DEF ActivationStep

LEMMA AlarmFailures ==
    ASSUME Assumptions, IInv, AlarmInv, RpcFails \/ BlockFails \/ Interrupt
    PROVE  AlarmInv'
  <1>0. tip \in Block /\ Height[tip] \in Nat /\ faults \in Nat
    BY Heights DEF IInv, TypeOK
  <1>1. CASE RpcFails
    BY <1>1, AlarmDue DEF RpcFails
  <1>2. CASE BlockFails
    <2>1. /\ pc \in {"fetch", "loop", "upsert", "enqueue"} /\ tip' = tip
          /\ \E n \in {from, next} : RegisterBlockFailure(n)
      BY <1>2 DEF BlockFails, InLoop
    <2>2. ScheduleNext \/ pc' = "skip"
      BY <2>1 DEF RegisterBlockFailure
    <2> QED
      BY <2>1, <2>2, AlarmDue, AlarmOn DEF Reading, PassPoints, LoopPoints, UndoPoints
  <1>3. CASE Interrupt
    <2>1. /\ pc' = "idle" /\ UNCHANGED <<tip, cursor>>
          /\ faults' = faults + 1 \/ (faults' = faults /\ Position = NoBlock)
      BY <1>3 DEF Interrupt, Return, Fault, d1
    <2>2. Position = NoBlock => cursor = NoBlock
      <3>1. window # <<>> => Tip(window) \in Block
        BY TipInBlock DEF IInv, TypeOK
      <3>2. NoBlock \notin Block
        BY DEF Assumptions, BlockAssumption
      <3> QED
        BY <3>1, <3>2 DEF Position
    <2>3. faults' # 0 \/ cursor' = NoBlock
      BY <1>0, <2>1, <2>2
    <2> QED
      BY <2>1, <2>3 DEF AlarmInv, Reading, PassPoints, LoopPoints, UndoPoints
  <1> QED
    BY <1>1, <1>2, <1>3

LEMMA AlarmOutside ==
    ASSUME Assumptions, IInv, AlarmInv,
           \/ ChainMoves \/ Subscribe \/ OthersLeave \/ Pause \/ Resume \/ Wake \/ Hibernate
           \/ OperatorReanchor \/ \E byAlarm \in BOOLEAN : BeginPass(byAlarm)
           \/ UNCHANGED vars
    PROVE  AlarmInv'
  <1>0. tip \in Block /\ Height[tip] \in Nat /\ faults \in Nat
    BY Heights DEF IInv, TypeOK
  <1> USE DEF d1, subs, storage, bounds, registers, redo
  <1>1. CASE ChainMoves
    <2>1. Height[tip'] \in Nat /\ Height[tip] <= Height[tip']
      BY <1>0, <1>1, Heights DEF ChainMoves
    <2> QED
      BY <1>0, <1>1, <2>1, AlarmStays DEF ChainMoves
  <1>2. CASE Subscribe \/ OthersLeave \/ Pause \/ Resume \/ UNCHANGED vars
    BY <1>0, <1>2, AlarmStays DEF Subscribe, OthersLeave, Pause, Resume, vars
  <1>3. CASE Hibernate
    BY <1>0, <1>3, AlarmStays DEF Hibernate, Fault
  <1>4. CASE Wake
    BY <1>4 DEF Wake, AlarmInv, Reading, PassPoints, LoopPoints, UndoPoints
  <1>5. CASE OperatorReanchor
    BY <1>5 DEF OperatorReanchor, Recover, AlarmInv, Reading, PassPoints, LoopPoints, UndoPoints
  <1>6. CASE \E byAlarm \in BOOLEAN : BeginPass(byAlarm)
    BY <1>6 DEF BeginPass, AlarmInv, Reading, PassPoints, LoopPoints, UndoPoints
  <1> QED
    BY <1>1, <1>2, <1>3, <1>4, <1>5, <1>6

LEMMA AlarmReorg ==
    ASSUME Assumptions, IInv, AlarmInv, ReorgStep
    PROVE  AlarmInv'
  BY AlarmOn DEF ReorgStep, StartReorg, InLoop, MarkReverted, NotifyReverted, PruneWindow,
                 RewindCursor, Reading, PassPoints, LoopPoints, UndoPoints

\* Without failures every way out of a scan pass, of a recovery and of an activation
\* leaves an alarm, on every chain that has a block of each number.
THEOREM AlarmIsKept ==
    ASSUME Dense
    PROVE  Spec => []AlarmSurvives
  <1>1. Init => AlarmInv
    BY DEF Init, AlarmInv, Reading, PassPoints, LoopPoints, UndoPoints
  <1>2. IInv /\ AlarmInv /\ [Next]_vars => AlarmInv'
    BY AssumptionsHold, AlarmScan, AlarmRecovery, AlarmActivation, AlarmFailures, AlarmReorg,
       AlarmOutside DEF Next, Step, Environment
  <1>3. AlarmInv => AlarmSurvives
    BY DEF AlarmInv, AlarmSurvives
  <1> QED
    BY <1>1, <1>2, <1>3, Invariance, PTL DEF Spec
=============================================================================
