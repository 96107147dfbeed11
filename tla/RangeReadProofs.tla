-------------------------- MODULE RangeReadProofs --------------------------
(***************************************************************************)
(* Theorems about the read of a range, for any range, any blocks, any      *)
(* views of the upstreams and any number of attempts.                      *)
(***************************************************************************)
EXTENDS RangeReadProperties, ArrayProofs

-----------------------------------------------------------------------------
(* The items of a batch, put in order by their ids, are the replies.       *)

LEMMA ByRequestIsReply ==
    ASSUME NEW S, NEW ids \in Listings(S), NEW reply
    PROVE  ByRequest(ids, Arrived(ids, reply)) = [r \in S |-> reply[r]]
<1>1. {ids[k] : k \in DOMAIN ids} = S
  BY DEF Listings
<1> DEFINE c(r) == CHOOSE k \in DOMAIN ids : ids[k] = r
<1>2. \A r \in S : c(r) \in DOMAIN ids /\ ids[c(r)] = r
  <2> SUFFICES ASSUME NEW r \in S PROVE c(r) \in DOMAIN ids /\ ids[c(r)] = r
    OBVIOUS
  <2>1. PICK k \in DOMAIN ids : ids[k] = r
    BY <1>1
  <2> QED
    BY <2>1
<1>3. \A r \in S : Arrived(ids, reply)[c(r)] = reply[r]
  BY <1>2 DEF Arrived
<1>4. ByRequest(ids, Arrived(ids, reply)) = [r \in S |-> Arrived(ids, reply)[c(r)]]
  BY <1>1 DEF ByRequest
<1> HIDE DEF c
<1> QED
  BY <1>3, <1>4

\* A listing of a finite set is a sequence of all its members.
LEMMA ListingIsSeq ==
    ASSUME NEW S, IsFiniteSet(S), NEW s \in Listings(S)
    PROVE  /\ s \in Seq(S)
           /\ {s[i] : i \in DOMAIN s} = S
           /\ s # <<>> => 1 \in DOMAIN s
<1>1. Cardinality(S) \in Nat
  BY FS_CardinalityType
<1>2. s \in [1..Cardinality(S) -> S] /\ {s[i] : i \in DOMAIN s} = S
  BY DEF Listings
<1>3. s \in Seq(S) /\ Len(s) = Cardinality(S)
  BY <1>1, <1>2
<1>4. s # <<>> => 1 \in DOMAIN s
  BY <1>1, <1>2, <1>3
<1> QED
  BY <1>2, <1>3, <1>4

\* The logs of a block as read: all its Transfer logs, in any order, where the
\* bloom is positive, and none where it is negative.
AsRead(block, seq) ==
    IF MayContainTrackedTransfer(block.bloom, tracked)
      THEN seq \in Listings(TransferLogs(block))
      ELSE seq = <<>>

\* Whoever is owed a bundle has a key among the drafts: if the bloom says no,
\* no decoded log of the block has a tracked party.
LEMMA PartyHasKey ==
    ASSUME NEW block \in Block, NEW seq, NEW t \in block.txs, NEW a \in tracked,
           AsRead(block, seq), IsParty(block, t, a), ~LeftToSender(block, t, a)
    PROVE  <<t.hash, a>> \in DraftKeys(block, seq, tracked)
<1>1. CASE t.from = a
  BY <1>1 DEF DraftKeys, SenderKeys
<1>2. CASE t.to = a /\ t.value # 0
  <2>1. t.value > 0
    BY <1>2, ActivityAssumption
  <2> QED
    BY <1>2, <2>1 DEF DraftKeys, NativeKeys
<1>3. CASE \E l \in block.logs : /\ Decoded(l) /\ l.tx = t.hash
                                 /\ l.from = a \/ (l.to = a /\ l.from \notin tracked)
  <2>1. PICK l \in block.logs : /\ Decoded(l) /\ l.tx = t.hash
                                /\ l.from = a \/ (l.to = a /\ l.from \notin tracked)
    BY <1>3
  <2>2. l.topic = Transfer /\ l.topics \in {3, 4}
    BY <2>1 DEF Decoded, Kind
  <2>3. Mask[Transfer] \subseteq block.bloom /\ Mask[a] \subseteq block.bloom
    BY <2>1, <2>2, BloomAssumption
  <2>4. {seq[i] : i \in DOMAIN seq} = TransferLogs(block)
    BY <2>3 DEF MayContainTrackedTransfer, AsRead, Listings
  <2>5. PICK i \in DOMAIN seq : seq[i] = l
    BY <2>2, <2>4 DEF TransferLogs
  <2>6. Attaches(block, l, tracked) /\ Holder(l, tracked) = a
    BY <2>1 DEF Attaches, Holder, Hashes
  <2>7. <<t.hash, a>> \in TokenKeys(block, seq, tracked)
    BY <2>1, <2>5, <2>6 DEF TokenKeys
  <2> QED
    BY <2>7 DEF DraftKeys
<1> QED
  BY <1>1, <1>2, <1>3 DEF LeftToSender

\* Every key becomes a bundle of that transaction and address.
LEMMA KeyHasBundle ==
    ASSUME NEW block \in Block, NEW seq, NEW receipts, NEW t \in block.txs, NEW a,
           <<t.hash, a>> \in DraftKeys(block, seq, tracked)
    PROVE  \E o \in FinalizeBundles(block, AnalyzeBlock(block, seq, tracked), receipts) :
              o.block = block /\ o.tx = t.hash /\ o.address = a
<1> DEFINE key == <<t.hash, a>>
           d == Draft(block, seq, tracked, key)
           o == Bundle(block, d, receipts)
<1>1. d \in AnalyzeBlock(block, seq, tracked)
  BY DEF AnalyzeBlock
<1>2. o \in FinalizeBundles(block, AnalyzeBlock(block, seq, tracked), receipts)
  BY <1>1 DEF FinalizeBundles
<1>3. TxByHash(block, t.hash).hash = t.hash
  BY DEF TxByHash
<1>4. d.tx.hash = t.hash /\ d.address = a
  BY <1>3 DEF Draft
<1>5. o.block = block /\ o.tx = t.hash /\ o.address = a
  BY <1>4 DEF Bundle
<1> QED
  BY <1>2, <1>5

LEMMA KeyIsOfBlock ==
    ASSUME NEW block, NEW seq, NEW key \in DraftKeys(block, seq, tracked)
    PROVE  key[1] \in Hashes(block)
BY DEF DraftKeys, SenderKeys, TokenKeys, NativeKeys, Attaches, Hashes

\* Receipts are asked for transactions of the block.
LEMMA DraftIsOfBlock ==
    ASSUME NEW block, NEW seq, NEW d \in AnalyzeBlock(block, seq, tracked)
    PROVE  d.tx.hash \in Hashes(block)
<1>1. PICK key \in DraftKeys(block, seq, tracked) : d = Draft(block, seq, tracked, key)
  BY DEF AnalyzeBlock
<1>2. key[1] \in Hashes(block)
  BY KeyIsOfBlock
<1>3. TxByHash(block, key[1]) \in block.txs
  BY <1>2 DEF TxByHash, Hashes
<1> QED
  BY <1>1, <1>3 DEF Draft, Hashes

-----------------------------------------------------------------------------
(* What a draft tells: its token effects are those of its transfers, each  *)
(* once, and no two of the same log index.                                 *)

\* A listing of a finite set has no member twice.
LEMMA ListingIsInjective ==
    ASSUME NEW S, IsFiniteSet(S), NEW s \in Listings(S)
    PROVE  \A i, j \in DOMAIN s : s[i] = s[j] => i = j
<1> DEFINE I == 1..Cardinality(S)
<1>1. Cardinality(S) \in Nat
  BY FS_CardinalityType
<1>2. IsFiniteSet(I) /\ Cardinality(I) = Cardinality(S)
  BY <1>1, FS_Interval
<1>3. s \in [I -> S] /\ {s[i] : i \in DOMAIN s} = S
  BY DEF Listings
<1> HIDE DEF I
<1>4. \A x \in S : \E i \in I : s[i] = x
  BY <1>3
<1>5. s \in Surjection(I, S)
  BY <1>3, <1>4 DEF Surjection
<1>6. s \in Injection(I, S)
  BY <1>2, <1>5, FS_SurjSameCardinalityImpliesInj
<1> QED
  BY <1>6 DEF Injection, IsInjective

\* The effects tell of the tokens, each once, and of nothing else.
TellOf(effects, tokens) ==
    /\ \E S : effects \in Seq(S)
    /\ Len(effects) = Cardinality(tokens)
    /\ \A l \in tokens : \E k \in 1..Cardinality(tokens) : effects[k] = TokenEffect(l, tracked)
    /\ \A k \in 1..Cardinality(tokens) : \E l \in tokens : effects[k] = TokenEffect(l, tracked)
    /\ \A j, k \in 1..Cardinality(tokens) : j # k => effects[j].logIndex # effects[k].logIndex

\* The positions of the logs of a key are those of its tokens.
LEMMA KeyHasItsLogs ==
    ASSUME NEW block \in Block, NEW seq, AsRead(block, seq),
           NEW t \in block.txs, NEW a \in tracked
    PROVE  LET P == LogsOfKey(block, seq, tracked, <<t.hash, a>>)
               tokens == TokensOf(block, t, a)
           IN  /\ P \subseteq Int /\ IsFiniteSet(P)
               /\ \A i \in P : seq[i] \in tokens
               /\ \A l \in tokens : \E i \in P : seq[i] = l
               /\ \A i, j \in P : seq[i] = seq[j] => i = j
               /\ Cardinality(P) = Cardinality(tokens)
<1> DEFINE P == LogsOfKey(block, seq, tracked, <<t.hash, a>>)
           tokens == TokensOf(block, t, a)
<1>1. IsFiniteSet(TransferLogs(block)) /\ TransferLogs(block) \subseteq block.logs
  BY FS_Subset, ActivityAssumption DEF TransferLogs
<1>2. \A l \in tokens : MayContainTrackedTransfer(block.bloom, tracked) /\ l \in TransferLogs(block)
  <2> SUFFICES ASSUME NEW l \in tokens
               PROVE  MayContainTrackedTransfer(block.bloom, tracked) /\ l \in TransferLogs(block)
    OBVIOUS
  <2>1. l \in block.logs /\ l.topic = Transfer /\ l.topics \in {3, 4} /\ (l.from = a \/ l.to = a)
    BY DEF TokensOf, Decoded, Kind
  <2>2. Mask[Transfer] \subseteq block.bloom /\ Mask[a] \subseteq block.bloom
    BY <2>1, BloomAssumption
  <2> QED
    BY <2>1, <2>2 DEF MayContainTrackedTransfer, TransferLogs
<1>3. /\ DOMAIN seq \subseteq Int /\ IsFiniteSet(DOMAIN seq)
      /\ \A i \in DOMAIN seq : seq[i] \in TransferLogs(block)
      /\ \A i, j \in DOMAIN seq : seq[i] = seq[j] => i = j
  <2>1. CASE MayContainTrackedTransfer(block.bloom, tracked)
    <3>1. seq \in Listings(TransferLogs(block))
      BY <2>1 DEF AsRead
    <3>2. /\ Cardinality(TransferLogs(block)) \in Nat
          /\ DOMAIN seq = 1..Cardinality(TransferLogs(block))
          /\ {seq[i] : i \in DOMAIN seq} = TransferLogs(block)
      BY <1>1, <3>1, FS_CardinalityType DEF Listings
    <3>3. \A i, j \in DOMAIN seq : seq[i] = seq[j] => i = j
      BY <1>1, <3>1, ListingIsInjective
    <3>4. IsFiniteSet(DOMAIN seq)
      BY <3>2, FS_Interval
    <3> QED
      BY <3>2, <3>3, <3>4
  <2>2. CASE ~MayContainTrackedTransfer(block.bloom, tracked)
    <3>1. DOMAIN seq = {}
      BY <2>2 DEF AsRead
    <3> QED
      BY <3>1, FS_EmptySet
  <2> QED
    BY <2>1, <2>2
<1>4. P \subseteq DOMAIN seq
  BY DEF LogsOfKey
<1>5. IsFiniteSet(P)
  BY <1>3, <1>4, FS_Subset
<1>6. \A i \in P : seq[i] \in tokens
  BY <1>1, <1>3 DEF LogsOfKey, Attaches, Holder, TokensOf
<1>7. \A l \in tokens : \E i \in P : seq[i] = l
  <2> SUFFICES ASSUME NEW l \in tokens PROVE \E i \in P : seq[i] = l
    OBVIOUS
  <2>1. PICK i \in DOMAIN seq : seq[i] = l
    <3>1. {seq[i] : i \in DOMAIN seq} = TransferLogs(block) /\ l \in TransferLogs(block)
      BY <1>2 DEF AsRead, Listings
    <3> QED
      BY <3>1
  <2>2. i \in P
    BY <2>1 DEF LogsOfKey, Attaches, Holder, TokensOf, Hashes
  <2> QED
    BY <2>1, <2>2
<1> HIDE DEF P, tokens
<1>8. Cardinality(P) = Cardinality(tokens)
  <2> DEFINE f == [i \in P |-> seq[i]]
  <2>1. f \in [P -> tokens]
    BY <1>6
  <2>2. f \in Injection(P, tokens)
    BY <1>3, <1>4, <2>1 DEF Injection, IsInjective
  <2>3. f \in Surjection(P, tokens)
    BY <1>7, <2>1 DEF Surjection
  <2> HIDE DEF f
  <2>4. ExistsBijection(P, tokens)
    BY <2>2, <2>3 DEF ExistsBijection, Bijection
  <2> QED
    BY <1>5, <2>4, FS_Bijection
<1>9. \A i, j \in P : seq[i] = seq[j] => i = j
  BY <1>3, <1>4
<1>10. P \subseteq Int
  BY <1>3, <1>4
<1> QED
  BY <1>5, <1>6, <1>7, <1>8, <1>9, <1>10 DEF P, tokens

\* The draft's token effects tell of its tokens.
LEMMA DraftTells ==
    ASSUME NEW block \in Block, NEW seq, AsRead(block, seq),
           NEW t \in block.txs, NEW a \in tracked
    PROVE  TellOf(TokenEffects(block, seq, tracked, <<t.hash, a>>), TokensOf(block, t, a))
<1> DEFINE P == LogsOfKey(block, seq, tracked, <<t.hash, a>>)
           tokens == TokensOf(block, t, a)
           mine == Filtered(seq, P)
           effects == TokenEffects(block, seq, tracked, <<t.hash, a>>)
           n == Cardinality(tokens)
<1>1. /\ P \subseteq Int /\ IsFiniteSet(P)
      /\ \A i \in P : seq[i] \in tokens
      /\ \A l \in tokens : \E i \in P : seq[i] = l
      /\ \A i, j \in P : seq[i] = seq[j] => i = j
      /\ Cardinality(P) = n
  BY KeyHasItsLogs
<1>2. effects = [k \in DOMAIN mine |-> TokenEffect(mine[k], tracked)]
  BY DEF TokenEffects
<1>3. \A l, m \in tokens : l.index = m.index => l = m
  BY ActivityAssumption DEF TokensOf
<1>4. n \in Nat
  BY <1>1, FS_CardinalityType
<1> HIDE DEF P, tokens, effects, n
<1>5. \E at : KeepsOrder(mine, seq, P, at)
  BY <1>1, FilterKeepsOrder
<1> HIDE DEF mine
<1>6. PICK at : KeepsOrder(mine, seq, P, at)
  BY <1>5
<1>7. /\ at \in [1..n -> P]
      /\ DOMAIN mine = 1..n
      /\ \A k \in 1..n : mine[k] = seq[at[k]]
      /\ \A i \in P : \E k \in 1..n : at[k] = i
      /\ \A j, k \in 1..n : j < k => at[j] < at[k]
  BY <1>1, <1>6 DEF KeepsOrder
<1>8. DOMAIN effects = 1..n /\ \A k \in 1..n : effects[k] = TokenEffect(seq[at[k]], tracked)
  BY <1>2, <1>7
<1>9. \A k \in 1..n : at[k] \in P /\ seq[at[k]] \in tokens
  BY <1>1, <1>7
<1>10. \A l \in tokens : \E k \in 1..n : effects[k] = TokenEffect(l, tracked)
  BY <1>1, <1>7, <1>8
<1>11. \A j, k \in 1..n : j # k => effects[j].logIndex # effects[k].logIndex
  <2> SUFFICES ASSUME NEW j \in 1..n, NEW k \in 1..n, j # k
               PROVE  effects[j].logIndex # effects[k].logIndex
    OBVIOUS
  <2>1. at[j] # at[k]
    <3>1. at[j] \in Int /\ at[k] \in Int
      BY <1>1, <1>9
    <3>2. j < k \/ k < j
      BY <1>4
    <3>3. at[j] < at[k] \/ at[k] < at[j]
      BY <1>7, <3>2
    <3> QED
      BY <3>1, <3>3
  <2>2. seq[at[j]] # seq[at[k]]
    BY <1>1, <1>9, <2>1
  <2>3. seq[at[j]].index # seq[at[k]].index
    BY <1>3, <1>9, <2>2
  <2> QED
    BY <1>8, <2>3 DEF TokenEffect
<1>12. \E S : effects \in Seq(S) /\ Len(effects) = n
  <2> DEFINE S == {effects[k] : k \in 1..n}
  <2>1. effects \in [1..n -> S]
    BY <1>2, <1>8
  <2> HIDE DEF S
  <2> QED
    BY <1>4, <2>1, FunctionIsSeq
<1> QED
  BY <1>8, <1>9, <1>10, <1>11, <1>12 DEF TellOf, effects, tokens, n

\* A sort changes neither what is told nor how often, and puts it by log index.
LEMMA SortedTells ==
    ASSUME NEW block \in Block, NEW t \in block.txs, NEW a, NEW e,
           TellOf(e, TokensOf(block, t, a))
    PROVE  LET tokens == TokensOf(block, t, a)
               s == Sorted(e, LogIndexes(e))
           IN  /\ TellOf(s, tokens)
               /\ \A j, k \in 1..Cardinality(tokens) : j < k => s[j].logIndex < s[k].logIndex
<1> DEFINE tokens == TokensOf(block, t, a)
           n == Cardinality(tokens)
           key == LogIndexes(e)
           s == Sorted(e, key)
<1>1. \A l \in tokens : l.index \in Nat
  BY ActivityAssumption DEF TokensOf
<1>2. n \in Nat /\ DOMAIN e = 1..n
  BY DEF TellOf
<1>3. /\ \A l \in tokens : \E k \in 1..n : e[k] = TokenEffect(l, tracked)
      /\ \A k \in 1..n : \E l \in tokens : e[k] = TokenEffect(l, tracked)
      /\ \A j, k \in 1..n : j # k => e[j].logIndex # e[k].logIndex
  BY DEF TellOf
<1> HIDE DEF tokens, n
<1>4. \A k \in 1..n : e[k].logIndex \in Int
  <2> SUFFICES ASSUME NEW k \in 1..n PROVE e[k].logIndex \in Int
    OBVIOUS
  <2>1. PICK l \in tokens : e[k] = TokenEffect(l, tracked)
    BY <1>3
  <2>2. e[k].logIndex = l.index
    BY <2>1 DEF TokenEffect
  <2> QED
    BY <1>1, <2>2
<1>5. key \in [1..n -> Int] /\ \A k \in 1..n : key[k] = e[k].logIndex
  BY <1>2, <1>4 DEF LogIndexes
<1> HIDE DEF key
<1>6. \E at : OrdersKeys(s, e, n, key, at)
  BY <1>2, <1>5, SortOrdersKeys
<1> HIDE DEF s
<1>7. PICK at : OrdersKeys(s, e, n, key, at)
  BY <1>6
<1>8. /\ at \in [1..n -> 1..n]
      /\ DOMAIN s = 1..n
      /\ \A k \in 1..n : s[k] = e[at[k]]
      /\ \A i \in 1..n : \E k \in 1..n : at[k] = i
      /\ \A j, k \in 1..n : j < k => at[j] # at[k] /\ key[at[j]] <= key[at[k]]
  BY <1>7 DEF OrdersKeys
<1>9. \A k \in 1..n : at[k] \in 1..n
  BY <1>8
<1>10. \A l \in tokens : \E k \in 1..n : s[k] = TokenEffect(l, tracked)
  <2> SUFFICES ASSUME NEW l \in tokens PROVE \E k \in 1..n : s[k] = TokenEffect(l, tracked)
    OBVIOUS
  <2>1. PICK i \in 1..n : e[i] = TokenEffect(l, tracked)
    BY <1>3
  <2>2. PICK k \in 1..n : at[k] = i
    BY <1>8
  <2> QED
    BY <1>8, <2>1, <2>2
<1>11. \A k \in 1..n : \E l \in tokens : s[k] = TokenEffect(l, tracked)
  <2> SUFFICES ASSUME NEW k \in 1..n PROVE \E l \in tokens : s[k] = TokenEffect(l, tracked)
    OBVIOUS
  <2>1. PICK l \in tokens : e[at[k]] = TokenEffect(l, tracked)
    BY <1>3, <1>9
  <2>2. s[k] = e[at[k]]
    BY <1>8
  <2> QED
    BY <2>1, <2>2
<1>12. \A j, k \in 1..n : j < k => s[j].logIndex < s[k].logIndex
  <2> SUFFICES ASSUME NEW j \in 1..n, NEW k \in 1..n, j < k
               PROVE  s[j].logIndex < s[k].logIndex
    OBVIOUS
  <2>1. at[j] \in 1..n /\ at[k] \in 1..n
    BY <1>9
  <2>2. at[j] # at[k] /\ key[at[j]] <= key[at[k]]
    BY <1>8
  <2>3. key[at[j]] # key[at[k]]
    BY <1>3, <1>5, <2>1, <2>2
  <2>4. key[at[j]] \in Int /\ key[at[k]] \in Int
    BY <1>5, <2>1
  <2>5. key[at[j]] < key[at[k]]
    BY <2>2, <2>3, <2>4
  <2> QED
    BY <1>5, <1>8, <2>1, <2>5
<1>13. \A j, k \in 1..n : j # k => s[j].logIndex # s[k].logIndex
  <2> SUFFICES ASSUME NEW j \in 1..n, NEW k \in 1..n, j # k
               PROVE  s[j].logIndex # s[k].logIndex
    OBVIOUS
  <2>1. at[j] \in 1..n /\ at[k] \in 1..n
    BY <1>9
  <2>2. j < k \/ k < j
    BY <1>2
  <2>3. at[j] # at[k]
    BY <1>8, <2>2
  <2>4. e[at[j]].logIndex # e[at[k]].logIndex
    BY <1>3, <2>1, <2>3
  <2>5. s[j] = e[at[j]] /\ s[k] = e[at[k]]
    BY <1>8
  <2> QED
    BY <2>4, <2>5
<1>14. \E S : s \in Seq(S) /\ Len(s) = n
  <2> DEFINE S == {e[k] : k \in 1..n}
  <2>1. \A k \in 1..n : s[k] \in S
    BY <1>8, <1>9
  <2>2. s = [k \in DOMAIN s |-> s[k]]
    BY DEF s, Sorted
  <2> HIDE DEF S
  <2>3. s \in [1..n -> S]
    BY <1>8, <2>1, <2>2
  <2> QED
    BY <1>2, <2>3, FunctionIsSeq
<1> QED
  BY <1>10, <1>11, <1>12, <1>13, <1>14 DEF TellOf, tokens, n, s, key

\* The native effect goes before the tokens.
LEMMA EffectsInOrder ==
    ASSUME NEW block \in Block, NEW t \in block.txs, NEW a, NEW d,
           TellOf(d.tokenEffects, TokensOf(block, t, a))
    PROVE  LET tokens == TokensOf(block, t, a)
           IN  /\ Len(Ordered(d)) = Cardinality(tokens) + (IF d.native THEN 1 ELSE 0)
               /\ d.native => Ordered(d)[1] = NativeEffect(d)
               /\ \A i, j \in DOMAIN Ordered(d) : i < j =>
                     Ordered(d)[i].logIndex < Ordered(d)[j].logIndex
               /\ \A l \in tokens : \E i \in DOMAIN Ordered(d) :
                     Ordered(d)[i] = TokenEffect(l, tracked)
<1> DEFINE tokens == TokensOf(block, t, a)
           n == Cardinality(tokens)
           e == d.tokenEffects
           s == Sorted(e, LogIndexes(e))
           r == Ordered(d)
           first == NativeEffect(d)
<1>1. /\ TellOf(s, tokens)
      /\ \A j, k \in 1..n : j < k => s[j].logIndex < s[k].logIndex
  BY SortedTells
<1>2. r = (IF d.native THEN <<first>> ELSE <<>>) \o s
  BY DEF Ordered
<1>3. \A l \in tokens : l.index \in Nat
  BY ActivityAssumption DEF TokensOf
<1>4. first.logIndex = -1
  BY DEF NativeEffect
<1> HIDE DEF tokens, n, s, r, first
<1>5. PICK S : s \in Seq(S)
  BY <1>1 DEF TellOf
<1>6. /\ n \in Nat /\ Len(s) = n /\ DOMAIN s = 1..n
      /\ \A l \in tokens : \E k \in 1..n : s[k] = TokenEffect(l, tracked)
      /\ \A k \in 1..n : \E l \in tokens : s[k] = TokenEffect(l, tracked)
  BY <1>1, <1>5 DEF TellOf, n
<1>7. CASE ~d.native
  <2>1. r = s
    BY <1>2, <1>5, <1>7
  <2>2. Len(r) = n + (IF d.native THEN 1 ELSE 0)
    BY <1>6, <1>7, <2>1
  <2>3. \A i, j \in DOMAIN r : i < j => r[i].logIndex < r[j].logIndex
    BY <1>1, <1>6, <2>1
  <2>4. \A l \in tokens : \E i \in DOMAIN r : r[i] = TokenEffect(l, tracked)
    BY <1>6, <2>1
  <2> QED
    BY <1>7, <2>2, <2>3, <2>4 DEF r, tokens, n
<1>8. CASE d.native
  <2>1. r = <<first>> \o s
    BY <1>2, <1>8
  <2>2. /\ Len(r) = n + 1 /\ DOMAIN r = 1..(n + 1)
        /\ r[1] = first
        /\ \A k \in 1..n : k + 1 \in 1..(n + 1) /\ r[k + 1] = s[k]
    <3>1. s \in Seq(S \cup {first}) /\ <<first>> \in Seq(S \cup {first})
      BY <1>5
    <3> QED
      BY <1>6, <2>1, <3>1
  <2>3. \A k \in 1..n : s[k].logIndex \in Nat
    <3> SUFFICES ASSUME NEW k \in 1..n PROVE s[k].logIndex \in Nat
      OBVIOUS
    <3>1. PICK l \in tokens : s[k] = TokenEffect(l, tracked)
      BY <1>6
    <3>2. s[k].logIndex = l.index
      BY <3>1 DEF TokenEffect
    <3> QED
      BY <1>3, <3>2
  <2>4. \A i, j \in DOMAIN r : i < j => r[i].logIndex < r[j].logIndex
    <3> SUFFICES ASSUME NEW i \in 1..(n + 1), NEW j \in 1..(n + 1), i < j
                 PROVE  r[i].logIndex < r[j].logIndex
      BY <2>2
    <3>1. j - 1 \in 1..n /\ r[j] = s[j - 1]
      <4>1. j - 1 \in 1..n /\ (j - 1) + 1 = j
        BY <1>6
      <4> QED
        BY <2>2, <4>1
    <3>2. CASE i = 1
      <4>1. r[i].logIndex = -1
        BY <1>4, <2>2, <3>2
      <4>2. s[j - 1].logIndex \in Nat
        BY <2>3, <3>1
      <4> HIDE DEF e
      <4> QED
        BY <3>1, <4>1, <4>2
    <3>3. CASE i # 1
      <4>1. i - 1 \in 1..n /\ (i - 1) + 1 = i /\ i - 1 < j - 1
        BY <1>6, <3>3
      <4>2. r[i] = s[i - 1]
        BY <2>2, <4>1
      <4> QED
        BY <1>1, <3>1, <4>1, <4>2
    <3> QED
      BY <3>2, <3>3
  <2>5. \A l \in tokens : \E i \in DOMAIN r : r[i] = TokenEffect(l, tracked)
    <3> SUFFICES ASSUME NEW l \in tokens
                 PROVE  \E i \in DOMAIN r : r[i] = TokenEffect(l, tracked)
      OBVIOUS
    <3>1. PICK k \in 1..n : s[k] = TokenEffect(l, tracked)
      BY <1>6
    <3>2. k + 1 \in DOMAIN r /\ r[k + 1] = s[k]
      BY <2>2
    <3> QED
      BY <3>1, <3>2
  <2> QED
    BY <1>8, <2>2, <2>4, <2>5 DEF r, tokens, n, first
<1> QED
  BY <1>7, <1>8

\* What comes of a key, with the receipt of its block.
LEMMA BundleIsFaithful ==
    ASSUME NEW block \in Block, NEW seq, AsRead(block, seq), NEW receipts,
           NEW key \in DraftKeys(block, seq, tracked),
           receipts[key[1]] = ReceiptOf(key[1], block)
    PROVE  LET o == Bundle(block, Draft(block, seq, tracked, key), receipts)
           IN  o.address \in tracked /\ Faithful(o)
<1> DEFINE a == key[2]
           t == TxByHash(block, key[1])
           d == Draft(block, seq, tracked, key)
           o == Bundle(block, d, receipts)
           tokens == TokensOf(block, t, a)
<1>1. \A i \in DOMAIN seq : seq[i] \in block.logs
  BY DEF AsRead, Listings, TransferLogs
<1>2. key = <<key[1], a>> /\ key[1] \in Hashes(block) /\ a \in tracked
  <2>1. CASE key \in SenderKeys(block, tracked)
    BY <2>1 DEF SenderKeys, Hashes
  <2>2. CASE key \in TokenKeys(block, seq, tracked)
    BY <2>2 DEF TokenKeys, Attaches, Holder
  <2>3. CASE key \in NativeKeys(block, tracked)
    BY <2>3 DEF NativeKeys, Hashes
  <2> QED
    BY <2>1, <2>2, <2>3 DEF DraftKeys
<1>3. t \in block.txs /\ t.hash = key[1]
  BY <1>2 DEF TxByHash, Hashes
<1>4. \A u \in block.txs : u.hash = key[1] => u = t
  BY <1>3, ActivityAssumption
<1> HIDE DEF t
<1>5. key \in SenderKeys(block, tracked) => t.from = a
  BY <1>4 DEF SenderKeys
<1>6. key \in NativeKeys(block, tracked) <=> t.to = a /\ t.value > 0
  <2>1. key \in NativeKeys(block, tracked) => t.to = a /\ t.value > 0
    BY <1>4 DEF NativeKeys
  <2>2. t.to = a /\ t.value > 0 => key \in NativeKeys(block, tracked)
    BY <1>2, <1>3 DEF NativeKeys
  <2> QED
    BY <2>1, <2>2
<1>7. IsParty(block, t, a)
  <2>1. CASE key \in TokenKeys(block, seq, tracked)
    <3>1. PICK i \in DOMAIN seq : /\ Attaches(block, seq[i], tracked)
                                  /\ key = <<seq[i].tx, Holder(seq[i], tracked)>>
      BY <2>1 DEF TokenKeys
    <3>2. seq[i].tx = t.hash /\ a \in {seq[i].from, seq[i].to} /\ Decoded(seq[i])
      BY <1>3, <3>1 DEF Attaches, Holder
    <3> QED
      BY <1>1, <3>2 DEF IsParty
  <2> QED
    BY <1>5, <1>6, <2>1 DEF DraftKeys, IsParty
<1>8. /\ d.tx = t /\ d.address = a /\ d.initiated = (t.from = a)
      /\ d.tokenEffects = TokenEffects(block, seq, tracked, <<t.hash, a>>)
      /\ d.native = (t.to = a /\ t.value > 0)
  BY <1>2, <1>3, <1>6 DEF Draft, t
<1>9. TellOf(d.tokenEffects, tokens)
  BY <1>2, <1>3, <1>8, DraftTells
<1> HIDE DEF d
<1>10. /\ Len(Ordered(d)) = Cardinality(tokens) + (IF d.native THEN 1 ELSE 0)
       /\ d.native => Ordered(d)[1] = NativeEffect(d)
       /\ \A i, j \in DOMAIN Ordered(d) : i < j =>
             Ordered(d)[i].logIndex < Ordered(d)[j].logIndex
       /\ \A l \in tokens : \E i \in DOMAIN Ordered(d) :
             Ordered(d)[i] = TokenEffect(l, tracked)
  BY <1>3, <1>9, EffectsInOrder
<1>11. /\ o.block = block /\ o.address = a /\ o.tx = t.hash
       /\ o.initiated = (t.from = a)
       /\ o.status = IF t.hash \in block.failed THEN "reverted" ELSE "success"
       /\ o.effects = IF t.hash \in block.failed THEN <<>> ELSE Ordered(d)
  <2>1. receipts[d.tx.hash].success = (t.hash \notin block.failed)
    BY <1>3, <1>8 DEF ReceiptOf
  <2> QED
    BY <1>8, <2>1 DEF Bundle
<1> HIDE DEF o
<1>12. d.native => Ordered(d)[1].kind = "native" /\ Ordered(d)[1].from = t.from
  BY <1>8, <1>10 DEF NativeEffect
<1>13. \A l \in tokens : \E i \in DOMAIN Ordered(d) :
         /\ Ordered(d)[i].logIndex = l.index
         /\ Ordered(d)[i].kind = Kind(l)
         /\ Ordered(d)[i].direction = "incoming" => l.to = a
         /\ Ordered(d)[i].direction = "outgoing" => l.from = a
  <2> SUFFICES ASSUME NEW l \in tokens
               PROVE  \E i \in DOMAIN Ordered(d) :
                        /\ Ordered(d)[i].logIndex = l.index
                        /\ Ordered(d)[i].kind = Kind(l)
                        /\ Ordered(d)[i].direction = "incoming" => l.to = a
                        /\ Ordered(d)[i].direction = "outgoing" => l.from = a
    OBVIOUS
  <2>1. PICK i \in DOMAIN Ordered(d) : Ordered(d)[i] = TokenEffect(l, tracked)
    BY <1>10
  <2>2. l.from = a \/ (l.to = a /\ l.from \notin tracked)
    BY DEF TokensOf
  <2>3. /\ Ordered(d)[i].logIndex = l.index /\ Ordered(d)[i].kind = Kind(l)
        /\ Ordered(d)[i].direction = Direction(l, tracked)
    BY <2>1 DEF TokenEffect
  <2>4. /\ Direction(l, tracked) = "incoming" => l.to = a
        /\ Direction(l, tracked) = "outgoing" => l.from = a
    BY <1>2, <2>2 DEF Direction
  <2> QED
    BY <2>3, <2>4
<1>14. /\ o.status = "reverted" => o.effects = <<>>
       /\ o.status = "success" => o.effects = Ordered(d)
  BY <1>11
<1>15. Faithful(o)
  <2>1. d.native = (t.to = o.address /\ t.value > 0) /\ tokens = TokensOf(o.block, t, o.address)
    BY <1>8, <1>11
  <2> DEFINE r == Ordered(d)
             native == t.to = o.address /\ t.value > 0
             T == TokensOf(o.block, t, o.address)
  <2>2. /\ t \in o.block.txs /\ o.tx = t.hash /\ IsParty(o.block, t, o.address)
        /\ o.initiated = (t.from = o.address)
        /\ o.status = IF t.hash \in o.block.failed THEN "reverted" ELSE "success"
        /\ o.status = "reverted" => o.effects = <<>>
    BY <1>3, <1>7, <1>11
  <2>3. o.status = "success" =>
           /\ Len(o.effects) = Cardinality(T) + (IF native THEN 1 ELSE 0)
           /\ native => o.effects[1].kind = "native" /\ o.effects[1].from = t.from
           /\ \A i, j \in DOMAIN o.effects : i < j =>
                 o.effects[i].logIndex < o.effects[j].logIndex
           /\ \A l \in T : \E i \in DOMAIN o.effects :
                 /\ o.effects[i].logIndex = l.index
                 /\ o.effects[i].kind = Kind(l)
                 /\ o.effects[i].direction = "incoming" => l.to = o.address
                 /\ o.effects[i].direction = "outgoing" => l.from = o.address
    <3> SUFFICES ASSUME o.status = "success"
                 PROVE  /\ Len(r) = Cardinality(T) + (IF native THEN 1 ELSE 0)
                        /\ native => r[1].kind = "native" /\ r[1].from = t.from
                        /\ \A i, j \in DOMAIN r : i < j => r[i].logIndex < r[j].logIndex
                        /\ \A l \in T : \E i \in DOMAIN r :
                              /\ r[i].logIndex = l.index
                              /\ r[i].kind = Kind(l)
                              /\ r[i].direction = "incoming" => l.to = o.address
                              /\ r[i].direction = "outgoing" => l.from = o.address
      BY <1>14
    <3>1. T = tokens /\ native = d.native /\ o.address = a
      BY <1>11, <2>1
    <3> HIDE DEF T, native, r, tokens, a
    <3>2. Len(r) = Cardinality(T) + (IF native THEN 1 ELSE 0)
      BY <1>10, <3>1 DEF r
    <3>3. \A l \in T : \E i \in DOMAIN r :
             /\ r[i].logIndex = l.index
             /\ r[i].kind = Kind(l)
             /\ r[i].direction = "incoming" => l.to = o.address
             /\ r[i].direction = "outgoing" => l.from = o.address
      BY <1>13, <3>1 DEF r
    <3> QED
      BY <1>10, <1>12, <3>1, <3>2, <3>3 DEF r
  <2> HIDE DEF r
  <2> QED
    BY <2>2, <2>3, Zenon DEF Faithful
<1> QED
  BY <1>2, <1>11, <1>15 DEF o, d

-----------------------------------------------------------------------------
(* Types, and what the logs in hand are.                                   *)

\* Each block in hand has its logs.
LogsComplete == \A n \in Number : AsRead(blocks[n], logs[n])

\* The blocks already processed are a sequence of records with a block each.
OutIsSeq ==
    /\ \E S : out \in Seq(S)
    /\ \A i \in DOMAIN out : out[i].block \in Block

\* Where the read stands: errors end it, and another error than an RpcReadError
\* never comes.
Standing ==
    /\ pc \in {"blocks", "logs", "receipts"} => attempt < RETRIES
    /\ pc = "failed" <=> error # "none"
    /\ error # "other"
    /\ FailsForCause
    /\ pc \in {"process", "receipts"} => LogsComplete

\* What is told of the blocks already processed.
OutSays == OutIsSeq /\ NothingMissed /\ BundlesFaithful

IInv == TypeOK /\ outages = attempt /\ Standing /\ OutSays

LEMMA InitIInv == Init => IInv
<1> SUFFICES ASSUME Init PROVE IInv
  OBVIOUS
<1>1. TypeOK
  <2>1. next = FromBlock + Len(out) /\ next \in Number
    BY RangeAssumption DEF Init, Number
  <2>2. attempt \in 0..RETRIES /\ outages \in 0..RETRIES
    BY RangeAssumption DEF Init
  <2> QED
    BY <2>1, <2>2 DEF Init, TypeOK
<1>2. out \in Seq({})
  BY DEF Init
<1>3. OutSays
  BY <1>2 DEF Init, OutSays, OutIsSeq, NothingMissed, BundlesFaithful, Bundles
<1>4. Standing /\ outages = attempt
  BY RangeAssumption DEF Init, Standing, FailsForCause
<1> QED
  BY <1>1, <1>3, <1>4 DEF IInv

\* Whether an observation is faithful depends on the tracked set alone.
LEMMA SameFaith ==
    ASSUME UNCHANGED tracked, NEW o
    PROVE  Faithful(o)' <=> Faithful(o)
BY DEF Faithful, IsParty, TokensOf

\* The processed blocks stay as they are.
LEMMA OutUnchanged ==
    ASSUME OutSays, UNCHANGED <<out, tracked>>
    PROVE  OutSays'
<1>1. OutIsSeq' /\ NothingMissed'
  BY DEF OutSays, OutIsSeq, NothingMissed, HasBundle, Bundles, LeftToSender
<1>2. BundlesFaithful'
  BY SameFaith DEF OutSays, BundlesFaithful, Bundles
<1> QED
  BY <1>1, <1>2 DEF OutSays

LEMMA FailIInv ==
    ASSUME IInv, Fail("rpc"), UNCHANGED tracked, lied' \in BOOLEAN, lied'
    PROVE  IInv'
<1>1. TypeOK'
  BY DEF IInv, TypeOK, Fail
<1>2. OutSays'
  BY OutUnchanged DEF IInv, Fail
<1>3. Standing' /\ (outages = attempt)'
  BY DEF IInv, Standing, Fail, FailsForCause
<1> QED
  BY <1>1, <1>2, <1>3 DEF IInv

LEMMA AttemptFailsIInv ==
    ASSUME IInv, AttemptFails
    PROVE  IInv'
<1>1. attempt \in Nat /\ attempt < RETRIES
  BY RangeAssumption DEF IInv, TypeOK, Standing, AttemptFails
<1>2. TypeOK'
  <2>1. attempt' \in 0..RETRIES /\ outages' \in 0..RETRIES
    BY <1>1, RangeAssumption DEF IInv, AttemptFails
  <2>2. pc' \in {"blocks", "logs", "receipts", "failed"} /\ error' \in {"none", "rpc", "other"}
    BY DEF IInv, TypeOK, AttemptFails
  <2>3. pc' # "failed" => pc' = pc /\ error' = error
    BY DEF AttemptFails
  <2> QED
    BY <2>1, <2>2, <2>3 DEF IInv, TypeOK, AttemptFails
<1>3. OutSays'
  BY OutUnchanged DEF IInv, AttemptFails
<1>4. (outages = attempt)'
  BY DEF IInv, AttemptFails
<1>5. Standing'
  <2>1. LogsComplete => LogsComplete'
    BY DEF LogsComplete, AsRead, AttemptFails
  <2>2. CASE AttemptsLeft /\ UNCHANGED <<pc, error>>
    BY <1>1, <2>1, <2>2 DEF IInv, Standing, AttemptFails, AttemptsLeft, FailsForCause
  <2>3. CASE ~AttemptsLeft /\ pc' = "failed" /\ error' = "rpc"
    <3>1. outages' = RETRIES
      BY <1>1, <2>3, RangeAssumption DEF IInv, AttemptFails, AttemptsLeft
    <3> QED
      BY <2>3, <3>1 DEF Standing, FailsForCause
  <2> QED
    BY <2>2, <2>3 DEF AttemptFails
<1> QED
  BY <1>2, <1>3, <1>4, <1>5 DEF IInv

LEMMA ReadBlocksIInv ==
    ASSUME IInv, ReadBlocks
    PROVE  IInv'
<1>1. PICK view \in View, ids \in Listings(Number) :
        \E reply \in BlockReplies(view) :
          LET found == ByRequest(ids, Arrived(ids, reply))
          IN  /\ lied' = \E n \in Number : ~IsBlockOf(reply[n], n)
              /\ \/ /\ \A n \in Number : IsBlockOf(found[n], n)
                    /\ blocks' = found
                    /\ logs' = [n \in Number |-> <<>>]
                    /\ Start(IF Candidates(found) = {} THEN "process" ELSE "logs")
                    /\ UNCHANGED <<next, out>>
                 \/ (\E n \in Number : ~IsBlockOf(found[n], n)) /\ Fail("rpc")
  BY DEF ReadBlocks
<1>2. PICK reply \in BlockReplies(view) :
          LET found == ByRequest(ids, Arrived(ids, reply))
          IN  /\ lied' = \E n \in Number : ~IsBlockOf(reply[n], n)
              /\ \/ /\ \A n \in Number : IsBlockOf(found[n], n)
                    /\ blocks' = found
                    /\ logs' = [n \in Number |-> <<>>]
                    /\ Start(IF Candidates(found) = {} THEN "process" ELSE "logs")
                    /\ UNCHANGED <<next, out>>
                 \/ (\E n \in Number : ~IsBlockOf(found[n], n)) /\ Fail("rpc")
  BY <1>1
<1> DEFINE found == ByRequest(ids, Arrived(ids, reply))
<1>3. lied' \in BOOLEAN /\ UNCHANGED tracked
  BY <1>2 DEF ReadBlocks
<1>4. CASE (\E n \in Number : ~IsBlockOf(found[n], n)) /\ Fail("rpc")
  <2>1. \A n \in Number : found[n] = reply[n]
    BY ByRequestIsReply
  <2>2. lied'
    BY <1>2, <1>4, <2>1
  <2> QED
    BY <1>3, <1>4, <2>2, FailIInv
<1>5. CASE /\ \A n \in Number : IsBlockOf(found[n], n)
           /\ blocks' = found
           /\ logs' = [n \in Number |-> <<>>]
           /\ Start(IF Candidates(found) = {} THEN "process" ELSE "logs")
           /\ UNCHANGED <<next, out>>
  <2>1. view \in [Number -> Block]
    BY RangeAssumption
  <2>2. \A n \in Number : reply[n] \in Block \cup {Malformed}
    BY <2>1, RangeAssumption DEF BlockReplies
  <2>3. found = [n \in Number |-> reply[n]]
    BY ByRequestIsReply
  <2>4. blocks' \in [Number -> Block] /\ \A n \in Number : blocks'[n].number = n
    BY <1>5, <2>2, <2>3 DEF IsBlockOf
  <2>5. pc' \in {"process", "logs"} /\ attempt' = 0 /\ outages' = 0 /\ error' = error
    BY <1>5 DEF Start
  <2>6. error = "none" /\ next \in Number /\ (pc = "blocks")
    BY DEF IInv, TypeOK, Standing, ReadBlocks
  <2>7. TypeOK'
    <3>1. DOMAIN logs' = Number /\ \A n \in Number : logs'[n] \in Seq(blocks'[n].logs)
      BY <1>5
    <3> QED
      BY <1>3, <1>5, <2>4, <2>5, <2>6, <3>1, RangeAssumption DEF IInv, TypeOK
  <2>8. OutSays'
    BY <1>3, <1>5, OutUnchanged DEF IInv
  <2>9. Standing'
    <3>1. pc' = "process" => LogsComplete'
      <4> SUFFICES ASSUME pc' = "process" PROVE LogsComplete'
        OBVIOUS
      <4>1. Candidates(found) = {}
        BY <1>5 DEF Start
      <4>2. \A n \in Number : ~MayContainTrackedTransfer(found[n].bloom, tracked)
        BY <4>1 DEF Candidates
      <4> QED
        BY <1>3, <1>5, <4>2 DEF LogsComplete, AsRead, MayContainTrackedTransfer
    <3> QED
      BY <2>5, <2>6, <3>1, RangeAssumption DEF Standing, FailsForCause
  <2> QED
    BY <2>5, <2>7, <2>8, <2>9 DEF IInv
<1> QED
  BY <1>2, <1>4, <1>5

LEMMA ReadLogsIInv ==
    ASSUME IInv, ReadLogs
    PROVE  IInv'
<1> DEFINE asked == Candidates(blocks)
<1>0. /\ blocks \in [Number -> Block] /\ DOMAIN logs = Number
      /\ \A n \in Number : blocks[n].number = n
      /\ error = "none" /\ asked \subseteq Number /\ UNCHANGED tracked
  BY DEF IInv, TypeOK, Standing, ReadLogs, Candidates
<1>1. PICK reply \in [asked -> UNION {LogReplies(blocks[n]) : n \in asked}],
           ids \in Listings(asked) :
        LET found == ByRequest(ids, Arrived(ids, reply))
        IN  /\ \A n \in asked : reply[n] \in LogReplies(blocks[n])
            /\ lied' = \E n \in asked : reply[n] \notin LogArrays(blocks[n])
            /\ \/ /\ \A n \in asked : AreLogsOf(found[n], blocks[n])
                  /\ logs' = [n \in Number |->
                                IF n \in asked
                                  THEN [i \in DOMAIN found[n] |-> found[n][i].log]
                                  ELSE <<>>]
                  /\ Start("process")
                  /\ UNCHANGED <<blocks, next, out>>
               \/ (\E n \in asked : ~AreLogsOf(found[n], blocks[n])) /\ Fail("rpc")
  BY DEF ReadLogs
<1> DEFINE found == ByRequest(ids, Arrived(ids, reply))
<1>2. lied' \in BOOLEAN
  BY <1>1
<1>3. CASE (\E n \in asked : ~AreLogsOf(found[n], blocks[n])) /\ Fail("rpc")
  <2>1. PICK n \in asked : ~AreLogsOf(found[n], blocks[n])
    BY <1>3
  <2>2. found[n] = reply[n]
    BY ByRequestIsReply
  <2>3. reply[n] \notin LogArrays(blocks[n])
    <3> SUFFICES ASSUME reply[n] \in LogArrays(blocks[n]) PROVE FALSE
      OBVIOUS
    <3>1. PICK s \in Listings(TransferLogs(blocks[n])) :
            reply[n] = [k \in DOMAIN s |-> [block |-> blocks[n], log |-> s[k]]]
      BY DEF LogArrays
    <3>2. \A i \in DOMAIN reply[n] : reply[n][i].block = blocks[n]
      BY <3>1
    <3>3. reply[n] = Malformed
      BY <2>1, <2>2, <3>2 DEF AreLogsOf
    <3> QED
      BY <1>0, <3>3, MalformedAssumption
  <2>4. lied'
    BY <1>1, <2>3
  <2> QED
    BY <1>0, <1>2, <1>3, <2>4, FailIInv
<1>4. CASE /\ \A n \in asked : AreLogsOf(found[n], blocks[n])
           /\ logs' = [n \in Number |->
                         IF n \in asked
                           THEN [i \in DOMAIN found[n] |-> found[n][i].log]
                           ELSE <<>>]
           /\ Start("process")
           /\ UNCHANGED <<blocks, next, out>>
  <2>1. found = [n \in asked |-> reply[n]]
    BY ByRequestIsReply
  <2>2. \A n \in asked : logs'[n] \in Listings(TransferLogs(blocks[n]))
    <3> SUFFICES ASSUME NEW n \in asked
                 PROVE  logs'[n] \in Listings(TransferLogs(blocks[n]))
      OBVIOUS
    <3>1. /\ reply[n] \in LogReplies(blocks[n]) /\ AreLogsOf(reply[n], blocks[n])
          /\ logs'[n] = [i \in DOMAIN reply[n] |-> reply[n][i].log]
      BY <1>0, <1>1, <1>4, <2>1
    <3>2. reply[n] \in LogArrays(blocks[n])
      <4> SUFFICES ASSUME reply[n] \notin LogArrays(blocks[n])
                   PROVE  FALSE
        OBVIOUS
      <4>0. PICK b \in Stray \ {blocks[n]} : reply[n] \in LogArrays(b) /\ reply[n] # <<>>
        <5>1. reply[n] # Malformed
          BY <3>1 DEF AreLogsOf
        <5>2. reply[n] \in UNION {LogArrays(b) : b \in Stray \ {blocks[n]}} /\ reply[n] # <<>>
          BY <3>1, <5>1 DEF LogReplies
        <5> QED
          BY <5>2
      <4>1. PICK s \in Listings(TransferLogs(b)) :
              reply[n] = [k \in DOMAIN s |-> [block |-> b, log |-> s[k]]]
        BY <4>0 DEF LogArrays
      <4>2. IsFiniteSet(TransferLogs(b))
        BY FS_Subset, ActivityAssumption, RangeAssumption DEF TransferLogs
      <4>3. s \in Seq(TransferLogs(b)) /\ (s # <<>> => 1 \in DOMAIN s)
        BY <4>2, ListingIsSeq
      <4>4. s # <<>>
        <5>1. s = <<>> => reply[n] = <<>>
          BY <4>1
        <5> QED
          BY <4>0, <5>1
      <4>5. 1 \in DOMAIN reply[n] /\ reply[n][1].block = b
        BY <4>1, <4>3, <4>4
      <4> QED
        BY <3>1, <4>5 DEF AreLogsOf
    <3>3. PICK s \in Listings(TransferLogs(blocks[n])) :
            reply[n] = [k \in DOMAIN s |-> [block |-> blocks[n], log |-> s[k]]]
      BY <3>2 DEF LogArrays
    <3>4. logs'[n] = [k \in DOMAIN s |-> s[k]]
      BY <3>1, <3>3
    <3>5. s = [k \in DOMAIN s |-> s[k]]
      BY DEF Listings
    <3> QED
      BY <3>4, <3>5
  <2>3. \A n \in asked : /\ logs'[n] \in Seq(TransferLogs(blocks[n]))
                         /\ {logs'[n][i] : i \in DOMAIN logs'[n]} = TransferLogs(blocks[n])
    <3> SUFFICES ASSUME NEW n \in asked
                 PROVE  /\ logs'[n] \in Seq(TransferLogs(blocks[n]))
                        /\ {logs'[n][i] : i \in DOMAIN logs'[n]} = TransferLogs(blocks[n])
      OBVIOUS
    <3>1. IsFiniteSet(TransferLogs(blocks[n]))
      BY <1>0, FS_Subset, ActivityAssumption DEF TransferLogs
    <3> QED
      BY <2>2, <3>1, ListingIsSeq
  <2>4. \A n \in Number \ asked : logs'[n] = <<>>
    BY <1>4
  <2>5. pc' = "process" /\ attempt' = 0 /\ outages' = 0 /\ error' = "none"
    BY <1>0, <1>4 DEF Start
  <2>6. TypeOK'
    <3>1. DOMAIN logs' = Number
      BY <1>4
    <3>2. \A n \in Number : logs'[n] \in Seq(blocks[n].logs)
      <4> SUFFICES ASSUME NEW n \in Number PROVE logs'[n] \in Seq(blocks[n].logs)
        OBVIOUS
      <4>1. CASE n \in asked
        <5>1. TransferLogs(blocks[n]) \subseteq blocks[n].logs
          BY DEF TransferLogs
        <5>2. Seq(TransferLogs(blocks[n])) \subseteq Seq(blocks[n].logs)
          BY <5>1
        <5> QED
          BY <4>1, <2>3, <5>2
      <4>2. CASE n \notin asked
        <5>1. logs'[n] = <<>>
          BY <4>2, <2>4
        <5> QED
          BY <5>1
      <4> QED
        BY <4>1, <4>2
    <3>3. next \in Number
      BY DEF IInv, TypeOK, ReadLogs, Standing
    <3> QED
      BY <1>0, <1>2, <1>4, <2>5, <3>1, <3>2, <3>3, RangeAssumption DEF IInv, TypeOK
  <2>7. OutSays'
    BY <1>0, <1>4, OutUnchanged DEF IInv
  <2>8. LogsComplete'
    BY <1>0, <1>4, <2>2, <2>4 DEF LogsComplete, AsRead, Candidates, MayContainTrackedTransfer
  <2> QED
    BY <2>5, <2>6, <2>7, <2>8, RangeAssumption DEF IInv, Standing, FailsForCause
<1> QED
  BY <1>1, <1>3, <1>4

-----------------------------------------------------------------------------
(* A block that is done.                                                   *)

\* Every step that finalizes a block with its receipts keeps the invariant.
LEMMA FinalizeIInv ==
    ASSUME IInv, pc \in {"process", "receipts"}, NEW receipts, Finalize(receipts),
           \A h \in ReceiptHashes(Drafts) : receipts[h] = ReceiptOf(h, blocks[next]),
           UNCHANGED tracked, lied' \in BOOLEAN
    PROVE  IInv'
<1> DEFINE block == blocks[next]
           observations == FinalizeBundles(block, Drafts, receipts)
           e == [block |-> block, observations |-> observations]
<1>0. /\ error = "none" /\ next \in Number /\ LogsComplete
      /\ blocks \in [Number -> Block] /\ block \in Block
  BY DEF IInv, TypeOK, Standing
<1>1. PICK S : out \in Seq(S)
  BY DEF IInv, OutSays, OutIsSeq
<1>2. out' = Append(out, e) /\ next' = next + 1
  BY DEF Finalize
<1>3. /\ out' \in Seq(S \cup {e}) /\ Len(out') = Len(out) + 1 /\ Len(out) \in Nat
      /\ DOMAIN out' = DOMAIN out \cup {Len(out) + 1}
      /\ \A i \in DOMAIN out : out'[i] = out[i]
      /\ out'[Len(out) + 1] = e
  <2>1. out \in Seq(S \cup {e}) /\ e \in S \cup {e}
    BY <1>1
  <2> HIDE DEF e
  <2> QED
    BY <1>2, <2>1
<1>4. TypeOK'
  <2>1. /\ pc' = (IF next = ToBlock THEN "done" ELSE "process")
        /\ attempt' = 0 /\ outages' = 0 /\ UNCHANGED <<error, blocks, logs>>
    BY DEF Finalize, Start
  <2>2. next' = FromBlock + Len(out')
    BY <1>2, <1>3, RangeAssumption DEF IInv, TypeOK
  <2>3. next' \in Number \cup {ToBlock + 1} /\ (next # ToBlock => next' \in Number)
    BY <1>0, <1>2, RangeAssumption DEF Number
  <2>4. attempt' \in 0..RETRIES /\ outages' \in 0..RETRIES
    BY <2>1, RangeAssumption
  <2>5. /\ blocks' \in [Number -> Block] /\ DOMAIN logs' = Number
        /\ \A n \in Number : blocks'[n].number = n /\ logs'[n] \in Seq(blocks'[n].logs)
    BY <1>0, <2>1 DEF IInv, TypeOK
  <2>6. pc' \in {"done", "process"} /\ (pc' = "done" => next' = ToBlock + 1)
    BY <1>2, <2>1
  <2>7. pc' # "done" => next' \in Number
    BY <2>1, <2>3
  <2>8. tracked' \in Watched /\ error' \in {"none", "rpc", "other"}
    BY <2>1 DEF IInv, TypeOK
  <2> QED
    BY <2>2, <2>3, <2>4, <2>5, <2>6, <2>7, <2>8 DEF TypeOK
<1>5. OutIsSeq'
  BY <1>0, <1>3 DEF IInv, OutSays, OutIsSeq
<1>6. Standing' /\ (outages = attempt)'
  <2>1. LogsComplete'
    BY <1>0 DEF LogsComplete, AsRead, Finalize
  <2> QED
    BY <1>0, <2>1, RangeAssumption DEF Standing, Finalize, Start, FailsForCause
<1>7. NothingMissed'
  <2> SUFFICES ASSUME NEW i \in DOMAIN out', NEW t \in out'[i].block.txs, NEW a \in tracked,
                      IsParty(out'[i].block, t, a), ~LeftToSender(out'[i].block, t, a)
               PROVE  \E o \in Bundles' : /\ o.block = out'[i].block
                                         /\ o.tx = t.hash /\ o.address = a
    BY DEF NothingMissed, HasBundle, LeftToSender, IsParty
  <2>1. \A j \in DOMAIN out' : out'[j].observations \subseteq Bundles'
    BY DEF Bundles
  <2>2. CASE i \in DOMAIN out
    <3>1. HasBundle(out[i].block, t, a)
      BY <1>3, <2>2 DEF IInv, OutSays, NothingMissed
    <3>2. PICK o \in Bundles : o.block = out[i].block /\ o.tx = t.hash /\ o.address = a
      BY <3>1 DEF HasBundle
    <3>3. PICK j \in DOMAIN out : o \in out[j].observations
      BY <3>2 DEF Bundles
    <3>4. o \in Bundles'
      BY <1>3, <2>1, <3>3
    <3> QED
      BY <1>3, <2>2, <3>2, <3>4
  <2>3. CASE i = Len(out) + 1
    <3>1. out'[i].block = block /\ t \in block.txs
      BY <1>3, <2>3
    <3>2. <<t.hash, a>> \in DraftKeys(block, logs[next], tracked)
      BY <1>0, <3>1, PartyHasKey DEF LogsComplete
    <3>3. PICK o \in observations : o.block = block /\ o.tx = t.hash /\ o.address = a
      BY <1>0, <3>1, <3>2, KeyHasBundle DEF Drafts
    <3>4. o \in Bundles'
      BY <1>3, <2>1, <2>3, <3>3
    <3> QED
      BY <3>1, <3>3, <3>4
  <2> QED
    BY <1>3, <2>2, <2>3
<1>8. BundlesFaithful'
  <2> SUFFICES ASSUME NEW o \in Bundles' PROVE o.address \in tracked /\ Faithful(o)
    BY SameFaith DEF BundlesFaithful
  <2>1. PICK j \in DOMAIN out' : o \in out'[j].observations
    BY DEF Bundles
  <2>2. CASE j \in DOMAIN out
    <3>1. o \in Bundles
      BY <1>3, <2>1, <2>2 DEF Bundles
    <3> QED
      BY <3>1 DEF IInv, OutSays, BundlesFaithful
  <2>3. CASE j = Len(out) + 1
    <3>1. o \in observations
      BY <1>3, <2>1, <2>3
    <3>2. PICK key \in DraftKeys(block, logs[next], tracked) :
            o = Bundle(block, Draft(block, logs[next], tracked, key), receipts)
      BY <3>1 DEF FinalizeBundles, Drafts, AnalyzeBlock
    <3>3. Draft(block, logs[next], tracked, key) \in Drafts
      BY <3>2 DEF Drafts, AnalyzeBlock
    <3>4. receipts[key[1]] = ReceiptOf(key[1], block)
      <4>1. TxByHash(block, key[1]).hash = key[1]
        BY KeyIsOfBlock DEF TxByHash, Hashes
      <4>2. key[1] \in ReceiptHashes(Drafts)
        BY <3>3, <4>1 DEF ReceiptHashes, Draft
      <4> QED
        BY <4>2
    <3>5. AsRead(block, logs[next])
      BY <1>0 DEF LogsComplete
    <3> HIDE DEF block
    <3> QED
      BY <1>0, <3>2, <3>4, <3>5, BundleIsFaithful
  <2> QED
    BY <1>3, <2>1, <2>2, <2>3
<1> QED
  BY <1>4, <1>5, <1>6, <1>7, <1>8 DEF IInv, OutSays

LEMMA ProcessIInv ==
    ASSUME IInv, Process
    PROVE  IInv'
<1>0. pc = "process" /\ UNCHANGED <<tracked, lied>> /\ lied' \in BOOLEAN
  BY DEF Process, IInv, TypeOK
<1>1. CASE Drafts = {} /\ Finalize(<<>>)
  <2>1. ReceiptHashes(Drafts) = {}
    BY <1>1 DEF ReceiptHashes
  <2> QED
    BY <1>0, <1>1, <2>1, FinalizeIInv
<1>2. CASE Start("receipts") /\ UNCHANGED <<blocks, logs, next, out>>
  <2>1. error = "none" /\ next \in Number /\ LogsComplete
    BY <1>0 DEF IInv, TypeOK, Standing
  <2>2. pc' = "receipts" /\ attempt' = 0 /\ outages' = 0 /\ error' = error
    BY <1>2 DEF Start
  <2>3. TypeOK'
    BY <1>0, <1>2, <2>1, <2>2, RangeAssumption DEF IInv, TypeOK
  <2>4. OutSays'
    BY <1>0, <1>2, OutUnchanged DEF IInv
  <2>5. LogsComplete'
    BY <1>0, <1>2, <2>1 DEF LogsComplete, AsRead
  <2> QED
    BY <2>1, <2>2, <2>3, <2>4, <2>5, RangeAssumption DEF IInv, Standing, FailsForCause
<1> QED
  BY <1>1, <1>2 DEF Process

\* Receipts that jsonRpcBatch accepted are never refused by finalizeBundles.
LEMMA ReadReceiptsIInv ==
    ASSUME IInv, ReadReceipts
    PROVE  IInv'
<1> DEFINE block == blocks[next]
           asked == ReceiptHashes(Drafts)
<1>1. PICK reply \in [asked -> ReceiptReplies(block)], ids \in Listings(asked) :
        LET found == ByRequest(ids, Arrived(ids, reply))
        IN  /\ lied' = \E h \in asked : reply[h] # ReceiptOf(h, block)
            /\ \/ (\E h \in asked : ~Confirms(found[h], h, block)) /\ Fail("rpc")
               \/ /\ \A h \in asked : Confirms(found[h], h, block)
                  /\ Unconfirmed(block, Drafts, found)
               \/ /\ \A h \in asked : Confirms(found[h], h, block)
                  /\ Finalize(found)
  BY DEF ReadReceipts
<1> DEFINE found == ByRequest(ids, Arrived(ids, reply))
<1>2. lied' \in BOOLEAN /\ UNCHANGED tracked /\ pc = "receipts"
  BY <1>1 DEF ReadReceipts
<1>3. CASE (\E h \in asked : ~Confirms(found[h], h, block)) /\ Fail("rpc")
  <2>1. PICK h \in asked : ~Confirms(found[h], h, block)
    BY <1>3
  <2>2. found[h] = reply[h]
    BY ByRequestIsReply
  <2>3. reply[h] # ReceiptOf(h, block)
    <3>1. ReceiptOf(h, block).tx = h /\ ReceiptOf(h, block).block = block
      BY DEF ReceiptOf
    <3>2. h \in Hashes(block)
      BY DraftIsOfBlock DEF ReceiptHashes, Drafts
    <3>3. block \in Block
      BY <1>2 DEF IInv, TypeOK, Standing
    <3> QED
      BY <2>1, <2>2, <3>1, <3>2, <3>3, MalformedAssumption DEF Confirms
  <2>4. lied'
    BY <1>1, <2>3
  <2> QED
    BY <1>2, <1>3, <2>4, FailIInv
<1>4. CASE /\ \A h \in asked : Confirms(found[h], h, block)
           /\ Unconfirmed(block, Drafts, found)
  <2>1. found = [h \in asked |-> reply[h]]
    BY ByRequestIsReply
  <2>2. PICK d \in Drafts : \/ d.tx.hash \notin DOMAIN found
                           \/ found[d.tx.hash].block # block
    BY <1>4 DEF Unconfirmed
  <2>3. d.tx.hash \in asked
    BY DEF ReceiptHashes
  <2> QED
    BY <1>4, <2>1, <2>2, <2>3 DEF Confirms
<1>5. CASE /\ \A h \in asked : Confirms(found[h], h, block)
           /\ Finalize(found)
  <2>1. \A h \in asked : found[h] = ReceiptOf(h, block)
    <3> SUFFICES ASSUME NEW h \in asked PROVE found[h] = ReceiptOf(h, block)
      OBVIOUS
    <3>1. found[h] = reply[h] /\ reply[h] \in ReceiptReplies(block)
      BY ByRequestIsReply
    <3>2. found[h] # Malformed /\ found[h].tx = h /\ found[h].block = block
      BY <1>5 DEF Confirms
    <3>3. PICK b \in Stray \cup {block} : found[h] \in {ReceiptOf(g, b) : g \in Hashes(b)}
      <4>1. found[h] \in UNION {{ReceiptOf(g, b) : g \in Hashes(b)} : b \in Stray \cup {block}}
        BY <3>1, <3>2 DEF ReceiptReplies
      <4> QED
        BY <4>1
    <3>4. PICK g \in Hashes(b) : found[h] = ReceiptOf(g, b)
      BY <3>3
    <3>5. g = h /\ b = block
      BY <3>2, <3>4 DEF ReceiptOf
    <3> QED
      BY <3>4, <3>5
  <2> QED
    BY <1>2, <1>5, <2>1, FinalizeIInv
<1> QED
  BY <1>1, <1>3, <1>4, <1>5

-----------------------------------------------------------------------------

LEMMA Inductive == IInv /\ [Next]_vars => IInv'
<1> SUFFICES ASSUME IInv, [Next]_vars PROVE IInv'
  OBVIOUS
<1>1. CASE ReadBlocks
  BY <1>1, ReadBlocksIInv
<1>2. CASE ReadLogs
  BY <1>2, ReadLogsIInv
<1>3. CASE Process
  BY <1>3, ProcessIInv
<1>4. CASE ReadReceipts
  BY <1>4, ReadReceiptsIInv
<1>5. CASE AttemptFails
  BY <1>5, AttemptFailsIInv
<1>6. CASE UNCHANGED vars
  <2>1. OutSays'
    BY <1>6, OutUnchanged DEF IInv, vars
  <2> QED
    BY <1>6, <2>1 DEF IInv, TypeOK, Standing, FailsForCause, LogsComplete, AsRead, vars
<1> QED
  BY <1>1, <1>2, <1>3, <1>4, <1>5, <1>6 DEF Next

LEMMA SpecIInv == Spec => []IInv
BY InitIInv, Inductive, PTL DEF Spec

\* The read keeps its types, for any range, views and tracked set.
THEOREM TypeCorrect == Spec => []TypeOK
<1>1. IInv => TypeOK
  BY DEF IInv
<1> QED
  BY SpecIInv, <1>1, PTL

\* No party of a transaction is missed, whatever blooms, blocks and answers: the
\* bloom has the bits of every log (client.ts:400), and logs that are accepted
\* are all of the block's.
THEOREM PartiesNotMissed == Spec => []NothingMissed
<1>1. IInv => NothingMissed
  BY DEF IInv, OutSays
<1> QED
  BY SpecIInv, <1>1, PTL

\* What a bundle says is what its block says, whichever upstreams answered and in
\* whatever order: accepted logs are the block's, each once, in any order; accepted
\* receipts are the block's; filter and sort lose no effect, double none and put
\* them by their log index (activity.ts:320).
THEOREM BundlesAreFaithful == Spec => []BundlesFaithful
<1>1. IInv => BundlesFaithful
  BY DEF IInv, OutSays
<1> QED
  BY SpecIInv, <1>1, PTL

\* The upstreams cannot make the read throw anything but an RpcReadError: the
\* receipts that the client accepts are the ones finalizeBundles asks for
\* (client.ts:464, activity.ts:292).
THEOREM OutagesOnlyRetry == Spec => []OutagesNeverSkip
<1>1. IInv => OutagesNeverSkip
  BY DEF IInv, Standing, OutagesNeverSkip
<1> QED
  BY SpecIInv, <1>1, PTL

\* A read that fails does so because all attempts of a batch went unanswered or an
\* answer was not the one asked for: the order of the items is no reason, and
\* neither are fewer outages than attempts (client.ts:281).
THEOREM FailureHasCause == Spec => []FailsForCause
<1>1. IInv => FailsForCause
  BY DEF IInv, Standing
<1> QED
  BY SpecIInv, <1>1, PTL

=============================================================================
