------------------------------ MODULE Activity ------------------------------
(***************************************************************************)
(* Which tracked addresses take part in a block and what each is told:     *)
(* src/domain/activity.ts, with the bloom filter of src/domain/bloom.ts.   *)
(*                                                                         *)
(* A block is a record of what its hash fixes: its number, transactions,   *)
(* which of them failed, logs, and the bloom of the logs.                  *)
(***************************************************************************)
EXTENDS Arrays

CONSTANTS
    Block,      \* the blocks (hashes) any provider may serve
    Address,
    NoAddress,  \* `to` of a contract creation
    Mask        \* the bloom bits of a topic: Transfer, or an address padded to 32 bytes

Transfer == "Transfer"   \* TRANSFER_TOPIC

Hashes(block) == {t.hash : t \in block.txs}

\* Of the chain: a hash names one transaction of a block, which pays nothing or
\* something; a log is of a transaction that succeeded, and its index is its own.
ASSUME ActivityAssumption ==
    \A b \in Block :
        /\ b.number \in Nat
        /\ \A t, u \in b.txs : t.hash = u.hash => t = u
        /\ \A t \in b.txs : t.value \in Nat
        /\ \A l \in b.logs : l.tx \in Hashes(b) \ b.failed /\ l.index \in Nat
        /\ \A l, k \in b.logs : l.index = k.index => l = k
        /\ IsFiniteSet(b.logs)

\* The header's bloom has the bits of every topic of every log.  A party is looked
\* for by the mask of its padded address, so this also takes the parties' topics to
\* be addresses padded with zeros: of any other word topicToAddress keeps the last
\* 20 bytes (activity.ts:15), whose mask the bloom need not have.
ASSUME BloomAssumption ==
    \A b \in Block : \A l \in b.logs :
        /\ l.topic = Transfer => Mask[Transfer] \subseteq b.bloom
        /\ l.topics >= 3 => Mask[l.from] \cup Mask[l.to] \subseteq b.bloom

-----------------------------------------------------------------------------

\* Mutant: every tracked address must be in the bloom.
MayContainAllTracked(bloom, tracked) ==
    /\ Mask[Transfer] \subseteq bloom
    /\ \A a \in tracked : Mask[a] \subseteq bloom

MayContainTrackedTransfer(bloom, tracked) ==
    /\ Mask[Transfer] \subseteq bloom
    /\ \E a \in tracked : Mask[a] \subseteq bloom

\* classifyTransferLog: by the number of topics, and the data being one word.
Kind(log) ==
    IF log.topics = 3 /\ log.word THEN "erc20"
    ELSE IF log.topics = 4 THEN "erc721"
    ELSE "malformed"

Decoded(log) == log.topic = Transfer /\ Kind(log) # "malformed"

\* A decoded log of a transaction of the block between parties of whom one is tracked.
Attaches(block, log, tracked) ==
    /\ Decoded(log)
    /\ log.tx \in Hashes(block)
    /\ log.from \in tracked \/ log.to \in tracked

\* The address whose draft gets the effect.
Holder(log, tracked) == IF log.from \in tracked THEN log.from ELSE log.to

Direction(log, tracked) ==
    IF log.from \in tracked /\ log.to \in tracked THEN "self"
    ELSE IF log.from \in tracked THEN "outgoing"
    ELSE "incoming"

TokenEffect(log, tracked) ==
    [kind |-> Kind(log), direction |-> Direction(log, tracked),
     logIndex |-> log.index, from |-> log.from, to |-> log.to]

\* The keys of the drafts, by the step of analyzeBlock that ensures them.
SenderKeys(block, tracked) ==
    {<<t.hash, t.from>> : t \in {t \in block.txs : t.from \in tracked}}

TokenKeys(block, logs, tracked) ==
    {<<logs[i].tx, Holder(logs[i], tracked)>> :
        i \in {i \in DOMAIN logs : Attaches(block, logs[i], tracked)}}

NativeKeys(block, tracked) ==
    {<<t.hash, t.to>> : t \in {t \in block.txs : t.value > 0 /\ t.to \in tracked}}

DraftKeys(block, logs, tracked) ==
    SenderKeys(block, tracked) \cup TokenKeys(block, logs, tracked)
        \cup NativeKeys(block, tracked)

TxByHash(block, hash) == CHOOSE t \in block.txs : t.hash = hash

\* The positions of the logs whose effects go to the draft of the key.
LogsOfKey(block, logs, tracked, key) ==
    {i \in DOMAIN logs : /\ Attaches(block, logs[i], tracked)
                         /\ key = <<logs[i].tx, Holder(logs[i], tracked)>>}

TokenEffects(block, logs, tracked, key) ==
    LET mine == Filtered(logs, LogsOfKey(block, logs, tracked, key))
    IN  [k \in DOMAIN mine |-> TokenEffect(mine[k], tracked)]

Draft(block, logs, tracked, key) ==
    [tx           |-> TxByHash(block, key[1]),
     address      |-> key[2],
     initiated    |-> TxByHash(block, key[1]).from = key[2],
     tokenEffects |-> TokenEffects(block, logs, tracked, key),
     native       |-> key \in NativeKeys(block, tracked)]

\* One draft for each transaction and tracked address that takes part in it.
AnalyzeBlock(block, logs, tracked) ==
    {Draft(block, logs, tracked, key) : key \in DraftKeys(block, logs, tracked)}

ReceiptHashes(drafts) == {d.tx.hash : d \in drafts}

-----------------------------------------------------------------------------

\* A draft without a receipt of this block: finalizeBundles throws.
Unconfirmed(block, drafts, receipts) ==
    \E d \in drafts :
        \/ d.tx.hash \notin DOMAIN receipts
        \/ receipts[d.tx.hash].block # block

\* The incoming native effect has no log index; it comes before the tokens.
NativeEffect(draft) ==
    [kind |-> "native", direction |-> "incoming", logIndex |-> -1,
     from |-> draft.tx.from, to |-> draft.address]

\* Mutant: the effects stay in the order of the answer.
AsAnswered(draft) ==
    (IF draft.native THEN <<NativeEffect(draft)>> ELSE <<>>) \o draft.tokenEffects

LogIndexes(effects) == [i \in DOMAIN effects |-> effects[i].logIndex]

Ordered(draft) ==
    (IF draft.native THEN <<NativeEffect(draft)>> ELSE <<>>)
        \o Sorted(draft.tokenEffects, LogIndexes(draft.tokenEffects))

\* The observation of a draft; its id is made of tx, address and block.
Bundle(block, draft, receipts) ==
    LET success == receipts[draft.tx.hash].success
    IN  [tx        |-> draft.tx.hash,
         address   |-> draft.address,
         block     |-> block,
         initiated |-> draft.initiated,
         status    |-> IF success THEN "success" ELSE "reverted",
         effects   |-> IF success THEN Ordered(draft) ELSE <<>>]

FinalizeBundles(block, drafts, receipts) == {Bundle(block, d, receipts) : d \in drafts}

=============================================================================
