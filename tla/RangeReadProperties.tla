------------------------ MODULE RangeReadProperties ------------------------
(***************************************************************************)
(* What a read of a range owes to those who track an address.              *)
(***************************************************************************)
EXTENDS RangeRead

Bundles == UNION {out[i].observations : i \in DOMAIN out}

\* Every variable has its type.
TypeOK ==
    /\ tracked \in Watched
    /\ pc \in {"blocks", "logs", "process", "receipts", "done", "failed"}
    /\ attempt \in 0..RETRIES
    /\ pc # "blocks" /\ error = "none" =>
          /\ blocks \in [Number -> Block]
          /\ DOMAIN logs = Number
          /\ \A n \in Number : blocks[n].number = n /\ logs[n] \in Seq(blocks[n].logs)
    /\ next = FromBlock + Len(out)
    /\ next \in Number \cup {ToBlock + 1}
    /\ pc \notin {"done", "failed"} => next \in Number
    /\ pc = "done" => next = ToBlock + 1
    /\ error \in {"none", "rpc", "other"}
    /\ outages \in 0..RETRIES
    /\ lied \in BOOLEAN

\* Who takes part in a transaction: its sender, the recipient of its value, the
\* parties of its token transfers.
IsParty(block, t, a) ==
    \/ t.from = a
    \/ t.to = a /\ t.value > 0
    \/ \E l \in block.logs : Decoded(l) /\ l.tx = t.hash /\ a \in {l.from, l.to}

\* The recipient of tokens from another tracked address, who hears of them only
\* if something else makes it a party (activity.ts:237).
LeftToSender(block, t, a) ==
    /\ t.from # a
    /\ t.to = a => t.value = 0
    /\ \A l \in block.logs : Decoded(l) /\ l.tx = t.hash =>
          l.from # a /\ (l.to = a => l.from \in tracked)

HasBundle(block, t, a) ==
    \E o \in Bundles : o.block = block /\ o.tx = t.hash /\ o.address = a

\* A tracked address that takes part in a transaction of a processed block has
\* its bundle: neither the bloom, which decides whether logs are read at all,
\* nor a retry, nor an answer from another branch drops it (client.ts:400).
\* Left to the sender is what LeftToSender says.
NothingMissed ==
    \A i \in DOMAIN out : \A t \in out[i].block.txs : \A a \in tracked :
        IsParty(out[i].block, t, a) /\ ~LeftToSender(out[i].block, t, a)
            => HasBundle(out[i].block, t, a)

\* The token effects of a bundle by the chain alone.
TokensOf(block, t, a) ==
    {l \in block.logs : Decoded(l) /\ l.tx = t.hash
                        /\ (l.from = a \/ (l.to = a /\ l.from \notin tracked))}

\* What a bundle says is what its block says, whichever upstreams answered the
\* blocks, the logs and the receipts, and in whatever order: the status, the
\* effects of a transaction that succeeded and no others, the native one first
\* and the tokens by their log index, no direction against the tokens' way
\* (activity.ts:320, implementation-plan.md:319).
Faithful(o) ==
    \E t \in o.block.txs :
        LET tokens == TokensOf(o.block, t, o.address)
            native == t.to = o.address /\ t.value > 0
        IN  /\ o.tx = t.hash
            /\ IsParty(o.block, t, o.address)
            /\ o.initiated = (t.from = o.address)
            /\ o.status = IF t.hash \in o.block.failed THEN "reverted" ELSE "success"
            /\ o.status = "reverted" => o.effects = <<>>
            /\ o.status = "success" =>
                  /\ Len(o.effects) = Cardinality(tokens) + (IF native THEN 1 ELSE 0)
                  /\ native => o.effects[1].kind = "native" /\ o.effects[1].from = t.from
                  /\ \A i, j \in DOMAIN o.effects : i < j =>
                        o.effects[i].logIndex < o.effects[j].logIndex
                  /\ \A l \in tokens : \E i \in DOMAIN o.effects :
                        /\ o.effects[i].logIndex = l.index
                        /\ o.effects[i].kind = Kind(l)
                        /\ o.effects[i].direction = "incoming" => l.to = o.address
                        /\ o.effects[i].direction = "outgoing" => l.from = o.address

BundlesFaithful == \A o \in Bundles : o.address \in tracked /\ Faithful(o)

\* Nothing an upstream answers or fails to answer makes the read throw anything
\* but an RpcReadError: any other error counts towards skipping the block, and an
\* outage says nothing about the activity in it (ScannerShard.ts:307).
OutagesNeverSkip == error # "other"

\* A read fails for a reason: all attempts of one batch went unanswered, or a
\* result was not the one asked for.  Items out of order, other branches
\* and fewer outages than attempts are no reason (client.ts:281).
FailsForCause == pc = "failed" => lied \/ outages = RETRIES

\* Every read ends, with the range or with an error.
ReadEnds == <>(pc \in {"done", "failed"})

=============================================================================
