----------------------------- MODULE RangeRead -----------------------------
(***************************************************************************)
(* The read of a range of blocks and what is made of it: src/rpc/client.ts *)
(* with the validation of src/rpc/schema.ts, and the first half of         *)
(* processBlock of src/scanner/ScannerShard.ts, up to the observations     *)
(* that it writes.                                                         *)
(*                                                                         *)
(* Each step is one HTTP request with its answer.  Behind rpc-racer are    *)
(* upstreams with views of their own: what answers a request may be ahead  *)
(* of, behind, or on another branch than what answered the one before.     *)
(***************************************************************************)
EXTENDS Activity

CONSTANTS
    FromBlock, ToBlock,
    Watched,     \* the tracked sets a pass may find
    View,        \* the upstreams' views: number -> block
    Stray,       \* blocks an upstream may confuse with the one it is asked for
    Malformed,   \* a result that is null or does not parse
    RETRIES

Number == FromBlock..ToBlock

ASSUME RangeAssumption ==
    /\ FromBlock \in Nat /\ ToBlock \in Nat /\ FromBlock <= ToBlock
    /\ Watched \subseteq SUBSET Address
    /\ NoAddress \notin Address
    /\ View \subseteq [Number -> Block]
    /\ Stray \subseteq Block
    /\ Malformed \notin Block   \* see also MalformedAssumption
    /\ RETRIES \in Nat \ {0}

VARIABLES
    tracked,    \* the tracked set of the pass
    pc,         \* the batch to be answered: "blocks", "logs" or "receipts"
    attempt,    \* attempts of that batch that failed
    blocks,     \* the blocks read, by number
    logs,       \* their logs, by number
    next,       \* the block being processed
    out,        \* the blocks processed, with their observations
    error,      \* what the read threw: an RpcReadError, or another error
    outages,    \* history: requests for this batch that nobody answered properly
    lied        \* history: an answer had a result that is not the one asked for

vars == <<tracked, pc, attempt, blocks, logs, next, out, error, outages, lied>>

Init ==
    /\ tracked \in Watched
    /\ pc = "blocks"
    /\ attempt = 0
    /\ blocks = <<>> /\ logs = <<>>
    /\ next = FromBlock
    /\ out = <<>>
    /\ error = "none"
    /\ outages = 0 /\ lied = FALSE

-----------------------------------------------------------------------------
(* jsonRpcBatch: the items of a batch arrive in any order, under their ids. *)

Listings(S) == {s \in [1..Cardinality(S) -> S] : {s[k] : k \in DOMAIN s} = S}

\* The items as they arrive, when ids is the order.
Arrived(ids, reply) == [k \in DOMAIN ids |-> reply[ids[k]]]

\* Mutant: the requests are answered in the order of arrival.
ByArrival(ids, items) ==
    LET requests == {ids[k] : k \in DOMAIN ids}
    IN  [r \in requests |-> items[Cardinality({q \in requests : q <= r})]]

\* The items by the ids they carry.
ByRequest(ids, items) ==
    [r \in {ids[k] : k \in DOMAIN ids} |-> items[CHOOSE k \in DOMAIN ids : ids[k] = r]]

\* A result that is not accepted as the answer: the read throws, without a retry.
Fail(kind) ==
    /\ pc' = "failed"
    /\ error' = kind
    /\ UNCHANGED <<attempt, blocks, logs, next, out, outages>>

\* The first attempt of a batch.
Start(batch) ==
    /\ pc' = batch
    /\ attempt' = 0 /\ outages' = 0
    /\ UNCHANGED error

\* Mutant: one attempt too many.
OneMoreAttempt == attempt < RETRIES

AttemptsLeft == attempt + 1 < RETRIES

\* Mutant: after the last attempt the loop starts over.
AttemptFailsForever ==
    /\ pc \in {"blocks", "logs", "receipts"}
    /\ attempt' = (attempt + 1) % RETRIES
    /\ outages' = attempt'
    /\ UNCHANGED <<tracked, pc, blocks, logs, next, out, error, lied>>

\* A timeout, an HTTP error, a body that does not parse, an item with an error,
\* an id that is missing, or one nobody asked for or seen before.
AttemptFails ==
    /\ pc \in {"blocks", "logs", "receipts"}
    /\ attempt' = attempt + 1
    /\ outages' = outages + 1
    /\ \/ AttemptsLeft /\ UNCHANGED <<pc, error>>
       \/ ~AttemptsLeft /\ pc' = "failed" /\ error' = "rpc"
    /\ UNCHANGED <<tracked, blocks, logs, next, out, lied>>

-----------------------------------------------------------------------------
(* fetchBlocksAndLogsByRange                                               *)

\* What one upstream answers: its view, or one number of it confused.
BlockReplies(view) ==
    {view} \cup {[view EXCEPT ![n] = Malformed] : n \in Number}
           \cup {[view EXCEPT ![n] = b] : n \in Number, b \in Stray}

\* normalizeBlock: the result parses, with full transactions, and is the block
\* of that number.
IsBlockOf(item, n) == item # Malformed /\ item.number = n

Candidates(found) ==
    {n \in Number : MayContainTrackedTransfer(found[n].bloom, tracked)}

\* Nothing is asked for when no bloom is positive.
ReadBlocks ==
    /\ pc = "blocks"
    /\ \E view \in View, ids \in Listings(Number) :
       \E reply \in BlockReplies(view) :
          LET found == ByRequest(ids, Arrived(ids, reply))
          IN  /\ lied' = \E n \in Number : ~IsBlockOf(reply[n], n)
              /\ \/ /\ \A n \in Number : IsBlockOf(found[n], n)
                    /\ blocks' = found
                    /\ logs' = [n \in Number |-> <<>>]
                    /\ Start(IF Candidates(found) = {} THEN "process" ELSE "logs")
                    /\ UNCHANGED <<next, out>>
                 \/ /\ \E n \in Number : ~IsBlockOf(found[n], n)
                    /\ Fail("rpc")
    /\ UNCHANGED tracked

TransferLogs(block) == {l \in block.logs : l.topic = Transfer}

\* What eth_getLogs selects: each log with the block it says it is of.
LogArrays(block) ==
    {[k \in DOMAIN s |-> [block |-> block, log |-> s[k]]] : s \in Listings(TransferLogs(block))}

\* An upstream that does not have the block answers with an error, or confuses it.
LogReplies(block) ==
    LogArrays(block) \cup {Malformed}
        \cup ((UNION {LogArrays(b) : b \in Stray \ {block}}) \ {<<>>})

\* normalizeLogs: every log says it is of the block.
AreLogsOf(item, block) ==
    item # Malformed /\ \A i \in DOMAIN item : item[i].block = block

ReadLogs ==
    /\ pc = "logs"
    /\ LET asked == Candidates(blocks)
       IN  \E reply \in [asked -> UNION {LogReplies(blocks[n]) : n \in asked}],
              ids \in Listings(asked) :
              LET found == ByRequest(ids, Arrived(ids, reply))
              IN  /\ \A n \in asked : reply[n] \in LogReplies(blocks[n])
                  /\ lied' = \E n \in asked : reply[n] \notin LogArrays(blocks[n])
                  /\ \/ /\ \A n \in asked : AreLogsOf(found[n], blocks[n])
                        /\ logs' = [n \in Number |->
                                      IF n \in asked
                                        THEN [i \in DOMAIN found[n] |-> found[n][i].log]
                                        ELSE <<>>]
                        /\ Start("process")
                        /\ UNCHANGED <<blocks, next, out>>
                     \/ /\ \E n \in asked : ~AreLogsOf(found[n], blocks[n])
                        /\ Fail("rpc")
    /\ UNCHANGED tracked

-----------------------------------------------------------------------------
(* processBlock                                                            *)

Drafts == AnalyzeBlock(blocks[next], logs[next], tracked)

\* The block is done: its observations are handed over to be written.
Finalize(receipts) ==
    /\ out' = Append(out, [block |-> blocks[next],
                           observations |-> FinalizeBundles(blocks[next], Drafts, receipts)])
    /\ next' = next + 1
    /\ Start(IF next = ToBlock THEN "done" ELSE "process")
    /\ UNCHANGED <<blocks, logs>>

\* No draft, no receipt to ask for.
Process ==
    /\ pc = "process"
    /\ \/ Drafts = {} /\ Finalize(<<>>)
       \/ Drafts # {} /\ Start("receipts") /\ UNCHANGED <<blocks, logs, next, out>>
    /\ UNCHANGED <<tracked, lied>>

ReceiptOf(hash, block) ==
    [tx |-> hash, block |-> block, success |-> hash \notin block.failed]

\* What does not parse is neither an array of logs nor a receipt.
ASSUME MalformedAssumption ==
    \A b \in Block : /\ Malformed \notin LogArrays(b)
                     /\ \A h \in Hashes(b) : Malformed # ReceiptOf(h, b)

\* A receipt of this or another transaction, as this or another branch has it.
ReceiptReplies(block) ==
    {Malformed} \cup UNION {{ReceiptOf(h, b) : h \in Hashes(b)} : b \in Stray \cup {block}}

\* Mutant: the block of the receipt is not compared.
ConfirmsTx(item, hash, block) == item # Malformed /\ item.tx = hash

Confirms(item, hash, block) ==
    item # Malformed /\ item.tx = hash /\ item.block = block

ReadReceipts ==
    /\ pc = "receipts"
    /\ LET block == blocks[next]
           asked == ReceiptHashes(Drafts)
       IN  \E reply \in [asked -> ReceiptReplies(block)], ids \in Listings(asked) :
              LET found == ByRequest(ids, Arrived(ids, reply))
              IN  /\ lied' = \E h \in asked : reply[h] # ReceiptOf(h, block)
                  /\ \/ /\ \E h \in asked : ~Confirms(found[h], h, block)
                        /\ Fail("rpc")
                     \/ /\ \A h \in asked : Confirms(found[h], h, block)
                        /\ Unconfirmed(block, Drafts, found)
                        /\ Fail("other")
                     \/ /\ \A h \in asked : Confirms(found[h], h, block)
                        /\ ~Unconfirmed(block, Drafts, found)
                        /\ Finalize(found)
    /\ UNCHANGED tracked

-----------------------------------------------------------------------------

Next == ReadBlocks \/ ReadLogs \/ Process \/ ReadReceipts \/ AttemptFails

Spec == Init /\ [][Next]_vars

\* Every request has a timeout, so the read goes on whatever the upstreams do.
LiveSpec == Spec /\ WF_vars(Next)

=============================================================================
