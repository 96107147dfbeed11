---------------------------- MODULE MCRangeRead ----------------------------
(***************************************************************************)
(* Blocks 1 and 2.  Block 1 is any of many with one transaction and at     *)
(* most two logs; block 2 has two transactions, and there is a rival of    *)
(* block 2 with the same transactions and other results.                   *)
(***************************************************************************)
EXTENDS RangeReadProperties, TLC

CONSTANTS a, b, o   \* o is tracked by nobody

MCAddress == {a, b, o}
MCWatched == {{a}, {a, b}}

\* The masks of Transfer and b cover that of a, so that a bloom may be positive for nothing.
MCMask == (Transfer :> {0, 1}) @@ (a :> {1, 2}) @@ (b :> {2, 3}) @@ (o :> {4, 5})

Log(topics, word, index, from, to, tx) ==
    [topic |-> Transfer, topics |-> topics, word |-> word, index |-> index,
     from |-> from, to |-> to, tx |-> tx]

Tx(hash, from, to, value) == [hash |-> hash, from |-> from, to |-> to, value |-> value]

BloomOf(emitted) ==
    UNION {MCMask[l.topic] \cup MCMask[l.from] \cup MCMask[l.to] : l \in emitted}

BlockOf(number, txs, failed, emitted) ==
    [number |-> number, txs |-> txs, failed |-> failed, logs |-> emitted,
     bloom |-> BloomOf(emitted)]

\* An ERC-20 transfer, an ERC-721 transfer, both, neither, or a log that is malformed.
SomeLogs ==
    LET erc20 == {Log(3, TRUE, 1, f, t, 1) : f, t \in MCAddress}
        erc721 == {Log(4, FALSE, 0, f, t, 1) : f \in {b, o}, t \in {a, o}}
        toA == {l \in erc20 : l.to = a}
    IN  {{}} \cup {{l} : l \in erc20 \cup erc721} \cup {{l, k} : l \in toA, k \in erc721}
             \cup {{Log(3, FALSE, 0, a, b, 1)}}

Firsts ==
    {BlockOf(1, {Tx(1, f, p[1], p[2])}, {}, emitted) :
        f \in {a, o}, p \in {<<a, 0>>, <<a, 1>>, <<b, 1>>, <<NoAddress, 0>>}, emitted \in SomeLogs}
    \cup {BlockOf(1, {Tx(1, f, t, 1)}, {1}, {}) : f \in {a, o}, t \in {a, o}}

Second == BlockOf(2, {Tx(2, a, b, 1), Tx(3, o, o, 0)}, {},
                  {Log(3, TRUE, 0, o, a, 3), Log(3, TRUE, 1, b, o, 3)})

Rival == BlockOf(2, {Tx(2, a, b, 1), Tx(3, o, o, 0)}, {3}, {})

MCStray == {Second, Rival}
MCBlock == Firsts \cup MCStray
MCView == {[n \in 1..2 |-> IF n = 1 THEN x ELSE y] : x \in Firsts, y \in MCStray}

=============================================================================
