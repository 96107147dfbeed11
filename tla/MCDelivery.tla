----------------------------- MODULE MCDelivery -----------------------------
(***************************************************************************)
(* Three webhooks subscribe to one address: the second one's first block   *)
(* is the block of the observation, the third one's is the next block.     *)
(***************************************************************************)
EXTENDS DeliveryProperties, TLC

CONSTANTS w1, w2, w3, o1, c1, c2, r1, r2

MCConsumer == {c1, c2}
ConsumerSymmetry == Permutations(MCConsumer)

MCWebhook == {w1, w2, w3}
MCObservation == {o1}
MCBlockNumber == [o \in MCObservation |-> 2]
MCBoundary == [w \in MCWebhook |-> CASE w = w1 -> 1 [] w = w2 -> 2 [] w = w3 -> 3]
=============================================================================
