--------------------------- MODULE MCControlPlane ---------------------------
(***************************************************************************)
(* Two webhooks, two chains, one address.  s1 and s2 may be asked for in   *)
(* one request, s1 and s3 have one target, s1 and s4 one tuple.            *)
(***************************************************************************)
EXTENDS ControlPlaneProperties

CONSTANTS s1, s2, s3, s4, h1, h2, a1, c1, c2

MCSub == {s1, s2, s3, s4}
MCWebhook == {h1, h2}
MCChain == {c1, c2}
MCHookOf == [s \in MCSub |-> IF s = s3 THEN h2 ELSE h1]
MCAddressOf == [s \in MCSub |-> a1]
MCChainOf == [s \in MCSub |-> IF s = s2 THEN c2 ELSE c1]
=============================================================================
