---------------------------- MODULE MCTurnBridge ----------------------------
(* TurnBridge on a few named threads, message keys and requests.           *)
EXTENDS TurnBridge, TLC

CONSTANTS t1, t2, c1, c2, k1, k2, k3, x1

\* One message posted twice.
PairClientOf == (k1 :> c1) @@ (k2 :> c1)
OneThread == c1 :> t1

\* Two messages of one thread.
ApartClientOf == (k1 :> c1) @@ (k3 :> c2)
SameThread == (c1 :> t1) @@ (c2 :> t1)

\* One message posted once.
SoloClientOf == k1 :> c1
NoCancel == [i \in {} |-> t1]
OneCancel == x1 :> t1
=============================================================================
