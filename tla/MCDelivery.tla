----------------------------- MODULE MCDelivery -----------------------------
(***************************************************************************)
(* Instances of Delivery.  Relay: a and b know only the hub h, h knows     *)
(* both but has no token for a, and each node runs one caller, its         *)
(* auto-sync timer.  Direct: a and b know each other, and two callers run  *)
(* at a.  Pull: b knows a, and a knows nobody.                             *)
(***************************************************************************)
EXTENDS Delivery, TLC

CONSTANTS a, h, b, wa, wa2, wh, wb

Sender(x, y) == [m \in Msg |-> IF m = 1 THEN x ELSE y]

\* 1: from a to b through the hub; 2: from the hub to everyone.
RelayFrom == Sender(a, h)
RelayTo == Sender(b, Everyone)
RelayPeers == a :> <<h>> @@ h :> <<a, b>> @@ b :> <<h>>
RelayTokens == a :> {h} @@ h :> {b} @@ b :> {h}
RelayHome == wa :> a @@ wh :> h @@ wb :> b

\* 1: from a to b; 2: from a to itself.
DirectFrom == Sender(a, a)
DirectTo == Sender(b, a)
DirectPeers == a :> <<b>> @@ b :> <<a>>
DirectTokens == a :> {b} @@ b :> {a}
DirectHome == wa :> a @@ wa2 :> a @@ wb :> b

\* 1: from a to h, which a cannot reach; 2: from a to b, which pulls from a.
PullFrom == Sender(a, a)
PullTo == Sender(h, b)
PullPeers == a :> <<>> @@ h :> <<>> @@ b :> <<a>>
PullTokens == a :> {} @@ h :> {} @@ b :> {a}
PullHome == wa :> a @@ wb :> b
=============================================================================
