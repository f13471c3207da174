------------------------------ MODULE MCTester ------------------------------
(* A small instance of Tester for TLC: two servers, of which server 0 is     *)
(* started a second time, and two calls: both by clients to server 0, which  *)
(* share its connection; one of them by server 0 to its peer, over the       *)
(* connection its shutdown closes; or one by the peer to server 0.           *)
EXTENDS Tester, TLC

CONSTANTS k1, k2

MCMaxInc == 0 :> 2 @@ 1 :> 1
MCConn == UNION {{"down", "up"} \X {n} \X (1 .. MaxInc[n]) : n \in Node}
MCRpc == {"down", "up"} \X Call

ByClient == <<Client, 0>>
ByServer == <<0, 1>>
ByPeer == <<1, 0>>
Unused == <<Nobody, 0>>

MCRoutes == {k1 :> r[1] @@ k2 :> r[2] : r \in
    {<<ByClient, ByClient>>, <<ByClient, ByServer>>, <<ByPeer, Unused>>}}
=============================================================================
