--------------------------- MODULE MCAgentRoutes ---------------------------
(* A node with one guest VNI (1), which may import a peer (2) and the      *)
(* public default; prefix x is the guest's host prefix, announced in both  *)
(* VNIs; this node's VTEP sorts before the other node's.                   *)
EXTENDS AgentRoutes

GuestKey == <<1, "x">>
PeerKey == <<2, "x">>
DefaultKey == <<1, "d">>
Keys == {GuestKey, PeerKey, DefaultKey}
GuestKeys == {GuestKey}
TableOf == [k \in Keys |-> k[1]]
Learned == {GuestKey, PeerKey, <<Public, "d">>}
OnePeering == {<<1, 2>>}
Refused == {DefaultKey}
FullRib == {[l \in Learned |-> {2}]}
FullConfig == {[egress |-> {1}, imports |-> OnePeering]}
=============================================================================
