---------------------------- MODULE StorageFence ----------------------------
(***************************************************************************)
(* What failover is promised by its StorageFencer seam for one prefix      *)
(* (dispatch/pkg/failover: Fence before a rebind, Release before the       *)
(* source may write again).  `blocked' is the Ceph blocklist entry, `held' *)
(* the pools that were told their fence stands.                            *)
(***************************************************************************)
CONSTANT Pool

VARIABLES blocked, held

Init == blocked = FALSE /\ held = {}

Block == blocked' = TRUE /\ UNCHANGED held

\* A pool may be told its fence stands only while the entry is in place ...
Confirm(p) == blocked /\ held' = {p} /\ UNCHANGED blocked

LetGo(p) == held' = held \ {p} /\ UNCHANGED blocked

\* ... and the entry may only go once every such pool has let go of it.
Unblock == held = {} /\ blocked' = FALSE /\ UNCHANGED held

Next == Block \/ Unblock \/ \E p \in Pool : Confirm(p) \/ LetGo(p)

Spec == Init /\ [][Next]_<<blocked, held>>
=============================================================================
