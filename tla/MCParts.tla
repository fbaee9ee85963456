------------------------------ MODULE MCParts ------------------------------
(***************************************************************************)
(* One run for five components that share no state: a node's dataplane     *)
(* (routes, NAT owners, load balancers), an edge's agent on the global     *)
(* feed, and the controllers that hand out public addresses.  `part' never *)
(* changes and says which of them moves; the others stay where they start, *)
(* so the states of the run are the sum of the components' and not their   *)
(* product.                                                                *)
(***************************************************************************)
EXTENDS DataplaneRoutes, AddressPool, NatOwners, LoadBalancers, Integers, Sequences

CONSTANTS k1, k2, v1, b1, b2, p1, p2, n1, NoLb, l1

VARIABLES
  part,
  public, nat, session, inbox, edgeLbs, seenPublic, seenNat, globalRecords, replayingGlobal,
  dpLbs, dpNat, failed, lossy, edgeUnsure, changes, faults

edgeVars == <<public, nat, session, inbox, edgeLbs, seenPublic, seenNat, globalRecords,
              replayingGlobal, dpLbs, dpNat, failed, lossy, edgeUnsure, changes, faults>>
vars == <<part, dvars, natVars, lbVars, edgeVars, poolVars>>

MCVniOf == [k \in {k1, k2} |-> v1]

\* Ranges that overlap in part, and that end on and off a power of two.
Span(lo, hi) == [ip |-> 1, lo |-> lo, hi |-> hi]
Owners == {[underlay |-> 1, vni |-> 1], [underlay |-> 2, vni |-> 2]}

MCRanges == {Span(0, 3), Span(1, 4), Span(3, 4)}

\* The maps of a first start, and what a counter that started over with every
\* restart left: addresses on one table, an address on two, slots missing.
None == <<NoBackend, NoBackend>>
Old(r, t1, t2) == [rows |-> r, maglev |-> <<t1, t2, None>>]
Olds == {Old(<<<<0, 0>>, <<0, 0>>>>, None, None),
         Old(<<<<1, 1>>, <<1, 0>>>>, <<b1, b1>>, None),
         Old(<<<<1, 2>>, <<0, 0>>>>, <<b1, NoBackend>>, <<b2, b2>>),
         Old(<<<<1, 2>>, <<2, 0>>>>, <<b1, b1>>, <<b2, NoBackend>>),
         Old(<<<<1, 2>>, <<2, 0>>>>, None, None)}

E == INSTANCE EdgeFeed WITH
       Address <- {1}, PortSet <- {p1, p2}, NatBlock <- {n1},
       NatOwner <- Owners, MaxChanges <- 3, MaxFaults <- 2, unsure <- edgeUnsure

\* The address pool has two addresses of one block each, or of two with the smaller size: the
\* gateway and the load balancer are short of addresses from the start, or become so with the
\* next NIC.
MCStartNics == {{2}, {1, 2}}

MCInit ==
  /\ part \in {"routes", "nat", "lb", "edge", "pool"}
  /\ Init /\ NatInit /\ LbInit /\ E!Init /\ PoolInit
  /\ part # "lb" => rows = <<<<0, 0>>, <<0, 0>>>>
  /\ part # "pool" => nics = {2} /\ due = {}

MCNext ==
  \/ part = "routes" /\ Next /\ UNCHANGED <<part, natVars, lbVars, edgeVars, poolVars>>
  \/ part = "nat" /\ NatNext /\ UNCHANGED <<part, dvars, lbVars, edgeVars, poolVars>>
  \/ part = "lb" /\ LbNext /\ UNCHANGED <<part, dvars, natVars, edgeVars, poolVars>>
  \/ part = "edge" /\ E!Next /\ UNCHANGED <<part, dvars, natVars, lbVars, poolVars>>
  \/ part = "pool" /\ PoolNext /\ UNCHANGED <<part, dvars, natVars, lbVars, edgeVars>>

MCSpec == MCInit /\ [][MCNext]_vars

-----------------------------------------------------------------------------
(***************************************************************************)
(* The properties of the instances, explained in the components' modules.  *)
(***************************************************************************)
\* An edge that handled its session's messages serves exactly the reflector's records.
EdgeMatchesFeed == part = "edge" => E!EdgeMatchesFeed
\* No step of the agent detaches a backend that is still announced.
KeepsLiveBackends == E!KeepsLiveBackends
=============================================================================
