-------------------------- MODULE FlowplaneProofs ---------------------------
(***************************************************************************)
(* Proofs about two tables of a node's dataplane that share no state: the  *)
(* routes (DataplaneRoutes) and the owners of the NAT port blocks          *)
(* (NatOwners).  The third, the load balancers, has a module of its own.   *)
(***************************************************************************)
EXTENDS DataplaneRoutes, NatOwners, FiniteSetTheorems, NaturalsInduction, TLAPS

-----------------------------------------------------------------------------
(***************************************************************************)
(* Proofs about DataplaneRoutes, for any keys, routes, VNIs and load       *)
(* balancer anchors, and any failed writes and cut walks: a held key is    *)
(* delivered locally, a mesh route in the kernel is listed, and a listed   *)
(* route has a kernel entry.                                               *)
(*                                                                         *)
(* LocalDelivery alone is not inductive.  A restart that cannot read an    *)
(* interface back from the journal still holds its key, because it         *)
(* recognises the self-route by the key's INTERFACES entry: that a live    *)
(* guest has both entries (Recorded) is what the restart relies on.        *)
(***************************************************************************)
Recorded == live \subseteq journal \cap ifaces

RoutesInv == TypeOK /\ Recorded /\ LocalDelivery /\ MeshRouteIsListed /\ ListedIsRouted

-----------------------------------------------------------------------------
\* No call, failed or not, and no restart leaves the types.
LEMMA RoutesTypeStep ==
  ASSUME TypeOK, [Next]_dvars
  PROVE  TypeOK'
<1> USE DataplaneRoutesAssumption DEF TypeOK, Entry, tables, held
<1>1. CASE UNCHANGED dvars
  BY <1>1, Zenon DEF dvars
<1>2. ASSUME NEW k \in Key, NEW written \in BOOLEAN, NEW r \in Route, ReplaceRoute(k, r, written)
      PROVE  TypeOK'
  BY <1>2, Zenon DEF ReplaceRoute
<1>3. ASSUME NEW k \in Key, NEW written \in BOOLEAN, DeleteRoute(k, written) PROVE TypeOK'
  BY <1>3, Zenon DEF DeleteRoute
<1>4. ASSUME NEW k \in HostKey, CreateInterface(k) PROVE TypeOK'
  BY <1>4, Zenon DEF CreateInterface
<1>5. ASSUME NEW k \in HostKey, DeviceGone(k) PROVE TypeOK'
  BY <1>5, Zenon DEF DeviceGone
<1>6. ASSUME NEW k \in HostKey, NEW entry \in BOOLEAN, NEW route \in BOOLEAN,
             NEW written \in BOOLEAN, CreateInterfaceFails(k, entry, route, written)
      PROVE  TypeOK'
  BY <1>6, Zenon DEF CreateInterfaceFails
<1>7. ASSUME NEW k \in HostKey, NEW written \in BOOLEAN, NEW failed \in SUBSET Key,
             DetachInterface(k, written, failed)
      PROVE  TypeOK'
  BY <1>7, Zenon DEF DetachInterface, Restored
<1>8. ASSUME NEW partial \in BOOLEAN, NEW unread \in SUBSET HostKey, NEW failed \in SUBSET HostKey,
             NEW cut \in SUBSET Key, Restart(partial, unread, cut, failed)
      PROVE  TypeOK'
  BY <1>8, Zenon DEF Restart, Adopted
<1> QED
  BY <1>1, <1>2, <1>3, <1>4, <1>5, <1>6, <1>7, <1>8, Zenon DEF Next

\* No step breaks the inductive invariant.
LEMMA RoutesInvStep ==
  ASSUME RoutesInv, TypeOK', [Next]_dvars
  PROVE  RoutesInv'
<1> USE DataplaneRoutesAssumption DEF RoutesInv, Recorded, LocalDelivery, MeshRouteIsListed,
        ListedIsRouted, TypeOK, Entry, tables, held
<1>1. CASE UNCHANGED dvars
  BY <1>1, Zenon DEF dvars
<1>2. ASSUME NEW k \in Key, NEW written \in BOOLEAN, NEW r \in Route, ReplaceRoute(k, r, written)
      PROVE  RoutesInv'
  BY <1>2 DEF ReplaceRoute, Fails
<1>3. ASSUME NEW k \in Key, NEW written \in BOOLEAN, DeleteRoute(k, written) PROVE RoutesInv'
  BY <1>3 DEF DeleteRoute, Fails
<1>4. ASSUME NEW k \in HostKey, CreateInterface(k) PROVE RoutesInv'
  BY <1>4, Zenon DEF CreateInterface
<1>5. ASSUME NEW k \in HostKey, DeviceGone(k) PROVE RoutesInv'
  BY <1>5, Zenon DEF DeviceGone
<1>6. ASSUME NEW k \in HostKey, NEW entry \in BOOLEAN, NEW route \in BOOLEAN,
             NEW written \in BOOLEAN, CreateInterfaceFails(k, entry, route, written)
      PROVE  RoutesInv'
  BY <1>6, Zenon DEF CreateInterfaceFails
<1>7. ASSUME NEW k \in HostKey, NEW written \in BOOLEAN, NEW failed \in SUBSET Key,
             DetachInterface(k, written, failed)
      PROVE  RoutesInv'
  <2>1. Recorded' /\ (live \ unheld)' \subseteq self_routes'
    BY <1>7, Zenon DEF DetachInterface
  <2>2. ASSUME NEW q \in self_routes' PROVE kernel'[q] = SelfRoute
    BY <1>7, <2>2, Zenon DEF DetachInterface, Restored
  <2>3. MeshRouteIsListed'
    BY <1>7 DEF DetachInterface, Restored, Purged
  <2>4. ListedIsRouted'
    BY <1>7, Zenon DEF DetachInterface, Restored, Purged
  <2> QED
    BY <2>1, <2>2, <2>3, <2>4, Zenon
<1>8. ASSUME NEW partial \in BOOLEAN, NEW unread \in SUBSET HostKey, NEW failed \in SUBSET HostKey,
             NEW cut \in SUBSET Key, Restart(partial, unread, cut, failed)
      PROVE  RoutesInv'
  <2> DEFINE own == (journal \ unread) \cap live
  <2>1. Recorded'
    BY <1>8, Zenon DEF Restart
  <2>2. ASSUME NEW q \in self_routes' PROVE kernel'[q] = SelfRoute
    BY <1>8, <2>2, Zenon DEF Restart, Orphan
  \* An interface that was read back is held or among the failed; one that was not is held as a
  \* doubtful self-route, unless the walk of the trie missed it too or nothing held it before.
  <2>3. ASSUME NEW q \in live PROVE q \in self_routes' \/ q \in unheld'
    <3>1. CASE q \notin unread
      <4>1. q \in own
        BY <2>3, <3>1, Zenon
      <4> QED
        BY <1>8, <4>1, Zenon DEF Restart
    <3>2. CASE q \in unread /\ q \in cut \cup unheld
      BY <1>8, <3>2, Zenon DEF Restart
    <3>3. CASE q \in unread /\ q \notin cut \cup unheld
      <4>1. q \in self_routes /\ kernel[q] = SelfRoute
        BY <2>3, <3>3, Zenon
      <4>2. Orphan(q, own) /\ partial
        BY <1>8, <2>3, <3>3, <4>1, Zenon DEF Restart, Orphan
      <4> QED
        BY <1>8, <2>3, <3>3, <4>2, Zenon DEF Restart
    <3> QED
      BY <3>1, <3>2, <3>3, Zenon
  <2>4. live' \ unheld' \subseteq self_routes'
    BY <1>8, <2>3, Zenon DEF Restart
  \* A kernel entry that is a mesh route was there before, and is listed unless the walk missed it.
  <2>5. MeshRouteIsListed'
    BY <1>8, Zenon DEF Restart, Adopted, Orphan
  <2>6. ListedIsRouted'
    BY <1>8, Zenon DEF Restart, Adopted, Orphan
  <2> QED
    BY <2>1, <2>2, <2>4, <2>5, <2>6, Zenon
<1> QED
  BY <1>1, <1>2, <1>3, <1>4, <1>5, <1>6, <1>7, <1>8, Zenon DEF Next

-----------------------------------------------------------------------------
\* The inductive invariant holds throughout.
THEOREM RoutesInvariant == Spec => []RoutesInv
<1>1. Init => RoutesInv
  BY DataplaneRoutesAssumption, Zenon DEF Init, RoutesInv, TypeOK, Entry, Recorded, LocalDelivery,
     MeshRouteIsListed, ListedIsRouted
<1>2. RoutesInv /\ [Next]_dvars => RoutesInv'
  BY RoutesTypeStep, RoutesInvStep, Zenon DEF RoutesInv
<1> QED
  BY <1>1, <1>2, PTL DEF Spec

\* Every table and set of the dataplane keeps its shape.
THEOREM RoutesTypeCorrect == Spec => []TypeOK
BY RoutesInvariant, PTL DEF RoutesInv

\* A held key is delivered locally whatever the mesh says of it, and a live guest's key is held
\* unless the last adopt failed to write it.
THEOREM LocalDeliveryHolds == Spec => []LocalDelivery
BY RoutesInvariant, PTL DEF RoutesInv

\* Every mesh route the datapath forwards by is listed, so that a withdraw removes it.
THEOREM MeshRouteIsListedHolds == Spec => []MeshRouteIsListed
BY RoutesInvariant, PTL DEF RoutesInv

\* A listed route is never unrouted.
THEOREM ListedIsRoutedHolds == Spec => []ListedIsRouted
BY RoutesInvariant, PTL DEF RoutesInv

-----------------------------------------------------------------------------
(***************************************************************************)
(* The owners of the NAT port blocks, for any port width, ranges, owners,  *)
(* capacity and failed writes: an entry of the trie is a prefix of a       *)
(* listed block, and a return packet for a port of a block that is stored  *)
(* whole reaches the block's owner.                                        *)
(*                                                                         *)
(* The second needs two kinds of facts.  On numbers: the runs that a range *)
(* of ports is cut into are aligned, cover it and nothing else, and two    *)
(* ranges that do not overlap share no run, so that the longest prefix     *)
(* that matches a port is its block's.  On the state: listed blocks do not *)
(* overlap (Apart), each key has one entry, and a listed block whose last  *)
(* call did not fail has all its prefixes (BlocksInv).  A replace goes     *)
(* through the blocks one by one, so the blocks that it leaves in the end  *)
(* must not overlap either at any time on the way (NatInv).                *)
(***************************************************************************)
\* A key of the trie has one entry.
OneEntryPerKey(t) == \A e, f \in t : KeyOf(e) = KeyOf(f) => e = f

\* What one block's step keeps, in a replace or out of one: the types of what it
\* changes, blocks that do not overlap, one entry per key, and all the prefixes
\* of a listed block whose last call did not fail.
BlocksInv ==
  /\ neigh_nats \in SUBSET Block /\ trie \in SUBSET PrefixesOf(Block) /\ torn \in SUBSET Block
  /\ Apart(neigh_nats) /\ OneEntryPerKey(trie)
  /\ \A b \in neigh_nats \ torn : owner_prefixes(b) \subseteq trie
  /\ PrefixesAreListed

\* The blocks that are left when a replace is done do not overlap either.
NatInv ==
  /\ NatTypeOK /\ BlocksInv
  /\ Apart((neigh_nats \ stale) \cup fresh)
  /\ natUp \/ (neigh_nats = {} /\ fresh = {})

-----------------------------------------------------------------------------
(* Ports, runs and prefixes *)

\* A set of numbers that is not empty has a least one.
LEMMA LeastExists ==
  ASSUME NEW S \in SUBSET Nat, S # {}
  PROVE  \E m \in S : \A y \in S : m <= y
<1>1. PICK x \in S : \A y \in S : ~(<<y, x>> \in OpToRel(<, Nat))
  BY NatLessThanWellFounded, WFMin, Zenon
<1>2. \A y \in S : x <= y
  <2> SUFFICES ASSUME NEW y \in S, y < x PROVE FALSE
    OBVIOUS
  <2>1. <<y, x>> \in OpToRel(<, Nat)
    BY Zenon DEF OpToRel
  <2> QED
    BY <1>1, <2>1, Zenon
<1> QED
  BY <1>2, Zenon

\* One that is bounded has a greatest one.
LEMMA GreatestExists ==
  ASSUME NEW S \in SUBSET Nat, S # {}, NEW n \in Nat, \A y \in S : y <= n
  PROVE  \E m \in S : \A y \in S : y <= m
<1> DEFINE D == {n - y : y \in S}
<1>1. D \in SUBSET Nat /\ D # {}
  <2>1. \A y \in S : n - y \in Nat
    OBVIOUS
  <2> QED
    BY <2>1, Zenon
<1>2. PICK d \in D : \A y \in D : d <= y
  <2> HIDE DEF D
  <2> QED
    BY <1>1, LeastExists, Zenon
<1>3. PICK m \in S : d = n - m
  BY <1>2, Zenon
<1>4. \A y \in S : n - m <= n - y
  BY <1>2, <1>3, Zenon
<1>5. \A y \in S : y <= m
  BY <1>4
<1> QED
  BY <1>3, <1>5, Zenon

\* RunSize finds a run: aligned, not empty, and no longer than what is left.
LEMMA RunFits ==
  ASSUME NEW at \in Nat, NEW last \in Nat, at <= last
  PROVE  /\ RunSize(at, last) \in Nat \ {0}
         /\ at % RunSize(at, last) = 0
         /\ at + RunSize(at, last) <= last + 1
<1> DEFINE S == {s \in RunSizes : at % s = 0 /\ at + s - 1 <= last}
<1>1. RunSizes \subseteq Nat \ {0} /\ 1 \in RunSizes
  BY NatOwnersAssumption, Zenon
<1>2. 1 \in S
  BY <1>1
<1>3. S \in SUBSET Nat /\ last + 1 \in Nat /\ \A s \in S : s <= last + 1
  <2>1. ASSUME NEW s \in S PROVE s \in Nat /\ s <= last + 1
    BY <1>1
  <2> QED
    BY <2>1
<1>4. PICK m \in S : \A y \in S : y <= m
  <2> HIDE DEF S
  <2> QED
    BY <1>2, <1>3, GreatestExists, Zenon
<1>5. \A y \in S : m >= y
  BY <1>3, <1>4, Zenon
<1>6. RunSize(at, last) \in S
  <2> HIDE DEF S
  <2>1. Max(S) \in S
    BY <1>5, Zenon DEF Max
  <2> QED
    BY <2>1, Zenon DEF RunSize, S
<1>7. ASSUME NEW s \in S PROVE s \in Nat \ {0} /\ at % s = 0 /\ at + s <= last + 1
  BY <1>1
<1> HIDE DEF S
<1> QED
  BY <1>6, <1>7, Zenon

\* The runs of a range leave no port of it out.
LEMMA RunsCover ==
  ASSUME NEW lo \in Nat, NEW last \in Nat, NEW p \in lo .. last
  PROVE  \E at \in RunStarts(lo, last) : at <= p /\ p < at + RunSize(at, last)
<1> DEFINE R == RunStarts(lo, last)
           Closed(S) == \A x \in S : x + RunSize(x, last) <= last => x + RunSize(x, last) \in S
<1>1. R = {at \in lo .. last : \A S \in SUBSET (lo .. last) : lo \in S /\ Closed(S) => at \in S}
  BY Zenon DEF RunStarts
<1>2. lo \in lo .. last
  OBVIOUS
<1>3. lo \in R
  <2> HIDE DEF R, Closed
  <2> QED
    BY <1>1, <1>2, Zenon
<1>4. ASSUME NEW x \in R, x + RunSize(x, last) <= last
      PROVE  x + RunSize(x, last) \in R
  <2>1. x \in lo .. last
    BY <1>1, Zenon
  <2>2. RunSize(x, last) \in Nat
    <3>1. x \in Nat /\ x <= last
      BY <2>1
    <3> QED
      BY <3>1, RunFits, Zenon
  <2>3. x + RunSize(x, last) \in lo .. last
    BY <1>4, <2>1, <2>2
  <2>4. ASSUME NEW S \in SUBSET (lo .. last), lo \in S, Closed(S)
        PROVE  x + RunSize(x, last) \in S
    <3>1. x \in S
      <4> HIDE DEF R, Closed
      <4> QED
        BY <1>1, <2>4, Zenon
    <3> QED
      BY <1>4, <2>4, <3>1, Zenon
  <2> HIDE DEF R, Closed
  <2> QED
    BY <1>1, <2>3, <2>4, Zenon
<1> DEFINE B == {x \in R : x <= p}
<1>5. R \subseteq lo .. last
  BY <1>1, Zenon
<1> HIDE DEF R
<1>6. B \in SUBSET Nat /\ lo \in B /\ p \in Nat /\ \A y \in B : y <= p
  <2>1. lo .. last \subseteq Nat /\ p \in Nat /\ lo <= p
    OBVIOUS
  <2> QED
    BY <1>3, <1>5, <2>1, Zenon
<1>7. PICK at \in B : \A y \in B : y <= at
  <2> HIDE DEF B
  <2> QED
    BY <1>6, GreatestExists, Zenon
<1>8. at \in R /\ at <= p /\ at \in Nat /\ at <= last
  BY <1>5
<1>9. RunSize(at, last) \in Nat \ {0}
  BY <1>8, RunFits, Zenon
<1>10. ASSUME at + RunSize(at, last) <= p PROVE FALSE
  <2>1. at + RunSize(at, last) <= last
    BY <1>8, <1>9, <1>10
  <2>2. at + RunSize(at, last) \in B
    BY <1>4, <1>8, <1>10, <2>1, Zenon
  <2>3. at + RunSize(at, last) <= at
    BY <1>7, <2>2, Zenon
  <2> QED
    BY <1>8, <1>9, <2>3
<1>11. p < at + RunSize(at, last)
  BY <1>8, <1>9, <1>10
<1> QED
  BY <1>8, <1>11, Zenon DEF R

\* A port matches an aligned prefix exactly when it is within its run.
LEMMA PrefixMatches ==
  ASSUME NEW at \in Nat, NEW s \in Nat \ {0}, at % s = 0, NEW p \in Nat
  PROVE  p \div s = at \div s <=> (at <= p /\ p < at + s)
<1> DEFINE q == at \div s
           r == p \div s
<1>1. q \in Nat /\ r \in Nat
  OBVIOUS
<1>2. at = q * s
  OBVIOUS
<1>3. r * s <= p /\ p < (r + 1) * s
  OBVIOUS
<1> HIDE DEF q, r
<1>4. (r + 1) * s = r * s + s /\ (q + 1) * s = q * s + s
  BY <1>1
<1>5. r = q => at <= p /\ p < at + s
  BY <1>1, <1>2, <1>3, <1>4, Zenon
<1>6. r < q => ~(at <= p)
  <2> SUFFICES ASSUME r < q PROVE ~(at <= p)
    OBVIOUS
  <2>1. (r + 1) * s <= q * s
    BY <1>1
  <2> QED
    BY <1>1, <1>2, <1>3, <2>1
<1>7. r > q => ~(p < at + s)
  <2> SUFFICES ASSUME r > q PROVE ~(p < at + s)
    OBVIOUS
  <2>1. (q + 1) * s <= r * s
    BY <1>1
  <2> QED
    BY <1>1, <1>2, <1>3, <1>4, <2>1
<1>8. r = q <=> (at <= p /\ p < at + s)
  BY <1>1, <1>5, <1>6, <1>7
<1> QED
  BY <1>8, Zenon DEF q, r

\* A block has a range, which is not empty, and an owner.
LEMMA BlockIs ==
  ASSUME NEW b \in Block
  PROVE  /\ b.at \in PortRange /\ b.own \in Owner
         /\ b.at.ip \in Nat /\ b.at.lo \in Nat /\ b.at.hi \in Nat /\ b.at.lo < b.at.hi
         /\ b = [at |-> b.at, own |-> b.own]
<1>1. b.at \in PortRange /\ b.own \in Owner /\ b = [at |-> b.at, own |-> b.own]
  BY Zenon DEF Block
<1> QED
  BY <1>1, NatOwnersAssumption, Zenon

\* The prefixes of a block, run by run.
LEMMA PrefixesAre ==
  ASSUME NEW b \in Block
  PROVE  owner_prefixes(b) =
           {[ip |-> b.at.ip, at |-> at, size |-> RunSize(at, b.at.hi - 1), of |-> b] :
              at \in RunStarts(b.at.lo, b.at.hi - 1)}
<1>1. owner_prefixes(b) = {[ip |-> b.at.ip, at |-> p[1], size |-> p[2], of |-> b] :
                             p \in PortPrefixes(b.at.lo, b.at.hi - 1)}
  BY Zenon DEF owner_prefixes, PrefixTable
<1> DEFINE last == b.at.hi - 1
           R == RunStarts(b.at.lo, last)
           P == PortPrefixes(b.at.lo, last)
<1>2. \A p \in P : \E at \in R : p[1] = at /\ p[2] = RunSize(at, last)
  BY DEF PortPrefixes
<1>3. ASSUME NEW at \in R PROVE \E p \in P : p[1] = at /\ p[2] = RunSize(at, last)
  <2>1. <<at, RunSize(at, last)>> \in P
    BY Zenon DEF PortPrefixes
  <2> QED
    BY <2>1, Zenon
<1>4. owner_prefixes(b) = {[ip |-> b.at.ip, at |-> p[1], size |-> p[2], of |-> b] : p \in P}
  BY <1>1, Zenon
<1> HIDE DEF R, P
<1>5. owner_prefixes(b) = {[ip |-> b.at.ip, at |-> at, size |-> RunSize(at, last), of |-> b] : at \in R}
  BY <1>2, <1>3, <1>4, Zenon
<1> QED
  BY <1>5, Zenon DEF R

\* What the prefixes of a block are.
LEMMA PrefixIs ==
  ASSUME NEW b \in Block, NEW e \in owner_prefixes(b)
  PROVE  /\ e.at \in Nat /\ e.size \in Nat \ {0}
         /\ e.ip = b.at.ip /\ e.of = b
         /\ b.at.lo <= e.at /\ e.at + e.size <= b.at.hi
         /\ e.at % e.size = 0
         /\ e = [ip |-> b.at.ip, at |-> e.at, size |-> RunSize(e.at, b.at.hi - 1), of |-> b]
<1> DEFINE last == b.at.hi - 1
<1>1. b.at.lo \in Nat /\ last \in Nat /\ b.at.lo <= last
  BY BlockIs
<1>2. PICK at \in RunStarts(b.at.lo, last) :
         e = [ip |-> b.at.ip, at |-> at, size |-> RunSize(at, last), of |-> b]
  BY PrefixesAre, Zenon
<1>3. at \in b.at.lo .. last
  BY Zenon DEF RunStarts
<1>4. at \in Nat /\ at <= last /\ b.at.lo <= at
  BY <1>1, <1>3
<1> HIDE DEF last
<1>5. /\ RunSize(at, last) \in Nat \ {0}
      /\ at % RunSize(at, last) = 0
      /\ at + RunSize(at, last) <= last + 1
  BY <1>1, <1>4, RunFits, Zenon
<1>6. last + 1 = b.at.hi
  BY BlockIs DEF last
<1> QED
  BY <1>2, <1>4, <1>5, <1>6, Zenon DEF last

\* Every port of a block has a prefix that matches it.
LEMMA PortHasPrefix ==
  ASSUME NEW b \in Block, NEW p \in b.at.lo .. b.at.hi - 1
  PROVE  \E e \in owner_prefixes(b) : e.at <= p /\ p < e.at + e.size
<1> DEFINE last == b.at.hi - 1
<1>1. b.at.lo \in Nat /\ last \in Nat
  BY BlockIs
<1>2. p \in b.at.lo .. last
  OBVIOUS
<1> HIDE DEF last
<1>3. PICK at \in RunStarts(b.at.lo, last) : at <= p /\ p < at + RunSize(at, last)
  BY <1>1, <1>2, RunsCover, Zenon
<1> DEFINE e == [ip |-> b.at.ip, at |-> at, size |-> RunSize(at, last), of |-> b]
<1>4. e \in owner_prefixes(b)
  BY PrefixesAre, Zenon DEF last
<1> QED
  BY <1>3, <1>4, Zenon

\* A key tells the prefixes of one block apart.
LEMMA KeyTellsPrefix ==
  ASSUME NEW b \in Block, NEW e \in owner_prefixes(b), NEW f \in owner_prefixes(b),
         KeyOf(e) = KeyOf(f)
  PROVE  e = f
<1>1. e.at = f.at
  BY Zenon DEF KeyOf
<1> QED
  BY <1>1, PrefixIs

\* Blocks that do not overlap have no key in common.
LEMMA KeysApart ==
  ASSUME NEW x \in Block, NEW y \in Block,
         x.at.ip = y.at.ip => x.at.hi <= y.at.lo \/ y.at.hi <= x.at.lo
  PROVE  \A e \in owner_prefixes(x), f \in owner_prefixes(y) : KeyOf(e) # KeyOf(f)
<1> SUFFICES ASSUME NEW e \in owner_prefixes(x), NEW f \in owner_prefixes(y), KeyOf(e) = KeyOf(f)
             PROVE  FALSE
  OBVIOUS
<1>1. e.ip = f.ip /\ e.at = f.at
  BY Zenon DEF KeyOf
<1>2. /\ e.at \in Nat /\ e.size \in Nat \ {0} /\ e.ip = x.at.ip
      /\ x.at.lo <= e.at /\ e.at + e.size <= x.at.hi
  BY PrefixIs, Zenon
<1>3. /\ f.at \in Nat /\ f.size \in Nat \ {0} /\ f.ip = y.at.ip
      /\ y.at.lo <= f.at /\ f.at + f.size <= y.at.hi
  BY PrefixIs, Zenon
<1>4. /\ x.at.lo \in Nat /\ x.at.hi \in Nat /\ y.at.lo \in Nat /\ y.at.hi \in Nat
  BY BlockIs, Zenon
<1>5. e.at < x.at.hi /\ f.at < y.at.hi
  BY <1>2, <1>3, <1>4
<1>6. x.at.hi <= y.at.lo \/ y.at.hi <= x.at.lo
  BY <1>1, <1>2, <1>3, Zenon
<1> QED
  BY <1>1, <1>2, <1>3, <1>4, <1>5, <1>6

-----------------------------------------------------------------------------
(* Counting prefixes *)

\* A block has finitely many prefixes.
LEMMA PrefixesFinite ==
  ASSUME NEW b \in Block
  PROVE  IsFiniteSet(owner_prefixes(b))
<1> DEFINE E == owner_prefixes(b)
           T == b.at.lo .. b.at.hi
           f == [e \in E |-> e.at]
<1>1. b.at.lo \in Int /\ b.at.hi \in Int
  BY BlockIs
<1>2. IsFiniteSet(T)
  BY <1>1, FS_Interval, Zenon
<1>3. \A e \in E : e.at \in T
  <2> SUFFICES ASSUME NEW e \in E PROVE e.at \in T
    OBVIOUS
  <2>1. e.at \in Nat /\ e.size \in Nat \ {0} /\ b.at.lo <= e.at /\ e.at + e.size <= b.at.hi
    BY PrefixIs, Zenon
  <2> QED
    BY <1>1, <2>1
<1>4. \A e, g \in E : e.at = g.at => e = g
  BY PrefixIs
<1> HIDE DEF E, T
<1>5. f \in Injection(E, T)
  BY <1>3, <1>4, Zenon DEF Injection, IsInjective
<1>6. IsFiniteSet(E)
  BY <1>2, <1>5, FS_Injection, Zenon
<1> QED
  BY <1>6, Zenon DEF E

\* The number of a block's prefixes depends on its range alone.
LEMMA SameRangeSameCount ==
  ASSUME NEW x \in Block, NEW y \in Block, x.at = y.at
  PROVE  Cardinality(owner_prefixes(x)) = Cardinality(owner_prefixes(y))
<1> DEFINE X == owner_prefixes(x)
           Y == owner_prefixes(y)
           R == RunStarts(x.at.lo, x.at.hi - 1)
           E(b, at) == [ip |-> x.at.ip, at |-> at, size |-> RunSize(at, x.at.hi - 1), of |-> b]
           f == [e \in X |-> E(y, e.at)]
<1>1. X = {E(x, at) : at \in R} /\ Y = {E(y, at) : at \in R}
  BY PrefixesAre, Zenon
<1>2. IsFiniteSet(X)
  BY PrefixesFinite, Zenon
<1> HIDE DEF X, Y, R
<1>3. \A e \in X : E(y, e.at) \in Y
  BY <1>1
<1>4. \A e, g \in X : E(y, e.at) = E(y, g.at) => e = g
  BY <1>1
<1>5. ASSUME NEW h \in Y PROVE \E e \in X : E(y, e.at) = h
  <2>1. PICK at \in R : h = E(y, at)
    BY <1>1, Zenon
  <2>2. E(x, at) \in X /\ E(x, at).at = at
    BY <1>1, Zenon
  <2> QED
    BY <2>1, <2>2, Zenon
<1> HIDE DEF E
<1>6. f \in Bijection(X, Y)
  <2>1. f \in [X -> Y] /\ \A e \in X : f[e] = E(y, e.at)
    BY <1>3, Zenon
  <2> HIDE DEF f
  <2>2. f \in Injection(X, Y)
    BY <1>4, <2>1 DEF Injection, IsInjective
  <2>3. f \in Surjection(X, Y)
    BY <1>5, <2>1, Zenon DEF Surjection
  <2> QED
    BY <2>2, <2>3, Zenon DEF Bijection
<1>7. Cardinality(Y) = Cardinality(X)
  BY <1>2, <1>6, FS_Bijection, Zenon DEF ExistsBijection
<1> QED
  BY <1>7, Zenon DEF X, Y

\* A list has finitely many blocks and prefixes.
LEMMA ListPrefixesFinite ==
  ASSUME NEW L \in SUBSET Block
  PROVE  IsFiniteSet(L) /\ IsFiniteSet(PrefixesOf(L)) /\ Count(L) \in Nat
<1> DEFINE S == {owner_prefixes(b) : b \in L}
           f == [b \in L |-> owner_prefixes(b)]
           g == [b \in Block |-> <<b.at, b.own>>]
<1>1. IsFiniteSet(L)
  <2>1. IsFiniteSet(PortRange \X Owner)
    BY NatOwnersAssumption, FS_Product, Zenon
  <2>2. g \in Injection(Block, PortRange \X Owner)
    <3>1. \A b \in Block : <<b.at, b.own>> \in PortRange \X Owner
      BY BlockIs, Zenon
    <3>2. \A b, c \in Block : <<b.at, b.own>> = <<c.at, c.own>> => b = c
      BY BlockIs, Zenon
    <3> QED
      BY <3>1, <3>2, Zenon DEF Injection, IsInjective
  <2>3. IsFiniteSet(Block)
    <3> HIDE DEF g
    <3> QED
      BY <2>1, <2>2, FS_Injection, Zenon
  <2> QED
    BY <2>3, FS_Subset, Zenon
<1>2. f \in Surjection(L, S)
  BY Zenon DEF Surjection
<1>3. \A T \in S : IsFiniteSet(T)
  BY PrefixesFinite, Zenon
<1>4. IsFiniteSet(UNION S)
  <2> HIDE DEF S, f
  <2>1. IsFiniteSet(S)
    BY <1>1, <1>2, FS_Surjection, Zenon
  <2> QED
    BY <1>3, <2>1, FS_UNION, Zenon
<1>5. IsFiniteSet(PrefixesOf(L))
  BY <1>4, Zenon DEF PrefixesOf
<1> QED
  BY <1>1, <1>5, FS_CardinalityType, Zenon DEF Count

\* A block that is not in a list adds its prefixes to the count.
LEMMA CountAdds ==
  ASSUME NEW L \in SUBSET Block, NEW b \in Block \ L
  PROVE  /\ Count(L \cup {b}) = Count(L) + Cardinality(owner_prefixes(b))
         /\ Cardinality(owner_prefixes(b)) \in Nat /\ Count(L) \in Nat
<1> DEFINE P == PrefixesOf(L)
           E == owner_prefixes(b)
<1>1. IsFiniteSet(P) /\ IsFiniteSet(E) /\ Count(L) \in Nat
  BY ListPrefixesFinite, PrefixesFinite, Zenon
<1>2. PrefixesOf(L \cup {b}) = P \cup E
  BY Zenon DEF PrefixesOf
<1>3. P \cap E = {}
  BY PrefixIs DEF PrefixesOf
<1> HIDE DEF P, E
<1>4. Cardinality(P \cup E) = Cardinality(P) + Cardinality(E) - Cardinality(P \cap E)
  BY <1>1, FS_Union, Zenon
<1>5. Cardinality(P \cap E) = 0
  BY <1>3, FS_EmptySet, Zenon
<1>6. Cardinality(P) \in Nat /\ Cardinality(E) \in Nat
  BY <1>1, FS_CardinalityType, Zenon
<1>7. Cardinality(P \cup E) = Cardinality(P) + Cardinality(E)
  BY <1>4, <1>5, <1>6
<1> QED
  BY <1>1, <1>2, <1>6, <1>7, Zenon DEF Count, P, E

\* One that leaves takes them from it.
LEMMA CountTakes ==
  ASSUME NEW L \in SUBSET Block, NEW b \in L
  PROVE  Count(L \ {b}) = Count(L) - Cardinality(owner_prefixes(b))
<1> DEFINE M == L \ {b}
<1>1. M \in SUBSET Block /\ b \in Block \ M /\ L = M \cup {b}
  OBVIOUS
<1> HIDE DEF M
<1>2. Count(L) = Count(M) + Cardinality(owner_prefixes(b))
      /\ Cardinality(owner_prefixes(b)) \in Nat /\ Count(M) \in Nat
  BY <1>1, CountAdds, Zenon
<1> QED
  BY <1>2 DEF M

\* Blocks that do not overlap start apart: a new one displaces none.
LEMMA InsertAdds ==
  ASSUME NEW L \in SUBSET Block, NEW b \in Block, Apart(L \cup {b}), b \notin L
  PROVE  Insert(L, b) = L \cup {b}
<1>1. \A x \in L : ~(x.at.ip = b.at.ip /\ x.at.lo = b.at.lo)
  <2> SUFFICES ASSUME NEW x \in L, x.at.ip = b.at.ip, x.at.lo = b.at.lo PROVE FALSE
    OBVIOUS
  <2>1. x.at.hi <= b.at.lo \/ b.at.hi <= x.at.lo
    BY Zenon DEF Apart
  <2>2. /\ x.at.lo \in Nat /\ x.at.hi \in Nat /\ x.at.lo < x.at.hi
        /\ b.at.lo \in Nat /\ b.at.hi \in Nat /\ b.at.lo < b.at.hi
    BY BlockIs, Zenon
  <2> QED
    BY <2>1, <2>2
<1> QED
  BY <1>1, Zenon DEF Insert, At

\* A block with the range of a listed one takes its place.
LEMMA InsertReplaces ==
  ASSUME NEW L \in SUBSET Block, NEW b \in Block, Apart(L), NEW old \in L, old.at = b.at
  PROVE  /\ Insert(L, b) = (L \ {old}) \cup {b}
         /\ Apart(Insert(L, b))
         /\ Count(Insert(L, b)) = Count(L)
<1>1. ASSUME NEW x \in L, x.at.ip = b.at.ip, x.at.lo = b.at.lo PROVE x = old
  <2> SUFFICES ASSUME x # old PROVE FALSE
    OBVIOUS
  <2>1. x.at.hi <= old.at.lo \/ old.at.hi <= x.at.lo
    BY <1>1, Zenon DEF Apart
  <2>2. /\ x.at.lo \in Nat /\ x.at.hi \in Nat /\ x.at.lo < x.at.hi
        /\ old.at.lo \in Nat /\ old.at.hi \in Nat /\ old.at.lo < old.at.hi
    BY BlockIs, Zenon
  <2> QED
    BY <1>1, <2>1, <2>2
<1>2. Insert(L, b) = (L \ {old}) \cup {b}
  BY <1>1, Zenon DEF Insert, At
<1>3. Apart((L \ {old}) \cup {b})
  BY Zenon DEF Apart
<1>4. Count((L \ {old}) \cup {b}) = Count(L)
  <2>1. CASE b \in L
    BY <1>1, <2>1, Zenon
  <2>2. CASE b \notin L
    <3> DEFINE M == L \ {old}
    <3>1. M \in SUBSET Block /\ b \in Block \ M /\ old \in Block
      BY <2>2, Zenon
    <3>2. Count(M) = Count(L) - Cardinality(owner_prefixes(old))
      BY CountTakes, Zenon
    <3> HIDE DEF M
    <3>3. /\ Count(M \cup {b}) = Count(M) + Cardinality(owner_prefixes(b))
          /\ Cardinality(owner_prefixes(b)) \in Nat
      BY <3>1, CountAdds, Zenon
    <3>4. Cardinality(owner_prefixes(b)) = Cardinality(owner_prefixes(old))
      BY <3>1, SameRangeSameCount, Zenon
    <3>5. Count(L) \in Nat
      BY ListPrefixesFinite, Zenon
    <3>6. Count(M \cup {b}) = Count(L)
      BY <3>2, <3>3, <3>4, <3>5
    <3> QED
      BY <3>6, Zenon DEF M
  <2> QED
    BY <2>1, <2>2, Zenon
<1> QED
  BY <1>2, <1>3, <1>4, Zenon

\* overlaps4 looks at two blocks only; among blocks that do not overlap each
\* other that is enough.
LEMMA NeighborsSuffice ==
  ASSUME NEW L \in SUBSET Block, Apart(L), NEW b \in Block, ~Overlaps(L, b.at)
  PROVE  b \notin L /\ Apart(L \cup {b})
<1>1. /\ b.at.ip \in Nat /\ b.at.lo \in Nat /\ b.at.hi \in Nat /\ b.at.lo < b.at.hi
      /\ \A x \in L : /\ x.at.ip \in Nat /\ x.at.lo \in Nat /\ x.at.hi \in Nat
                      /\ x.at.lo < x.at.hi
  BY BlockIs, Zenon
<1>2. ASSUME NEW x \in L, x.at.ip = b.at.ip, x.at.lo <= b.at.lo
      PROVE  x.at.hi <= b.at.lo
  <2> DEFINE U == {c \in L : c.at.ip = b.at.ip /\ c.at.lo <= b.at.lo}
             S == {c.at.lo : c \in U}
  <2>1. S \in SUBSET Nat /\ x.at.lo \in S /\ \A n \in S : n <= b.at.lo
    BY <1>1, <1>2, Zenon
  <2>2. PICK m \in S : \A n \in S : n <= m
    <3> HIDE DEF S
    <3> QED
      BY <1>1, <2>1, GreatestExists, Zenon
  <2>3. PICK c \in U : c.at.lo = m
    BY <2>2, Zenon
  <2>4. /\ c \in L /\ c.at.ip = b.at.ip /\ c.at.lo <= b.at.lo
        /\ \A d \in L : d.at.ip = b.at.ip /\ d.at.lo <= b.at.lo => d.at.lo <= c.at.lo
    BY <2>2, <2>3, Zenon
  <2>5. \A d \in L : d.at.ip < b.at.ip \/ (d.at.ip = b.at.ip /\ d.at.lo <= b.at.lo) => ~Before(c, d)
    BY <1>1, <2>4 DEF Before
  <2>6. ~(c.at.hi > b.at.lo)
    BY <2>4, <2>5, Zenon DEF Overlaps
  <2>7. x = c \/ x.at.hi <= c.at.lo \/ c.at.hi <= x.at.lo
    BY <1>2, <2>4, Zenon DEF Apart
  <2>8. x.at.lo <= c.at.lo
    BY <1>2, <2>4, Zenon
  <2> HIDE DEF U, S
  <2> QED
    BY <1>1, <2>4, <2>6, <2>7, <2>8
<1>3. ASSUME NEW x \in L, x.at.ip = b.at.ip, x.at.lo >= b.at.lo
      PROVE  b.at.hi <= x.at.lo
  <2> DEFINE U == {c \in L : c.at.ip = b.at.ip /\ c.at.lo >= b.at.lo}
             S == {c.at.lo : c \in U}
  <2>1. S \in SUBSET Nat /\ x.at.lo \in S
    BY <1>1, <1>3, Zenon
  <2>2. PICK m \in S : \A n \in S : m <= n
    <3> HIDE DEF S
    <3> QED
      BY <2>1, LeastExists, Zenon
  <2>3. PICK c \in U : c.at.lo = m
    BY <2>2, Zenon
  <2>4. /\ c \in L /\ c.at.ip = b.at.ip /\ c.at.lo >= b.at.lo
        /\ \A d \in L : d.at.ip = b.at.ip /\ d.at.lo >= b.at.lo => c.at.lo <= d.at.lo
    BY <2>2, <2>3, Zenon
  <2>5. \A d \in L : d.at.ip > b.at.ip \/ (d.at.ip = b.at.ip /\ d.at.lo >= b.at.lo) => ~Before(d, c)
    BY <1>1, <2>4 DEF Before
  <2>6. ~(c.at.lo < b.at.hi)
    BY <2>4, <2>5, Zenon DEF Overlaps
  <2>7. c.at.lo <= x.at.lo
    BY <1>3, <2>4, Zenon
  <2> HIDE DEF U, S
  <2> QED
    BY <1>1, <2>4, <2>6, <2>7
<1>4. \A x \in L : x.at.ip = b.at.ip => x.at.hi <= b.at.lo \/ b.at.hi <= x.at.lo
  BY <1>1, <1>2, <1>3
<1>5. b \notin L
  BY <1>1, <1>4
<1> QED
  BY <1>4, <1>5, Zenon DEF Apart

-----------------------------------------------------------------------------
(* One block stored, rewritten or removed *)

\* Writing entries with keys of their own keeps one entry per key.
LEMMA UpsertedOnce ==
  ASSUME NEW t, NEW E, OneEntryPerKey(t), OneEntryPerKey(E)
  PROVE  OneEntryPerKey(Upserted(t, E))
BY Zenon DEF OneEntryPerKey, Upserted, Removed, KeysOf

\* Removing entries does too.
LEMMA RemovedOnce ==
  ASSUME NEW t, NEW E, OneEntryPerKey(t)
  PROVE  OneEntryPerKey(Removed(t, E)) /\ Removed(t, E) \subseteq t
BY Zenon DEF OneEntryPerKey, Removed

\* The prefixes of one block have keys of their own.
LEMMA OwnOnce ==
  ASSUME NEW b \in Block, NEW E \in SUBSET owner_prefixes(b)
  PROVE  OneEntryPerKey(E) /\ E \subseteq PrefixesOf(Block)
<1>1. OneEntryPerKey(E)
  BY KeyTellsPrefix, Zenon DEF OneEntryPerKey
<1> QED
  BY <1>1, Zenon DEF PrefixesOf

\* A write to one block's keys spares the others' prefixes.
LEMMA OthersSpared ==
  ASSUME NEW x \in Block, NEW y \in Block, Apart({x, y}), x # y,
         NEW t, owner_prefixes(x) \subseteq t, NEW E \in SUBSET owner_prefixes(y)
  PROVE  owner_prefixes(x) \subseteq Removed(t, E)
<1>1. \A e \in owner_prefixes(x), f \in owner_prefixes(y) : KeyOf(e) # KeyOf(f)
  BY KeysApart, Zenon DEF Apart
<1> QED
  BY <1>1, Zenon DEF Removed, KeysOf

\* store_block4 keeps the invariant, whatever fails.
LEMMA StoreKeeps ==
  ASSUME BlocksInv, NEW b \in Block, b \notin neigh_nats, Apart(neigh_nats \cup {b}),
         Stored(b) \/ StoreFails(b), UNCHANGED <<orphaned, natUp>>
  PROVE  /\ BlocksInv'
         /\ neigh_nats' = neigh_nats \/ neigh_nats' = neigh_nats \cup {b}
         /\ Stored(b) => neigh_nats' = neigh_nats \cup {b}
<1> DEFINE E == owner_prefixes(b)
<1>1. Insert(neigh_nats, b) = neigh_nats \cup {b}
  BY InsertAdds, Zenon DEF BlocksInv
<1>2. /\ Count(neigh_nats \cup {b}) = nat_owner_count + Cardinality(E)
  BY CountAdds, Zenon DEF BlocksInv, PrefixesAreListed
<1>3. \A x \in neigh_nats : Apart({x, b}) /\ x \in Block
  BY Zenon DEF Apart, BlocksInv
<1>4. ASSUME NEW W \in SUBSET E
      PROVE  /\ OneEntryPerKey(Removed(trie, W)) /\ OneEntryPerKey(Upserted(trie, W))
             /\ Removed(trie, W) \in SUBSET PrefixesOf(Block)
             /\ Upserted(trie, W) \in SUBSET PrefixesOf(Block)
             /\ \A x \in neigh_nats \ torn : owner_prefixes(x) \subseteq Removed(trie, W)
  <2>1. OneEntryPerKey(W) /\ W \subseteq PrefixesOf(Block)
    BY OwnOnce, Zenon
  <2>2. OneEntryPerKey(trie) /\ trie \in SUBSET PrefixesOf(Block)
    BY Zenon DEF BlocksInv
  <2>3. ASSUME NEW x \in neigh_nats \ torn PROVE owner_prefixes(x) \subseteq Removed(trie, W)
    BY <1>3, OthersSpared, Zenon DEF BlocksInv
  <2>4. OneEntryPerKey(Removed(trie, W)) /\ Removed(trie, W) \subseteq trie
    BY <2>2, RemovedOnce, Zenon
  <2>5. OneEntryPerKey(Upserted(trie, W))
    BY <2>1, <2>2, UpsertedOnce, Zenon
  <2> QED
    BY <2>1, <2>2, <2>3, <2>4, <2>5, Zenon DEF Upserted
<1>5. CASE Stored(b)
  <2>1. /\ neigh_nats' = neigh_nats \cup {b} /\ trie' = Upserted(trie, E) /\ torn' = torn \ {b}
        /\ nat_owner_count' = nat_owner_count + Cardinality(E)
    BY <1>1, <1>5, Zenon DEF Stored, Inserted
  <2>2. \A x \in neigh_nats' \ torn' : owner_prefixes(x) \subseteq trie'
    BY <1>4, <2>1, Zenon DEF Upserted
  <2>3. KeysOf(trie) \subseteq KeysOf(PrefixesOf(neigh_nats))
          => KeysOf(trie') \subseteq KeysOf(PrefixesOf(neigh_nats'))
    BY <2>1 DEF KeysOf, PrefixesOf, Upserted, Removed
  <2>4. PrefixesAreListed'
    BY <1>2, <2>1, <2>3, Zenon DEF PrefixesAreListed, BlocksInv
  <2> QED
    BY <1>4, <2>1, <2>2, <2>4, Zenon DEF BlocksInv
<1>6. ASSUME UNCHANGED <<neigh_nats, trie, nat_owner_count, torn>>
      PROVE  BlocksInv' /\ neigh_nats' = neigh_nats
  BY <1>6, Zenon DEF BlocksInv, PrefixesAreListed
<1>7. ASSUME ~Stored(b), NEW W \in SUBSET E, trie' = Removed(trie, W),
             UNCHANGED <<neigh_nats, nat_owner_count, torn>>
      PROVE  BlocksInv' /\ neigh_nats' = neigh_nats
  <2>1. KeysOf(trie) \subseteq KeysOf(PrefixesOf(neigh_nats))
          => KeysOf(trie') \subseteq KeysOf(PrefixesOf(neigh_nats'))
    BY <1>7, Zenon DEF KeysOf, Removed
  <2>2. PrefixesAreListed'
    BY <1>7, <2>1, Zenon DEF PrefixesAreListed, BlocksInv
  <2> QED
    BY <1>4, <1>7, <2>2, Zenon DEF BlocksInv
<1>8. ASSUME ~Stored(b), NEW W \in SUBSET E, NEW left \in SUBSET W, Inserted(b),
             trie' = Upserted(Removed(trie, W), left), torn' = torn \cup {b}
      PROVE  BlocksInv' /\ neigh_nats' = neigh_nats \cup {b}
  <2> DEFINE t == Removed(trie, W)
  <2>1. neigh_nats' = neigh_nats \cup {b} /\ nat_owner_count' = nat_owner_count + Cardinality(E)
    BY <1>1, <1>8, Zenon DEF Inserted
  <2>2. OneEntryPerKey(t) /\ t \in SUBSET PrefixesOf(Block)
    BY <1>4, Zenon
  <2>3. OneEntryPerKey(left) /\ left \subseteq PrefixesOf(Block)
    BY OwnOnce, Zenon
  <2>4. OneEntryPerKey(trie') /\ trie' \in SUBSET PrefixesOf(Block)
    <3> HIDE DEF t
    <3>1. OneEntryPerKey(Upserted(t, left))
      BY <2>2, <2>3, UpsertedOnce, Zenon
    <3>2. Upserted(t, left) \in SUBSET PrefixesOf(Block)
      BY <2>2, <2>3, Zenon DEF Upserted, Removed
    <3> QED
      BY <1>8, <3>1, <3>2, Zenon DEF t
  <2>5. \A x \in neigh_nats' \ torn' : owner_prefixes(x) \subseteq trie'
    <3> SUFFICES ASSUME NEW x \in neigh_nats \ torn, x # b PROVE owner_prefixes(x) \subseteq trie'
      BY <1>8, <2>1, Zenon
    <3>1. owner_prefixes(x) \subseteq t
      BY <1>4, Zenon
    <3> HIDE DEF t
    <3>2. owner_prefixes(x) \subseteq Removed(t, left)
      BY <1>3, <3>1, OthersSpared, Zenon
    <3> QED
      BY <1>8, <3>2, Zenon DEF Upserted, t
  <2>6. KeysOf(trie) \subseteq KeysOf(PrefixesOf(neigh_nats))
          => KeysOf(trie') \subseteq KeysOf(PrefixesOf(neigh_nats'))
    BY <1>8, <2>1 DEF KeysOf, PrefixesOf, Upserted, Removed
  <2>7. PrefixesAreListed'
    BY <1>2, <2>1, <2>6, Zenon DEF PrefixesAreListed, BlocksInv
  <2> QED
    BY <1>8, <2>1, <2>4, <2>5, <2>7, Zenon DEF BlocksInv
<1>9. \A done \in Cuts(b) : done \in SUBSET E
  BY Zenon DEF Cuts
<1>10. CASE StoreFails(b) /\ ~Stored(b)
  <2>1. CASE UNCHANGED <<neigh_nats, trie, nat_owner_count, torn>>
    BY <1>6, <1>10, <2>1, Zenon
  <2>2. ASSUME NEW done \in Cuts(b), trie' = Removed(trie, done),
               UNCHANGED <<neigh_nats, nat_owner_count, torn>>
        PROVE  BlocksInv' /\ neigh_nats' = neigh_nats
    BY <1>7, <1>9, <1>10, <2>2, Zenon
  <2>3. ASSUME NEW done \in Cuts(b), NEW left \in SUBSET done, Inserted(b),
               trie' = Upserted(Removed(trie, done), left), torn' = torn \cup {b}
        PROVE  BlocksInv' /\ neigh_nats' = neigh_nats \cup {b}
    BY <1>8, <1>9, <1>10, <2>3, Zenon
  <2> QED
    BY <1>10, <2>1, <2>2, <2>3 DEF StoreFails
<1> QED
  BY <1>5, <1>10, Zenon

\* Rewriting a block in place keeps it too.
LEMMA RewriteKeeps ==
  ASSUME BlocksInv, NEW b \in Block, NEW old \in neigh_nats, old.at = b.at,
         Rewritten(old, b) \/ RewriteFails(old, b), UNCHANGED <<orphaned, natUp>>
  PROVE  BlocksInv'
<1> DEFINE E == owner_prefixes(b)
<1>1. /\ Insert(neigh_nats, b) = (neigh_nats \ {old}) \cup {b}
      /\ Apart((neigh_nats \ {old}) \cup {b})
      /\ Count((neigh_nats \ {old}) \cup {b}) = Count(neigh_nats)
  BY InsertReplaces, Zenon DEF BlocksInv
<1>2. \A x \in neigh_nats : x \in Block /\ (x # old => x # b /\ Apart({x, b}))
  <2> SUFFICES ASSUME NEW x \in neigh_nats, x # old PROVE x # b /\ Apart({x, b})
    BY Zenon DEF BlocksInv
  <2>1. b # x
    <3> SUFFICES ASSUME b = x PROVE FALSE
      OBVIOUS
    <3>1. x.at.hi <= old.at.lo \/ old.at.hi <= x.at.lo
      BY Zenon DEF Apart, BlocksInv
    <3>2. old.at.lo \in Nat /\ old.at.hi \in Nat /\ old.at.lo < old.at.hi
      BY BlockIs, Zenon DEF BlocksInv
    <3> QED
      BY <3>1, <3>2
  <2> QED
    BY <1>1, <2>1, Zenon DEF Apart
<1>3. KeysOf(E) = KeysOf(owner_prefixes(old))
  <2>1. old \in Block
    BY Zenon DEF BlocksInv
  <2>2. \A x, y \in Block : x.at = y.at => \A e \in owner_prefixes(x) :
           \E f \in owner_prefixes(y) : KeyOf(f) = KeyOf(e)
    <3> SUFFICES ASSUME NEW x \in Block, NEW y \in Block, x.at = y.at, NEW e \in owner_prefixes(x)
                 PROVE  \E f \in owner_prefixes(y) : KeyOf(f) = KeyOf(e)
      OBVIOUS
    <3> DEFINE R == RunStarts(x.at.lo, x.at.hi - 1)
               G(c, at) == [ip |-> x.at.ip, at |-> at, size |-> RunSize(at, x.at.hi - 1), of |-> c]
    <3>1. owner_prefixes(x) = {G(x, at) : at \in R} /\ owner_prefixes(y) = {G(y, at) : at \in R}
      BY PrefixesAre, Zenon
    <3> HIDE DEF R
    <3>2. PICK at \in R : e = G(x, at)
      BY <3>1, Zenon
    <3>3. G(y, at) \in owner_prefixes(y) /\ KeyOf(G(y, at)) = KeyOf(e)
      BY <3>1, <3>2, Zenon DEF KeyOf
    <3> QED
      BY <3>3, Zenon
  <2> QED
    BY <2>1, <2>2 DEF KeysOf
<1>4. ASSUME NEW W \in SUBSET E
      PROVE  /\ OneEntryPerKey(Upserted(trie, W))
             /\ Upserted(trie, W) \in SUBSET PrefixesOf(Block)
             /\ \A x \in neigh_nats \ torn : x # old => owner_prefixes(x) \subseteq Upserted(trie, W)
             /\ KeysOf(Upserted(trie, W)) \subseteq KeysOf(trie) \cup KeysOf(E)
  <2>1. OneEntryPerKey(W) /\ W \subseteq PrefixesOf(Block)
    BY OwnOnce, Zenon
  <2>2. OneEntryPerKey(trie) /\ trie \in SUBSET PrefixesOf(Block)
    BY Zenon DEF BlocksInv
  <2>3. OneEntryPerKey(Upserted(trie, W))
    BY <2>1, <2>2, UpsertedOnce, Zenon
  <2>4. ASSUME NEW x \in neigh_nats \ torn, x # old PROVE owner_prefixes(x) \subseteq Removed(trie, W)
    BY <1>2, <2>4, OthersSpared, Zenon DEF BlocksInv
  <2>5. KeysOf(Upserted(trie, W)) \subseteq KeysOf(trie) \cup KeysOf(E)
    BY Zenon DEF KeysOf, Upserted, Removed
  <2> QED
    BY <2>1, <2>2, <2>3, <2>4, <2>5, Zenon DEF Upserted, Removed
<1>5. KeysOf(trie) \subseteq KeysOf(PrefixesOf(neigh_nats))
        => KeysOf(trie) \cup KeysOf(E) \subseteq KeysOf(PrefixesOf(neigh_nats))
  BY <1>3, Zenon DEF KeysOf, PrefixesOf
<1>6. CASE Rewritten(old, b)
  <2>1. /\ neigh_nats' = (neigh_nats \ {old}) \cup {b} /\ trie' = Upserted(trie, E)
        /\ torn' = torn \ {old, b} /\ nat_owner_count' = nat_owner_count
    BY <1>1, <1>6, Zenon DEF Rewritten
  <2>2. \A x \in neigh_nats' \ torn' : owner_prefixes(x) \subseteq trie'
    BY <1>4, <2>1, Zenon DEF Upserted
  <2>3. KeysOf(PrefixesOf(neigh_nats)) \subseteq KeysOf(PrefixesOf(neigh_nats'))
    BY <1>3, <2>1 DEF KeysOf, PrefixesOf
  <2>4. KeysOf(trie') \subseteq KeysOf(trie) \cup KeysOf(E)
    BY <1>4, <2>1, Zenon
  <2>5. PrefixesAreListed'
    BY <1>1, <1>5, <2>1, <2>3, <2>4, Zenon DEF PrefixesAreListed, BlocksInv
  <2>6. OneEntryPerKey(trie') /\ trie' \in SUBSET PrefixesOf(Block)
    BY <1>4, <2>1, Zenon
  <2> QED
    BY <1>1, <2>1, <2>2, <2>5, <2>6, Zenon DEF BlocksInv
<1>7. CASE RewriteFails(old, b)
  <2>1. PICK W \in Cuts(b) : trie' = Upserted(trie, W)
    BY <1>7, Zenon DEF RewriteFails
  <2>2. torn' = torn \cup {old} /\ UNCHANGED <<neigh_nats, nat_owner_count>>
    BY <1>7, Zenon DEF RewriteFails
  <2>3. W \in SUBSET E
    BY Zenon DEF Cuts
  <2>4. /\ OneEntryPerKey(trie') /\ trie' \in SUBSET PrefixesOf(Block)
        /\ \A x \in neigh_nats \ torn : x # old => owner_prefixes(x) \subseteq trie'
        /\ KeysOf(trie') \subseteq KeysOf(trie) \cup KeysOf(E)
    BY <1>4, <2>1, <2>3, Zenon
  <2>5. PrefixesAreListed'
    BY <1>5, <2>2, <2>4, Zenon DEF PrefixesAreListed, BlocksInv
  <2> QED
    BY <2>2, <2>4, <2>5, Zenon DEF BlocksInv
<1> QED
  BY <1>6, <1>7, Zenon

\* del_neighbor_nat keeps it, whether or not every removal succeeds.
LEMMA DeleteKeeps ==
  ASSUME BlocksInv, NEW b \in neigh_nats, Deleted(b) \/ DeleteFails(b),
         UNCHANGED <<orphaned, natUp>>
  PROVE  BlocksInv'
<1> DEFINE E == owner_prefixes(b)
<1>1. b \in Block /\ \A x \in neigh_nats : x \in Block /\ Apart({x, b})
  BY Zenon DEF Apart, BlocksInv
<1>2. ASSUME NEW W \in SUBSET E
      PROVE  /\ OneEntryPerKey(Removed(trie, W))
             /\ Removed(trie, W) \in SUBSET PrefixesOf(Block)
             /\ \A x \in neigh_nats \ torn : x # b => owner_prefixes(x) \subseteq Removed(trie, W)
             /\ KeysOf(Removed(trie, W)) = KeysOf(trie) \ KeysOf(W)
  <2>1. OneEntryPerKey(Removed(trie, W)) /\ Removed(trie, W) \subseteq trie
    BY RemovedOnce, Zenon DEF BlocksInv
  <2>2. ASSUME NEW x \in neigh_nats \ torn, x # b PROVE owner_prefixes(x) \subseteq Removed(trie, W)
    BY <1>1, <2>2, OthersSpared, Zenon DEF BlocksInv
  <2>3. KeysOf(Removed(trie, W)) = KeysOf(trie) \ KeysOf(W)
    BY Zenon DEF KeysOf, Removed
  <2> QED
    BY <2>1, <2>2, <2>3, Zenon DEF BlocksInv
<1>3. CASE Deleted(b)
  <2>1. /\ neigh_nats' = neigh_nats \ {b} /\ trie' = Removed(trie, E) /\ torn' = torn \ {b}
        /\ nat_owner_count' = nat_owner_count - Cardinality(E)
    BY <1>3, Zenon DEF Deleted
  <2>2. /\ OneEntryPerKey(trie') /\ trie' \in SUBSET PrefixesOf(Block)
        /\ \A x \in neigh_nats \ torn : x # b => owner_prefixes(x) \subseteq trie'
        /\ KeysOf(trie') = KeysOf(trie) \ KeysOf(E)
    BY <1>2, <2>1, Zenon
  <2>3. KeysOf(PrefixesOf(neigh_nats)) \subseteq KeysOf(PrefixesOf(neigh_nats \ {b})) \cup KeysOf(E)
    BY Zenon DEF KeysOf, PrefixesOf
  <2>4. Count(neigh_nats \ {b}) = Count(neigh_nats) - Cardinality(E)
    BY CountTakes, Zenon DEF BlocksInv
  <2>5. PrefixesAreListed'
    BY <2>1, <2>2, <2>3, <2>4, Zenon DEF PrefixesAreListed, BlocksInv
  <2>6. Apart(neigh_nats \ {b})
    BY Zenon DEF Apart, BlocksInv
  <2> QED
    BY <2>1, <2>2, <2>5, <2>6, Zenon DEF BlocksInv
<1>4. CASE DeleteFails(b)
  <2>1. PICK left \in SUBSET E : trie' = Removed(trie, E \ left)
    BY <1>4, Zenon DEF DeleteFails
  <2>2. torn' = torn \cup {b} /\ UNCHANGED <<neigh_nats, nat_owner_count>>
    BY <1>4, Zenon DEF DeleteFails
  <2>3. /\ OneEntryPerKey(trie') /\ trie' \in SUBSET PrefixesOf(Block)
        /\ \A x \in neigh_nats \ torn : x # b => owner_prefixes(x) \subseteq trie'
        /\ KeysOf(trie') \subseteq KeysOf(trie)
    BY <1>2, <2>1, Zenon
  <2>4. PrefixesAreListed'
    BY <2>2, <2>3, Zenon DEF PrefixesAreListed, BlocksInv
  <2> QED
    BY <1>1, <2>2, <2>3, <2>4, Zenon DEF BlocksInv
<1> QED
  BY <1>3, <1>4, Zenon

-----------------------------------------------------------------------------
(* Restart *)

\* No two of the blocks a walk read are rebuilt at one start.
LEMMA RebuiltIs ==
  ASSUME NEW walked \in SUBSET PrefixesOf(Block), NEW R \in Rebuilt(walked)
  PROVE  /\ R \in SUBSET Block
         /\ \A x, y \in R : x.at.ip = y.at.ip /\ x.at.lo = y.at.lo => x = y
<1> DEFINE B == {e.of : e \in walked}
<1>1. R \in SUBSET B /\ \A b \in B : Cardinality(At(R, b.at)) = 1
  BY Zenon DEF Rebuilt
<1>2. B \subseteq Block
  BY PrefixIs DEF PrefixesOf
<1>3. IsFiniteSet(R)
  BY <1>1, <1>2, ListPrefixesFinite, Zenon
<1>4. ASSUME NEW x \in R, NEW y \in R, x.at.ip = y.at.ip, x.at.lo = y.at.lo PROVE x = y
  <2>1. Cardinality(At(R, x.at)) = 1
    BY <1>1, Zenon
  <2>2. At(R, x.at) \in SUBSET R /\ x \in At(R, x.at) /\ y \in At(R, x.at)
    BY <1>4, Zenon DEF At
  <2>3. IsFiniteSet(At(R, x.at))
    BY <1>3, <2>2, FS_Subset, Zenon
  <2>4. PICK z : At(R, x.at) = {z}
    BY <2>1, <2>3, FS_Singleton, Zenon
  <2> QED
    BY <2>2, <2>4, Zenon
<1> QED
  BY <1>1, <1>2, <1>4, Zenon

\* One pass over neighbours leaves no overlap.
LEMMA RetainedApart ==
  ASSUME NEW R \in SUBSET Block,
         \A x, y \in R : x.at.ip = y.at.ip /\ x.at.lo = y.at.lo => x = y,
         NEW L \in NoOverlap(R)
  PROVE  L \in SUBSET Block /\ Apart(L)
<1>1. /\ L \in SUBSET R
      /\ \A b, k \in L : LastBefore(L, k, b) /\ k.at.ip = b.at.ip => ~(b.at.lo < k.at.hi)
  BY Zenon DEF NoOverlap
<1>2. \A x \in L : /\ x.at.ip \in Nat /\ x.at.lo \in Nat /\ x.at.hi \in Nat
                   /\ x.at.lo < x.at.hi
  BY <1>1, BlockIs, Zenon
<1> DEFINE Bad(y) == \E x \in L : /\ x.at.ip = y.at.ip /\ x.at.lo < y.at.lo
                                  /\ ~(x.at.hi <= y.at.lo)
           S == {y.at.lo : y \in {z \in L : Bad(z)}}
<1>3. S = {}
  <2> SUFFICES ASSUME S # {} PROVE FALSE
    OBVIOUS
  <2>1. S \in SUBSET Nat
    BY <1>2, Zenon
  <2>2. PICK m \in S : \A n \in S : m <= n
    <3> HIDE DEF S
    <3> QED
      BY <2>1, LeastExists, Zenon
  <2>3. PICK y \in L : Bad(y) /\ y.at.lo = m
    BY <2>2, Zenon
  <2>4. \A z \in L : Bad(z) => y.at.lo <= z.at.lo
    BY <2>2, <2>3, Zenon
  <2> HIDE DEF S
  <2>5. PICK x \in L : x.at.ip = y.at.ip /\ x.at.lo < y.at.lo /\ ~(x.at.hi <= y.at.lo)
    BY <2>3, Zenon
  <2> DEFINE U == {k \in L : k.at.ip = y.at.ip /\ k.at.lo < y.at.lo}
             T == {k.at.lo : k \in U}
  <2>6. T \in SUBSET Nat /\ x.at.lo \in T /\ y.at.lo \in Nat /\ \A n \in T : n <= y.at.lo
    BY <1>2, <2>5
  <2>7. PICK n \in T : \A j \in T : j <= n
    <3> HIDE DEF T
    <3> QED
      BY <2>6, GreatestExists, Zenon
  <2>8. PICK k \in U : k.at.lo = n
    BY <2>7, Zenon
  <2>9. /\ k \in L /\ k.at.ip = y.at.ip /\ k.at.lo < y.at.lo
        /\ \A z \in L : z.at.ip = y.at.ip /\ z.at.lo < y.at.lo => z.at.lo <= k.at.lo
    BY <2>7, <2>8, Zenon
  <2> HIDE DEF U, T, Bad
  <2>10. LastBefore(L, k, y)
    BY <1>2, <2>9 DEF LastBefore, Before
  <2>11. k.at.hi <= y.at.lo
    BY <1>1, <1>2, <2>9, <2>10
  <2>12. x.at.lo <= k.at.lo
    BY <2>5, <2>9, Zenon
  <2>13. CASE x.at.lo = k.at.lo
    <3>1. x = k
      BY <1>1, <2>5, <2>9, <2>13, Zenon
    <3> QED
      BY <2>5, <2>11, <3>1, Zenon
  <2>14. CASE x.at.lo < k.at.lo
    <3>1. ~Bad(k)
      BY <1>2, <2>4, <2>9
    <3>2. x.at.hi <= k.at.lo
      BY <2>5, <2>9, <2>14, <3>1, Zenon DEF Bad
    <3> QED
      BY <1>2, <2>5, <2>9, <2>11, <3>2
  <2> QED
    BY <1>2, <2>9, <2>12, <2>13, <2>14
<1>4. \A x, y \in L : x.at.ip = y.at.ip /\ x.at.lo < y.at.lo => x.at.hi <= y.at.lo
  BY <1>3
<1>5. \A x, y \in L : x # y /\ x.at.ip = y.at.ip => x.at.lo < y.at.lo \/ y.at.lo < x.at.lo
  BY <1>1, <1>2
<1> QED
  BY <1>1, <1>4, <1>5, Zenon DEF Apart

\* An adoption lists blocks that do not overlap, keeps one entry per key, and
\* completes every block it did not fail to write.
LEMMA AdoptKeeps ==
  ASSUME NatTypeOK, BlocksInv, AdoptNatOwners
  PROVE  BlocksInv' /\ natUp' /\ orphaned' \in BOOLEAN
<1> DEFINE Adopts(walked, L) ==
       LET want == PrefixesOf(L)
           extra == {e \in walked : KeyOf(e) \notin KeysOf(want)}
       IN \E lost \in SUBSET want : \E kept \in SUBSET extra :
            /\ walked # trie => kept = extra
            /\ neigh_nats' = L
            /\ nat_owner_count' = Count(L)
            /\ trie' = Removed(Upserted(trie, want \ lost), extra \ kept)
            /\ torn' = {b \in L : owner_prefixes(b) \cap lost # {}}
            /\ orphaned' = (walked # trie \/ kept # {})
<1>1. PICK walked \in SUBSET trie : \E R \in Rebuilt(walked) : \E L \in NoOverlap(R) :
             Adopts(walked, L)
  BY Zenon DEF AdoptNatOwners
<1>2. PICK R \in Rebuilt(walked) : \E L \in NoOverlap(R) : Adopts(walked, L)
  BY <1>1, Zenon
<1>3. PICK L \in NoOverlap(R) : Adopts(walked, L)
  BY <1>2, Zenon
<1> DEFINE want == PrefixesOf(L)
           extra == {e \in walked : KeyOf(e) \notin KeysOf(want)}
<1>4. PICK lost \in SUBSET want, kept \in SUBSET extra :
        /\ walked # trie => kept = extra
        /\ neigh_nats' = L
        /\ nat_owner_count' = Count(L)
        /\ trie' = Removed(Upserted(trie, want \ lost), extra \ kept)
        /\ torn' = {b \in L : owner_prefixes(b) \cap lost # {}}
        /\ orphaned' = (walked # trie \/ kept # {})
  BY <1>3, Zenon
<1>5. L \in SUBSET Block /\ Apart(L)
  <2>1. walked \in SUBSET PrefixesOf(Block)
    BY Zenon DEF BlocksInv
  <2> QED
    BY <2>1, RebuiltIs, RetainedApart, Zenon
<1>6. OneEntryPerKey(want) /\ want \subseteq PrefixesOf(Block)
  <2> SUFFICES ASSUME NEW x \in L, NEW y \in L, NEW e \in owner_prefixes(x), NEW f \in owner_prefixes(y),
                      KeyOf(e) = KeyOf(f)
               PROVE  e = f
    BY <1>5 DEF OneEntryPerKey, PrefixesOf
  <2>1. CASE x = y
    BY <1>5, <2>1, KeyTellsPrefix, Zenon
  <2>2. CASE x # y
    BY <1>5, <2>2, KeysApart, Zenon DEF Apart
  <2> QED
    BY <2>1, <2>2, Zenon
<1>7. OneEntryPerKey(trie') /\ trie' \in SUBSET PrefixesOf(Block)
  <2> DEFINE new == want \ lost
  <2>1. OneEntryPerKey(new) /\ new \subseteq PrefixesOf(Block)
    BY <1>6, Zenon DEF OneEntryPerKey
  <2> HIDE DEF new
  <2>2. OneEntryPerKey(Upserted(trie, new))
    BY <2>1, UpsertedOnce, Zenon DEF BlocksInv
  <2>3. Upserted(trie, new) \in SUBSET PrefixesOf(Block)
    BY <2>1, Zenon DEF Upserted, Removed, BlocksInv
  <2> DEFINE u == Upserted(trie, new)
             gone == extra \ kept
  <2>4. trie' = Removed(u, gone)
    BY <1>4, Zenon DEF new
  <2> HIDE DEF u, gone
  <2>5. OneEntryPerKey(u) /\ u \in SUBSET PrefixesOf(Block)
    BY <2>2, <2>3, Zenon DEF u
  <2> QED
    BY <2>4, <2>5, RemovedOnce, Zenon
<1>8. \A b \in L \ torn' : owner_prefixes(b) \subseteq trie'
  <2> SUFFICES ASSUME NEW b \in L, owner_prefixes(b) \cap lost = {}, NEW e \in owner_prefixes(b)
               PROVE  e \in trie'
    BY <1>4, Zenon
  <2>1. e \in want /\ e \notin lost
    BY Zenon DEF PrefixesOf
  <2>2. KeyOf(e) \in KeysOf(want)
    BY <2>1, Zenon DEF KeysOf
  <2>3. KeyOf(e) \notin KeysOf(extra \ kept)
    BY <2>2, Zenon DEF KeysOf
  <2> HIDE DEF want, extra
  <2>4. e \in Upserted(trie, want \ lost)
    BY <2>1, Zenon DEF Upserted
  <2> QED
    BY <1>4, <2>3, <2>4, Zenon DEF Removed
<1>9. ~orphaned' => KeysOf(trie') \subseteq KeysOf(want)
  <2> SUFFICES ASSUME walked = trie, kept = {}, NEW e \in trie' PROVE KeyOf(e) \in KeysOf(want)
    BY <1>4, Zenon DEF KeysOf
  <2>1. e \in Upserted(trie, want \ lost) /\ KeyOf(e) \notin KeysOf(extra)
    BY <1>4, Zenon DEF Removed
  <2>2. e \in trie \/ e \in want
    BY <2>1, Zenon DEF Upserted, Removed
  <2> QED
    BY <2>1, <2>2, Zenon DEF KeysOf
<1>10. PrefixesAreListed'
  BY <1>4, <1>9, Zenon DEF PrefixesAreListed
<1>11. torn' \in SUBSET Block
  BY <1>4, <1>5, Zenon
<1> QED
  BY <1>4, <1>5, <1>7, <1>8, <1>10, <1>11, Zenon DEF BlocksInv, AdoptNatOwners

-----------------------------------------------------------------------------
(* The invariant and the theorems *)

\* The process starts with nothing listed and nothing stored.
LEMMA NatInvInit == NatInit => NatInv
<1> SUFFICES ASSUME NatInit PROVE NatInv
  OBVIOUS
<1>1. PrefixesOf({}) = {}
  BY Zenon DEF PrefixesOf
<1>2. Count({}) = 0
  BY <1>1, FS_EmptySet, Zenon DEF Count
<1>3. NatTypeOK
  BY Zenon DEF NatTypeOK, NatInit
<1>4. PrefixesAreListed
  BY <1>2, Zenon DEF PrefixesAreListed, NatInit, KeysOf
<1> QED
  BY <1>3, <1>4, Zenon DEF NatInv, BlocksInv, NatInit, Apart, OneEntryPerKey

\* The types follow: what is listed is counted.
LEMMA NatTypes ==
  ASSUME BlocksInv', (stale \in SUBSET neigh_nats)', (fresh \in SUBSET (Block \ neigh_nats))',
         (orphaned \in BOOLEAN)', (natUp \in BOOLEAN)'
  PROVE  NatTypeOK'
<1>1. (nat_owner_count \in Nat)'
  BY ListPrefixesFinite, Zenon DEF BlocksInv, PrefixesAreListed
<1> QED
  BY <1>1, Zenon DEF NatTypeOK, BlocksInv

\* Every step keeps the invariant.
LEMMA NatInvStep ==
  ASSUME NatInv, [NatNext]_natVars
  PROVE  NatInv'
<1> USE DEF NatInv
<1>1. /\ neigh_nats \in SUBSET Block /\ stale \in SUBSET neigh_nats
      /\ fresh \in SUBSET (Block \ neigh_nats)
      /\ orphaned \in BOOLEAN /\ natUp \in BOOLEAN
  BY Zenon DEF NatTypeOK
<1>2. ASSUME NEW b \in Block, AddNeighborNat(b) PROVE NatInv'
  <2>1. stale' = {} /\ fresh' = {} /\ natUp' /\ UNCHANGED <<orphaned, natUp>>
    BY <1>1, <1>2, Zenon DEF AddNeighborNat, NatIdle, replacing
  <2>2. BlocksInv'
    <3>1. CASE \E old \in neigh_nats : old.at = b.at /\ (Rewritten(old, b) \/ RewriteFails(old, b))
      BY <2>1, <3>1, RewriteKeeps, Zenon
    <3>2. CASE ~Overlaps(neigh_nats, b.at) /\ (Stored(b) \/ StoreFails(b))
      <4>1. b \notin neigh_nats /\ Apart(neigh_nats \cup {b})
        BY <1>1, <3>2, NeighborsSuffice, Zenon DEF BlocksInv
      <4> QED
        BY <2>1, <3>2, <4>1, StoreKeeps, Zenon
    <3> QED
      BY <1>2, <3>1, <3>2, Zenon DEF AddNeighborNat
  <2>3. NatTypeOK'
    BY <1>1, <2>1, <2>2, NatTypes, Zenon
  <2> QED
    BY <2>1, <2>2, <2>3, Zenon DEF BlocksInv
<1>3. ASSUME NEW b \in Block, WithdrawNeighborNat(b) PROVE NatInv'
  <2>1. stale' = {} /\ fresh' = {} /\ natUp' /\ UNCHANGED <<orphaned, natUp>>
    BY <1>1, <1>3, Zenon DEF WithdrawNeighborNat, NatIdle, replacing
  <2>2. BlocksInv'
    BY <1>3, <2>1, DeleteKeeps, Zenon DEF WithdrawNeighborNat
  <2>3. NatTypeOK'
    BY <1>1, <2>1, <2>2, NatTypes, Zenon
  <2> QED
    BY <2>1, <2>2, <2>3, Zenon DEF BlocksInv
<1>4. ASSUME NEW W \in SUBSET Block, ReplaceNeighborNats(W) PROVE NatInv'
  <2>1. /\ UNCHANGED <<neigh_nats, trie, nat_owner_count, torn, orphaned, natUp>>
        /\ stale' = neigh_nats \ W /\ fresh' = W \ neigh_nats /\ Apart(W) /\ natUp
    BY <1>4, Zenon DEF ReplaceNeighborNats, NatIdle, Storable
  <2>2. BlocksInv'
    BY <2>1, Zenon DEF BlocksInv, PrefixesAreListed
  <2>3. NatTypeOK'
    BY <1>1, <2>1, Zenon DEF NatTypeOK
  <2>4. (neigh_nats' \ stale') \cup fresh' = W
    BY <2>1, Zenon
  <2> QED
    BY <2>1, <2>2, <2>3, <2>4, Zenon
<1>5. CASE RemoveStale
  <2>1. PICK b \in stale : \/ Deleted(b) /\ stale' = stale \ {b} /\ UNCHANGED fresh
                           \/ DeleteFails(b) /\ stale' = {} /\ fresh' = {}
    BY <1>5, Zenon DEF RemoveStale
  <2>2. b \in neigh_nats /\ natUp' /\ UNCHANGED <<orphaned, natUp>>
    BY <1>1, <1>5, Zenon DEF RemoveStale
  <2>3. BlocksInv'
    BY <2>1, <2>2, DeleteKeeps, Zenon
  <2>4. CASE Deleted(b) /\ stale' = stale \ {b} /\ UNCHANGED fresh
    <3>1. neigh_nats' = neigh_nats \ {b}
      BY <2>4, Zenon DEF Deleted
    <3>2. (neigh_nats' \ stale') \cup fresh' = (neigh_nats \ stale) \cup fresh
      BY <2>1, <2>4, <3>1, Zenon
    <3>3. NatTypeOK'
      BY <1>1, <2>2, <2>3, <2>4, <3>1, NatTypes, Zenon
    <3> QED
      BY <2>2, <2>3, <3>2, <3>3, Zenon
  <2>5. CASE DeleteFails(b) /\ stale' = {} /\ fresh' = {}
    <3>1. NatTypeOK'
      BY <1>1, <2>2, <2>3, <2>5, NatTypes, Zenon
    <3> QED
      BY <2>2, <2>3, <2>5, <3>1, Zenon DEF BlocksInv
  <2> QED
    BY <2>1, <2>4, <2>5, Zenon
<1>6. CASE StoreFresh
  <2>1. PICK b \in fresh : \/ Stored(b) /\ fresh' = fresh \ {b}
                           \/ StoreFails(b) /\ fresh' = {}
    BY <1>6, Zenon DEF StoreFresh
  <2>2. stale = {} /\ stale' = {} /\ UNCHANGED <<orphaned, natUp>>
    BY <1>6, Zenon DEF StoreFresh
  <2>3. b \in Block /\ b \notin neigh_nats /\ Apart(neigh_nats \cup {b})
    BY <1>1, <2>2, Zenon DEF Apart
  <2>4. /\ BlocksInv'
        /\ neigh_nats' = neigh_nats \/ neigh_nats' = neigh_nats \cup {b}
        /\ Stored(b) => neigh_nats' = neigh_nats \cup {b}
    BY <2>1, <2>2, <2>3, StoreKeeps, Zenon
  <2>5. fresh' \in SUBSET (Block \ neigh_nats')
    BY <1>1, <2>1, <2>4, Zenon
  <2>6. NatTypeOK'
    BY <1>1, <2>2, <2>4, <2>5, NatTypes, Zenon
  <2>7. Apart((neigh_nats' \ stale') \cup fresh')
    <3>1. CASE Stored(b) /\ fresh' = fresh \ {b}
      <4>1. (neigh_nats' \ stale') \cup fresh' = (neigh_nats \ stale) \cup fresh
        BY <2>2, <2>4, <3>1, Zenon
      <4> QED
        BY <4>1, Zenon
    <3>2. CASE fresh' = {}
      BY <2>2, <2>4, <3>2, Zenon DEF BlocksInv
    <3> QED
      BY <2>1, <3>1, <3>2, Zenon
  <2>8. natUp'
    BY <2>1, <2>2, Zenon
  <2> QED
    BY <2>4, <2>6, <2>7, <2>8, Zenon
<1>7. CASE NatCrash
  <2>1. /\ neigh_nats' = {} /\ nat_owner_count' = 0 /\ stale' = {} /\ fresh' = {}
        /\ torn' = {} /\ orphaned' = FALSE /\ trie' = trie /\ natUp' = FALSE
    BY <1>7, Zenon DEF NatCrash
  <2>2. PrefixesOf({}) = {}
    BY Zenon DEF PrefixesOf
  <2>3. Count({}) = 0
    BY <2>2, FS_EmptySet, Zenon DEF Count
  <2>4. BlocksInv'
    BY <2>1, <2>3, Zenon DEF BlocksInv, PrefixesAreListed, Apart
  <2>5. NatTypeOK'
    BY <2>1, <2>4, NatTypes, Zenon
  <2> QED
    BY <2>1, <2>4, <2>5, Zenon DEF Apart
<1>8. CASE AdoptNatOwners
  <2>1. BlocksInv' /\ natUp' /\ natUp' \in BOOLEAN /\ orphaned' \in BOOLEAN
    BY <1>8, AdoptKeeps, Zenon DEF AdoptNatOwners
  <2>2. stale' = {} /\ fresh' = {}
    <3>1. stale = {} /\ fresh = {}
      BY <1>1, <1>8, Zenon DEF AdoptNatOwners
    <3> QED
      BY <1>8, <3>1, Zenon DEF AdoptNatOwners, replacing
  <2>3. NatTypeOK'
    BY <2>1, <2>2, NatTypes, Zenon
  <2> QED
    BY <2>1, <2>2, <2>3, Zenon DEF BlocksInv
<1>9. CASE UNCHANGED natVars
  BY <1>9, Zenon DEF natVars, replacing, NatTypeOK, BlocksInv, PrefixesAreListed
<1> QED
  BY <1>2, <1>3, <1>4, <1>5, <1>6, <1>7, <1>8, <1>9, Zenon DEF NatNext

\* A port of an intact block finds that block's prefix and no other's.
LEMMA InvReturns == NatInv => ReturnsReachOwner
<1> SUFFICES ASSUME NatInv, natUp, ~orphaned, NEW b \in neigh_nats \ torn,
                    NEW p \in b.at.lo .. b.at.hi - 1
             PROVE  Lookup(trie, b.at.ip, p) = {b.own}
  BY Zenon DEF ReturnsReachOwner
<1> USE DEF NatInv, BlocksInv
<1> DEFINE H == Hits(trie, b.at.ip, p)
<1>1. b \in Block /\ owner_prefixes(b) \subseteq trie
  OBVIOUS
<1>2. p \in Nat /\ b.at.lo <= p /\ p < b.at.hi
  BY <1>1, BlockIs
<1>3. ASSUME NEW c \in Block, NEW e \in owner_prefixes(c)
      PROVE  p \div e.size = e.at \div e.size <=> e.at <= p /\ p < e.at + e.size
  <2>1. e.at \in Nat /\ e.size \in Nat \ {0} /\ e.at % e.size = 0
    BY PrefixIs, Zenon
  <2> QED
    BY <1>2, <2>1, PrefixMatches, Zenon
<1>4. PICK h \in owner_prefixes(b) : h.at <= p /\ p < h.at + h.size
  BY <1>1, PortHasPrefix, Zenon
<1>5. h \in H
  BY <1>1, <1>3, <1>4, PrefixIs, Zenon DEF Hits
<1>6. ASSUME NEW e \in H PROVE e \in owner_prefixes(b)
  <2>1. e \in trie /\ e.ip = b.at.ip /\ p \div e.size = e.at \div e.size
    BY Zenon DEF Hits
  <2>2. KeyOf(e) \in KeysOf(PrefixesOf(neigh_nats))
    BY <2>1, Zenon DEF PrefixesAreListed, KeysOf
  <2>c. PICK c \in neigh_nats : \E g \in owner_prefixes(c) : KeyOf(g) = KeyOf(e)
    BY <2>2, Zenon DEF KeysOf, PrefixesOf
  <2>3. PICK f \in owner_prefixes(c) : KeyOf(f) = KeyOf(e)
    BY <2>c, Zenon
  <2>4. f.ip = e.ip /\ f.at = e.at /\ f.size = e.size
    BY <2>3, Zenon DEF KeyOf
  <2>5. c \in Block
    OBVIOUS
  <2>6. /\ f.at \in Nat /\ f.size \in Nat \ {0} /\ f.ip = c.at.ip
        /\ c.at.lo <= f.at /\ f.at + f.size <= c.at.hi
    BY <2>5, PrefixIs, Zenon
  <2>7. f.at <= p /\ p < f.at + f.size
    BY <1>3, <2>1, <2>4, <2>5, Zenon
  <2>8. c.at.lo \in Nat /\ c.at.hi \in Nat /\ b.at.lo \in Nat /\ b.at.hi \in Nat
    BY <1>1, <2>5, BlockIs, Zenon
  <2>9. c.at.lo <= p /\ p < c.at.hi
    BY <1>2, <2>6, <2>7, <2>8
  <2>10. c = b
    <3> SUFFICES ASSUME c # b PROVE FALSE
      OBVIOUS
    <3>1. c.at.hi <= b.at.lo \/ b.at.hi <= c.at.lo
      BY <2>1, <2>4, <2>6, Zenon DEF Apart
    <3> QED
      BY <1>2, <2>8, <2>9, <3>1
  <2>11. f \in trie
    BY <1>1, <2>10, Zenon
  <2> QED
    BY <2>1, <2>3, <2>10, <2>11, Zenon DEF OneEntryPerKey
<1>7. \A e \in H : e.of = b /\ e.size \in Nat
  BY <1>1, <1>6, PrefixIs, Zenon
<1> DEFINE S == {e.size : e \in H}
<1>8. S \in SUBSET Nat /\ h.size \in S
  BY <1>5, <1>7, Zenon
<1>9. PICK m \in S : \A n \in S : m <= n
  <2> HIDE DEF S
  <2> QED
    BY <1>8, LeastExists, Zenon
<1>10. PICK g \in H : \A y \in H : g.size <= y.size
  BY <1>9, Zenon
<1> HIDE DEF S, H
<1>11. Lookup(trie, b.at.ip, p) = {e.of.own : e \in {x \in H : \A y \in H : x.size <= y.size}}
  BY Zenon DEF Lookup, H
<1> QED
  BY <1>7, <1>10, <1>11, Zenon

\* Of the code: the blocks a dataplane lists never overlap, one key never has
\* two owners, and the neighbours overlaps4 looks at are enough.
THEOREM NatInvariant == NatSpec => []NatInv
<1>1. NatInv /\ [NatNext]_natVars => NatInv'
  BY NatInvStep, Zenon
<1> QED
  BY NatInvInit, <1>1, PTL DEF NatSpec

\* Whatever writes and removals fail, in or out of a replace, and whenever the
\* process dies, every prefix in the trie is that of a listed block and the
\* listed ones are counted, unless a restart read or swept the trie in part.
THEOREM NatPrefixesListed == NatSpec => []PrefixesAreListed
<1>1. NatInv => PrefixesAreListed
  BY Zenon DEF NatInv, BlocksInv
<1> QED
  BY NatInvariant, <1>1, PTL

\* A packet to a port of a listed block reaches the block's owner whatever
\* becomes of the other blocks.
THEOREM NatReturnsReachOwner == NatSpec => []ReturnsReachOwner
BY NatInvariant, InvReturns, PTL
=============================================================================
