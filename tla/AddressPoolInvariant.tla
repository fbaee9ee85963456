----------------------- MODULE AddressPoolInvariant ------------------------
(***************************************************************************)
(* What the address controllers publish, for every pool, any number of     *)
(* load balancers, sources and block sizes, and any number of events.      *)
(*                                                                         *)
(* A pass works from a copy that may be old, so the invariants are about   *)
(* what an old copy can still do.  A load balancer's status is written     *)
(* only over the very object the pass started from (setState's optimistic  *)
(* lock), and an object once replaced never comes back, because users only *)
(* raise generations and uids (`VersionsInOrder').  A status that is about *)
(* the current spec was therefore written from a copy of that spec, and    *)
(* every later pass starts from one (`Settled'): it finds the address it   *)
(* already has and gives back nothing else.                                *)
(*                                                                         *)
(* The gateway's status is written over whatever is there, so its table is *)
(* good only because every table a pass lays out is (`GoodTable'), from    *)
(* whichever copy: the blocks kept are apart because they were, the new    *)
(* ones because they go by rank over what is open.                         *)
(*                                                                         *)
(* Here are the inductive invariant, what a layout and the calls of a pass *)
(* come to, and the steps that change nothing but a worker; the others,    *)
(* and the theorems, are in AddressPoolProofs.                             *)
(***************************************************************************)
EXTENDS AddressPool, FiniteSetTheorems, WellFoundedInduction, TLAPS

\* o is p, or an earlier version of it, as far as users' changes go.
NotNewer(o, p) ==
  \/ o.uid < p.uid
  \/ /\ o.uid = p.uid
     /\ p.live => o.live /\ (o.gen < p.gen \/ (o.gen = p.gen /\ o.pin = p.pin))

VersionsInOrder ==
  /\ \A c \in Consumer : NotNewer(seen[c], obj[c])
  /\ \A k \in Controller : work[k].pc # "idle" =>
       work[k].obj.live /\ NotNewer(work[k].obj, seen[work[k].key])

\* What was observed is no later than what there is.
ObservedIsPast == \A c \in Consumer : obj[c].observed <= obj[c].gen

\* The status is about the current spec.
Current(o) == o.live /\ o.state = "Allocated" /\ o.observed = o.gen

\* A load balancer that publishes an address has it, and every later pass starts from a copy of
\* the same spec.
Settled ==
  \A l \in LB : Current(obj[l]) =>
    /\ Held(l) = {obj[l].ip} /\ obj[l].pin \in {NoAddr, obj[l].ip}
    /\ seen[l].uid = obj[l].uid /\ seen[l].gen = obj[l].gen

\* What the load balancers' worker has in hand.
LbOk(j) ==
  j.pc # "idle" =>
    /\ j.key \in LB /\ ~j.grow /\ j.pc # "addrs" /\ ~Current(j.obj)
    /\ j.pc \in {"create", "who", "release"} => j.want \in Addr /\ j.obj.pin \in {NoAddr, j.want}
    /\ j.pc = "release" /\ obj[j.key] = j.obj => claims[j.want] = OwnerRef(j)
    /\ j.pc = "write" /\ j.state = "Allocated" /\ obj[j.key] = j.obj =>
         Mine(j) = {j.want} /\ j.obj.pin \in {NoAddr, j.want}
    /\ Current(obj[j.key]) =>
         /\ j.obj.uid = obj[j.key].uid /\ j.obj.pin = obj[j.key].pin
         /\ j.pc \in {"list", "release", "write"}
         /\ j.pc = "release" => j.want = obj[j.key].ip

\* The blocks of a table are blocks of one size, each its own.
GoodTable(t) ==
  /\ \A s \in Source : t[s] # NoBlock => t[s].size \in Nat \ {0} /\ t[s].at \in Starts(Addr, t[s].size)
  /\ \A s, r \in Source : s # r /\ t[s] # NoBlock /\ t[r] # NoBlock =>
       t[s].at # t[r].at /\ t[s].size = t[r].size

\* Nothing lives before its first uid.
Sound(o) == GoodTable(o.table) /\ (o.live => o.uid >= 1)

AllSound ==
  /\ \A c \in Consumer : Sound(obj[c]) /\ Sound(seen[c])
  /\ \A k \in Controller : Sound(work[k].obj) /\ GoodTable(work[k].table)

\* The blocks of a table are on these addresses.
On(t, addrs) == \A s \in Source : t[s] # NoBlock => t[s].at \in Starts(addrs, t[s].size)

\* The table keeps what the object's had on these addresses.
Keeps(j, addrs) ==
  \A s \in j.srcs : j.obj.table[s].at \in Starts(addrs, j.obj.size) =>
    j.table[s] = [at |-> j.obj.table[s].at, size |-> j.obj.size]

\* The gateway a pass is about is still there.
SameGw(j) == obj[GW].live /\ obj[GW].uid = j.obj.uid

\* What the gateway's worker has in hand: it knows all the addresses of the gateway, and while
\* the gateway exists none is taken away.
GwOk(j) ==
  j.pc # "idle" =>
    /\ j.key = GW /\ j.pc # "release" /\ (j.pc # "write" => j.keep)
    /\ j.pc \in {"create", "who"} => j.want \in Addr
    /\ j.grow /\ j.pc # "write" => Mine(j) \subseteq j.addrs /\ (SameGw(j) => j.addrs \subseteq Mine(j))
    /\ j.pc = "write" /\ ~j.keep => Keeps(j, Mine(j)) /\ (SameGw(j) => On(j.table, Mine(j)))

\* Claims of the gateway are of no later incarnation than the one its worker is about.
ClaimedBy(u) == \A a \in Addr : claims[a] # Free /\ claims[a][1] = GW => claims[a][2] <= u

ClaimsArePast ==
  ClaimedBy(seen[GW].uid) /\ (work["gw"].pc # "idle" => ClaimedBy(work["gw"].obj.uid))

\* A gateway's first incarnation has the addresses its table is on.
GwHolds == obj[GW].live /\ obj[GW].uid = 1 => On(obj[GW].table, Held(GW))

IInv ==
  /\ PoolTypeOK /\ VersionsInOrder /\ ObservedIsPast /\ Settled /\ AllSound
  /\ LbOk(work["lb"]) /\ GwOk(work["gw"]) /\ ClaimsArePast /\ GwHolds

-----------------------------------------------------------------------------
(* Numbers, blocks and ranks *)

\* A set of addresses that is not empty has a lowest one.
LEMMA LowestIsIn ==
  ASSUME NEW S \in SUBSET Nat, S # {}
  PROVE  Min(S) \in S
<1>1. PICK x \in S : \A y \in S : ~(<<y, x>> \in OpToRel(<, Nat))
  BY NatLessThanWellFounded, WFMin, Zenon
<1>2. \A y \in S : x <= y
  <2> SUFFICES ASSUME NEW y \in S, y < x PROVE FALSE
    OBVIOUS
  <2>1. <<y, x>> \in OpToRel(<, Nat)
    BY Zenon DEF OpToRel
  <2> QED
    BY <1>1, <2>1, Zenon
<1> QED
  BY <1>1, <1>2, Zenon DEF Min

\* The i-th block of an address ends within the address.
LEMMA BlockFits ==
  ASSUME NEW z \in Nat \ {0}, NEW i \in 0..(Ports \div z) - 1
  PROVE  /\ i * z \in Nat
         /\ i * z + z <= Ports
<1>1. Ports \in Nat /\ Ports \div z \in Nat /\ (Ports \div z) * z <= Ports
  BY AddressPoolAssumption
<1>2. i \in Nat /\ i + 1 <= Ports \div z /\ i * z \in Nat
  BY <1>1
<1>3. (i + 1) * z <= (Ports \div z) * z
  BY <1>1, <1>2
<1>4. (i + 1) * z = i * z + z
  BY <1>2
<1> QED
  BY <1>1, <1>2, <1>3, <1>4

\* A port's address is found by division.
LEMMA AddressOf ==
  ASSUME NEW a \in Nat, NEW r \in Nat, r < Ports
  PROVE  (a * Ports + r) \div Ports = a
<1> DEFINE q == (a * Ports + r) \div Ports
<1>1. Ports \in Nat /\ Ports > 0 /\ a * Ports \in Nat
  BY AddressPoolAssumption
<1>2. q \in Nat /\ q * Ports <= a * Ports + r /\ a * Ports + r < (q + 1) * Ports
  BY <1>1
<1> HIDE DEF q
<1>3. ~(q > a)
  <2> SUFFICES ASSUME q > a PROVE FALSE
    OBVIOUS
  <2>1. (a + 1) * Ports <= q * Ports
    BY <1>1, <1>2
  <2>2. (a + 1) * Ports = a * Ports + Ports
    BY <1>1
  <2> QED
    BY <1>1, <1>2, <2>1, <2>2
<1>4. ~(q < a)
  <2> SUFFICES ASSUME q < a PROVE FALSE
    OBVIOUS
  <2>1. (q + 1) * Ports <= a * Ports
    BY <1>1, <1>2
  <2> QED
    BY <1>1, <1>2, <2>1
<1> QED
  BY <1>2, <1>3, <1>4 DEF q

\* A block is on the address its first port is on.
LEMMA BlockIsOn ==
  ASSUME NEW addrs \in SUBSET Addr, NEW z \in Nat \ {0}, NEW x \in Starts(addrs, z)
  PROVE  /\ x \in Nat \ {0} /\ x \div Ports \in addrs
         /\ \A s \in SUBSET Addr : x \div Ports \in s => x \in Starts(s, z)
<1>1. PICK a \in addrs, i \in 0..(Ports \div z) - 1 : x = a * Ports + i * z
  BY DEF Starts
<1>2. a \in Nat \ {0} /\ Ports \in Nat \ {0}
  BY AddressPoolAssumption, Zenon
<1>3. i * z \in Nat /\ i * z < Ports
  BY <1>2, BlockFits
<1>4. x \div Ports = a
  BY <1>1, <1>2, <1>3, AddressOf, Zenon
<1>5. a * Ports \in Nat \ {0}
  BY <1>2
<1>6. x \in Nat \ {0}
  BY <1>1, <1>3, <1>5
<1> QED
  BY <1>1, <1>4, <1>6 DEF Starts

\* Two blocks of one size that start apart have no port in common.
LEMMA BlocksApart ==
  ASSUME NEW z \in Nat \ {0}, NEW x \in Starts(Addr, z), NEW y \in Starts(Addr, z), x < y
  PROVE  x + z <= y
<1>1. PICK a \in Addr, i \in 0..(Ports \div z) - 1 : x = a * Ports + i * z
  BY DEF Starts
<1>2. PICK b \in Addr, k \in 0..(Ports \div z) - 1 : y = b * Ports + k * z
  BY DEF Starts
<1>3. a \in Nat /\ b \in Nat /\ Ports \in Nat \ {0} /\ i \in Nat /\ k \in Nat /\ z \in Nat
  BY AddressPoolAssumption
<1>4. i * z \in Nat /\ i * z + z <= Ports /\ k * z \in Nat /\ k * z + z <= Ports
  BY BlockFits, Zenon
<1>5. a * Ports \in Nat /\ b * Ports \in Nat
  BY <1>3
<1>6. CASE a < b
  <2>1. (a + 1) * Ports <= b * Ports
    BY <1>3, <1>6
  <2>2. (a + 1) * Ports = a * Ports + Ports
    BY <1>3
  <2> QED
    BY <1>1, <1>2, <1>3, <1>4, <1>5, <2>1, <2>2
<1>7. CASE b < a
  <2>1. (b + 1) * Ports <= a * Ports
    BY <1>3, <1>7
  <2>2. (b + 1) * Ports = b * Ports + Ports
    BY <1>3
  <2> QED
    BY <1>1, <1>2, <1>3, <1>4, <1>5, <2>1, <2>2
<1>8. CASE a = b
  <2>1. i * z < k * z
    BY <1>1, <1>2, <1>4, <1>5, <1>8
  <2>2. i < k
    <3> SUFFICES ASSUME k <= i PROVE FALSE
      BY <1>3
    <3>1. k * z <= i * z
      BY <1>3
    <3> QED
      BY <1>4, <2>1, <3>1
  <2>3. (i + 1) * z <= k * z
    BY <1>3, <2>2
  <2>4. (i + 1) * z = i * z + z
    BY <1>3
  <2> QED
    BY <1>1, <1>2, <1>3, <1>4, <1>5, <1>8, <2>3, <2>4
<1> QED
  BY <1>3, <1>6, <1>7, <1>8

\* Of the new sources no two have the same rank.
LEMMA RanksDiffer ==
  ASSUME NEW S \in SUBSET Source, NEW x \in S, NEW y \in S, x < y
  PROVE  Rank(x, S) # Rank(y, S)
<1> DEFINE X == {u \in S : u < x}
           Y == {u \in S : u < y}
<1>1. IsFiniteSet(Source)
  BY AddressPoolAssumption, Zenon
<1>2. IsFiniteSet(S)
  BY <1>1, FS_Subset, Zenon
<1>3. x \in Nat /\ y \in Nat /\ S \subseteq Nat
  BY AddressPoolAssumption, Zenon
<1>4. \A u \in S : u < x => u < y
  BY <1>3
<1>5. ~(x < x)
  BY <1>3
<1>6. X \in SUBSET Y /\ Y \in SUBSET S /\ x \in Y /\ x \notin X
  BY <1>4, <1>5, Zenon
<1>7. Rank(x, S) = Cardinality(X) /\ Rank(y, S) = Cardinality(Y)
  BY Zenon DEF Rank
<1> HIDE DEF X, Y
<1>8. IsFiniteSet(Y)
  BY <1>2, <1>6, FS_Subset, Zenon
<1>9. Cardinality(Y) # Cardinality(X)
  BY <1>6, <1>8, FS_Subset, Zenon
<1> QED
  BY <1>9, <1>7, Zenon

\* A layout keeps what was on its addresses, hands out blocks of its addresses only, and none
\* twice (assignBlocks).
LEMMA LayoutIsGood ==
  ASSUME NEW j \in Pass, NEW addrs \in SUBSET Addr, GoodTable(j.obj.table)
  PROVE  LET t == assignBlocks(j, addrs) IN
         /\ t \in Table /\ GoodTable(t) /\ On(t, addrs)
         /\ \A s \in j.srcs : j.obj.table[s].at \in Starts(addrs, j.obj.size) =>
              t[s] = [at |-> j.obj.table[s].at, size |-> j.obj.size]
<1> DEFINE T == j.obj.table
           z == j.obj.size
           kept == Preassign(T, addrs, z)
           new == {s \in j.srcs : kept[s] = NoBlock}
           open == Open(kept, addrs, z)
           t == assignBlocks(j, addrs)
<1>1. T \in Table /\ z \in Nat \ {0} /\ j.srcs \in SUBSET Source /\ GoodTable(T)
  BY AddressPoolAssumption, Zenon DEF Pass, Object
<1>2. \A s \in Source : kept[s] = IF T[s].at \in Starts(addrs, z)
                                    THEN [at |-> T[s].at, size |-> z] ELSE NoBlock
  BY Zenon DEF Preassign
<1>3. new \in SUBSET Source /\ \A s \in new : s \in j.srcs /\ kept[s] = NoBlock
  BY <1>1, Zenon
<1>4. \A s \in j.srcs : s \notin new => kept[s] # NoBlock
  OBVIOUS
<1>5. open \subseteq Starts(addrs, z) /\ \A s \in Source : kept[s].at \notin open
  BY Zenon DEF Open
<1>6. /\ t = [s \in Source |-> t[s]]
      /\ \A s \in Source : t[s] = CASE s \notin j.srcs -> NoBlock
                                    [] s \in new -> Assign(s, new, open, z)
                                    [] OTHER -> kept[s]
  BY Zenon DEF assignBlocks
<1> HIDE DEF T, z, kept, new, open, t
<1>7. \A s : Assign(s, new, open, z) # NoBlock =>
        /\ Assign(s, new, open, z).at \in open /\ Assign(s, new, open, z).size = z
        /\ Rank(Assign(s, new, open, z).at, open) = Rank(s, new)
        /\ Assign(s, new, open, z) \in [at : open, size : {z}]
  <2> TAKE s
  <2> DEFINE block == {b \in open : Rank(b, open) = Rank(s, new)}
  <2>1. Assign(s, new, open, z) =
          IF block = {} THEN NoBlock ELSE [at |-> CHOOSE b \in block : TRUE, size |-> z]
    BY Zenon DEF Assign
  <2>2. block # {} => (CHOOSE b \in block : TRUE) \in block
    OBVIOUS
  <2> QED
    BY <2>1, <2>2
<1>8. ASSUME NEW x \in Starts(addrs, z) PROVE x \in Nat /\ x # 0 /\ x \in Starts(Addr, z)
  <2>1. x \in Nat /\ x # 0 /\ x \div Ports \in addrs
    BY <1>1, BlockIsOn, Zenon
  <2>2. \A s \in SUBSET Addr : x \div Ports \in s => x \in Starts(s, z)
    BY <1>1, BlockIsOn, Zenon
  <2> QED
    BY <2>1, <2>2, Zenon
<1>9. \A s \in Source : kept[s] # NoBlock =>
        /\ T[s].at \in Starts(addrs, z) /\ kept[s] = [at |-> T[s].at, size |-> z]
        /\ kept[s].at = T[s].at /\ kept[s].size = z
  BY <1>2
<1>10. \A s \in Source : T[s].at \in Starts(addrs, z) => T[s] # NoBlock /\ kept[s] # NoBlock
  <2>1. NoBlock.at = 0
    BY Zenon DEF NoBlock
  <2>2. \A s \in Source : T[s].at \in Starts(addrs, z) => T[s].at # 0
    BY <1>8, Zenon
  <2>3. ASSUME NEW s \in Source, T[s].at \in Starts(addrs, z) PROVE kept[s].at = T[s].at
    <3>1. kept[s] = [at |-> T[s].at, size |-> z]
      BY <1>2, <2>3, Zenon
    <3> QED
      BY <3>1
  <2> QED
    BY <2>1, <2>2, <2>3, Zenon
<1>11. \A s \in Source : t[s] # NoBlock =>
         /\ t[s].at \in Starts(addrs, z) /\ t[s].size = z
         /\ \/ s \in new /\ t[s].at \in open /\ Rank(t[s].at, open) = Rank(s, new)
            \/ s \notin new /\ t[s] = kept[s] /\ kept[s] # NoBlock
  <2> SUFFICES ASSUME NEW s \in Source, t[s] # NoBlock
               PROVE  /\ t[s].at \in Starts(addrs, z) /\ t[s].size = z
                      /\ \/ s \in new /\ t[s].at \in open /\ Rank(t[s].at, open) = Rank(s, new)
                         \/ s \notin new /\ t[s] = kept[s] /\ kept[s] # NoBlock
    OBVIOUS
  <2>1. CASE s \in new
    <3>1. t[s] = Assign(s, new, open, z)
      BY <1>3, <1>6, <2>1, Zenon
    <3> QED
      BY <1>5, <1>7, <2>1, <3>1, Zenon
  <2>2. CASE s \notin new
    <3>1. t[s] = kept[s]
      BY <1>6, <2>2, Zenon
    <3> QED
      BY <1>9, <2>2, <3>1, Zenon
  <2> QED
    BY <2>1, <2>2, Zenon
<1>12. t \in Table
  <2>1. NoBlock \in [at : Nat, size : Nat]
    BY Zenon DEF NoBlock
  <2>2. \A x \in open : x \in Nat
    BY <1>5, <1>8, Zenon
  <2>3. \A s \in Source : kept[s] \in [at : Nat, size : Nat]
    <3>1. \A s \in Source : T[s].at \in Starts(addrs, z) =>
            [at |-> T[s].at, size |-> z] \in [at : Nat, size : Nat]
      BY <1>1, <1>8, Zenon
    <3> QED
      BY <1>2, <2>1, <3>1, Zenon
  <2>4. \A s \in Source : Assign(s, new, open, z) \in [at : Nat, size : Nat]
    BY <1>1, <1>7, <2>1, <2>2, Zenon
  <2>5. \A s \in Source : t[s] \in [at : Nat, size : Nat]
    BY <1>6, <2>1, <2>3, <2>4, Zenon
  <2> QED
    BY <1>6, <2>5, Zenon DEF Table
<1>13. On(t, addrs)
  BY <1>11, Zenon DEF On
<1>14. GoodTable(t)
  <2>1. \A s \in Source : t[s] # NoBlock => t[s].size \in Nat \ {0} /\ t[s].at \in Starts(Addr, t[s].size)
    BY <1>1, <1>8, <1>11, Zenon
  <2>2. ASSUME NEW s \in Source, NEW r \in Source, s # r, t[s] # NoBlock, t[r] # NoBlock
        PROVE  t[s].at # t[r].at /\ t[s].size = t[r].size
    <3>1. t[s].size = t[r].size
      BY <1>11, <2>2, Zenon
    <3>2. CASE s \in new /\ r \in new
      <4>1. Rank(t[s].at, open) = Rank(s, new) /\ Rank(t[r].at, open) = Rank(r, new)
        BY <1>11, <2>2, <3>2, Zenon
      <4>2. s < r \/ r < s
        BY <2>2, AddressPoolAssumption
      <4>3. Rank(s, new) # Rank(r, new)
        BY <1>3, <3>2, <4>2, RanksDiffer, Zenon
      <4> QED
        BY <3>1, <4>1, <4>3, Zenon
    <3>3. CASE s \in new /\ r \notin new
      <4>1. t[s].at \in open /\ t[r] = kept[r]
        BY <1>11, <2>2, <3>3, Zenon
      <4> QED
        BY <1>5, <3>1, <4>1, Zenon
    <3>4. CASE s \notin new /\ r \in new
      <4>1. t[r].at \in open /\ t[s] = kept[s]
        BY <1>11, <2>2, <3>4, Zenon
      <4> QED
        BY <1>5, <3>1, <4>1, Zenon
    <3>5. CASE s \notin new /\ r \notin new
      <4>1. t[s].at = T[s].at /\ t[r].at = T[r].at /\ T[s] # NoBlock /\ T[r] # NoBlock
        BY <1>9, <1>10, <1>11, <2>2, <3>5, Zenon
      <4>2. T[s].at # T[r].at
        BY <1>1, <2>2, <4>1, Zenon DEF GoodTable
      <4> QED
        BY <3>1, <4>1, <4>2, Zenon
    <3> QED
      BY <3>2, <3>3, <3>4, <3>5, Zenon
  <2> QED
    BY <2>1, <2>2, Zenon DEF GoodTable
<1>15. \A s \in j.srcs : T[s].at \in Starts(addrs, z) => t[s] = [at |-> T[s].at, size |-> z]
  <2> SUFFICES ASSUME NEW s \in j.srcs, T[s].at \in Starts(addrs, z)
               PROVE  t[s] = [at |-> T[s].at, size |-> z]
    OBVIOUS
  <2>1. s \in Source /\ kept[s] # NoBlock
    BY <1>1, <1>10, Zenon
  <2>2. s \notin new
    BY <1>3, <2>1, Zenon
  <2>3. t[s] = kept[s]
    BY <1>6, <2>1, <2>2, Zenon
  <2> QED
    BY <1>9, <2>1, <2>3, Zenon
<1> QED
  BY <1>12, <1>13, <1>14, <1>15, Zenon DEF T, z, t

-----------------------------------------------------------------------------
(* The steps of a pass *)

\* p goes on with j's pass.
GoesOn(p, j) ==
  p \in Pass /\ p.key = j.key /\ p.obj = j.obj /\ p.srcs = j.srcs

\* p goes on with j's pass and has no table of its own.
Goes(p, j) == GoesOn(p, j) /\ p.grow = j.grow /\ p.addrs = j.addrs /\ p.keep = j.keep /\ p.table = j.table

\* p writes the table laid out over addrs.
Lays(p, j, addrs) ==
  /\ GoesOn(p, j) /\ p.pc = "write" /\ ~p.keep
  /\ GoodTable(p.table) /\ On(p.table, addrs) /\ Keeps(p, addrs)

\* No consumer is taken for the mark of a free address.
LEMMA OwnedIsNotFree ==
  ASSUME NEW c \in Consumer, NEW u
  PROVE  <<c, u>> # Free
<1>1. c # "free"
  BY AddressPoolAssumption, Zenon DEF Consumer, GW
<1> QED
  BY <1>1, Zenon DEF Free

\* What the steps of a pass leave alone.
LEMMA WriteStep ==
  ASSUME NEW j \in Pass, NEW st \in State
  PROVE  Goes(Write(j, st), j) /\ Write(j, st).pc = "write" /\ Write(j, st).state = st
BY Zenon DEF Goes, GoesOn, Pass, NoAddr, Write

\* Asking for an address.
LEMMA WantsStep ==
  ASSUME NEW j \in Pass, NEW a \in Addr
  PROVE  Goes(Wants(j, a), j) /\ Wants(j, a).pc = "create" /\ Wants(j, a).want = a
BY Zenon DEF Goes, GoesOn, Pass, Wants

\* Asking who holds it.
LEMMA WhoStep ==
  ASSUME NEW j \in Pass
  PROVE  LET p == [j EXCEPT !.pc = "who"] IN Goes(p, j) /\ p.pc = "who" /\ p.want = j.want
BY Zenon DEF Goes, GoesOn, Pass

\* A load balancer that has its address goes on to give back the others.
LEMMA LbClaimed ==
  ASSUME NEW j \in Pass, NEW a \in Addr
  PROVE  /\ Goes(Claimed("lb", j, a), j)
         /\ Claimed("lb", j, a).pc = "release" /\ Claimed("lb", j, a).want = a
<1>1. Claimed("lb", j, a) = [j EXCEPT !.pc = "release", !.want = a]
  BY Zenon DEF Claimed
<1> QED
  BY <1>1 DEF Goes, GoesOn, Pass

\* A gateway that has the address it pins goes on to its addresses.
LEMMA GwClaimed ==
  ASSUME NEW j \in Pass, NEW a, ~j.grow
  PROVE  Goes(Claimed("gw", j, a), j) /\ Claimed("gw", j, a).pc = "addrs"
<1>1. Claimed("gw", j, a) = [j EXCEPT !.pc = "addrs", !.want = NoAddr]
  BY Zenon DEF Claimed
<1> QED
  BY <1>1, Zenon DEF Goes, GoesOn, Pass, NoAddr

\* Starting over.
LEMMA AgainStep ==
  ASSUME NEW j \in Pass, j.tries + 1 < claimRetries
  PROVE  LET p == [j EXCEPT !.pc = "list", !.tries = @ + 1, !.want = NoAddr]
         IN  Goes(p, j) /\ p.pc = "list"
<1>1. j.tries + 1 \in 0..claimRetries
  BY DEF Pass, claimRetries
<1> QED
  BY <1>1, Zenon DEF Goes, GoesOn, Pass, NoAddr

\* The status that carries a table carries a layout over the addresses it is for.
LEMMA PublishLays ==
  ASSUME NEW j \in Pass, NEW addrs \in SUBSET Addr, GoodTable(j.obj.table)
  PROVE  Lays(Publish(j, addrs), j, addrs)
<1> DEFINE t == assignBlocks(j, addrs)
           st == IF Unblocked(j, t) = {} THEN "Ready" ELSE "Exhausted"
           w == Write(j, st)
           p == Publish(j, addrs)
<1>1. /\ t \in Table /\ GoodTable(t) /\ On(t, addrs)
      /\ \A s \in j.srcs : j.obj.table[s].at \in Starts(addrs, j.obj.size) =>
           t[s] = [at |-> j.obj.table[s].at, size |-> j.obj.size]
  BY LayoutIsGood, Zenon
<1>2. st \in State
  BY Zenon DEF State
<1>3. p = [w EXCEPT !.table = t, !.keep = FALSE]
  BY Zenon DEF Publish
<1> HIDE DEF t, st, p
<1>4. w \in Pass /\ w.key = j.key /\ w.obj = j.obj /\ w.srcs = j.srcs /\ w.pc = "write"
  BY <1>2, WriteStep, Zenon DEF Goes, GoesOn
<1> HIDE DEF w
<1>5. /\ p \in Pass /\ p.key = j.key /\ p.obj = j.obj /\ p.srcs = j.srcs
      /\ p.pc = "write" /\ p.table = t /\ ~p.keep
  BY <1>1, <1>3, <1>4, Zenon DEF Pass
<1>6. Keeps(p, addrs)
  BY <1>1, <1>5, Zenon DEF Keeps
<1> QED
  BY <1>1, <1>5, <1>6, Zenon DEF Lays, GoesOn, p

\* What listing the claims makes of a load balancer's pass: an address it holds, a free one when
\* it holds none that will do, or a refusal.
LEMMA LbListed ==
  ASSUME NEW j \in Pass, ~j.grow
  PROVE  LET p == Listed("lb", j) IN
         /\ Goes(p, j)
         /\ \/ p.pc = "release" /\ p.want \in Mine(j) /\ j.obj.pin \in {NoAddr, p.want}
            \/ /\ p.pc = "create" /\ p.want \in FreeAddrs /\ j.obj.pin \in {NoAddr, p.want}
               /\ j.obj.pin = NoAddr => Mine(j) = {}
               /\ j.obj.pin # NoAddr => j.obj.pin \notin Mine(j)
            \/ p.pc = "write" /\ p.state # "Allocated"
<1> DEFINE pin == j.obj.pin
           mine == Mine(j)
           next == IF j.obj.ip \in FreeAddrs THEN j.obj.ip ELSE Min(FreeAddrs)
<1>1. mine \in SUBSET Addr /\ FreeAddrs \in SUBSET Addr /\ Addr \subseteq Nat
  BY AddressPoolAssumption, Zenon DEF Mine, FreeAddrs
<1>2. mine \cap FreeAddrs = {}
  BY OwnedIsNotFree, Zenon DEF Mine, FreeAddrs, OwnerRef, Pass
<1>3. mine # {} => Min(mine) \in mine
  BY <1>1, LowestIsIn, Zenon
<1>4. FreeAddrs # {} => next \in FreeAddrs
  BY <1>1, LowestIsIn, Zenon
<1>5. "Invalid" \in State /\ "Exhausted" \in State
  BY Zenon DEF State
<1> HIDE DEF next
<1>6. CASE pin # NoAddr /\ pin \in mine
  <2>1. Listed("lb", j) = Claimed("lb", j, pin)
    BY <1>2, <1>6, Zenon DEF Listed, Pinned
  <2>2. pin \in Addr
    BY <1>1, <1>6, Zenon
  <2>3. Goes(Listed("lb", j), j) /\ Listed("lb", j).pc = "release" /\ Listed("lb", j).want = pin
    BY <2>1, <2>2, LbClaimed
  <2> QED
    BY <1>6, <2>3, Zenon
<1>7. CASE pin # NoAddr /\ pin \in FreeAddrs
  <2>1. Listed("lb", j) = Wants(j, pin)
    BY <1>2, <1>7, Zenon DEF Listed, Pinned
  <2>2. pin \in Addr
    BY <1>1, <1>7, Zenon
  <2>3. Goes(Listed("lb", j), j) /\ Listed("lb", j).pc = "create" /\ Listed("lb", j).want = pin
    BY <2>1, <2>2, WantsStep
  <2> QED
    BY <1>2, <1>7, <2>3, Zenon
<1>8. CASE pin # NoAddr /\ pin \notin mine \cup FreeAddrs
  <2>1. Listed("lb", j) = Write(j, "Invalid")
    BY <1>8, Zenon DEF Listed, Pinned, Refused
  <2> QED
    BY <1>5, <2>1, WriteStep
<1>9. CASE pin = NoAddr /\ mine # {}
  <2>1. Listed("lb", j) = Claimed("lb", j, Min(mine))
    BY <1>9, Zenon DEF Listed, Pinned
  <2>2. Min(mine) \in Addr
    BY <1>1, <1>3, <1>9, Zenon
  <2>3. Goes(Listed("lb", j), j) /\ Listed("lb", j).pc = "release" /\ Listed("lb", j).want = Min(mine)
    BY <2>1, <2>2, LbClaimed, Zenon
  <2> QED
    BY <1>3, <1>9, <2>3, Zenon
<1>10. CASE pin = NoAddr /\ mine = {} /\ FreeAddrs # {}
  <2>1. Listed("lb", j) = Wants(j, next)
    BY <1>10, Zenon DEF Listed, Pinned, next
  <2>2. next \in Addr
    BY <1>1, <1>4, <1>10, Zenon
  <2>3. Goes(Listed("lb", j), j) /\ Listed("lb", j).pc = "create" /\ Listed("lb", j).want = next
    BY <2>1, <2>2, WantsStep, Zenon
  <2> QED
    BY <1>4, <1>10, <2>3, Zenon
<1>11. CASE pin = NoAddr /\ mine = {} /\ FreeAddrs = {}
  <2>1. Listed("lb", j) = Write(j, "Exhausted")
    BY <1>11, Zenon DEF Listed, Pinned, NothingFree
  <2> QED
    BY <1>5, <2>1, WriteStep
<1> QED
  BY <1>6, <1>7, <1>8, <1>9, <1>10, <1>11, Zenon

\* What reading the holder of a name makes of it.
LEMMA LbRead ==
  ASSUME NEW j \in Pass, ~j.grow, j.want \in Addr
  PROVE  LET p == Read("lb", j) IN
         /\ Goes(p, j)
         /\ \/ p.pc = "release" /\ p.want = j.want /\ claims[j.want] = OwnerRef(j)
            \/ p.pc = "list"
            \/ p.pc = "write" /\ p.state # "Allocated"
<1>1. "Invalid" \in State /\ "Exhausted" \in State
  BY Zenon DEF State
<1> DEFINE again == [j EXCEPT !.pc = "list", !.tries = @ + 1, !.want = NoAddr]
<1>2. \/ Retry("lb", j) = again /\ j.tries + 1 < claimRetries
      \/ Retry("lb", j) = Write(j, "Exhausted")
  BY Zenon DEF Retry, NothingFree
<1>3. j.tries + 1 < claimRetries => Goes(again, j) /\ again.pc = "list"
  BY AgainStep, Zenon
<1> HIDE DEF again
<1>4. /\ Goes(Retry("lb", j), j)
      /\ Retry("lb", j).pc = "list" \/ (Retry("lb", j).pc = "write" /\ Retry("lb", j).state # "Allocated")
  BY <1>1, <1>2, <1>3, WriteStep
<1>5. CASE claims[j.want] = OwnerRef(j)
  <2>1. OwnerRef(j) # Free
    BY OwnedIsNotFree, Zenon DEF OwnerRef, Pass
  <2>2. Read("lb", j) = Claimed("lb", j, j.want)
    BY <1>5, <2>1, Zenon DEF Read
  <2>3. Goes(Read("lb", j), j) /\ Read("lb", j).pc = "release" /\ Read("lb", j).want = j.want
    BY <2>2, LbClaimed
  <2> QED
    BY <1>5, <2>3, Zenon
<1>6. CASE claims[j.want] # OwnerRef(j)
  <2>1. Read("lb", j) \in {Retry("lb", j), Write(j, "Invalid")}
    BY <1>6, Zenon DEF Read, Refused
  <2> QED
    BY <1>1, <1>4, <2>1, WriteStep
<1> QED
  BY <1>5, <1>6, Zenon

\* The same for the gateway's pass: while it pins it goes on to its addresses, when it grows it
\* lays its blocks out over the addresses it has and the one it got.
LEMMA GwListed ==
  ASSUME NEW j \in Pass, GoodTable(j.obj.table)
  PROVE  LET p == Listed("gw", j) IN
         \/ Goes(p, j) /\ p.pc = "create" /\ p.want \in FreeAddrs
         \/ ~j.grow /\ Goes(p, j) /\ p.pc \in {"addrs", "write"}
         \/ j.grow /\ Lays(p, j, j.addrs)
<1> DEFINE pin == j.obj.pin
           mine == Mine(j)
           next == IF j.obj.ip \in FreeAddrs THEN j.obj.ip ELSE Min(FreeAddrs)
           p == Listed("gw", j)
<1>1. FreeAddrs \in SUBSET Addr /\ Addr \subseteq Nat /\ j.addrs \in SUBSET Addr
  BY AddressPoolAssumption, Zenon DEF FreeAddrs, Pass
<1>2. FreeAddrs # {} => next \in FreeAddrs
  BY <1>1, LowestIsIn, Zenon
<1>3. "Invalid" \in State /\ "Exhausted" \in State
  BY Zenon DEF State
<1> HIDE DEF next
<1>4. mine \cap FreeAddrs = {}
  BY OwnedIsNotFree, Zenon DEF Mine, FreeAddrs, OwnerRef, Pass
<1>5. CASE j.grow
  <2>1. CASE FreeAddrs # {}
    <3>1. p = Wants(j, next)
      BY <1>5, <2>1, Zenon DEF Listed, Pinned, next
    <3>2. next \in Addr
      BY <1>1, <1>2, <2>1, Zenon
    <3>3. Goes(p, j) /\ p.pc = "create" /\ p.want = next
      BY <3>1, <3>2, WantsStep, Zenon
    <3> QED
      BY <1>2, <2>1, <3>3, Zenon
  <2>2. CASE FreeAddrs = {}
    <3>1. p = Publish(j, j.addrs)
      BY <1>5, <2>2, Zenon DEF Listed, Pinned, NothingFree
    <3>2. Lays(p, j, j.addrs)
      BY <1>1, <3>1, PublishLays, Zenon
    <3> QED
      BY <1>5, <3>2, Zenon
  <2> QED
    BY <2>1, <2>2, Zenon
<1>6. CASE ~j.grow
  <2>1. \/ p = Claimed("gw", j, pin)
        \/ p = Claimed("gw", j, Min(mine))
        \/ p = Wants(j, pin) /\ pin \in FreeAddrs
        \/ p = Wants(j, next) /\ FreeAddrs # {}
        \/ p = Write(j, "Invalid")
        \/ p = Write(j, "Exhausted")
    <3>1. CASE pin # NoAddr /\ pin \in mine
      BY <1>4, <1>6, <3>1 DEF Listed, Pinned
    <3>2. CASE pin # NoAddr /\ pin \in FreeAddrs
      BY <1>4, <1>6, <3>2, Zenon DEF Listed, Pinned
    <3>3. CASE pin # NoAddr /\ pin \notin mine \cup FreeAddrs
      BY <1>6, <3>3, Zenon DEF Listed, Pinned, Refused
    <3>4. CASE pin = NoAddr /\ mine # {}
      BY <1>6, <3>4, Zenon DEF Listed, Pinned
    <3>5. CASE pin = NoAddr /\ mine = {} /\ FreeAddrs # {}
      BY <1>6, <3>5, Zenon DEF Listed, Pinned, next
    <3>6. CASE pin = NoAddr /\ mine = {} /\ FreeAddrs = {}
      BY <1>6, <3>6, Zenon DEF Listed, Pinned, NothingFree
    <3> QED
      BY <3>1, <3>2, <3>3, <3>4, <3>5, <3>6, Zenon
  <2> HIDE DEF p
  <2>2. CASE p = Claimed("gw", j, pin) \/ p = Claimed("gw", j, Min(mine))
    BY <1>6, <2>2, GwClaimed, Zenon DEF p
  <2>3. CASE p = Wants(j, pin) /\ pin \in FreeAddrs
    <3>1. Goes(p, j) /\ p.pc = "create" /\ p.want = pin
      BY <1>1, <2>3, WantsStep, Zenon
    <3> QED
      BY <2>3, <3>1, Zenon DEF p
  <2>4. CASE p = Wants(j, next) /\ FreeAddrs # {}
    <3>1. Goes(p, j) /\ p.pc = "create" /\ p.want = next
      BY <1>1, <1>2, <2>4, WantsStep, Zenon
    <3> QED
      BY <1>2, <2>4, <3>1, Zenon DEF p
  <2>5. CASE p = Write(j, "Invalid") \/ p = Write(j, "Exhausted")
    <3>1. Goes(p, j) /\ p.pc = "write"
      BY <1>3, <2>5, WriteStep
    <3> QED
      BY <1>6, <3>1, Zenon DEF p
  <2> QED
    BY <2>1, <2>2, <2>3, <2>4, <2>5
<1> QED
  BY <1>5, <1>6, Zenon

\* And what reading the holder of a name makes of the gateway's pass.
LEMMA GwRead ==
  ASSUME NEW j \in Pass, GoodTable(j.obj.table)
  PROVE  LET p == Read("gw", j) IN
         \/ Goes(p, j) /\ p.pc = "list"
         \/ ~j.grow /\ Goes(p, j) /\ p.pc \in {"addrs", "write"}
         \/ j.grow /\ Lays(p, j, j.addrs)
<1> DEFINE p == Read("gw", j)
           again == [j EXCEPT !.pc = "list", !.tries = @ + 1, !.want = NoAddr]
<1>1. "Invalid" \in State /\ "Exhausted" \in State /\ j.addrs \in SUBSET Addr
  BY Zenon DEF State, Pass
<1>2. \/ p = again /\ j.tries + 1 < claimRetries
      \/ j.grow /\ p = Publish(j, j.addrs)
      \/ ~j.grow /\ p = Write(j, "Exhausted")
      \/ ~j.grow /\ p = Write(j, "Invalid")
      \/ ~j.grow /\ p = Claimed("gw", j, j.want)
  BY DEF Read, Retry, NothingFree, Refused, Pinned
<1> HIDE DEF p
<1>3. CASE p = again /\ j.tries + 1 < claimRetries
  BY <1>3, AgainStep, Zenon DEF p
<1>4. CASE j.grow /\ p = Publish(j, j.addrs)
  <2>1. Lays(p, j, j.addrs)
    BY <1>1, <1>4, PublishLays, Zenon
  <2> QED
    BY <1>4, <2>1, Zenon DEF p
<1>5. CASE ~j.grow /\ (p = Write(j, "Exhausted") \/ p = Write(j, "Invalid"))
  <2>1. Goes(p, j) /\ p.pc = "write"
    BY <1>1, <1>5, WriteStep
  <2> QED
    BY <1>5, <2>1, Zenon DEF p
<1>6. CASE ~j.grow /\ p = Claimed("gw", j, j.want)
  <2>1. Goes(p, j) /\ p.pc = "addrs"
    BY <1>6, GwClaimed, Zenon
  <2> QED
    BY <1>6, <2>1, Zenon DEF p
<1> QED
  BY <1>2, <1>3, <1>4, <1>5, <1>6, Zenon

-----------------------------------------------------------------------------
(* The invariant *)

\* What an object is when it is made, and what is left of it.
LEMMA NewObjectType ==
  ASSUME NEW u \in Nat
  PROVE  /\ NewObject(u) \in Object /\ NoObject(u) \in Object
         /\ NewObject(u).uid = u /\ NewObject(u).live /\ NewObject(u).state = ""
         /\ NewObject(u).observed = 0 /\ NewObject(u).gen = 1 /\ NewObject(u).table = NoTable
         /\ NoObject(u).uid = u /\ ~NoObject(u).live /\ NoObject(u).state = ""
         /\ NoObject(u).observed = 0 /\ NoObject(u).gen = 1 /\ NoObject(u).table = NoTable
<1>1. Max(Sizes) \in Sizes
  BY AddressPoolAssumption, Zenon DEF Max
<1>2. NoTable \in Table
  BY Zenon DEF NoTable, NoBlock, Table
<1>3. NoAddr \in Pins /\ "" \in State
  BY AddressPoolAssumption, Zenon DEF NoAddr, State
<1> QED
  BY <1>1, <1>2, <1>3, Zenon DEF NewObject, NoObject, Object

\* A table without blocks.
LEMMA NoTableIsGood == GoodTable(NoTable) /\ \A addrs : On(NoTable, addrs)
BY Zenon DEF GoodTable, NoTable, On

\* A worker between passes.
LEMMA IdleType ==
  /\ Idle \in Pass /\ Idle.pc = "idle" /\ ~Idle.grow /\ Idle.keep
  /\ Sound(Idle.obj) /\ GoodTable(Idle.table)
  /\ LbOk(Idle) /\ GwOk(Idle)
<1>1. NoObject(0) \in Object /\ NoObject(0).table = NoTable /\ ~NoObject(0).live
  BY NewObjectType, Zenon
<1>2. NoTable \in Table /\ "" \in State /\ GW \in Consumer /\ 0 \in 0..claimRetries
  BY DEF NoTable, NoBlock, Table, State, Consumer, claimRetries
<1>3. Idle \in Pass /\ Idle.pc = "idle" /\ ~Idle.grow /\ Idle.keep
  BY <1>1, <1>2, Zenon DEF Idle, Pass, NoAddr
<1>4. Idle.obj.table = NoTable /\ Idle.table = NoTable /\ ~Idle.obj.live
  BY <1>1, Zenon DEF Idle
<1> QED
  BY <1>3, <1>4, NoTableIsGood, Zenon DEF LbOk, GwOk, Sound

\* Versions are ordered.
LEMMA NotNewerSelf ==
  ASSUME NEW o \in Object
  PROVE  NotNewer(o, o)
BY Zenon DEF NotNewer, Object

\* One version before another before a third.
LEMMA NotNewerChain ==
  ASSUME NEW o \in Object, NEW p \in Object, NEW q \in Object, NotNewer(o, p), NotNewer(p, q)
  PROVE  NotNewer(o, q)
BY DEF NotNewer, Object

\* An earlier version is of the same object or of one before it.
LEMMA UidsInOrder ==
  ASSUME NEW o \in Object, NEW p \in Object, NotNewer(o, p)
  PROVE  o.uid \in Nat /\ p.uid \in Nat /\ o.uid <= p.uid
<1>1. o.uid \in Nat /\ p.uid \in Nat
  BY Zenon DEF Object
<1>2. o.uid < p.uid \/ o.uid = p.uid
  BY Zenon DEF NotNewer
<1> QED
  BY <1>1, <1>2

\* What was claimed by one version was claimed by the later ones.
LEMMA ClaimedLater ==
  ASSUME PoolTypeOK, NEW u \in Nat, NEW v \in Nat, u <= v, ClaimedBy(u)
  PROVE  ClaimedBy(v)
<1> SUFFICES ASSUME NEW a \in Addr, claims[a] # Free, claims[a][1] = GW
             PROVE  claims[a][2] <= v
  BY Zenon DEF ClaimedBy
<1>1. claims[a] \in Consumer \X Nat
  BY Zenon DEF PoolTypeOK
<1>2. claims[a][2] \in Nat
  BY <1>1, Zenon
<1>3. claims[a][2] <= u
  BY Zenon DEF ClaimedBy
<1> QED
  BY <1>2, <1>3

\* The controller starts in order.
LEMMA InitOk == PoolInit => IInv
<1> SUFFICES ASSUME PoolInit PROVE IInv
  OBVIOUS
<1>1. /\ claims = [a \in Addr |-> Free] /\ seen = obj /\ nics \in StartNics /\ pool = "Ready"
      /\ due = {c \in Consumer : obj[c].live} /\ freed = {}
      /\ work = [k \in Controller |-> Idle] /\ events = 0
  BY Zenon DEF PoolInit
<1>2. \A c \in Consumer : obj[c] \in {NewObject(1), NoObject(0)}
  BY Zenon DEF PoolInit
<1>3. /\ obj = [c \in Consumer |-> obj[c]]
      /\ \A c \in Consumer :
           /\ obj[c] \in Object /\ obj[c].observed = 0 /\ obj[c].gen = 1 /\ obj[c].state = ""
           /\ obj[c].table = NoTable /\ (obj[c].live => obj[c].uid = 1)
  <2>1. obj = [c \in Consumer |-> obj[c]]
    BY Zenon DEF PoolInit
  <2>2. /\ NewObject(1) \in Object /\ NewObject(1).observed = 0 /\ NewObject(1).gen = 1
        /\ NewObject(1).state = "" /\ NewObject(1).table = NoTable /\ NewObject(1).uid = 1
    BY NewObjectType, Zenon
  <2>3. /\ NoObject(0) \in Object /\ NoObject(0).observed = 0 /\ NoObject(0).gen = 1
        /\ NoObject(0).state = "" /\ NoObject(0).table = NoTable /\ ~NoObject(0).live
    BY NewObjectType, Zenon
  <2> QED
    BY <1>2, <2>1, <2>2, <2>3, Zenon
<1>4. \A k \in Controller : work[k] = Idle
  BY <1>1, Zenon
<1>5. GW \in Consumer /\ "lb" \in Controller /\ "gw" \in Controller /\ LB \subseteq Consumer
  BY Zenon DEF Consumer, Controller
<1>6. PoolTypeOK
  <2>1. work \in [Controller -> Pass] /\ claims \in [Addr -> {Free} \cup (Consumer \X Nat)]
    BY <1>1, IdleType, Zenon
  <2>2. obj \in [Consumer -> Object] /\ seen \in [Consumer -> Object]
    BY <1>1, <1>3, Zenon
  <2>3. nics \in SUBSET Source
    BY <1>1, AddressPoolAssumption, Zenon
  <2> QED
    BY <1>1, <2>1, <2>2, <2>3, Zenon DEF PoolTypeOK
<1>7. VersionsInOrder
  BY <1>1, <1>3, <1>4, IdleType, NotNewerSelf, Zenon DEF VersionsInOrder
<1>8. ObservedIsPast /\ Settled
  <2>1. ObservedIsPast
    <3>1. 0 <= 1
      OBVIOUS
    <3> QED
      BY <1>3, <3>1, Zenon DEF ObservedIsPast
  <2>2. \A l \in LB : ~Current(obj[l])
    BY <1>3, <1>5, Zenon DEF Current
  <2> QED
    BY <2>1, <2>2, Zenon DEF Settled
<1>9. AllSound
  <2>1. 1 >= 1
    OBVIOUS
  <2>2. \A c \in Consumer : Sound(obj[c])
    BY <1>3, <2>1, NoTableIsGood, Zenon DEF Sound
  <2> QED
    BY <1>1, <1>4, <2>2, IdleType, Zenon DEF AllSound
<1>10. LbOk(work["lb"]) /\ GwOk(work["gw"])
  BY <1>4, <1>5, IdleType, Zenon
<1>11. ClaimsArePast /\ GwHolds
  <2>1. \A u : ClaimedBy(u)
    BY <1>1, Zenon DEF ClaimedBy
  <2>2. On(obj[GW].table, Held(GW))
    BY <1>3, <1>5, NoTableIsGood, Zenon
  <2> QED
    BY <2>1, <2>2, Zenon DEF ClaimsArePast, GwHolds
<1> QED
  BY <1>6, <1>7, <1>8, <1>9, <1>10, <1>11, Zenon DEF IInv

\* A step of worker k that leaves the objects and the informer's copies alone.
LEMMA WorkerStep ==
  ASSUME IInv, NEW k \in Controller, NEW p \in Pass, work' = [work EXCEPT ![k] = p],
         UNCHANGED <<obj, seen>>,
         p.pc # "idle" => p.obj.live /\ NotNewer(p.obj, seen[p.key]),
         Sound(p.obj), GoodTable(p.table)
  PROVE  /\ work' \in [Controller -> Pass]
         /\ \A m \in Controller : work'[m] = IF m = k THEN p ELSE work[m]
         /\ VersionsInOrder' /\ ObservedIsPast' /\ AllSound'
<1>1. work \in [Controller -> Pass] /\ VersionsInOrder /\ ObservedIsPast /\ AllSound
  BY Zenon DEF IInv, PoolTypeOK
<1>2. \A m \in Controller : work'[m] = IF m = k THEN p ELSE work[m]
  BY <1>1, Zenon
<1>3. work' \in [Controller -> Pass]
  BY <1>1, Zenon
<1>4. VersionsInOrder'
  BY <1>1, <1>2, Zenon DEF VersionsInOrder
<1>5. ObservedIsPast'
  BY <1>1, Zenon DEF ObservedIsPast
<1>6. AllSound'
  BY <1>1, <1>2, Zenon DEF AllSound
<1> QED
  BY <1>2, <1>3, <1>4, <1>5, <1>6, Zenon

\* A step of the load balancers' worker that changes no claim.
LEMMA LbStep ==
  ASSUME IInv, NEW p \in Pass, work' = [work EXCEPT !["lb"] = p], UNCHANGED <<claims, obj, seen>>,
         p.pc # "idle" => p.obj.live /\ NotNewer(p.obj, seen[p.key]),
         Sound(p.obj), GoodTable(p.table), LbOk(p),
         nics' \in SUBSET Source, pool' \in {"Ready", "Pending", "Invalid"},
         due' \in SUBSET Consumer, freed' \in SUBSET Controller, events' \in Nat
  PROVE  IInv'
<1>1. "lb" \in Controller /\ "gw" \in Controller
  BY Zenon DEF Controller
<1>2. /\ work' \in [Controller -> Pass] /\ work'["lb"] = p /\ work'["gw"] = work["gw"]
      /\ VersionsInOrder' /\ ObservedIsPast' /\ AllSound'
  BY <1>1, WorkerStep, Zenon
<1>3. PoolTypeOK'
  BY <1>2, Zenon DEF IInv, PoolTypeOK
<1>4. Settled' /\ GwHolds'
  <2>1. \A c \in Consumer : Held(c)' = Held(c)
    BY Zenon DEF Held
  <2>2. GW \in Consumer /\ LB \subseteq Consumer
    BY Zenon DEF Consumer
  <2> QED
    BY <2>1, <2>2, Zenon DEF IInv, Settled, GwHolds
<1>5. LbOk(work["lb"])'
  BY <1>2 DEF LbOk, Mine, OwnerRef, Current
<1>6. GwOk(work["gw"])'
  <2>1. Mine(work["gw"])' = Mine(work["gw"]) /\ SameGw(work["gw"])' = SameGw(work["gw"])
    BY <1>2, Zenon DEF Mine, OwnerRef, SameGw
  <2> QED
    BY <1>2, <2>1, Zenon DEF IInv, GwOk
<1>7. ClaimsArePast'
  BY <1>2, Zenon DEF IInv, ClaimsArePast, ClaimedBy
<1> QED
  BY <1>2, <1>3, <1>4, <1>5, <1>6, <1>7, Zenon DEF IInv

\* A step of the gateway's worker that changes no claim.
LEMMA GwStep ==
  ASSUME IInv, NEW p \in Pass, work' = [work EXCEPT !["gw"] = p], UNCHANGED <<claims, obj, seen>>,
         p.pc # "idle" => p.obj.live /\ NotNewer(p.obj, seen[p.key]),
         Sound(p.obj), GoodTable(p.table), GwOk(p),
         p.pc # "idle" => ClaimedBy(p.obj.uid),
         nics' \in SUBSET Source, pool' \in {"Ready", "Pending", "Invalid"},
         due' \in SUBSET Consumer, freed' \in SUBSET Controller, events' \in Nat
  PROVE  IInv'
<1>1. "lb" \in Controller /\ "gw" \in Controller
  BY Zenon DEF Controller
<1>2. /\ work' \in [Controller -> Pass] /\ work'["gw"] = p /\ work'["lb"] = work["lb"]
      /\ VersionsInOrder' /\ ObservedIsPast' /\ AllSound'
  BY <1>1, WorkerStep, Zenon
<1>3. PoolTypeOK'
  BY <1>2, Zenon DEF IInv, PoolTypeOK
<1>4. Settled' /\ GwHolds'
  <2>1. \A c \in Consumer : Held(c)' = Held(c)
    BY Zenon DEF Held
  <2>2. GW \in Consumer /\ LB \subseteq Consumer
    BY Zenon DEF Consumer
  <2> QED
    BY <2>1, <2>2, Zenon DEF IInv, Settled, GwHolds
<1>5. LbOk(work["lb"])'
  <2>1. Mine(work["lb"])' = Mine(work["lb"]) /\ OwnerRef(work["lb"])' = OwnerRef(work["lb"])
    BY <1>2, Zenon DEF Mine, OwnerRef
  <2>2. LbOk(work["lb"])
    BY Zenon DEF IInv
  <2> QED
    BY <1>2, <2>1, <2>2, Zenon DEF LbOk
<1>6. GwOk(work["gw"])'
  <2>1. Mine(work["gw"])' = Mine(p) /\ SameGw(work["gw"])' = SameGw(p)
    BY <1>2, Zenon DEF Mine, OwnerRef, SameGw
  <2> QED
    BY <1>2, <2>1, Zenon DEF GwOk
<1>7. ClaimsArePast'
  BY <1>2, Zenon DEF IInv, ClaimsArePast, ClaimedBy
<1> QED
  BY <1>2, <1>3, <1>4, <1>5, <1>6, <1>7, Zenon DEF IInv

\* A step that touches no worker, no object, no copy and no claim.
LEMMA QuietStep ==
  ASSUME IInv, UNCHANGED <<claims, obj, seen, work>>,
         nics' \in SUBSET Source, pool' \in {"Ready", "Pending", "Invalid"},
         due' \in SUBSET Consumer, freed' \in SUBSET Controller, events' \in Nat
  PROVE  IInv'
<1>1. PoolTypeOK'
  BY Zenon DEF IInv, PoolTypeOK
<1>2. VersionsInOrder' /\ ObservedIsPast' /\ AllSound'
  BY Zenon DEF IInv, VersionsInOrder, ObservedIsPast, AllSound
<1>3. Settled' /\ GwHolds' /\ ClaimsArePast'
  BY Zenon DEF IInv, Settled, GwHolds, Held, ClaimsArePast, ClaimedBy
<1>4. LbOk(work["lb"])'
  <2>1. Mine(work["lb"])' = Mine(work["lb"]) /\ OwnerRef(work["lb"])' = OwnerRef(work["lb"])
    BY Zenon DEF Mine, OwnerRef
  <2> QED
    BY <2>1, Zenon DEF IInv, LbOk
<1>5. GwOk(work["gw"])'
  <2>1. Mine(work["gw"])' = Mine(work["gw"]) /\ SameGw(work["gw"])' = SameGw(work["gw"])
    BY Zenon DEF Mine, OwnerRef, SameGw
  <2> QED
    BY <2>1, Zenon DEF IInv, GwOk
<1> QED
  BY <1>1, <1>2, <1>3, <1>4, <1>5, Zenon DEF IInv

\* What is known when the load balancers' worker is about an object whose status is current.
LEMMA LbCurrent ==
  ASSUME IInv, work["lb"].pc # "idle", Current(obj[work["lb"].key])
  PROVE  LET j == work["lb"] IN
         /\ Mine(j) = {obj[j.key].ip} /\ j.obj.pin \in {NoAddr, obj[j.key].ip}
         /\ j.obj.uid = obj[j.key].uid
<1>1. /\ work["lb"].key \in LB /\ work["lb"].obj.uid = obj[work["lb"].key].uid
      /\ work["lb"].obj.pin = obj[work["lb"].key].pin
  BY Zenon DEF IInv, LbOk
<1>2. Held(work["lb"].key) = Mine(work["lb"])
  BY <1>1, Zenon DEF Held, Mine, OwnerRef
<1> QED
  BY <1>1, <1>2, Zenon DEF IInv, Settled

\* What is known of a worker's pass.
LEMMA PassFacts ==
  ASSUME IInv, NEW k \in Controller
  PROVE  LET j == work[k] IN
         /\ j \in Pass /\ j.key \in Consumer /\ j.obj \in Object /\ j.obj.uid \in Nat
         /\ Sound(j.obj) /\ GoodTable(j.table) /\ GoodTable(j.obj.table)
         /\ j.pc # "idle" => j.obj.live /\ NotNewer(j.obj, seen[j.key])
<1>1. work[k] \in Pass
  BY Zenon DEF IInv, PoolTypeOK
<1> QED
  BY <1>1, Zenon DEF IInv, AllSound, VersionsInOrder, Sound, Pass, Object

\* A load balancer's pass lists the claims: what it finds of its own, or free, will do.
LEMMA ListLb ==
  ASSUME IInv, List("lb")
  PROVE  IInv'
<1> DEFINE j == work["lb"]
           p == Listed("lb", j)
<1>1. /\ j.pc = "list" /\ work' = [work EXCEPT !["lb"] = p]
      /\ UNCHANGED <<claims, obj, seen, nics, pool, due, freed, events>>
  BY Zenon DEF List
<1>2. /\ j \in Pass /\ Sound(j.obj) /\ GoodTable(j.table)
      /\ j.obj.live /\ NotNewer(j.obj, seen[j.key])
  BY <1>1, PassFacts, Zenon DEF Controller
<1>3. j.key \in LB /\ ~j.grow /\ ~Current(j.obj)
  BY <1>1, Zenon DEF IInv, LbOk
<1>4. /\ Goes(p, j)
      /\ \/ p.pc = "release" /\ p.want \in Mine(j) /\ j.obj.pin \in {NoAddr, p.want}
         \/ /\ p.pc = "create" /\ p.want \in FreeAddrs /\ j.obj.pin \in {NoAddr, p.want}
            /\ j.obj.pin = NoAddr => Mine(j) = {}
            /\ j.obj.pin # NoAddr => j.obj.pin \notin Mine(j)
         \/ p.pc = "write" /\ p.state # "Allocated"
  BY <1>2, <1>3, LbListed, Zenon
<1>5. Current(obj[j.key]) => /\ Mine(j) = {obj[j.key].ip} /\ j.obj.pin \in {NoAddr, obj[j.key].ip}
                             /\ j.obj.uid = obj[j.key].uid /\ j.obj.pin = obj[j.key].pin
  BY <1>1, LbCurrent, Zenon DEF IInv, LbOk
<1> HIDE DEF p
<1>6. p \in Pass /\ p.key = j.key /\ p.obj = j.obj /\ p.table = j.table /\ ~p.grow
  BY <1>3, <1>4, Zenon DEF Goes, GoesOn
<1>7. OwnerRef(p) = OwnerRef(j)
  BY <1>6, Zenon DEF OwnerRef
<1>8. LbOk(p)
  <2>1. CASE p.pc = "release" /\ p.want \in Mine(j) /\ j.obj.pin \in {NoAddr, p.want}
    <3>1. p.want \in Addr /\ claims[p.want] = OwnerRef(p)
      BY <1>7, <2>1, Zenon DEF Mine
    <3> QED
      BY <1>3, <1>5, <1>6, <2>1, <3>1, Zenon DEF LbOk
  <2>2. CASE /\ p.pc = "create" /\ p.want \in FreeAddrs /\ j.obj.pin \in {NoAddr, p.want}
             /\ j.obj.pin = NoAddr => Mine(j) = {}
             /\ j.obj.pin # NoAddr => j.obj.pin \notin Mine(j)
    <3>1. p.want \in Addr
      BY <2>2, Zenon DEF FreeAddrs
    <3>2. ~Current(obj[j.key])
      BY <1>5, <2>2, Zenon
    <3> QED
      BY <1>3, <1>6, <2>2, <3>1, <3>2, Zenon DEF LbOk
  <2>3. CASE p.pc = "write" /\ p.state # "Allocated"
    BY <1>3, <1>5, <1>6, <2>3, Zenon DEF LbOk
  <2> QED
    BY <1>4, <2>1, <2>2, <2>3
<1>9. /\ nics \in SUBSET Source /\ pool \in {"Ready", "Pending", "Invalid"}
      /\ due \in SUBSET Consumer /\ freed \in SUBSET Controller /\ events \in Nat
  BY Zenon DEF IInv, PoolTypeOK
<1> QED
  BY <1>1, <1>2, <1>6, <1>8, <1>9, LbStep, Zenon

\* It reads the holder of a name that was taken.
LEMMA WhoLb ==
  ASSUME IInv, Who("lb")
  PROVE  IInv'
<1> DEFINE j == work["lb"]
           p == Read("lb", j)
<1>1. /\ j.pc = "who" /\ work' = [work EXCEPT !["lb"] = p]
      /\ UNCHANGED <<claims, obj, seen, nics, pool, due, freed, events>>
  BY Zenon DEF Who
<1>2. /\ j \in Pass /\ Sound(j.obj) /\ GoodTable(j.table)
      /\ j.obj.live /\ NotNewer(j.obj, seen[j.key])
  BY <1>1, PassFacts, Zenon DEF Controller
<1>3. /\ j.key \in LB /\ ~j.grow /\ ~Current(j.obj) /\ j.want \in Addr
      /\ j.obj.pin \in {NoAddr, j.want} /\ ~Current(obj[j.key])
  BY <1>1, Zenon DEF IInv, LbOk
<1>4. /\ Goes(p, j)
      /\ \/ p.pc = "release" /\ p.want = j.want /\ claims[j.want] = OwnerRef(j)
         \/ p.pc = "list"
         \/ p.pc = "write" /\ p.state # "Allocated"
  BY <1>2, <1>3, LbRead, Zenon
<1> HIDE DEF p
<1>5. p \in Pass /\ p.key = j.key /\ p.obj = j.obj /\ p.table = j.table /\ ~p.grow
  BY <1>3, <1>4, Zenon DEF Goes, GoesOn
<1>6. OwnerRef(p) = OwnerRef(j)
  BY <1>5, Zenon DEF OwnerRef
<1>7. LbOk(p)
  BY <1>3, <1>4, <1>5, <1>6, Zenon DEF LbOk
<1>8. /\ nics \in SUBSET Source /\ pool \in {"Ready", "Pending", "Invalid"}
      /\ due \in SUBSET Consumer /\ freed \in SUBSET Controller /\ events \in Nat
  BY Zenon DEF IInv, PoolTypeOK
<1> QED
  BY <1>1, <1>2, <1>5, <1>7, <1>8, LbStep, Zenon

\* A table that keeps its blocks on some addresses keeps them on fewer.
LEMMA KeepsFewer ==
  ASSUME NEW p, NEW A, NEW B \in SUBSET A, Keeps(p, A)
  PROVE  Keeps(p, B)
<1>1. \A z : Starts(B, z) \subseteq Starts(A, z)
  BY DEF Starts
<1> QED
  BY <1>1, Zenon DEF Keeps

\* A table on some addresses is on more of them.
LEMMA OnMore ==
  ASSUME NEW t, NEW A, NEW B \in SUBSET A, On(t, B)
  PROVE  On(t, A)
<1>1. \A z : Starts(B, z) \subseteq Starts(A, z)
  BY DEF Starts
<1> QED
  BY <1>1, Zenon DEF On

\* A pass of the gateway that goes on without a table is in order.
LEMMA GwGoes ==
  ASSUME IInv, work["gw"].pc \notin {"idle", "write"}, NEW p, Goes(p, work["gw"]),
         \/ p.pc \in {"list", "create", "who"}
         \/ ~work["gw"].grow /\ p.pc \in {"addrs", "write"},
         p.pc \in {"create", "who"} => p.want \in Addr
  PROVE  GwOk(p)
<1>1. GwOk(work["gw"])
  BY Zenon DEF IInv
<1>2. /\ p.key = work["gw"].key /\ p.obj = work["gw"].obj /\ p.grow = work["gw"].grow
      /\ p.addrs = work["gw"].addrs /\ p.keep = work["gw"].keep
  BY Zenon DEF Goes, GoesOn
<1>3. Mine(p) = Mine(work["gw"]) /\ SameGw(p) = SameGw(work["gw"])
  BY <1>2, Zenon DEF Mine, OwnerRef, SameGw
<1> QED
  BY <1>1, <1>2, <1>3, Zenon DEF GwOk

\* A table laid out over all the gateway's addresses may be written.
LEMMA GwLays ==
  ASSUME NEW j \in Pass, NEW p, NEW addrs, j.key = GW, Lays(p, j, addrs),
         Mine(j) \subseteq addrs, SameGw(j) => addrs \subseteq Mine(j)
  PROVE  GwOk(p)
<1>1. /\ p.key = j.key /\ p.obj = j.obj /\ p.pc = "write" /\ ~p.keep
      /\ On(p.table, addrs) /\ Keeps(p, addrs)
  BY Zenon DEF Lays, GoesOn
<1>2. Mine(p) = Mine(j) /\ SameGw(p) = SameGw(j)
  BY <1>1, Zenon DEF Mine, OwnerRef, SameGw
<1>3. Keeps(p, Mine(p))
  BY <1>1, <1>2, KeepsFewer, Zenon
<1>4. SameGw(p) => On(p.table, Mine(p))
  BY <1>1, <1>2, OnMore, Zenon
<1> QED
  BY <1>1, <1>3, <1>4, Zenon DEF GwOk

\* What else a step of the gateway's pass has to say.
LEMMA GwGoesOn ==
  ASSUME IInv, work["gw"].pc # "idle", NEW p, GoesOn(p, work["gw"])
  PROVE  /\ p \in Pass /\ p.obj.live /\ NotNewer(p.obj, seen[p.key]) /\ Sound(p.obj)
         /\ ClaimedBy(p.obj.uid)
<1>1. work["gw"].obj.live /\ NotNewer(work["gw"].obj, seen[work["gw"].key]) /\ Sound(work["gw"].obj)
  BY PassFacts, Zenon DEF Controller
<1>2. p \in Pass /\ p.obj = work["gw"].obj /\ p.key = work["gw"].key
  BY Zenon DEF GoesOn
<1>3. ClaimedBy(work["gw"].obj.uid)
  BY Zenon DEF IInv, ClaimsArePast
<1> QED
  BY <1>1, <1>2, <1>3, Zenon

\* The gateway's pass lists the claims.
LEMMA ListGw ==
  ASSUME IInv, List("gw")
  PROVE  IInv'
<1> DEFINE j == work["gw"]
           p == Listed("gw", j)
<1>1. /\ j.pc = "list" /\ work' = [work EXCEPT !["gw"] = p]
      /\ UNCHANGED <<claims, obj, seen, nics, pool, due, freed, events>>
  BY Zenon DEF List
<1>2. j \in Pass /\ GoodTable(j.obj.table) /\ GoodTable(j.table)
  BY <1>1, PassFacts, Zenon DEF Controller
<1>3. /\ j.key = GW
      /\ j.grow => Mine(j) \subseteq j.addrs /\ (SameGw(j) => j.addrs \subseteq Mine(j))
  BY <1>1, Zenon DEF IInv, GwOk
<1>4. \/ Goes(p, j) /\ p.pc = "create" /\ p.want \in FreeAddrs
      \/ ~j.grow /\ Goes(p, j) /\ p.pc \in {"addrs", "write"}
      \/ j.grow /\ Lays(p, j, j.addrs)
  BY <1>2, GwListed, Zenon
<1> HIDE DEF p
<1>5. GoesOn(p, j) /\ GoodTable(p.table)
  BY <1>2, <1>4, Zenon DEF Goes, Lays
<1>6. GwOk(p)
  <2>1. CASE Goes(p, j) /\ p.pc = "create" /\ p.want \in FreeAddrs
    <3>1. p.want \in Addr
      BY <2>1, Zenon DEF FreeAddrs
    <3> QED
      BY <1>1, <2>1, <3>1, GwGoes, Zenon
  <2>2. CASE ~j.grow /\ Goes(p, j) /\ p.pc \in {"addrs", "write"}
    BY <1>1, <2>2, GwGoes, Zenon
  <2>3. CASE j.grow /\ Lays(p, j, j.addrs)
    BY <1>2, <1>3, <2>3, GwLays, Zenon
  <2> QED
    BY <1>4, <2>1, <2>2, <2>3
<1>7. p \in Pass /\ p.obj.live /\ NotNewer(p.obj, seen[p.key]) /\ Sound(p.obj) /\ ClaimedBy(p.obj.uid)
  BY <1>1, <1>5, GwGoesOn, Zenon
<1>8. /\ nics \in SUBSET Source /\ pool \in {"Ready", "Pending", "Invalid"}
      /\ due \in SUBSET Consumer /\ freed \in SUBSET Controller /\ events \in Nat
  BY Zenon DEF IInv, PoolTypeOK
<1> QED
  BY <1>1, <1>5, <1>6, <1>7, <1>8, GwStep, Zenon

\* It reads the holder of a name that was taken.
LEMMA WhoGw ==
  ASSUME IInv, Who("gw")
  PROVE  IInv'
<1> DEFINE j == work["gw"]
           p == Read("gw", j)
<1>1. /\ j.pc = "who" /\ work' = [work EXCEPT !["gw"] = p]
      /\ UNCHANGED <<claims, obj, seen, nics, pool, due, freed, events>>
  BY Zenon DEF Who
<1>2. j \in Pass /\ GoodTable(j.obj.table) /\ GoodTable(j.table)
  BY <1>1, PassFacts, Zenon DEF Controller
<1>3. /\ j.key = GW
      /\ j.grow => Mine(j) \subseteq j.addrs /\ (SameGw(j) => j.addrs \subseteq Mine(j))
  BY <1>1, Zenon DEF IInv, GwOk
<1>4. \/ Goes(p, j) /\ p.pc = "list"
      \/ ~j.grow /\ Goes(p, j) /\ p.pc \in {"addrs", "write"}
      \/ j.grow /\ Lays(p, j, j.addrs)
  BY <1>2, GwRead, Zenon
<1> HIDE DEF p
<1>5. GoesOn(p, j) /\ GoodTable(p.table)
  BY <1>2, <1>4, Zenon DEF Goes, Lays
<1>6. GwOk(p)
  <2>1. CASE Goes(p, j) /\ p.pc = "list"
    BY <1>1, <2>1, GwGoes
  <2>2. CASE ~j.grow /\ Goes(p, j) /\ p.pc \in {"addrs", "write"}
    BY <1>1, <2>2, GwGoes, Zenon
  <2>3. CASE j.grow /\ Lays(p, j, j.addrs)
    BY <1>2, <1>3, <2>3, GwLays, Zenon
  <2> QED
    BY <1>4, <2>1, <2>2, <2>3, Zenon
<1>7. p \in Pass /\ p.obj.live /\ NotNewer(p.obj, seen[p.key]) /\ Sound(p.obj) /\ ClaimedBy(p.obj.uid)
  BY <1>1, <1>5, GwGoesOn
<1>8. /\ nics \in SUBSET Source /\ pool \in {"Ready", "Pending", "Invalid"}
      /\ due \in SUBSET Consumer /\ freed \in SUBSET Controller /\ events \in Nat
  BY Zenon DEF IInv, PoolTypeOK
<1> QED
  BY <1>1, <1>5, <1>6, <1>7, <1>8, GwStep, Zenon

\* It lays its blocks out over the addresses it holds, or looks for another.
LEMMA LayStep ==
  ASSUME IInv, Lay
  PROVE  IInv'
<1> DEFINE w == work["gw"]
           j == [w EXCEPT !.addrs = Mine(w)]
           on == [j EXCEPT !.pc = "list", !.grow = TRUE, !.tries = 0]
           p == IF Unblocked(j, assignBlocks(j, j.addrs)) = {} THEN Publish(j, j.addrs) ELSE on
<1>1. /\ j.pc = "addrs" /\ work' = [work EXCEPT !["gw"] = p]
      /\ UNCHANGED <<claims, obj, seen, nics, pool, due, freed, events>>
  BY Zenon DEF Lay
<1>2. w \in Pass /\ GoodTable(w.obj.table) /\ GoodTable(w.table)
  BY PassFacts, Zenon DEF Controller
<1>3. Mine(w) \in SUBSET Addr /\ 0 \in 0..claimRetries
  BY DEF Mine, claimRetries
<1>4. /\ j \in Pass /\ GoesOn(j, w) /\ j.addrs = Mine(w) /\ w.pc = "addrs"
      /\ j.keep = w.keep /\ j.table = w.table /\ GoodTable(j.obj.table)
  BY <1>1, <1>2, <1>3, Zenon DEF Pass, GoesOn
<1>5. w.key = GW /\ w.keep
  BY <1>4, Zenon DEF IInv, GwOk
<1>6. Mine(j) = Mine(w)
  BY <1>4, Zenon DEF Mine, OwnerRef, GoesOn
<1> HIDE DEF j
<1>7. /\ GoesOn(on, j) /\ on.pc = "list" /\ on.grow /\ on.addrs = j.addrs /\ on.keep = j.keep
      /\ on.table = j.table
  BY <1>3, <1>4, Zenon DEF Pass, GoesOn
<1>8. p = on \/ Lays(p, j, j.addrs)
  <2>1. Lays(Publish(j, j.addrs), j, j.addrs)
    BY <1>3, <1>4, PublishLays, Zenon
  <2> QED
    BY <2>1, Zenon
<1> HIDE DEF p, on
<1>9. GoesOn(p, w) /\ GoodTable(p.table)
  BY <1>2, <1>4, <1>7, <1>8 DEF GoesOn, Lays
<1>10. GwOk(p)
  <2>1. CASE p = on
    <3>1. on.key = GW /\ on.keep /\ Mine(on) = Mine(w) /\ on.addrs = Mine(w)
      BY <1>4, <1>5, <1>7 DEF GoesOn, Mine, OwnerRef
    <3> QED
      BY <1>7, <2>1, <3>1, Zenon DEF GwOk
  <2>2. CASE Lays(p, j, j.addrs)
    <3>1. j.key = GW
      BY <1>4, <1>5, Zenon DEF GoesOn
    <3> QED
      BY <1>4, <1>6, <2>2, <3>1, GwLays, Zenon
  <2> QED
    BY <1>8, <2>1, <2>2, Zenon
<1>11. p \in Pass /\ p.obj.live /\ NotNewer(p.obj, seen[p.key]) /\ Sound(p.obj) /\ ClaimedBy(p.obj.uid)
  BY <1>4, <1>9, GwGoesOn, Zenon
<1>12. /\ nics \in SUBSET Source /\ pool \in {"Ready", "Pending", "Invalid"}
       /\ due \in SUBSET Consumer /\ freed \in SUBSET Controller /\ events \in Nat
  BY Zenon DEF IInv, PoolTypeOK
<1> QED
  BY <1>1, <1>9, <1>10, <1>11, <1>12, GwStep, Zenon

\* A pass starts from the informer's copy.
LEMMA TakeLbStep ==
  ASSUME IInv, NEW l \in LB, TakeLb(l)
  PROVE  IInv'
<1> DEFINE o == seen[l]
           j == [Idle EXCEPT !.key = l, !.obj = o]
           w == Write(j, pool)
           on == [j EXCEPT !.pc = "list"]
           p == IF ~o.live \/ (o.state = "Allocated" /\ o.observed = o.gen) THEN Idle
                ELSE IF pool # "Ready" THEN w ELSE on
<1>1. /\ due' = due \ {l} /\ work' = [work EXCEPT !["lb"] = p]
      /\ UNCHANGED <<claims, obj, seen, nics, pool, freed, events>>
  BY Zenon DEF TakeLb
<1>2. /\ nics \in SUBSET Source /\ pool \in {"Ready", "Pending", "Invalid"}
      /\ due \in SUBSET Consumer /\ freed \in SUBSET Controller /\ events \in Nat
  BY Zenon DEF IInv, PoolTypeOK
<1>3. l \in Consumer
  BY Zenon DEF Consumer
<1>4. o \in Object /\ obj[l] \in Object /\ Sound(o)
  BY <1>3, Zenon DEF IInv, PoolTypeOK, AllSound
<1>5. j \in Pass /\ j.key = l /\ j.obj = o /\ ~j.grow /\ j.table = Idle.table
  BY <1>3, <1>4, IdleType, Zenon DEF Pass
<1> HIDE DEF j
<1>6. on \in Pass /\ on.key = l /\ on.obj = o /\ ~on.grow /\ on.table = Idle.table /\ on.pc = "list"
  BY <1>5, Zenon DEF Pass
<1>7. pool \in State
  BY <1>2, Zenon DEF State
<1>8. /\ w \in Pass /\ w.key = l /\ w.obj = o /\ ~w.grow /\ w.table = Idle.table
      /\ w.pc = "write" /\ w.state = pool
  BY <1>5, <1>7, WriteStep DEF Goes, GoesOn
<1> HIDE DEF on, w
<1>9. Current(obj[l]) => o.uid = obj[l].uid /\ o.pin = obj[l].pin
  <2>1. NotNewer(o, obj[l])
    BY <1>3, Zenon DEF IInv, VersionsInOrder
  <2>2. Current(obj[l]) => o.uid = obj[l].uid /\ o.gen = obj[l].gen /\ obj[l].live
    BY Zenon DEF IInv, Settled, Current
  <2> QED
    BY <1>4, <2>1, <2>2 DEF NotNewer, Object
<1>10. \/ p = Idle
       \/ /\ o.live /\ ~Current(o)
          /\ (p = on \/ (p = w /\ w.state # "Allocated"))
  BY <1>2, <1>8, Zenon DEF Current
<1> HIDE DEF p
<1>11. /\ p \in Pass /\ Sound(p.obj) /\ GoodTable(p.table)
       /\ p.pc # "idle" => p.obj.live /\ p.obj = seen[p.key]
  BY <1>4, <1>6, <1>8, <1>10, IdleType, Zenon
<1>12. LbOk(p)
  <2>1. CASE p = Idle
    BY <2>1, IdleType, Zenon
  <2>2. CASE o.live /\ ~Current(o) /\ p = on
    BY <1>6, <1>9, <2>2, Zenon DEF LbOk
  <2>3. CASE o.live /\ ~Current(o) /\ p = w /\ w.state # "Allocated"
    BY <1>8, <1>9, <2>3, Zenon DEF LbOk
  <2> QED
    BY <1>10, <2>1, <2>2, <2>3, Zenon
<1>13. p.pc # "idle" => p.obj.live /\ NotNewer(p.obj, seen[p.key])
  <2>1. p.obj \in Object
    BY <1>11, Zenon DEF Pass
  <2> QED
    BY <1>11, <2>1, NotNewerSelf, Zenon
<1>14. due' \in SUBSET Consumer
  BY <1>1, <1>2, Zenon
<1> QED
  BY <1>1, <1>2, <1>11, <1>12, <1>13, <1>14, LbStep, Zenon

\* The same for the gateway.
LEMMA TakeGwStep ==
  ASSUME IInv, TakeGw
  PROVE  IInv'
<1> DEFINE o == seen[GW]
           j == [Idle EXCEPT !.obj = o, !.srcs = nics]
           w == Write(j, pool)
           on == [j EXCEPT !.pc = IF o.pin = NoAddr THEN "addrs" ELSE "list"]
           p == IF ~o.live THEN Idle ELSE IF pool # "Ready" THEN w ELSE on
<1>1. /\ due' = due \ {GW} /\ work' = [work EXCEPT !["gw"] = p]
      /\ UNCHANGED <<claims, obj, seen, nics, pool, freed, events>>
  BY Zenon DEF TakeGw
<1>2. /\ nics \in SUBSET Source /\ pool \in {"Ready", "Pending", "Invalid"}
      /\ due \in SUBSET Consumer /\ freed \in SUBSET Controller /\ events \in Nat
  BY Zenon DEF IInv, PoolTypeOK
<1>3. GW \in Consumer /\ Idle.key = GW
  BY Zenon DEF Consumer, Idle
<1>4. o \in Object /\ Sound(o)
  BY <1>3, Zenon DEF IInv, PoolTypeOK, AllSound
<1>5. j \in Pass /\ j.key = GW /\ j.obj = o /\ ~j.grow /\ j.table = Idle.table /\ j.keep
  BY <1>2, <1>3, <1>4, IdleType, Zenon DEF Pass
<1> HIDE DEF j
<1>6. /\ on \in Pass /\ on.key = GW /\ on.obj = o /\ ~on.grow /\ on.table = Idle.table /\ on.keep
      /\ on.pc \in {"addrs", "list"}
  BY <1>5, Zenon DEF Pass
<1>7. pool \in State
  BY <1>2, Zenon DEF State
<1>8. /\ w \in Pass /\ w.key = GW /\ w.obj = o /\ ~w.grow /\ w.table = Idle.table /\ w.keep
      /\ w.pc = "write"
  BY <1>5, <1>7, WriteStep DEF Goes, GoesOn
<1> HIDE DEF on, w
<1>9. p = Idle \/ (o.live /\ p \in {on, w})
  OBVIOUS
<1> HIDE DEF p
<1>10. /\ p \in Pass /\ Sound(p.obj) /\ GoodTable(p.table)
       /\ p.pc # "idle" => p.obj.live /\ p.obj = seen[GW] /\ p.key = GW
  BY <1>4, <1>6, <1>8, <1>9, IdleType, Zenon
<1>11. GwOk(p)
  BY <1>6, <1>8, <1>9, IdleType, Zenon DEF GwOk
<1>12. p.pc # "idle" => p.obj.live /\ NotNewer(p.obj, seen[p.key])
  <2>1. p.obj \in Object
    BY <1>10, Zenon DEF Pass
  <2> QED
    BY <1>10, <2>1, NotNewerSelf, Zenon
<1>13. p.pc # "idle" => ClaimedBy(p.obj.uid)
  BY <1>10, Zenon DEF IInv, ClaimsArePast
<1>14. due' \in SUBSET Consumer
  BY <1>1, <1>2, Zenon
<1> QED
  BY <1>1, <1>2, <1>10, <1>11, <1>12, <1>13, <1>14, GwStep

\* A pass that fails is over.
LEMMA FailStep ==
  ASSUME IInv, NEW k \in Controller, Fail(k)
  PROVE  IInv'
<1>1. /\ work' = [work EXCEPT ![k] = Idle] /\ due' = due \cup {work[k].key} /\ events' = events + 1
      /\ UNCHANGED <<claims, obj, seen, nics, pool, freed>>
  BY Zenon DEF Fail
<1>2. /\ nics \in SUBSET Source /\ pool \in {"Ready", "Pending", "Invalid"}
      /\ due \in SUBSET Consumer /\ freed \in SUBSET Controller /\ events \in Nat
  BY Zenon DEF IInv, PoolTypeOK
<1>3. due' \in SUBSET Consumer /\ events' \in Nat
  <2>1. work[k].pc # "idle"
    BY Zenon DEF Fail
  <2>2. work[k].key \in Consumer
    BY <2>1, PassFacts, Zenon
  <2> QED
    BY <1>1, <1>2, <2>2
<1>4. k = "lb" \/ k = "gw"
  BY Zenon DEF Controller
<1> QED
  BY <1>1, <1>2, <1>3, <1>4, IdleType, LbStep, GwStep, Zenon
=============================================================================
