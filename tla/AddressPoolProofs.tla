------------------------- MODULE AddressPoolProofs -------------------------
(***************************************************************************)
(* The theorems about the address controllers, from the invariant of       *)
(* AddressPoolInvariant: claims come and go, objects and copies change,    *)
(* and the invariant stands.                                               *)
(***************************************************************************)
EXTENDS AddressPoolInvariant

-----------------------------------------------------------------------------
(* Claims come and go *)

\* A claim that is made takes nothing from anyone.
LEMMA ClaimMade ==
  ASSUME IInv, NEW k \in Controller, work[k].pc = "create", claims[work[k].want] = Free,
         claims' = [claims EXCEPT ![work[k].want] = OwnerRef(work[k])], UNCHANGED <<obj, seen>>
  PROVE  /\ claims' \in [Addr -> {Free} \cup (Consumer \X Nat)]
         /\ \A a \in Addr : claims'[a] = IF a = work[k].want THEN OwnerRef(work[k]) ELSE claims[a]
         /\ Settled' /\ GwHolds' /\ work[k].want \in Addr
<1> DEFINE j == work[k]
<1>1. j.want \in Addr
  BY Zenon DEF IInv, LbOk, GwOk, Controller
<1>2. OwnerRef(j) \in Consumer \X Nat
  BY PassFacts, Zenon DEF OwnerRef
<1>3. claims \in [Addr -> {Free} \cup (Consumer \X Nat)]
  BY Zenon DEF IInv, PoolTypeOK
<1>4. claims' \in [Addr -> {Free} \cup (Consumer \X Nat)]
  BY <1>2, <1>3, Zenon
<1>5. \A a \in Addr : claims'[a] = IF a = j.want THEN OwnerRef(j) ELSE claims[a]
  BY <1>3, Zenon
<1>6. \A c \in Consumer : Held(c) \subseteq Held(c)'
  BY <1>5, OwnedIsNotFree, Zenon DEF Held
<1>7. Settled'
  <2> SUFFICES ASSUME NEW l \in LB, Current(obj[l])
               PROVE  Held(l)' = Held(l)
    BY Zenon DEF IInv, Settled
  <2>1. l # j.key
    BY AddressPoolAssumption DEF IInv, LbOk, GwOk, Controller, GW
  <2>2. OwnerRef(j) # <<l, obj[l].uid>> /\ l \in Consumer
    BY <2>1, Zenon DEF OwnerRef, Consumer
  <2> QED
    BY <1>5, <2>2, OwnedIsNotFree DEF Held
<1>8. GwHolds'
  <2>1. GW \in Consumer
    BY Zenon DEF Consumer
  <2> QED
    BY <1>6, <2>1, OnMore, Zenon DEF IInv, GwHolds
<1> QED
  BY <1>1, <1>4, <1>5, <1>7, <1>8, Zenon

\* The name is taken: the pass goes on to ask who holds it.
LEMMA CreateRefused ==
  ASSUME IInv, NEW k \in Controller, work[k].pc = "create",
         work' = [work EXCEPT ![k] = [work[k] EXCEPT !.pc = "who"]],
         UNCHANGED <<claims, obj, seen, nics, pool, due, freed, events>>
  PROVE  IInv'
<1> DEFINE j == work[k]
           p == [j EXCEPT !.pc = "who"]
<1>1. /\ nics \in SUBSET Source /\ pool \in {"Ready", "Pending", "Invalid"}
      /\ due \in SUBSET Consumer /\ freed \in SUBSET Controller /\ events \in Nat
  BY Zenon DEF IInv, PoolTypeOK
<1>2. /\ j \in Pass /\ Sound(j.obj) /\ GoodTable(j.table)
      /\ j.obj.live /\ NotNewer(j.obj, seen[j.key])
  BY PassFacts, Zenon
<1>3. Goes(p, j) /\ p.pc = "who" /\ p.want = j.want
  BY <1>2, WhoStep, Zenon
<1> HIDE DEF p
<1>4. p \in Pass /\ p.key = j.key /\ p.obj = j.obj /\ p.table = j.table /\ p.grow = j.grow /\ GoesOn(p, j)
  BY <1>3, Zenon DEF Goes, GoesOn
<1>5. work' = [work EXCEPT ![k] = p]
  BY DEF p
<1>6. CASE k = "lb"
  <2>1. LbOk(p)
    BY <1>3, <1>4, <1>6 DEF IInv, LbOk
  <2> QED
    BY <1>1, <1>2, <1>4, <1>5, <1>6, <2>1, LbStep, Zenon
<1>7. CASE k = "gw"
  <2>1. p.want \in Addr
    BY <1>3, <1>7, Zenon DEF IInv, GwOk
  <2>2. GwOk(p)
    BY <1>3, <1>7, <2>1, GwGoes, Zenon
  <2>3. ClaimedBy(p.obj.uid)
    BY <1>4, <1>7, GwGoesOn
  <2> QED
    BY <1>1, <1>2, <1>4, <1>5, <1>7, <2>2, <2>3, GwStep, Zenon
<1> QED
  BY <1>6, <1>7, Zenon DEF Controller

\* A load balancer's claim.
LEMMA CreateLb ==
  ASSUME IInv, work["lb"].pc = "create", claims[work["lb"].want] = Free,
         claims' = [claims EXCEPT ![work["lb"].want] = OwnerRef(work["lb"])],
         work' = [work EXCEPT !["lb"] = Claimed("lb", work["lb"], work["lb"].want)],
         UNCHANGED <<obj, seen, nics, pool, due, freed, events>>
  PROVE  IInv'
<1> DEFINE j == work["lb"]
           p == Claimed("lb", j, j.want)
<1>1. "lb" \in Controller /\ "gw" \in Controller
  BY Zenon DEF Controller
<1>2. /\ claims' \in [Addr -> {Free} \cup (Consumer \X Nat)]
      /\ \A a \in Addr : claims'[a] = IF a = j.want THEN OwnerRef(j) ELSE claims[a]
      /\ Settled' /\ GwHolds' /\ j.want \in Addr
  BY <1>1, ClaimMade, Zenon
<1>3. /\ j \in Pass /\ Sound(j.obj) /\ GoodTable(j.table)
      /\ j.obj.live /\ NotNewer(j.obj, seen[j.key])
  BY <1>1, PassFacts, Zenon
<1>4. /\ j.key \in LB /\ ~j.grow /\ ~Current(j.obj) /\ j.obj.pin \in {NoAddr, j.want}
      /\ ~Current(obj[j.key])
  BY Zenon DEF IInv, LbOk
<1>5. Goes(p, j) /\ p.pc = "release" /\ p.want = j.want
  BY <1>2, <1>3, LbClaimed
<1> HIDE DEF p
<1>6. p \in Pass /\ p.key = j.key /\ p.obj = j.obj /\ p.table = j.table /\ ~p.grow
  BY <1>4, <1>5, Zenon DEF Goes, GoesOn
<1>7. work' = [work EXCEPT !["lb"] = p]
  BY Zenon DEF p
<1>8. /\ work' \in [Controller -> Pass] /\ work'["lb"] = p /\ work'["gw"] = work["gw"]
      /\ VersionsInOrder' /\ ObservedIsPast' /\ AllSound'
  BY <1>1, <1>3, <1>6, <1>7, WorkerStep, Zenon
<1>9. PoolTypeOK'
  BY <1>2, <1>8 DEF IInv, PoolTypeOK
<1>10. LbOk(work["lb"])'
  <2>1. OwnerRef(work["lb"])' = OwnerRef(j)
    BY <1>6, <1>8, Zenon DEF OwnerRef
  <2> QED
    BY <1>2, <1>4, <1>5, <1>6, <1>8, <2>1, Zenon DEF LbOk
<1>11. OwnerRef(j)[1] # GW /\ OwnerRef(j) # Free
  BY <1>4, OwnedIsNotFree, AddressPoolAssumption, Zenon DEF OwnerRef, GW, Consumer
<1>12. GwOk(work["gw"])'
  <2>1. CASE work["gw"].pc = "idle"
    BY <1>8, <2>1, Zenon DEF GwOk
  <2>2. CASE work["gw"].pc # "idle"
    <3>1. OwnerRef(work["gw"]) # OwnerRef(j) /\ OwnerRef(work["gw"]) # Free
      BY <1>11, <2>2, OwnedIsNotFree, Zenon DEF IInv, GwOk, OwnerRef, Consumer
    <3>2. Mine(work["gw"])' = Mine(work["gw"]) /\ SameGw(work["gw"])' = SameGw(work["gw"])
      BY <1>2, <1>8, <3>1, Zenon DEF Mine, OwnerRef, SameGw
    <3> QED
      BY <1>8, <3>2, Zenon DEF IInv, GwOk
  <2> QED
    BY <2>1, <2>2, Zenon
<1>13. ClaimsArePast'
  BY <1>2, <1>8, <1>11, Zenon DEF IInv, ClaimsArePast, ClaimedBy
<1> QED
  BY <1>2, <1>8, <1>9, <1>10, <1>12, <1>13, Zenon DEF IInv

\* The gateway's claim, of an address it pins or one to grow by.
LEMMA CreateGw ==
  ASSUME IInv, work["gw"].pc = "create", claims[work["gw"].want] = Free,
         claims' = [claims EXCEPT ![work["gw"].want] = OwnerRef(work["gw"])],
         work' = [work EXCEPT !["gw"] = Claimed("gw", work["gw"], work["gw"].want)],
         UNCHANGED <<obj, seen, nics, pool, due, freed, events>>
  PROVE  IInv'
<1> DEFINE j == work["gw"]
           a == j.want
           p == Claimed("gw", j, a)
<1>1. "lb" \in Controller /\ "gw" \in Controller
  BY Zenon DEF Controller
<1>2. /\ claims' \in [Addr -> {Free} \cup (Consumer \X Nat)]
      /\ \A b \in Addr : claims'[b] = IF b = a THEN OwnerRef(j) ELSE claims[b]
      /\ Settled' /\ GwHolds' /\ a \in Addr
  BY <1>1, ClaimMade, Zenon
<1>3. /\ j \in Pass /\ Sound(j.obj) /\ GoodTable(j.table) /\ GoodTable(j.obj.table)
      /\ j.obj.live /\ NotNewer(j.obj, seen[j.key])
  BY <1>1, PassFacts, Zenon
<1>4. /\ j.key = GW /\ j.keep
      /\ j.grow => Mine(j) \subseteq j.addrs /\ (SameGw(j) => j.addrs \subseteq Mine(j))
  BY Zenon DEF IInv, GwOk
<1>5. \/ ~j.grow /\ Goes(p, j) /\ p.pc = "addrs"
      \/ j.grow /\ Lays(p, j, j.addrs \cup {a})
  <2>1. CASE ~j.grow
    BY <1>3, <2>1, GwClaimed, Zenon
  <2>2. CASE j.grow
    <3>1. p = Publish(j, j.addrs \cup {a})
      BY <2>2, Zenon DEF Claimed
    <3>2. j.addrs \cup {a} \in SUBSET Addr
      BY <1>2, <1>3, Zenon DEF Pass
    <3>3. Lays(p, j, j.addrs \cup {a})
      BY <1>3, <3>1, <3>2, PublishLays, Zenon
    <3> QED
      BY <2>2, <3>3, Zenon
  <2> QED
    BY <2>1, <2>2, Zenon
<1> HIDE DEF p
<1>6. /\ p \in Pass /\ p.key = j.key /\ p.obj = j.obj /\ GoesOn(p, j) /\ GoodTable(p.table)
  BY <1>3, <1>5, Zenon DEF Goes, GoesOn, Lays
<1>7. work' = [work EXCEPT !["gw"] = p]
  BY Zenon DEF p
<1>8. /\ work' \in [Controller -> Pass] /\ work'["gw"] = p /\ work'["lb"] = work["lb"]
      /\ VersionsInOrder' /\ ObservedIsPast' /\ AllSound'
  BY <1>1, <1>3, <1>6, <1>7, WorkerStep, Zenon
<1>9. PoolTypeOK'
  BY <1>2, <1>8, Zenon DEF IInv, PoolTypeOK
<1>10. LbOk(work["lb"])'
  <2> DEFINE m == work["lb"]
  <2>1. CASE m.pc = "idle"
    BY <1>8, <2>1, Zenon DEF LbOk
  <2>2. CASE m.pc # "idle"
    <3>1. m.key \in LB
      BY <2>2, Zenon DEF IInv, LbOk
    <3>2. OwnerRef(m) # OwnerRef(j) /\ OwnerRef(m) # Free
      BY <1>4, <3>1, OwnedIsNotFree, AddressPoolAssumption DEF OwnerRef, GW, Consumer
    <3>3. Mine(work["lb"])' = Mine(m) /\ OwnerRef(work["lb"])' = OwnerRef(m)
      BY <1>2, <1>8, <3>2 DEF Mine, OwnerRef
    <3>4. \A b \in Addr : claims[b] = OwnerRef(m) => claims'[b] = OwnerRef(m)
      BY <1>2, <3>2, Zenon
    <3> QED
      BY <1>8, <3>3, <3>4, Zenon DEF IInv, LbOk
  <2> QED
    BY <2>1, <2>2, Zenon
<1>11. GwOk(work["gw"])'
  <2>1. OwnerRef(j) # Free
    BY <1>4, OwnedIsNotFree, Zenon DEF OwnerRef, Consumer
  <2>2. Mine(work["gw"])' = Mine(j) \cup {a} /\ SameGw(work["gw"])' = SameGw(j)
    BY <1>2, <1>6, <1>8, <2>1 DEF Mine, OwnerRef, SameGw
  <2>3. CASE ~j.grow /\ Goes(p, j) /\ p.pc = "addrs"
    <3>1. p.keep /\ ~p.grow
      BY <1>4, <2>3 DEF Goes
    <3> QED
      BY <1>4, <1>6, <1>8, <2>3, <3>1, Zenon DEF GwOk
  <2>4. CASE j.grow /\ Lays(p, j, j.addrs \cup {a})
    <3>1. p.pc = "write" /\ ~p.keep /\ On(p.table, j.addrs \cup {a}) /\ Keeps(p, j.addrs \cup {a})
      BY <2>4, Zenon DEF Lays
    <3>2. Keeps(p, Mine(j) \cup {a})
      BY <1>4, <2>4, <3>1, KeepsFewer
    <3>3. SameGw(j) => On(p.table, Mine(j) \cup {a})
      BY <1>4, <2>4, <3>1, OnMore, Zenon
    <3> QED
      BY <1>4, <1>6, <1>8, <2>2, <3>1, <3>2, <3>3, Zenon DEF GwOk
  <2> QED
    BY <1>5, <2>3, <2>4, Zenon
<1>12. ClaimsArePast'
  <2>1. j.obj.uid <= seen[GW].uid /\ j.obj.uid <= j.obj.uid
    <3>1. seen[GW] \in Object /\ j.obj \in Object
      BY <1>1, PassFacts, Zenon DEF IInv, PoolTypeOK, Consumer
    <3>2. seen[GW].uid \in Nat /\ j.obj.uid \in Nat
      BY <3>1, Zenon DEF Object
    <3> QED
      BY <1>3, <1>4, <3>2 DEF NotNewer
  <2>2. OwnerRef(j)[2] = j.obj.uid
    BY Zenon DEF OwnerRef
  <2>3. ClaimedBy(seen[GW].uid) /\ ClaimedBy(j.obj.uid)
    BY Zenon DEF IInv, ClaimsArePast
  <2>4. \A b \in Addr : claims'[b] # Free /\ claims'[b][1] = GW =>
          claims'[b][2] <= seen[GW].uid /\ claims'[b][2] <= j.obj.uid
    BY <1>2, <2>1, <2>2, <2>3, Zenon DEF ClaimedBy
  <2> QED
    BY <1>6, <1>8, <2>4, Zenon DEF ClaimsArePast, ClaimedBy
<1> QED
  BY <1>2, <1>8, <1>9, <1>10, <1>11, <1>12, Zenon DEF IInv

\* Creating a claim, for either worker.
LEMMA CreateStep ==
  ASSUME IInv, NEW k \in Controller, Create(k)
  PROVE  IInv'
<1>1. /\ work[k].pc = "create" /\ UNCHANGED <<obj, seen, nics, pool, due, freed, events>>
      /\ \/ /\ claims[work[k].want] = Free
            /\ claims' = [claims EXCEPT ![work[k].want] = OwnerRef(work[k])]
            /\ work' = [work EXCEPT ![k] = Claimed(k, work[k], work[k].want)]
         \/ work' = [work EXCEPT ![k] = [work[k] EXCEPT !.pc = "who"]] /\ UNCHANGED claims
  BY Zenon DEF Create
<1>2. k = "lb" \/ k = "gw"
  BY DEF Controller
<1> QED
  BY <1>1, <1>2, CreateLb, CreateGw, CreateRefused, Zenon

\* A claim may go when nothing published and nothing a pass is about to publish rests on it.
LEMMA ClaimFreed ==
  ASSUME IInv, NEW a \in Addr, claims' = [claims EXCEPT ![a] = Free],
         UNCHANGED <<obj, seen, nics, pool, due, work, events>>, freed' \in SUBSET Controller,
         \A l \in LB : Current(obj[l]) => claims[a] # <<l, obj[l].uid>>,
         obj[GW].live => claims[a] # <<GW, obj[GW].uid>>,
         work["lb"].pc = "release" /\ obj[work["lb"].key] = work["lb"].obj => a # work["lb"].want,
         work["lb"].pc = "write" /\ obj[work["lb"].key] = work["lb"].obj =>
           claims[a] # OwnerRef(work["lb"])
  PROVE  IInv'
<1>1. claims \in [Addr -> {Free} \cup (Consumer \X Nat)]
  BY Zenon DEF IInv, PoolTypeOK
<1>2. \A b \in Addr : claims'[b] = IF b = a THEN Free ELSE claims[b]
  BY <1>1, Zenon
<1>3. PoolTypeOK'
  <2>1. claims' \in [Addr -> {Free} \cup (Consumer \X Nat)]
    BY <1>1, Zenon
  <2> QED
    BY <2>1, Zenon DEF IInv, PoolTypeOK
<1>4. VersionsInOrder' /\ ObservedIsPast' /\ AllSound'
  BY Zenon DEF IInv, VersionsInOrder, ObservedIsPast, AllSound
<1>5. \A c \in Consumer : claims[a] # <<c, obj[c].uid>> => Held(c)' = Held(c)
  BY <1>2, OwnedIsNotFree, Zenon DEF Held
<1>6. Settled'
  <2> SUFFICES ASSUME NEW l \in LB, Current(obj[l])
               PROVE  Held(l)' = Held(l)
    BY Zenon DEF IInv, Settled
  <2> QED
    BY <1>5, Zenon DEF Consumer
<1>7. GwHolds'
  <2>1. obj[GW].live => Held(GW)' = Held(GW)
    BY <1>5, Zenon DEF Consumer
  <2> QED
    BY <2>1, Zenon DEF IInv, GwHolds
<1>8. ClaimsArePast'
  BY <1>2 DEF IInv, ClaimsArePast, ClaimedBy
<1>9. LbOk(work["lb"])'
  <2> DEFINE j == work["lb"]
  <2>1. CASE j.pc = "idle"
    BY <2>1, Zenon DEF LbOk
  <2>2. CASE j.pc # "idle"
    <3>1. LbOk(j)
      BY Zenon DEF IInv
    <3>2. OwnerRef(work["lb"])' = OwnerRef(j)
      BY Zenon DEF OwnerRef
    <3>3. OwnerRef(j) # Free
      BY OwnedIsNotFree, PassFacts DEF OwnerRef, Controller
    <3>4. claims[a] # OwnerRef(j) => Mine(work["lb"])' = Mine(j)
      BY <1>2, <3>2, <3>3 DEF Mine
    <3>5. j.pc = "release" /\ obj[j.key] = j.obj => claims'[j.want] = OwnerRef(j)
      <4>1. j.pc = "release" => j.want \in Addr
        BY <3>1, Zenon DEF LbOk
      <4> QED
        BY <1>2, <3>1, <4>1, Zenon DEF LbOk
    <3>6. j.pc = "write" /\ j.state = "Allocated" /\ obj[j.key] = j.obj =>
            Mine(work["lb"])' = {j.want} /\ j.obj.pin \in {NoAddr, j.want}
      BY <3>1, <3>4, Zenon DEF LbOk
    <3> QED
      BY <3>1, <3>2, <3>5, <3>6, Zenon DEF LbOk
  <2> QED
    BY <2>1, <2>2, Zenon
<1>10. GwOk(work["gw"])'
  <2> DEFINE j == work["gw"]
  <2>1. CASE j.pc = "idle"
    BY <2>1, Zenon DEF GwOk
  <2>2. CASE j.pc # "idle"
    <3>1. j.key = GW /\ GwOk(j)
      BY <2>2, Zenon DEF IInv, GwOk
    <3>2. SameGw(work["gw"])' = SameGw(j)
      BY Zenon DEF SameGw
    <3>3. OwnerRef(j) # Free /\ OwnerRef(work["gw"])' = OwnerRef(j)
      BY OwnedIsNotFree, PassFacts, Zenon DEF OwnerRef, Controller
    <3>4. Mine(work["gw"])' \subseteq Mine(j)
      BY <1>2, <3>3, Zenon DEF Mine
    <3>5. SameGw(j) => Mine(work["gw"])' = Mine(j)
      <4>1. SameGw(j) => claims[a] # OwnerRef(j)
        BY <3>1, Zenon DEF SameGw, OwnerRef
      <4> QED
        BY <1>2, <3>3, <4>1, Zenon DEF Mine
    <3>6. j.pc = "write" /\ ~j.keep => Keeps(j, Mine(work["gw"])')
      BY <2>2, <3>1, <3>4, KeepsFewer DEF GwOk
    <3>7. j.grow /\ j.pc # "write" => /\ Mine(work["gw"])' \subseteq j.addrs
                                      /\ SameGw(j) => j.addrs \subseteq Mine(work["gw"])'
      <4>1. j.grow /\ j.pc # "write" => Mine(j) \subseteq j.addrs /\ (SameGw(j) => j.addrs \subseteq Mine(j))
        BY <2>2, <3>1, Zenon DEF GwOk
      <4> QED
        BY <3>4, <3>5, <4>1, Zenon
    <3>8. j.pc = "write" /\ ~j.keep /\ SameGw(j) => On(j.table, Mine(work["gw"])')
      BY <2>2, <3>1, <3>5, Zenon DEF GwOk
    <3> QED
      BY <3>1, <3>2, <3>6, <3>7, <3>8, Zenon DEF GwOk
  <2> QED
    BY <2>1, <2>2, Zenon
<1> QED
  BY <1>3, <1>4, <1>6, <1>7, <1>8, <1>9, <1>10 DEF IInv

\* The garbage collector takes a claim only from an owner that is gone.
LEMMA CollectStep ==
  ASSUME IInv, NEW a \in Addr, Collect(a)
  PROVE  IInv'
<1>1. /\ Ownerless(a) /\ claims' = [claims EXCEPT ![a] = Free] /\ freed' = Controller
      /\ UNCHANGED <<obj, seen, nics, pool, due, work, events>>
  BY Zenon DEF Collect
<1>2. \A c \in Consumer : obj[c].live => claims[a] # <<c, obj[c].uid>>
  BY <1>1, Zenon DEF Ownerless
<1>3. \A l \in LB : Current(obj[l]) => claims[a] # <<l, obj[l].uid>>
  BY <1>2, Zenon DEF Current, Consumer
<1>4. obj[GW].live => claims[a] # <<GW, obj[GW].uid>>
  BY <1>2, Zenon DEF Consumer
<1> DEFINE j == work["lb"]
<1>5. j.pc # "idle" /\ obj[j.key] = j.obj => claims[a] # OwnerRef(j)
  <2>1. j.pc # "idle" => j.obj.live /\ j.key \in Consumer
    BY PassFacts, Zenon DEF Controller
  <2> QED
    BY <1>2, <2>1, Zenon DEF OwnerRef
<1>6. j.pc = "release" /\ obj[j.key] = j.obj => a # j.want
  BY <1>5, Zenon DEF IInv, LbOk
<1>7. freed' \in SUBSET Controller
  BY <1>1, Zenon
<1> QED
  BY <1>1, <1>3, <1>4, <1>5, <1>6, <1>7, ClaimFreed, Zenon

\* A load balancer gives back what it does not publish.
LEMMA ReleaseStep ==
  ASSUME IInv, releaseClaimsExcept
  PROVE  IInv'
<1> DEFINE j == work["lb"]
           rest == Mine(j) \ {j.want}
           w == Write(j, "Allocated")
           p == [w EXCEPT !.want = j.want]
<1>1. /\ j.pc = "release" /\ UNCHANGED <<obj, seen, nics, pool, due, events>>
      /\ \/ \E a \in rest : claims' = [claims EXCEPT ![a] = Free] /\ freed' = Controller /\ UNCHANGED work
         \/ rest = {} /\ work' = [work EXCEPT !["lb"] = p] /\ UNCHANGED <<claims, freed>>
  BY Zenon DEF releaseClaimsExcept
<1>2. /\ j.key \in LB /\ ~j.grow /\ ~Current(j.obj) /\ j.want \in Addr /\ j.obj.pin \in {NoAddr, j.want}
      /\ obj[j.key] = j.obj => claims[j.want] = OwnerRef(j)
      /\ Current(obj[j.key]) => j.obj.uid = obj[j.key].uid /\ j.obj.pin = obj[j.key].pin
      /\ Current(obj[j.key]) => j.want = obj[j.key].ip
  BY <1>1, Zenon DEF IInv, LbOk
<1>3. /\ j \in Pass /\ Sound(j.obj) /\ GoodTable(j.table)
      /\ j.obj.live /\ NotNewer(j.obj, seen[j.key])
  BY <1>1, PassFacts, Zenon DEF Controller
<1>4. CASE \E a \in rest : claims' = [claims EXCEPT ![a] = Free] /\ freed' = Controller /\ UNCHANGED work
  <2>1. PICK a \in rest : claims' = [claims EXCEPT ![a] = Free] /\ freed' = Controller /\ UNCHANGED work
    BY <1>4, Zenon
  <2>2. a \in Addr /\ claims[a] = OwnerRef(j) /\ a # j.want
    BY Zenon DEF Mine
  <2>3. \A l \in LB : Current(obj[l]) => claims[a] # <<l, obj[l].uid>>
    <3> SUFFICES ASSUME NEW l \in LB, Current(obj[l]), claims[a] = <<l, obj[l].uid>> PROVE FALSE
      OBVIOUS
    <3>1. l = j.key
      BY <2>2 DEF OwnerRef
    <3>2. Mine(j) = {obj[j.key].ip} /\ j.want = obj[j.key].ip
      BY <1>1, <1>2, <3>1, LbCurrent, Zenon
    <3> QED
      BY <3>2, Zenon
  <2>4. claims[a] # <<GW, obj[GW].uid>>
    BY <1>2, <2>2, AddressPoolAssumption DEF OwnerRef, GW
  <2>5. freed' \in SUBSET Controller
    BY <2>1, Zenon
  <2> QED
    BY <1>1, <2>1, <2>2, <2>3, <2>4, <2>5, ClaimFreed, Zenon
<1>5. CASE rest = {} /\ work' = [work EXCEPT !["lb"] = p] /\ UNCHANGED <<claims, freed>>
  <2>1. "Allocated" \in State
    BY Zenon DEF State
  <2>2. Goes(w, j) /\ w.pc = "write" /\ w.state = "Allocated"
    BY <1>3, <2>1, WriteStep, Zenon
  <2> HIDE DEF w
  <2>3. /\ p \in Pass /\ p.key = j.key /\ p.obj = j.obj /\ p.table = j.table /\ ~p.grow
        /\ p.pc = "write" /\ p.want = j.want
    BY <1>2, <2>2, Zenon DEF Goes, GoesOn, Pass
  <2> HIDE DEF p
  <2>4. OwnerRef(p) = OwnerRef(j) /\ Mine(p) = Mine(j)
    BY <2>3, Zenon DEF OwnerRef, Mine
  <2>5. obj[j.key] = j.obj => Mine(j) = {j.want}
    BY <1>2, <1>5 DEF Mine
  <2>6. LbOk(p)
    BY <1>2, <2>3, <2>4, <2>5, Zenon DEF LbOk
  <2>7. /\ nics \in SUBSET Source /\ pool \in {"Ready", "Pending", "Invalid"}
        /\ due \in SUBSET Consumer /\ freed \in SUBSET Controller /\ events \in Nat
    BY DEF IInv, PoolTypeOK
  <2> QED
    BY <1>1, <1>3, <1>5, <2>3, <2>6, <2>7, LbStep, Zenon
<1> QED
  BY <1>1, <1>4, <1>5, Zenon

-----------------------------------------------------------------------------
(* Objects and copies change *)

\* A status write: the object keeps its spec, and the worker is done.
LEMMA StatusWritten ==
  ASSUME IInv, NEW k \in Controller, NEW c \in Consumer, NEW o \in Object,
         obj' = [obj EXCEPT ![c] = o], work' = [work EXCEPT ![k] = Idle],
         UNCHANGED <<claims, seen, nics, pool, due, freed, events>>,
         o.live = obj[c].live, o.uid = obj[c].uid, o.gen = obj[c].gen, o.pin = obj[c].pin,
         o.observed <= o.gen, GoodTable(o.table)
  PROVE  /\ \A d \in Consumer : obj'[d] = (IF d = c THEN o ELSE obj[d]) /\ Held(d)' = Held(d)
         /\ \A m \in Controller : work'[m] = IF m = k THEN Idle ELSE work[m]
         /\ PoolTypeOK' /\ VersionsInOrder' /\ ObservedIsPast' /\ AllSound'
<1>1. obj \in [Consumer -> Object] /\ work \in [Controller -> Pass]
  BY Zenon DEF IInv, PoolTypeOK
<1>2. \A d \in Consumer : obj'[d] = IF d = c THEN o ELSE obj[d]
  BY <1>1, Zenon
<1>3. \A m \in Controller : work'[m] = IF m = k THEN Idle ELSE work[m]
  BY <1>1, Zenon
<1>4. \A d \in Consumer : Held(d)' = Held(d)
  BY <1>2, Zenon DEF Held
<1>5. PoolTypeOK'
  <2>1. obj' \in [Consumer -> Object] /\ work' \in [Controller -> Pass]
    BY <1>1, IdleType, Zenon
  <2> QED
    BY <2>1, Zenon DEF IInv, PoolTypeOK
<1>6. VersionsInOrder'
  <2>1. NotNewer(seen[c], obj[c])
    BY Zenon DEF IInv, VersionsInOrder
  <2>2. NotNewer(seen[c], o)
    BY <2>1, Zenon DEF NotNewer
  <2>3. \A d \in Consumer : NotNewer(seen[d], obj'[d])
    BY <1>2, <2>2, Zenon DEF IInv, VersionsInOrder
  <2>4. \A m \in Controller : work'[m].pc # "idle" =>
          work'[m].obj.live /\ NotNewer(work'[m].obj, seen[work'[m].key])
    BY <1>3, IdleType DEF IInv, VersionsInOrder
  <2> QED
    BY <2>3, <2>4, Zenon DEF VersionsInOrder
<1>7. ObservedIsPast'
  BY <1>2, Zenon DEF IInv, ObservedIsPast
<1>8. AllSound'
  <2>1. Sound(o)
    BY Zenon DEF IInv, AllSound, Sound
  <2> QED
    BY <1>2, <1>3, <2>1, IdleType DEF IInv, AllSound
<1> QED
  BY <1>2, <1>3, <1>4, <1>5, <1>6, <1>7, <1>8

\* A load balancer's status: it is about the object the pass started from, which is the current
\* one, and so about the addresses it holds now.
LEMMA WriteLbStep ==
  ASSUME IInv, WriteLb
  PROVE  IInv'
<1> DEFINE j == work["lb"]
           o == [j.obj EXCEPT !.state = j.state, !.ip = j.want, !.observed = j.obj.gen]
<1>1. /\ j.pc = "write" /\ work' = [work EXCEPT !["lb"] = Idle]
      /\ UNCHANGED <<claims, seen, nics, pool, freed, events>>
      /\ \/ obj[j.key] = j.obj /\ obj' = [obj EXCEPT ![j.key] = o] /\ UNCHANGED due
         \/ due' = due \cup {j.key} /\ UNCHANGED obj
  BY Zenon DEF WriteLb
<1>2. /\ nics \in SUBSET Source /\ pool \in {"Ready", "Pending", "Invalid"}
      /\ due \in SUBSET Consumer /\ freed \in SUBSET Controller /\ events \in Nat
  BY Zenon DEF IInv, PoolTypeOK
<1>3. /\ j \in Pass /\ j.key \in Consumer /\ j.obj \in Object /\ GoodTable(j.obj.table)
      /\ j.obj.live /\ NotNewer(j.obj, seen[j.key])
  BY <1>1, PassFacts, Zenon DEF Controller
<1>4. CASE due' = due \cup {j.key} /\ UNCHANGED obj
  <2>1. due' \in SUBSET Consumer
    BY <1>2, <1>3, <1>4
  <2> QED
    BY <1>1, <1>2, <1>4, <2>1, IdleType, LbStep, Zenon
<1>5. CASE obj[j.key] = j.obj /\ obj' = [obj EXCEPT ![j.key] = o] /\ UNCHANGED due
  <2>1. /\ o \in Object /\ o.live = j.obj.live /\ o.uid = j.obj.uid /\ o.gen = j.obj.gen
        /\ o.pin = j.obj.pin /\ o.table = j.obj.table /\ o.observed = j.obj.gen
        /\ o.state = j.state /\ o.ip = j.want
    BY <1>3, Zenon DEF Object, Pass
  <2>2. j.obj.gen \in Nat /\ j.obj.uid \in Nat
    BY <1>3, Zenon DEF Object
  <2> HIDE DEF o
  <2>3. o.observed <= o.gen
    BY <2>1, <2>2
  <2>4. /\ \A d \in Consumer : obj'[d] = (IF d = j.key THEN o ELSE obj[d]) /\ Held(d)' = Held(d)
        /\ \A m \in Controller : work'[m] = IF m = "lb" THEN Idle ELSE work[m]
        /\ PoolTypeOK' /\ VersionsInOrder' /\ ObservedIsPast' /\ AllSound'
    <3>1. "lb" \in Controller
      BY Zenon DEF Controller
    <3> QED
      BY <1>1, <1>3, <1>5, <2>1, <2>3, <3>1, StatusWritten, Zenon
  <2>5. work'["lb"] = Idle /\ work'["gw"] = work["gw"]
    BY <2>4, Zenon DEF Controller
  <2>6. j.key \in LB /\ GW # j.key /\ GW \in Consumer /\ LB \subseteq Consumer
    BY <1>1, AddressPoolAssumption DEF IInv, LbOk, GW, Consumer
  <2>7. Settled'
    <3> SUFFICES ASSUME NEW l \in LB, Current(obj[l])'
                 PROVE  /\ Held(l)' = {obj'[l].ip} /\ obj'[l].pin \in {NoAddr, obj'[l].ip}
                        /\ seen[l].uid = obj'[l].uid /\ seen[l].gen = obj'[l].gen
      BY <1>1, Zenon DEF Settled
    <3>1. CASE l # j.key
      <4>1. obj'[l] = obj[l] /\ Held(l)' = Held(l)
        BY <2>4, <2>6, <3>1, Zenon
      <4>2. Current(obj[l])
        BY <4>1, Zenon DEF Current
      <4> QED
        BY <4>1, <4>2, Zenon DEF IInv, Settled
    <3>2. CASE l = j.key
      <4>1. obj'[l] = o /\ Held(l)' = Held(l)
        BY <2>4, <2>6, <3>2, Zenon
      <4>2. j.state = "Allocated"
        BY <2>1, <4>1 DEF Current
      <4>3. Mine(j) = {j.want} /\ j.obj.pin \in {NoAddr, j.want}
        BY <1>1, <1>5, <4>2 DEF IInv, LbOk
      <4>4. Held(l) = Mine(j)
        BY <1>5, <3>2 DEF Held, Mine, OwnerRef
      <4>5. seen[l].uid = j.obj.uid /\ seen[l].gen = j.obj.gen
        <5>1. NotNewer(seen[l], j.obj) /\ NotNewer(j.obj, seen[l])
          BY <1>3, <1>5, <2>6, <3>2, Zenon DEF IInv, VersionsInOrder
        <5>2. seen[l].uid \in Nat /\ seen[l].gen \in Nat
          BY <2>6, Zenon DEF IInv, PoolTypeOK, Object
        <5> QED
          BY <1>3, <2>2, <5>1, <5>2 DEF NotNewer
      <4> QED
        BY <2>1, <4>1, <4>3, <4>4, <4>5
    <3> QED
      BY <3>1, <3>2, Zenon
  <2>8. GwHolds'
    BY <2>4, <2>6, Zenon DEF IInv, GwHolds
  <2>9. LbOk(work["lb"])'
    BY <2>5, IdleType DEF LbOk
  <2>10. GwOk(work["gw"])'
    <3>1. Mine(work["gw"])' = Mine(work["gw"]) /\ SameGw(work["gw"])' = SameGw(work["gw"])
      BY <1>1, <2>4, <2>5, <2>6 DEF Mine, OwnerRef, SameGw
    <3> QED
      BY <2>5, <3>1, Zenon DEF IInv, GwOk
  <2>11. ClaimsArePast'
    BY <1>1, <2>5, Zenon DEF IInv, ClaimsArePast, ClaimedBy
  <2> QED
    BY <2>4, <2>7, <2>8, <2>9, <2>10, <2>11, Zenon DEF IInv
<1> QED
  BY <1>1, <1>4, <1>5, Zenon

\* The gateway's status, over whatever object has the name.
LEMMA WriteGwStep ==
  ASSUME IInv, WriteGw
  PROVE  IInv'
<1> DEFINE j == work["gw"]
           cur == obj[GW]
           t == IF j.keep THEN cur.table ELSE j.table
           o == [cur EXCEPT !.state = j.state, !.table = t]
<1>1. /\ j.pc = "write" /\ work' = [work EXCEPT !["gw"] = Idle]
      /\ UNCHANGED <<claims, seen, nics, pool, freed, events>>
      /\ \/ cur.live /\ obj' = [obj EXCEPT ![GW] = o] /\ UNCHANGED due
         \/ due' = due \cup {GW} /\ UNCHANGED obj
  BY Zenon DEF WriteGw
<1>2. /\ nics \in SUBSET Source /\ pool \in {"Ready", "Pending", "Invalid"}
      /\ due \in SUBSET Consumer /\ freed \in SUBSET Controller /\ events \in Nat
  BY Zenon DEF IInv, PoolTypeOK
<1>3. /\ j \in Pass /\ j.key = GW /\ j.obj \in Object /\ GoodTable(j.table) /\ Sound(j.obj)
      /\ j.obj.live /\ NotNewer(j.obj, seen[j.key])
  BY <1>1, PassFacts, Zenon DEF Controller, IInv, GwOk
<1>4. GW \in Consumer /\ cur \in Object /\ seen[GW] \in Object /\ GoodTable(cur.table) /\ GW \notin LB
  BY AddressPoolAssumption DEF IInv, PoolTypeOK, AllSound, Sound, Consumer, GW
<1>5. CASE due' = due \cup {GW} /\ UNCHANGED obj
  <2>1. due' \in SUBSET Consumer
    BY <1>2, <1>4, <1>5
  <2> QED
    BY <1>1, <1>2, <1>5, <2>1, IdleType, GwStep, Zenon
<1>6. CASE cur.live /\ obj' = [obj EXCEPT ![GW] = o] /\ UNCHANGED due
  <2>1. t \in Table /\ GoodTable(t)
    BY <1>3, <1>4 DEF Object, Pass
  <2> HIDE DEF t
  <2>2. /\ o \in Object /\ o.live = cur.live /\ o.uid = cur.uid /\ o.gen = cur.gen
        /\ o.pin = cur.pin /\ o.table = t /\ o.observed = cur.observed
    BY <1>3, <1>4, <2>1, Zenon DEF Object, Pass
  <2> HIDE DEF o
  <2>3. o.observed <= o.gen
    BY <1>4, <2>2 DEF IInv, ObservedIsPast
  <2>4. /\ \A d \in Consumer : obj'[d] = (IF d = GW THEN o ELSE obj[d]) /\ Held(d)' = Held(d)
        /\ \A m \in Controller : work'[m] = IF m = "gw" THEN Idle ELSE work[m]
        /\ PoolTypeOK' /\ VersionsInOrder' /\ ObservedIsPast' /\ AllSound'
    <3>1. "gw" \in Controller
      BY Zenon DEF Controller
    <3> QED
      BY <1>1, <1>4, <1>6, <2>1, <2>2, <2>3, <3>1, StatusWritten, Zenon
  <2>5. work'["gw"] = Idle /\ work'["lb"] = work["lb"]
    BY <2>4, Zenon DEF Controller
  <2>6. \A l \in LB : obj'[l] = obj[l] /\ Held(l)' = Held(l)
    BY <1>4, <2>4, Zenon DEF Consumer
  <2>7. Settled'
    BY <1>1, <2>6 DEF IInv, Settled, Current
  <2>8. GwHolds'
    <3> SUFFICES ASSUME cur.uid = 1
                 PROVE  On(t, Held(GW))
      BY <1>4, <2>2, <2>4, Zenon DEF GwHolds
    <3>1. CASE j.keep
      BY <1>6, <3>1 DEF IInv, GwHolds, t
    <3>2. CASE ~j.keep
      <4>1. j.obj.uid = 1
        <5>1. j.obj.uid >= 1
          BY <1>3, Zenon DEF Sound
        <5>2. NotNewer(seen[GW], cur)
          BY <1>4, Zenon DEF IInv, VersionsInOrder
        <5>3. NotNewer(j.obj, cur)
          BY <1>3, <1>4, <5>2, NotNewerChain
        <5>4. j.obj.uid \in Nat /\ j.obj.uid <= cur.uid
          BY <1>3, <1>4, <5>3, UidsInOrder, Zenon
        <5> QED
          BY <5>1, <5>4
      <4>2. SameGw(j) /\ Mine(j) = Held(GW)
        BY <1>3, <1>6, <4>1 DEF SameGw, Mine, Held, OwnerRef
      <4> QED
        BY <1>1, <3>2, <4>2, Zenon DEF IInv, GwOk, t
    <3> QED
      BY <3>1, <3>2, Zenon
  <2>9. LbOk(work["lb"])'
    <3>1. CASE work["lb"].pc = "idle"
      BY <2>5, <3>1 DEF LbOk
    <3>2. CASE work["lb"].pc # "idle"
      <4>1. work["lb"].key \in LB
        BY <3>2 DEF IInv, LbOk
      <4>2. obj'[work["lb"].key] = obj[work["lb"].key]
        BY <2>6, <4>1, Zenon
      <4>3. /\ Mine(work["lb"])' = Mine(work["lb"]) /\ OwnerRef(work["lb"])' = OwnerRef(work["lb"])
            /\ Current(obj[work["lb"].key])' = Current(obj[work["lb"].key])
        BY <1>1, <2>5, <4>2 DEF Mine, OwnerRef, Current
      <4> QED
        BY <1>1, <2>5, <4>2, <4>3 DEF IInv, LbOk
    <3> QED
      BY <3>1, <3>2, Zenon
  <2>10. GwOk(work["gw"])'
    BY <2>5, IdleType, Zenon DEF GwOk
  <2>11. ClaimsArePast'
    BY <1>1, <2>5, IdleType DEF IInv, ClaimsArePast, ClaimedBy
  <2> QED
    BY <2>4, <2>7, <2>8, <2>9, <2>10, <2>11 DEF IInv
<1> QED
  BY <1>1, <1>5, <1>6, Zenon

\* What a user makes of an object no pass under way has for its copy.
LEMMA Edited ==
  ASSUME IInv, NEW c \in Consumer, NEW o \in Object, Edit(c, o),
         NotNewer(obj[c], o), ~Current(o), o.observed <= o.gen, Sound(o),
         \A x \in Object : x.live /\ NotNewer(x, obj[c]) => x # o,
         o.live => \/ obj[c].live /\ o.uid = obj[c].uid /\ o.table = obj[c].table
                   \/ o.uid = obj[c].uid + 1 /\ o.table = NoTable
  PROVE  IInv'
<1>1. /\ obj' = [obj EXCEPT ![c] = o] /\ events' = events + 1
      /\ UNCHANGED <<claims, seen, nics, pool, due, freed, work>>
  BY Zenon DEF Edit
<1>2. obj \in [Consumer -> Object] /\ seen \in [Consumer -> Object] /\ events \in Nat
  BY Zenon DEF IInv, PoolTypeOK
<1>3. \A d \in Consumer : obj'[d] = IF d = c THEN o ELSE obj[d]
  BY <1>1, <1>2, Zenon
<1>4. \A d \in Consumer : NotNewer(seen[d], obj[d])
  BY Zenon DEF IInv, VersionsInOrder
<1>5. PoolTypeOK'
  <2>1. obj' \in [Consumer -> Object] /\ events' \in Nat
    BY <1>1, <1>2
  <2> QED
    BY <1>1, <2>1, Zenon DEF IInv, PoolTypeOK
<1>6. VersionsInOrder'
  <2>1. seen[c] \in Object /\ obj[c] \in Object /\ NotNewer(seen[c], obj[c])
    BY <1>2, <1>4, Zenon
  <2>2. NotNewer(seen[c], o)
    BY <2>1, NotNewerChain, Zenon
  <2> QED
    BY <1>1, <1>3, <2>2, Zenon DEF IInv, VersionsInOrder
<1>7. ObservedIsPast' /\ AllSound'
  BY <1>1, <1>3, Zenon DEF IInv, ObservedIsPast, AllSound
<1>8. \A d \in Consumer : d # c => Held(d)' = Held(d)
  BY <1>1, <1>3, Zenon DEF Held
<1>9. Current(obj[c])' = FALSE
  BY <1>3, Zenon DEF Current
<1>10. Settled'
  <2> SUFFICES ASSUME NEW l \in LB, Current(obj[l])'
               PROVE  Current(obj[l]) /\ obj'[l] = obj[l] /\ Held(l)' = Held(l)
    BY <1>1, Zenon DEF IInv, Settled
  <2>1. l # c /\ l \in Consumer
    BY <1>9, Zenon DEF Consumer
  <2>2. obj'[l] = obj[l] /\ Held(l)' = Held(l)
    BY <1>3, <1>8, <2>1, Zenon
  <2> QED
    BY <2>2, Zenon DEF Current
<1>11. GwHolds'
  <2>1. GW \in Consumer
    BY Zenon DEF Consumer
  <2>2. CASE c # GW
    BY <1>3, <1>8, <2>1, <2>2, Zenon DEF IInv, GwHolds
  <2>3. CASE c = GW
    <3>1. obj'[GW] = o
      BY <1>3, <2>1, <2>3, Zenon
    <3>2. CASE o.table = NoTable
      BY <3>1, <3>2, NoTableIsGood DEF GwHolds
    <3>3. CASE obj[GW].live /\ o.uid = obj[GW].uid /\ o.table = obj[GW].table
      <4>1. Held(GW)' = Held(GW)
        BY <1>1, <3>1, <3>3, Zenon DEF Held
      <4> QED
        BY <3>1, <3>3, <4>1, Zenon DEF IInv, GwHolds
    <3>4. CASE ~o.live
      BY <3>1, <3>4, Zenon DEF GwHolds
    <3> QED
      BY <2>3, <3>2, <3>3, <3>4
  <2> QED
    BY <2>2, <2>3, Zenon
<1>12. \A k \in Controller : work[k].pc # "idle" =>
         work[k].obj \in Object /\ work[k].obj.live /\ NotNewer(work[k].obj, obj[work[k].key])
  <2> SUFFICES ASSUME NEW k \in Controller, work[k].pc # "idle"
               PROVE  work[k].obj \in Object /\ work[k].obj.live /\ NotNewer(work[k].obj, obj[work[k].key])
    OBVIOUS
  <2>1. /\ work[k].obj \in Object /\ work[k].obj.live /\ work[k].key \in Consumer
        /\ NotNewer(work[k].obj, seen[work[k].key])
    BY PassFacts, Zenon
  <2>2. /\ seen[work[k].key] \in Object /\ obj[work[k].key] \in Object
        /\ NotNewer(seen[work[k].key], obj[work[k].key])
    BY <1>2, <1>4, <2>1, Zenon
  <2> QED
    BY <2>1, <2>2, NotNewerChain, Zenon
<1>13. LbOk(work["lb"])'
  <2> DEFINE j == work["lb"]
  <2>1. CASE j.pc = "idle"
    BY <1>1, <2>1, Zenon DEF LbOk
  <2>2. CASE j.pc # "idle"
    <3>1. LbOk(j) /\ j.key \in Consumer
      BY PassFacts, Zenon DEF IInv, Controller
    <3>2. Mine(work["lb"])' = Mine(j) /\ OwnerRef(work["lb"])' = OwnerRef(j)
      BY <1>1 DEF Mine, OwnerRef
    <3>3. CASE j.key # c
      <4>1. obj'[j.key] = obj[j.key]
        BY <1>3, <3>1, <3>3
      <4>2. Current(obj[work["lb"].key])' = Current(obj[j.key])
        BY <1>1, <4>1, Zenon DEF Current
      <4> QED
        BY <1>1, <3>1, <3>2, <4>1, <4>2 DEF LbOk
    <3>4. CASE j.key = c
      <4>1. obj'[j.key] = o
        BY <1>3, <3>4, Zenon
      <4>2. o # j.obj
        BY <1>12, <2>2, <3>4, Zenon DEF Controller
      <4>3. Current(obj[work["lb"].key])' = FALSE
        BY <1>1, <4>1, Zenon DEF Current
      <4> QED
        BY <1>1, <2>2, <3>1, <4>1, <4>2, <4>3 DEF LbOk
    <3> QED
      BY <3>3, <3>4, Zenon
  <2> QED
    BY <2>1, <2>2
<1>14. GwOk(work["gw"])'
  <2> DEFINE j == work["gw"]
  <2>1. CASE j.pc = "idle"
    BY <1>1, <2>1, Zenon DEF GwOk
  <2>2. CASE j.pc # "idle"
    <3>1. GwOk(j) /\ j.key = GW /\ GW \in Consumer
      BY <2>2, Zenon DEF IInv, GwOk, Consumer
    <3>2. Mine(work["gw"])' = Mine(j)
      BY <1>1, Zenon DEF Mine, OwnerRef
    <3>3. SameGw(work["gw"])' => SameGw(j)
      <4>1. CASE c # GW
        BY <1>1, <1>3, <3>1, <4>1 DEF SameGw
      <4>2. CASE c = GW
        <5>1. SameGw(work["gw"])' => o.live /\ o.uid = j.obj.uid
          BY <1>1, <1>3, <3>1, <4>2 DEF SameGw
        <5>2. j.obj.uid <= obj[GW].uid /\ j.obj.uid \in Nat /\ obj[GW].uid \in Nat
          <6>1. NotNewer(j.obj, obj[GW]) /\ j.obj \in Object /\ obj[GW] \in Object
            BY <1>2, <1>12, <2>2, <3>1 DEF Controller
          <6> QED
            BY <6>1, UidsInOrder, Zenon
        <5>3. j.obj.uid # obj[GW].uid + 1
          BY <5>2
        <5> QED
          BY <4>2, <5>1, <5>3, Zenon DEF SameGw
      <4> QED
        BY <4>1, <4>2, Zenon
    <3> QED
      BY <1>1, <2>2, <3>1, <3>2, <3>3 DEF GwOk
  <2> QED
    BY <2>1, <2>2, Zenon
<1>15. ClaimsArePast'
  BY <1>1, Zenon DEF IInv, ClaimsArePast, ClaimedBy
<1> QED
  BY <1>5, <1>6, <1>7, <1>10, <1>11, <1>13, <1>14, <1>15 DEF IInv

\* Whatever users do is a later version.
LEMMA UserStep ==
  ASSUME IInv, NEW c \in Consumer, User(c)
  PROVE  IInv'
<1> DEFINE o == obj[c]
<1>1. o \in Object /\ Sound(o) /\ o.observed <= o.gen
  BY Zenon DEF IInv, PoolTypeOK, AllSound, ObservedIsPast
<1>2. o.uid \in Nat /\ o.gen \in Nat /\ o.observed \in Nat
  BY <1>1, Zenon DEF Object
<1>3. \A x \in Object : x.uid \in Nat /\ x.gen \in Nat
  BY Zenon DEF Object
<1>4. CASE ~o.live /\ Edit(c, NewObject(o.uid + 1))
  <2> DEFINE n == NewObject(o.uid + 1)
  <2>1. o.uid + 1 \in Nat /\ o.uid < o.uid + 1 /\ o.uid + 1 >= 1 /\ 0 <= 1
    BY <1>2
  <2>2. /\ n \in Object /\ n.uid = o.uid + 1 /\ n.live /\ n.state = "" /\ n.observed = 0 /\ n.gen = 1
        /\ n.table = NoTable
    BY <2>1, NewObjectType, Zenon
  <2> HIDE DEF n
  <2>3. NotNewer(o, n)
    BY <2>1, <2>2, Zenon DEF NotNewer
  <2>4. ~Current(n) /\ n.observed <= n.gen /\ Sound(n)
    BY <2>1, <2>2, NoTableIsGood, Zenon DEF Current, Sound
  <2>5. \A x \in Object : x.live /\ NotNewer(x, o) => x # n
    <3> SUFFICES ASSUME NEW x \in Object, NotNewer(x, o) PROVE x.uid # n.uid
      OBVIOUS
    <3>1. x.uid \in Nat /\ x.uid <= o.uid
      BY <1>2, <1>3 DEF NotNewer
    <3>2. n.uid = o.uid + 1
      BY <2>2, Zenon
    <3> QED
      BY <1>2, <3>1, <3>2
  <2> QED
    BY <1>4, <2>2, <2>3, <2>4, <2>5, Edited, Zenon DEF n
<1>5. CASE o.live /\ Edit(c, NoObject(o.uid))
  <2> DEFINE n == NoObject(o.uid)
  <2>1. /\ n \in Object /\ n.uid = o.uid /\ ~n.live /\ n.observed = 0 /\ n.gen = 1 /\ n.table = NoTable
    BY <1>2, NewObjectType, Zenon
  <2> HIDE DEF n
  <2>2. NotNewer(o, n)
    BY <2>1, Zenon DEF NotNewer
  <2>3. 0 <= 1
    OBVIOUS
  <2>4. ~Current(n) /\ n.observed <= n.gen /\ Sound(n)
    BY <2>1, <2>3, NoTableIsGood, Zenon DEF Current, Sound
  <2> QED
    BY <1>5, <2>1, <2>2, <2>4, Edited DEF n
<1>6. ASSUME NEW n \in Object, o.live, Edit(c, n), n.live, n.uid = o.uid, n.gen = o.gen + 1,
             n.observed = o.observed, n.table = o.table
      PROVE  IInv'
  <2>1. o.gen < n.gen /\ n.observed <= n.gen /\ n.observed # n.gen
    BY <1>1, <1>2, <1>6
  <2>2. NotNewer(o, n)
    BY <1>6, <2>1, Zenon DEF NotNewer
  <2>3. ~Current(n)
    BY <2>1, Zenon DEF Current
  <2>4. Sound(n)
    BY <1>1, <1>6, Zenon DEF Sound
  <2>5. \A x \in Object : x.live /\ NotNewer(x, o) => x # n
    BY <1>2, <1>3, <1>6 DEF NotNewer
  <2> QED
    BY <1>6, <2>1, <2>2, <2>3, <2>4, <2>5, Edited
<1>7. ASSUME NEW p \in Pins, o.live, Edit(c, [o EXCEPT !.pin = p, !.gen = @ + 1]) PROVE IInv'
  <2> DEFINE n == [o EXCEPT !.pin = p, !.gen = @ + 1]
  <2>1. /\ n \in Object /\ n.live /\ n.uid = o.uid /\ n.gen = o.gen + 1 /\ n.observed = o.observed
        /\ n.table = o.table
    <3>1. o.gen + 1 \in Nat
      BY <1>2
    <3> HIDE DEF o
    <3> QED
      BY <1>1, <1>7, <3>1, Zenon DEF Object
  <2> HIDE DEF n
  <2> QED
    BY <1>6, <1>7, <2>1, Zenon DEF n
<1>8. ASSUME NEW z \in Sizes, o.live, Edit(c, [o EXCEPT !.size = z, !.gen = @ + 1]) PROVE IInv'
  <2> DEFINE n == [o EXCEPT !.size = z, !.gen = @ + 1]
  <2>1. /\ n \in Object /\ n.live /\ n.uid = o.uid /\ n.gen = o.gen + 1 /\ n.observed = o.observed
        /\ n.table = o.table
    <3>1. o.gen + 1 \in Nat
      BY <1>2
    <3> HIDE DEF o
    <3> QED
      BY <1>1, <1>8, <3>1, Zenon DEF Object
  <2> HIDE DEF n
  <2> QED
    BY <1>6, <1>8, <2>1, Zenon DEF n
<1> QED
  BY <1>4, <1>5, <1>7, <1>8, Zenon DEF User

\* An informer catches up.
LEMMA DeliverStep ==
  ASSUME IInv, NEW c \in Consumer, Deliver(c)
  PROVE  IInv'
<1>1. /\ seen' = [seen EXCEPT ![c] = obj[c]] /\ due' = due \cup {c}
      /\ UNCHANGED <<claims, obj, nics, pool, freed, work, events>>
  BY Zenon DEF Deliver
<1>2. obj \in [Consumer -> Object] /\ seen \in [Consumer -> Object] /\ due \in SUBSET Consumer
  BY Zenon DEF IInv, PoolTypeOK
<1>3. \A d \in Consumer : seen'[d] = IF d = c THEN obj[d] ELSE seen[d]
  BY <1>1, <1>2, Zenon
<1>4. \A d \in Consumer : /\ seen[d] \in Object /\ obj[d] \in Object
                          /\ NotNewer(seen[d], obj[d]) /\ NotNewer(obj[d], obj[d])
  BY <1>2, NotNewerSelf DEF IInv, VersionsInOrder
<1>5. PoolTypeOK'
  <2>1. seen' \in [Consumer -> Object] /\ due' \in SUBSET Consumer
    BY <1>1, <1>2
  <2> QED
    BY <1>1, <2>1, Zenon DEF IInv, PoolTypeOK
<1>6. VersionsInOrder'
  <2>1. \A d \in Consumer : NotNewer(seen'[d], obj[d])
    BY <1>3, <1>4
  <2>2. ASSUME NEW k \in Controller, work[k].pc # "idle"
        PROVE  work[k].obj.live /\ NotNewer(work[k].obj, seen'[work[k].key])
    <3>1. /\ work[k].obj \in Object /\ work[k].obj.live /\ work[k].key \in Consumer
          /\ NotNewer(work[k].obj, seen[work[k].key])
      BY <2>2, PassFacts
    <3>2. NotNewer(work[k].obj, obj[work[k].key])
      BY <1>4, <3>1, NotNewerChain, Zenon
    <3> QED
      BY <1>3, <3>1, <3>2, Zenon
  <2> QED
    BY <1>1, <2>1, <2>2, Zenon DEF VersionsInOrder
<1>7. ObservedIsPast' /\ AllSound'
  BY <1>1, <1>3 DEF IInv, ObservedIsPast, AllSound
<1>8. \A d \in Consumer : Held(d)' = Held(d)
  BY <1>1, Zenon DEF Held
<1>9. GW \in Consumer /\ LB \subseteq Consumer
  BY DEF Consumer
<1>10. Settled' /\ GwHolds'
  BY <1>1, <1>3, <1>8, <1>9 DEF IInv, Settled, GwHolds
<1>11. LbOk(work["lb"])'
  <2>1. Mine(work["lb"])' = Mine(work["lb"]) /\ OwnerRef(work["lb"])' = OwnerRef(work["lb"])
    BY <1>1, Zenon DEF Mine, OwnerRef
  <2> QED
    BY <1>1, <2>1, Zenon DEF IInv, LbOk
<1>12. GwOk(work["gw"])'
  <2>1. Mine(work["gw"])' = Mine(work["gw"]) /\ SameGw(work["gw"])' = SameGw(work["gw"])
    BY <1>1, Zenon DEF Mine, OwnerRef, SameGw
  <2> QED
    BY <1>1, <2>1, Zenon DEF IInv, GwOk
<1>13. ClaimsArePast'
  <2>1. ClaimedBy(seen[GW].uid) /\ (work["gw"].pc # "idle" => ClaimedBy(work["gw"].obj.uid))
    BY Zenon DEF IInv, ClaimsArePast
  <2>2. seen[GW].uid \in Nat /\ obj[GW].uid \in Nat /\ seen[GW].uid <= obj[GW].uid
    BY <1>4, <1>9, UidsInOrder, Zenon
  <2>3. PoolTypeOK
    BY Zenon DEF IInv
  <2>4. ClaimedBy(obj[GW].uid)
    BY <2>1, <2>2, <2>3, ClaimedLater, Zenon
  <2>5. ClaimedBy(seen'[GW].uid)
    BY <1>3, <1>9, <2>1, <2>4
  <2> QED
    BY <1>1, <2>1, <2>5, Zenon DEF ClaimsArePast, ClaimedBy
<1> QED
  BY <1>5, <1>6, <1>7, <1>10, <1>11, <1>12, <1>13 DEF IInv

\* A restart forgets what was under way and reads everything again.
LEMMA RestartStep ==
  ASSUME IInv, PoolRestart
  PROVE  IInv'
<1>1. /\ work' = [k \in Controller |-> Idle] /\ seen' = obj /\ due' = {c \in Consumer : obj[c].live}
      /\ freed' = {} /\ events' = events + 1 /\ UNCHANGED <<claims, obj, nics, pool>>
  BY Zenon DEF PoolRestart
<1>2. obj \in [Consumer -> Object] /\ seen \in [Consumer -> Object] /\ events \in Nat
  BY Zenon DEF IInv, PoolTypeOK
<1>3. \A k \in Controller : work'[k] = Idle
  BY <1>1, Zenon
<1>4. work'["lb"] = Idle /\ work'["gw"] = Idle
  BY <1>3, Zenon DEF Controller
<1>5. PoolTypeOK'
  <2>1. work' \in [Controller -> Pass] /\ events' \in Nat
    BY <1>1, <1>2, IdleType
  <2>2. due' \in SUBSET Consumer /\ freed' \in SUBSET Controller
    BY <1>1, Zenon
  <2> QED
    BY <1>1, <2>1, <2>2 DEF IInv, PoolTypeOK
<1>6. VersionsInOrder'
  <2>1. \A c \in Consumer : NotNewer(obj[c], obj[c])
    BY <1>2, NotNewerSelf, Zenon
  <2> QED
    BY <1>1, <1>3, <2>1, IdleType DEF VersionsInOrder
<1>7. ObservedIsPast'
  BY <1>1, Zenon DEF IInv, ObservedIsPast
<1>8. AllSound'
  BY <1>1, <1>3, IdleType, Zenon DEF IInv, AllSound
<1>9. \A d \in Consumer : Held(d)' = Held(d)
  BY <1>1, Zenon DEF Held
<1>10. GW \in Consumer /\ LB \subseteq Consumer
  BY Zenon DEF Consumer
<1>11. Settled' /\ GwHolds'
  BY <1>1, <1>9, <1>10, Zenon DEF IInv, Settled, GwHolds
<1>12. LbOk(work["lb"])' /\ GwOk(work["gw"])'
  BY <1>4, IdleType, Zenon DEF LbOk, GwOk
<1>13. ClaimsArePast'
  <2>1. ClaimedBy(seen[GW].uid)
    BY Zenon DEF IInv, ClaimsArePast
  <2>2. seen[GW].uid \in Nat /\ obj[GW].uid \in Nat /\ seen[GW].uid <= obj[GW].uid
    <3>1. obj[GW] \in Object /\ seen[GW] \in Object
      BY <1>10, Zenon DEF IInv, PoolTypeOK
    <3>2. NotNewer(seen[GW], obj[GW])
      BY <1>10, Zenon DEF IInv, VersionsInOrder
    <3> QED
      BY <3>1, <3>2, UidsInOrder, Zenon
  <2>3. PoolTypeOK
    BY Zenon DEF IInv
  <2>4. ClaimedBy(obj[GW].uid)
    BY <2>1, <2>2, <2>3, ClaimedLater
  <2> QED
    BY <1>1, <1>4, <2>4, IdleType, Zenon DEF ClaimsArePast, ClaimedBy
<1> QED
  BY <1>5, <1>6, <1>7, <1>8, <1>11, <1>12, <1>13 DEF IInv

-----------------------------------------------------------------------------
(* The theorems *)

\* Every step of the specification keeps the invariant.
LEMMA NextOk == IInv /\ [PoolNext]_poolVars => IInv'
<1> SUFFICES ASSUME IInv, [PoolNext]_poolVars PROVE IInv'
  OBVIOUS
<1>1. /\ nics \in SUBSET Source /\ pool \in {"Ready", "Pending", "Invalid"}
      /\ due \in SUBSET Consumer /\ freed \in SUBSET Controller /\ events \in Nat
  BY Zenon DEF IInv, PoolTypeOK
<1>2. ASSUME NEW k \in Controller, Worker(k) PROVE IInv'
  <2>1. k = "lb" \/ k = "gw"
    BY Zenon DEF Controller
  <2> QED
    BY <1>2, <2>1, ListLb, ListGw, WhoLb, WhoGw, CreateStep DEF Worker
<1>3. ASSUME NEW k \in Controller, FreedAddress(k) PROVE IInv'
  <2>1. /\ freed' = freed \ {k} /\ due' = due \cup Parked(k)
        /\ UNCHANGED <<claims, obj, seen, nics, pool, work, events>>
    BY <1>3, Zenon DEF FreedAddress
  <2>2. freed' \in SUBSET Controller /\ due' \in SUBSET Consumer
    BY <1>1, <2>1 DEF Parked
  <2> QED
    BY <1>1, <2>1, <2>2, QuietStep, Zenon
<1>4. ASSUME NEW s \in Source, Nic(s) PROVE IInv'
  <2>1. /\ nics' = (IF s \in nics THEN nics \ {s} ELSE nics \cup {s}) /\ events' = events + 1
        /\ due' = due \cup {c \in {GW} : seen[c].live}
        /\ UNCHANGED <<claims, obj, seen, pool, freed, work>>
    BY <1>4, Zenon DEF Nic
  <2>2. nics' \in SUBSET Source /\ due' \in SUBSET Consumer
    BY <1>1, <2>1, Zenon DEF Consumer
  <2>3. events' \in Nat
    BY <1>1, <2>1
  <2> QED
    BY <1>1, <2>1, <2>2, <2>3, QuietStep, Zenon
<1>5. ASSUME NEW p \in {"Ready", "Pending", "Invalid"}, Pool(p) PROVE IInv'
  <2>1. /\ pool' = p /\ events' = events + 1 /\ due' = due \cup {c \in Consumer : seen[c].live}
        /\ UNCHANGED <<claims, obj, seen, nics, freed, work>>
    BY <1>5, Zenon DEF Pool
  <2>2. due' \in SUBSET Consumer
    BY <1>1, <2>1, Zenon
  <2>3. events' \in Nat
    BY <1>1, <2>1
  <2> QED
    BY <1>1, <2>1, <2>2, <2>3, QuietStep, Zenon
<1>6. CASE UNCHANGED poolVars
  <2>1. UNCHANGED <<claims, obj, seen, nics, pool, due, freed, work, events>>
    BY <1>6, Zenon DEF poolVars
  <2> QED
    BY <1>1, <2>1, QuietStep, Zenon
<1> QED
  BY <1>2, <1>3, <1>4, <1>5, <1>6, FailStep, TakeLbStep, ReleaseStep, WriteLbStep, TakeGwStep,
     LayStep, WriteGwStep, DeliverStep, UserStep, CollectStep, RestartStep DEF PoolNext

\* The invariant holds throughout.
LEMMA IInvHolds == PoolSpec => []IInv
BY InitOk, NextOk, PTL DEF PoolSpec

\* The controllers' state keeps its shape.
THEOREM TypeCorrect == PoolSpec => []PoolTypeOK
<1>1. IInv => PoolTypeOK
  BY Zenon DEF IInv
<1> QED
  BY <1>1, IInvHolds, PTL

\* What a consumer publishes it holds.
THEOREM PublishedIsHeldHolds == PoolSpec => []PublishedIsHeld
<1>1. ASSUME IInv PROVE PublishedIsHeld
  <2>1. ASSUME NEW l \in LB, obj[l].live /\ obj[l].state = "Allocated" /\ obj[l].observed = obj[l].gen
        PROVE  Held(l) = {obj[l].ip} /\ obj[l].pin \in {NoAddr, obj[l].ip}
    BY <1>1, <2>1 DEF IInv, Settled, Current
  <2>2. ASSUME obj[GW].live, obj[GW].uid = 1, NEW s \in Source, obj[GW].table[s] # NoBlock
        PROVE  obj[GW].table[s].at \div Ports \in Held(GW)
    <3> DEFINE b == obj[GW].table[s]
    <3>1. b.at \in Starts(Held(GW), b.size)
      BY <1>1, <2>2 DEF IInv, GwHolds, On
    <3>2. b.size \in Nat \ {0}
      BY <1>1, <2>2, Zenon DEF IInv, AllSound, Sound, GoodTable, Consumer
    <3>3. Held(GW) \in SUBSET Addr
      BY DEF Held
    <3> QED
      BY <3>1, <3>2, <3>3, BlockIsOn
  <2> QED
    BY <2>1, <2>2, Zenon DEF PublishedIsHeld
<1> QED
  BY <1>1, IInvHolds, PTL

\* No two sources share a port, in whatever table the gateway publishes.
THEOREM DisjointBlocksHolds == PoolSpec => []DisjointBlocks
<1>1. ASSUME IInv PROVE DisjointBlocks
  <2> SUFFICES ASSUME NEW s \in Source, NEW t \in Source, s # t,
                      obj[GW].table[s] # NoBlock, obj[GW].table[t] # NoBlock
               PROVE  LET b == obj[GW].table[s]
                          c == obj[GW].table[t]
                      IN  b.at + b.size <= c.at \/ c.at + c.size <= b.at
    BY Zenon DEF DisjointBlocks
  <2> DEFINE b == obj[GW].table[s]
             c == obj[GW].table[t]
  <2>1. GoodTable(obj[GW].table)
    BY <1>1, Zenon DEF IInv, AllSound, Sound, Consumer
  <2>2. /\ b.size \in Nat \ {0} /\ b.at \in Starts(Addr, b.size) /\ c.at \in Starts(Addr, b.size)
        /\ b.at # c.at /\ b.size = c.size
    BY <2>1, Zenon DEF GoodTable
  <2>3. b.at + b.size <= c.at \/ c.at + b.size <= b.at
    <3> DEFINE x == b.at
               y == c.at
               z == b.size
    <3>1. z \in Nat \ {0} /\ x \in Starts(Addr, z) /\ y \in Starts(Addr, z) /\ x # y
      BY <2>2, Zenon
    <3> HIDE DEF x, y, z
    <3>2. x \in Nat /\ y \in Nat
      BY <3>1, BlockIsOn, Zenon
    <3>3. x < y \/ y < x
      BY <3>1, <3>2
    <3>4. x + z <= y \/ y + z <= x
      BY <3>1, <3>3, BlocksApart, Zenon
    <3> QED
      BY <3>4, Zenon DEF x, y, z
  <2> QED
    BY <2>2, <2>3, Zenon
<1> QED
  BY <1>1, IInvHolds, PTL

\* A gateway's table changes only when its worker writes one.
LEMMA TableWritten ==
  ASSUME IInv, PoolNext, obj'[GW].live, obj'[GW].uid = obj[GW].uid,
         obj'[GW].table # obj[GW].table
  PROVE  /\ work["gw"].pc = "write" /\ ~work["gw"].keep
         /\ obj'[GW].table = work["gw"].table
<1>1. GW \in Consumer /\ GW \notin LB /\ obj \in [Consumer -> Object]
  BY AddressPoolAssumption, Zenon DEF IInv, PoolTypeOK, Consumer, GW
<1>2. obj' # obj
  OBVIOUS
<1>3. CASE WriteGw
  <2> DEFINE o == [obj[GW] EXCEPT !.state = work["gw"].state,
                                  !.table = IF work["gw"].keep THEN obj[GW].table ELSE work["gw"].table]
  <2>1. work["gw"].pc = "write" /\ obj' = [obj EXCEPT ![GW] = o]
    BY <1>2, <1>3, Zenon DEF WriteGw
  <2>2. obj'[GW] = o
    BY <1>1, <2>1, Zenon
  <2>3. o.table = IF work["gw"].keep THEN obj[GW].table ELSE work["gw"].table
    BY <1>1, Zenon DEF Object
  <2> QED
    BY <2>1, <2>2, <2>3, Zenon
<1>4. ASSUME WriteLb PROVE FALSE
  <2>1. PICK o : obj' = [obj EXCEPT ![work["lb"].key] = o]
    BY <1>2, <1>4, Zenon DEF WriteLb
  <2>2. work["lb"].key \in LB
    BY <1>4, Zenon DEF IInv, LbOk, WriteLb
  <2>3. obj'[GW] = obj[GW]
    BY <1>1, <2>1, <2>2, Zenon
  <2> QED
    BY <2>3, Zenon
<1>5. ASSUME NEW c \in Consumer, User(c) PROVE FALSE
  <2>1. obj[GW].uid \in Nat /\ obj[GW] \in Object
    BY <1>1, Zenon DEF Object
  <2>2. ASSUME NEW o, Edit(c, o) PROVE c = GW /\ obj'[GW] = o
    BY <1>1, <2>2, Zenon DEF Edit
  <2>3. ASSUME Edit(c, NewObject(obj[c].uid + 1)) PROVE FALSE
    <3>1. obj[GW].uid + 1 \in Nat /\ obj[GW].uid + 1 # obj[GW].uid
      BY <2>1
    <3>2. obj'[GW] = NewObject(obj[GW].uid + 1)
      BY <2>2, <2>3, Zenon
    <3>3. obj'[GW].uid = obj[GW].uid + 1
      BY <3>1, <3>2, NewObjectType, Zenon
    <3> QED
      BY <3>1, <3>3, Zenon
  <2>4. ASSUME Edit(c, NoObject(obj[c].uid)) PROVE FALSE
    <3>1. obj'[GW] = NoObject(obj[GW].uid)
      BY <2>2, <2>4
    <3> QED
      BY <2>1, <3>1, NewObjectType, Zenon
  <2>5. ASSUME NEW p \in Pins, Edit(c, [obj[c] EXCEPT !.pin = p, !.gen = @ + 1]) PROVE FALSE
    <3>1. obj'[GW] = [obj[GW] EXCEPT !.pin = p, !.gen = @ + 1]
      BY <2>2, <2>5, Zenon
    <3>2. obj'[GW].table = obj[GW].table
      BY <2>1, <3>1, Zenon DEF Object
    <3> QED
      BY <3>2, Zenon
  <2>6. ASSUME NEW z \in Sizes, Edit(c, [obj[c] EXCEPT !.size = z, !.gen = @ + 1]) PROVE FALSE
    <3>1. obj'[GW] = [obj[GW] EXCEPT !.size = z, !.gen = @ + 1]
      BY <2>2, <2>6, Zenon
    <3>2. obj'[GW].table = obj[GW].table
      BY <2>1, <3>1, Zenon DEF Object
    <3> QED
      BY <3>2, Zenon
  <2> QED
    BY <1>5, <2>3, <2>4, <2>5, <2>6, Zenon DEF User
<1>6. WriteGw \/ WriteLb \/ \E c \in Consumer : User(c)
  BY <1>2, Zenon DEF PoolNext, Worker, List, Create, Who, FreedAddress, Fail, TakeLb, releaseClaimsExcept,
     TakeGw, Lay, Deliver, Collect, Nic, Pool, PoolRestart
<1> QED
  BY <1>3, <1>4, <1>5, <1>6, Zenon

\* A pass that starts from the current table moves no block on an address the gateway holds.
THEOREM KeepsBlocksHolds == PoolSpec => KeepsBlocks
<1> DEFINE Kept == \A s \in Source : Moves(s) => work["gw"].obj.table # obj[GW].table
<1>1. ASSUME IInv, PoolNext PROVE Kept
  <2> SUFFICES ASSUME NEW s \in Source, Moves(s), work["gw"].obj.table = obj[GW].table
               PROVE  FALSE
    OBVIOUS
  <2> DEFINE b == obj[GW].table[s]
             j == work["gw"]
  <2>1. /\ b.at \div Ports \in Held(GW) /\ s \in j.srcs /\ j.obj.size = b.size
        /\ obj'[GW].live /\ obj'[GW].uid = obj[GW].uid /\ obj'[GW].table[s] # b
    BY Zenon DEF Moves
  <2>2. j.pc = "write" /\ ~j.keep /\ obj'[GW].table = j.table
    BY <1>1, <2>1, TableWritten, Zenon
  <2>3. GW \in Consumer /\ obj[GW] \in Object /\ seen[GW] \in Object /\ j.obj \in Object /\ j.key = GW
    BY <1>1, <2>2, PassFacts DEF IInv, PoolTypeOK, GwOk, Consumer, Controller
  <2>4. j.obj.uid \in Nat /\ seen[GW].uid \in Nat /\ obj[GW].uid \in Nat
    BY <2>3, Zenon DEF Object
  <2>5. j.obj.uid <= obj[GW].uid
    <3>1. NotNewer(j.obj, seen[GW]) /\ NotNewer(seen[GW], obj[GW])
      BY <1>1, <2>2, <2>3, Zenon DEF IInv, VersionsInOrder, Controller
    <3>2. NotNewer(j.obj, obj[GW])
      BY <2>3, <3>1, NotNewerChain
    <3> QED
      BY <2>3, <3>2, UidsInOrder
  <2>6. obj[GW].uid <= j.obj.uid
    <3>1. ClaimedBy(j.obj.uid)
      BY <1>1, <2>2, Zenon DEF IInv, ClaimsArePast
    <3>2. PICK a \in Addr : claims[a] = <<GW, obj[GW].uid>>
      BY <2>1, Zenon DEF Held
    <3>3. claims[a] # Free
      BY <2>3, <3>2, OwnedIsNotFree, Zenon
    <3>4. claims[a][1] = GW /\ claims[a][2] = obj[GW].uid
      BY <3>2
    <3>5. claims[a][2] <= j.obj.uid
      BY <3>1, <3>3, <3>4, Zenon DEF ClaimedBy
    <3> QED
      BY <3>4, <3>5, Zenon
  <2>7. Mine(j) = Held(GW)
    <3>1. j.obj.uid = obj[GW].uid
      BY <2>4, <2>5, <2>6
    <3> QED
      BY <2>3, <3>1, Zenon DEF Mine, Held, OwnerRef
  <2>8. b # NoBlock
    <3>1. 0 \notin Addr /\ Ports \in Nat \ {0}
      BY AddressPoolAssumption, Zenon
    <3>2. 0 \div Ports = 0
      BY <3>1
    <3>3. b.at \div Ports \in Addr
      BY <2>1, Zenon DEF Held
    <3>4. b.at # 0
      BY <3>1, <3>2, <3>3, Zenon
    <3> QED
      BY <3>4 DEF NoBlock
  <2>9. b.size \in Nat \ {0} /\ b.at \in Starts(Addr, b.size)
    BY <1>1, <2>3, <2>8 DEF IInv, AllSound, Sound, GoodTable
  <2>10. b.at \in Starts(Mine(j), b.size)
    <3>1. Held(GW) \in SUBSET Addr /\ Addr \in SUBSET Addr
      BY Zenon DEF Held
    <3>2. \A t \in SUBSET Addr : b.at \div Ports \in t => b.at \in Starts(t, b.size)
      <4> DEFINE x == b.at
                 z == b.size
      <4>1. z \in Nat \ {0} /\ x \in Starts(Addr, z)
        BY <2>9, Zenon
      <4> HIDE DEF x, z
      <4>2. \A t \in SUBSET Addr : x \div Ports \in t => x \in Starts(t, z)
        BY <3>1, <4>1, BlockIsOn, Zenon
      <4> QED
        BY <4>2, Zenon DEF x, z
    <3>3. b.at \in Starts(Held(GW), b.size)
      BY <2>1, <3>1, <3>2
    <3> QED
      BY <2>7, <3>3, Zenon
  <2>11. Keeps(j, Mine(j))
    BY <1>1, <2>2, Zenon DEF IInv, GwOk
  <2>12. j.table[s] = [at |-> b.at, size |-> b.size]
    BY <2>1, <2>10, <2>11, Zenon DEF Keeps
  <2>13. b = [at |-> b.at, size |-> b.size]
    BY <2>3, Zenon DEF Object, Table
  <2> QED
    BY <2>1, <2>2, <2>12, <2>13, Zenon
<1>2. IInv /\ [PoolNext]_poolVars => [Kept]_poolVars
  BY <1>1, Zenon
<1> QED
  BY <1>2, IInvHolds, PTL DEF KeepsBlocks, PoolSpec
=============================================================================
