-------------------------- MODULE ReflectorProofs --------------------------
(***************************************************************************)
(* The reflector's safety properties for any number of nodes, addresses,   *)
(* VNIs, keys, fences and sessions.                                        *)
(*                                                                         *)
(* The feed is the hard one.  Announce skips the announcer's own sink and  *)
(* refilter skips a key's origins, so a subscriber's copy may differ from  *)
(* the table, and a later withdraw that changes nothing advertised is not  *)
(* sent.  It does not need to be, because of three facts: a session is     *)
(* registered under its own node only, an origin announces only nexthops   *)
(* of its own, and a copy that was not withheld holds no fenced nexthop.   *)
(***************************************************************************)
EXTENDS Reflector, SessionQueue, SequenceTheorems, FiniteSetTheorems, TLAPS

\* Tokens and registrations name sessions that said Hello, under their node's name.
SessionsKnown ==
  /\ \A s \in Session : phase[s] = "new" <=> s > nextToken
  /\ \A n \in Node :
       /\ origins[n] <= nextToken
       /\ sinks[n] # 0 => sinks[n] <= nextToken /\ node[sinks[n]] = n
       /\ \A v \in VNI : LET s == subscribers[v][n] IN
            s # 0 => s <= nextToken /\ node[s] = n

\* Every origin announces nexthops of its own only (the handler's certificate check).
OwnNexthops(rt) == \A k \in Key, n \in Node : \A nh \in rt[k][n] : Owner[nh] = n

\* What a subscriber under the name n may hold of key k when the table is rt and the fences fs.
Current(T, rt, fs, n, k) ==
  LET adv == advertised(rt, fs)[k] IN
  /\ \A nh \in NextHop : Owner[nh] # n => (nh \in T <=> nh \in adv)
  /\ rt[k][n] = {} => T = adv
  /\ \A nh \in T : ~nexthopFenced(nh, fs)

\* FeedMatchesTable, with the fenced nexthops a subscriber no longer holds.
FeedIsCurrent ==
  \A v \in VNI, n \in Node : LET s == subscribers[v][n] IN
    s \in Session \ behind => \A k \in KeysOf(v) \ withheld[s] :
      Current(told[s][k], routes, fenced, n, k)

\* The index by of the records tb with origins org, as in IndexConsistent.
RecordsIndexed(tb, org, by) ==
  /\ \A m \in Node : by[m] = {h \in GKey : org[h] = {m}}
  /\ \A h \in GKey : org[h] = {} <=> tb[h] = {}

IInv ==
  /\ TypeOK /\ IndexConsistent /\ SnapshotCoherent /\ SessionsKnown
  /\ OwnNexthops(routes) /\ FeedIsCurrent /\ GlobalFeedMatchesTable

-----------------------------------------------------------------------------
(* What the RIB advertises, and when a copy of it stays current *)

\* advertised gives every key a set of nexthops, none of them fenced.
LEMMA AdvertisedType ==
  ASSUME NEW rt, NEW fs
  PROVE  /\ advertised(rt, fs) \in [Key -> SUBSET NextHop]
         /\ \A k \in Key : \A nh \in NextHop :
              nh \in advertised(rt, fs)[k] <=> /\ \E n \in Node : nh \in rt[k][n]
                                               /\ ~nexthopFenced(nh, fs)
BY Zenon DEF advertised

\* Of n's nexthops, only n's own announcement can be advertised.
LEMMA OwnAdvertised ==
  ASSUME NEW rt, OwnNexthops(rt), NEW fs, NEW k \in Key, NEW n \in Node,
         NEW nh \in NextHop, Owner[nh] = n, nh \in advertised(rt, fs)[k]
  PROVE  nh \in rt[k][n]
BY AdvertisedType DEF OwnNexthops

\* Fences cover nodes: two nexthops of one node are fenced together (nexthopFenced).
LEMMA FencedTogether ==
  ASSUME NEW x \in NextHop, NEW y \in NextHop, Owner[x] = Owner[y], NEW fs
  PROVE  nexthopFenced(x, fs) <=> nexthopFenced(y, fs)
BY Zenon DEF nexthopFenced

\* A key that was just sent is current.
LEMMA SentIsCurrent ==
  ASSUME NEW rt, NEW fs, NEW n \in Node, NEW k \in Key
  PROVE  Current(advertised(rt, fs)[k], rt, fs, n, k)
BY AdvertisedType, Zenon DEF Current

\* A table change that is not advertised needs no message: fanout is called on changes only.
LEMMA KeptOverTable ==
  ASSUME NEW rt \in [Key -> [Node -> SUBSET NextHop]], OwnNexthops(rt),
         NEW rt2 \in [Key -> [Node -> SUBSET NextHop]], OwnNexthops(rt2),
         NEW fs, NEW n \in Node, NEW k \in Key, NEW T \in SUBSET NextHop,
         Current(T, rt, fs, n, k),
         advertised(rt, fs)[k] = advertised(rt2, fs)[k]
  PROVE  Current(T, rt2, fs, n, k)
<1>1. ASSUME rt2[k][n] = {}, rt[k][n] # {} PROVE T = advertised(rt2, fs)[k]
  <2>1. PICK y \in NextHop : y \in rt[k][n] /\ Owner[y] = n
    BY <1>1 DEF OwnNexthops
  <2>2. \A nh \in NextHop : Owner[nh] = n => nh \notin advertised(rt2, fs)[k]
    BY <1>1, OwnAdvertised, Zenon
  <2>3. nexthopFenced(y, fs)
    BY <2>1, <2>2, AdvertisedType, Zenon
  <2>4. \A nh \in NextHop : Owner[nh] = n => nexthopFenced(nh, fs)
    BY <2>1, <2>3, FencedTogether, Zenon
  <2>5. \A nh \in NextHop : Owner[nh] = n => nh \notin T
    BY <2>4, Zenon DEF Current
  <2>6. \A nh \in NextHop : nh \in T <=> nh \in advertised(rt2, fs)[k]
    BY <2>2, <2>5, Zenon DEF Current
  <2>7. advertised(rt2, fs)[k] \in SUBSET NextHop
    BY AdvertisedType
  <2> QED
    BY <2>6, <2>7, Zenon
<1> QED
  BY <1>1, Zenon DEF Current

\* The announcer's own sink is left out, and its copy of the key stays current.
LEMMA KeptByAnnouncer ==
  ASSUME NEW rt \in [Key -> [Node -> SUBSET NextHop]], OwnNexthops(rt),
         NEW rt2 \in [Key -> [Node -> SUBSET NextHop]], OwnNexthops(rt2),
         NEW fs, NEW n \in Node, NEW k \in Key, NEW T,
         Current(T, rt, fs, n, k),
         \A m \in Node : m # n => rt2[k][m] = rt[k][m],
         rt2[k][n] # {}
  PROVE  Current(T, rt2, fs, n, k)
<1>1. ASSUME NEW nh \in NextHop, Owner[nh] # n
      PROVE  nh \in advertised(rt, fs)[k] <=> nh \in advertised(rt2, fs)[k]
  BY <1>1, AdvertisedType DEF OwnNexthops
<1> QED
  BY <1>1, Zenon DEF Current

\* A fence change that leaves what is advertised of a key leaves its copies current.
LEMMA KeptOverFence ==
  ASSUME NEW rt \in [Key -> [Node -> SUBSET NextHop]], OwnNexthops(rt),
         NEW fs, NEW fs2, NEW n \in Node, NEW k \in Key, NEW T \in SUBSET NextHop,
         Current(T, rt, fs, n, k),
         advertised(rt, fs)[k] = advertised(rt, fs2)[k]
  PROVE  Current(T, rt, fs2, n, k)
<1>1. ASSUME NEW nh \in T, nexthopFenced(nh, fs2) PROVE FALSE
  <2>1. nh \notin advertised(rt, fs)[k]
    BY <1>1, AdvertisedType, Zenon
  <2>2. Owner[nh] = n /\ rt[k][n] # {} /\ ~nexthopFenced(nh, fs)
    BY <2>1, Zenon DEF Current
  <2>3. PICK y \in NextHop : y \in rt[k][n] /\ Owner[y] = n
    BY <2>2 DEF OwnNexthops
  <2>4. y \in advertised(rt, fs)[k]
    BY <2>2, <2>3, FencedTogether, AdvertisedType, Zenon
  <2>5. ~nexthopFenced(y, fs2)
    BY <2>4, AdvertisedType, Zenon
  <2> QED
    BY <1>1, <2>2, <2>3, <2>5, FencedTogether, Zenon
<1> QED
  BY <1>1, Zenon DEF Current

-----------------------------------------------------------------------------
(* Fanout *)

\* The queues keep their types when what is sent are nexthops of items.
LEMMA FanoutType ==
  ASSUME TypeOK, NEW due \in [Session -> SUBSET Item], NEW content,
         \A s \in Session : \A i \in due[s] : content[i] \in SUBSET NextHop,
         NEW skipped \in [Session -> SUBSET Key], NEW over \in SUBSET Session,
         fanout(due, content, skipped, over)
  PROVE  /\ behind' \in SUBSET Session
         /\ told' \in [Session -> [Item -> SUBSET NextHop]]
         /\ withheld' \in [Session -> SUBSET Key]
<1>1. behind' \in SUBSET Session
  BY Zenon DEF fanout, TypeOK
<1>2. told' \in [Session -> [Item -> SUBSET NextHop]]
  <2>1. ASSUME NEW s \in Session, NEW i \in Item
        PROVE  (IF s \in behind' THEN {} ELSE IF i \in due[s] THEN content[i] ELSE told[s][i])
                 \in SUBSET NextHop
    BY DEF TypeOK
  <2> QED
    BY <2>1, Zenon DEF fanout
<1>3. withheld' \in [Session -> SUBSET Key]
  BY Zenon DEF fanout, TypeOK
<1> QED
  BY <1>1, <1>2, <1>3, Zenon

\* A session that is still followed holds what it was sent, and otherwise what it held.
LEMMA FanoutEffect ==
  ASSUME NEW due, NEW content, NEW skipped, NEW over, fanout(due, content, skipped, over),
         NEW s \in Session \ behind'
  PROVE  /\ s \notin behind
         /\ \A i \in Item : told'[s][i] = IF i \in due[s] THEN content[i] ELSE told[s][i]
         /\ withheld'[s] = (withheld[s] \ due[s]) \cup skipped[s]
BY Zenon DEF fanout

\* Of each subscription that is still followed, each key is sent with its new value, is kept
\* from its origin, or is not sent and stays current.
RoutesAccounted(due, content, skipped) ==
  \A v \in VNI, n \in Node, s \in Session \ behind' : s = subscribers'[v][n] =>
    \A k \in KeysOf(v) :
      \/ k \in skipped[s]
      \/ k \in due[s] /\ content[k] = advertised(routes', fenced')[k]
      \/ /\ k \notin due[s] /\ subscribers[v][n] = s
         /\ \A T \in SUBSET NextHop : Current(T, routes, fenced, n, k)
                                        => Current(T, routes', fenced', n, k)

\* Of each registered sink, each record is sent with its new value or keeps its old one.
RecordsAccounted(due, content) ==
  \A n \in Node, s \in Session \ behind' : s = sinks'[n] =>
    \A g \in GKey :
      \/ g \in due[s] /\ content[g] = table'[g]
      \/ g \notin due[s] /\ sinks[n] = s /\ table'[g] = table[g]

\* A critical section that accounts for every key keeps the feed current.
LEMMA FeedStep ==
  ASSUME TypeOK, FeedIsCurrent,
         NEW due, NEW content, NEW skipped, NEW over, fanout(due, content, skipped, over),
         RoutesAccounted(due, content, skipped)
  PROVE  FeedIsCurrent'
<1> SUFFICES ASSUME NEW v \in VNI, NEW n \in Node, NEW s, s = subscribers'[v][n],
                    s \in Session \ behind', NEW k \in KeysOf(v), k \notin withheld'[s]
             PROVE  Current(told'[s][k], routes', fenced', n, k)
  BY Zenon DEF FeedIsCurrent
<1>1. k \in Key /\ k \in Item
  BY Zenon DEF KeysOf, Item
<1>2. /\ s \notin behind
      /\ told'[s][k] = IF k \in due[s] THEN content[k] ELSE told[s][k]
      /\ withheld'[s] = (withheld[s] \ due[s]) \cup skipped[s]
  BY <1>1, FanoutEffect
<1>3. CASE k \in due[s] /\ content[k] = advertised(routes', fenced')[k]
  BY <1>1, <1>2, <1>3, SentIsCurrent, Zenon
<1>4. CASE /\ k \notin due[s] /\ subscribers[v][n] = s
           /\ \A T \in SUBSET NextHop : Current(T, routes, fenced, n, k)
                                          => Current(T, routes', fenced', n, k)
  <2>1. Current(told[s][k], routes, fenced, n, k)
    BY <1>2, <1>4, Zenon DEF FeedIsCurrent
  <2>2. told[s][k] \in SUBSET NextHop
    BY <1>1 DEF TypeOK
  <2> QED
    BY <1>2, <1>4, <2>1, <2>2, Zenon
<1> QED
  BY <1>2, <1>3, <1>4 DEF RoutesAccounted

\* The same for the global feed.
LEMMA GlobalStep ==
  ASSUME GlobalFeedMatchesTable,
         NEW due, NEW content, NEW skipped, NEW over, fanout(due, content, skipped, over),
         RecordsAccounted(due, content)
  PROVE  GlobalFeedMatchesTable'
<1> SUFFICES ASSUME NEW n \in Node, NEW s, s = sinks'[n], s \in Session \ behind',
                    NEW g \in GKey
             PROVE  told'[s][g] = table'[g]
  BY DEF GlobalFeedMatchesTable
<1>1. g \in Item
  BY Zenon DEF Item
<1>2. s \notin behind /\ told'[s][g] = IF g \in due[s] THEN content[g] ELSE told[s][g]
  BY <1>1, FanoutEffect
<1> QED
  BY <1>2 DEF GlobalFeedMatchesTable, RecordsAccounted

-----------------------------------------------------------------------------
(* dropOriginLocked *)

\* A dropped node leaves no route, record or subscription, and the rest is as it was.
LEMMA DropStep ==
  ASSUME IInv, NEW n \in Node, NEW over \in SUBSET Session,
         fenced' = fenced, sinks' = [sinks EXCEPT ![n] = 0],
         dropOriginLocked(n, [sinks EXCEPT ![n] = 0], over)
  PROVE  /\ routes' \in [Key -> [Node -> SUBSET NextHop]]
         /\ byOrigin' \in [Node -> SUBSET Key]
         /\ subscribers' = [v \in VNI |-> [subscribers[v] EXCEPT ![n] = 0]]
         /\ table' \in [GKey -> SUBSET NextHop]
         /\ tableOrigin' \in [GKey -> SUBSET Node]
         /\ tableBy' \in [Node -> SUBSET GKey]
         /\ globalSnap' \in SUBSET [GKey -> SUBSET NextHop]
         /\ behind' \in SUBSET Session
         /\ told' \in [Session -> [Item -> SUBSET NextHop]]
         /\ withheld' \in [Session -> SUBSET Key]
         /\ IndexConsistent' /\ SnapshotCoherent' /\ OwnNexthops(routes')
         /\ FeedIsCurrent' /\ GlobalFeedMatchesTable'
<1> DEFINE rt == [k \in Key |-> IF k \in byOrigin[n]
                                  THEN [routes[k] EXCEPT ![n] = {}] ELSE routes[k]]
           gone == RecordsOf(n)
           sk == [sinks EXCEPT ![n] = 0]
           due == [s \in Session |-> Subscribed(s, Changed(rt, fenced), Node)
                                       \cup OnGlobalFeed(s, gone, sk)]
           content == [i \in Item |-> IF i \in Key THEN advertised(rt, fenced)[i] ELSE {}]
<1>1. /\ TypeOK /\ IndexConsistent /\ SnapshotCoherent /\ OwnNexthops(routes)
      /\ FeedIsCurrent /\ GlobalFeedMatchesTable
  BY Zenon DEF IInv
<1>2. /\ routes' = rt
      /\ byOrigin' = [byOrigin EXCEPT ![n] = {}]
      /\ subscribers' = [v \in VNI |-> [subscribers[v] EXCEPT ![n] = 0]]
      /\ table' = [g \in GKey |-> IF g \in gone THEN {} ELSE table[g]]
      /\ tableOrigin' = [g \in GKey |-> IF g \in gone THEN {} ELSE tableOrigin[g]]
      /\ tableBy' = [tableBy EXCEPT ![n] = {}]
      /\ globalSnap' = IF gone = {} THEN globalSnap ELSE {}
      /\ fanout(due, content, Nothing, over)
  BY Zenon DEF dropOriginLocked
<1>3. rt \in [Key -> [Node -> SUBSET NextHop]]
  BY <1>1, Zenon DEF TypeOK
<1>4. \A k \in Key, m \in Node : rt[k][m] = IF m = n THEN {} ELSE routes[k][m]
  BY <1>1, Zenon DEF TypeOK, IndexConsistent
<1>5. OwnNexthops(rt)
  BY <1>1, <1>4 DEF OwnNexthops
<1>6. gone = {g \in GKey : tableOrigin[g] = {n}}
  BY <1>1, Zenon DEF RecordsOf, IndexConsistent
<1>7. /\ byOrigin' \in [Node -> SUBSET Key]
      /\ tableBy' \in [Node -> SUBSET GKey]
      /\ table' \in [GKey -> SUBSET NextHop]
      /\ tableOrigin' \in [GKey -> SUBSET Node]
      /\ globalSnap' \in SUBSET [GKey -> SUBSET NextHop]
  BY <1>1, <1>2, Zenon DEF TypeOK
<1>8. IndexConsistent'
  <2>1. \A m \in Node : byOrigin'[m] = {k \in Key : routes'[k][m] # {}}
    <3>1. /\ byOrigin \in [Node -> SUBSET Key]
          /\ \A m \in Node : byOrigin[m] = {k \in Key : routes[k][m] # {}}
      BY <1>1, Zenon DEF IndexConsistent, TypeOK
    <3>2. \A m \in Node : byOrigin'[m] = IF m = n THEN {} ELSE byOrigin[m]
      BY <1>2, <3>1, Zenon
    <3> HIDE DEF rt
    <3> QED
      BY <1>2, <1>4, <3>1, <3>2
  <2>2. \A m \in Node : tableBy'[m] = {g \in GKey : tableOrigin'[g] = {m}}
    <3>1. \A g \in GKey : tableOrigin'[g] = IF tableOrigin[g] = {n} THEN {} ELSE tableOrigin[g]
      BY <1>2, <1>6, Zenon
    <3>2. \A m \in Node : tableBy'[m] = IF m = n THEN {} ELSE tableBy[m]
      BY <1>1, <1>2, Zenon DEF TypeOK
    <3>3. \A m \in Node : {} # {m} /\ ({m} = {n} => m = n)
      OBVIOUS
    <3>4. \A m \in Node : tableBy[m] = {g \in GKey : tableOrigin[g] = {m}}
      BY <1>1, Zenon DEF IndexConsistent
    <3> QED
      BY <3>1, <3>2, <3>3, <3>4
  <2>3. \A g \in GKey : tableOrigin'[g] = {} <=> table'[g] = {}
    BY <1>1, <1>2, <1>6, Zenon DEF IndexConsistent, TypeOK
  <2> QED
    BY <2>1, <2>2, <2>3, Zenon DEF IndexConsistent
<1>9. SnapshotCoherent'
  <2>1. CASE gone = {}
    <3>1. table' = table
      BY <1>1, <1>2, <2>1, Zenon DEF TypeOK
    <3> QED
      BY <1>1, <1>2, <2>1, <3>1, Zenon DEF SnapshotCoherent
  <2>2. CASE gone # {}
    BY <1>2, <2>2, Zenon DEF SnapshotCoherent
  <2> QED
    BY <2>1, <2>2, Zenon
<1>10. /\ behind' \in SUBSET Session
       /\ told' \in [Session -> [Item -> SUBSET NextHop]]
       /\ withheld' \in [Session -> SUBSET Key]
  <2>1. due \in [Session -> SUBSET Item]
    BY <1>6, Zenon DEF Subscribed, OnGlobalFeed, Changed, Item
  <2>2. content \in [Item -> SUBSET NextHop]
    BY AdvertisedType DEF Item
  <2>3. Nothing \in [Session -> SUBSET Key]
    BY Zenon DEF Nothing
  <2> HIDE DEF due, content
  <2> QED
    BY <1>1, <1>2, <2>1, <2>2, <2>3, FanoutType, Zenon
<1>11. FeedIsCurrent'
  <2> SUFFICES ASSUME NEW v \in VNI, NEW m \in Node, NEW s \in Session \ behind',
                      s = subscribers'[v][m], NEW k \in KeysOf(v)
               PROVE  \/ k \in due[s] /\ content[k] = advertised(routes', fenced')[k]
                      \/ /\ k \notin due[s] /\ subscribers[v][m] = s
                         /\ \A T \in SUBSET NextHop : Current(T, routes, fenced, m, k)
                                                        => Current(T, routes', fenced', m, k)
    <3>1. SUFFICES RoutesAccounted(due, content, Nothing)
      <4>1. TypeOK /\ FeedIsCurrent /\ fanout(due, content, Nothing, over)
        BY <1>1, <1>2, Zenon
      <4> HIDE DEF due, content
      <4> QED
        BY <3>1, <4>1, FeedStep, Zenon
    <3> QED
      BY ZenonT(30) DEF RoutesAccounted
  <2>1. k \in Key /\ VniOf[k] = v
    BY Zenon DEF KeysOf
  <2>2. subscribers[v][m] = s
    <3>1. subscribers \in [VNI -> [Node -> 0 .. MaxSession]]
      BY <1>1, Zenon DEF TypeOK
    <3>2. subscribers'[v][m] = IF m = n THEN 0 ELSE subscribers[v][m]
      BY <1>2, <3>1, Zenon
    <3>3. s # 0
      BY DEF Session
    <3> QED
      BY <3>2, <3>3, Zenon
  <2>3. CASE k \in due[s]
    BY <1>2, <2>1, <2>3, Zenon DEF Item
  <2>4. CASE k \notin due[s]
    <3>1. advertised(routes, fenced)[k] = advertised(rt, fenced)[k]
      BY <2>1, <2>2, <2>4, Zenon DEF Subscribed, Changed
    <3>2. routes \in [Key -> [Node -> SUBSET NextHop]] /\ OwnNexthops(routes)
      BY <1>1, Zenon DEF TypeOK
    <3> HIDE DEF rt
    <3> QED
      BY <1>2, <1>3, <1>5, <2>1, <2>2, <2>4, <3>1, <3>2, KeptOverTable, Zenon
  <2> QED
    BY <2>3, <2>4, Zenon
<1>12. GlobalFeedMatchesTable'
  <2> SUFFICES ASSUME NEW m \in Node, NEW s \in Session \ behind', s = sinks'[m],
                      NEW g \in GKey
               PROVE  \/ g \in due[s] /\ content[g] = table'[g]
                      \/ g \notin due[s] /\ sinks[m] = s /\ table'[g] = table[g]
    <3>1. SUFFICES RecordsAccounted(due, content)
      <4>1. GlobalFeedMatchesTable /\ fanout(due, content, Nothing, over)
        BY <1>1, <1>2, Zenon
      <4> HIDE DEF due, content
      <4> QED
        BY <3>1, <4>1, GlobalStep, Zenon
    <3> QED
      BY Zenon DEF RecordsAccounted
  <2>1. sinks[m] = s /\ sk[m] = s
    BY <1>1 DEF TypeOK, Session
  <2>2. g \in due[s] <=> g \in gone
    BY <2>1, ReflectorAssumption, Zenon DEF Subscribed, Changed, OnGlobalFeed
  <2> QED
    BY <1>2, <2>1, <2>2, ReflectorAssumption, Zenon DEF Item
<1> QED
  BY <1>2, <1>3, <1>5, <1>7, <1>8, <1>9, <1>10, <1>11, <1>12, Zenon

-----------------------------------------------------------------------------
(* The steps *)

\* The parts of the invariant, after a step.
LEMMA NewIInv ==
  ASSUME TypeOK', IndexConsistent', SnapshotCoherent', SessionsKnown',
         OwnNexthops(routes'), FeedIsCurrent', GlobalFeedMatchesTable'
  PROVE  IInv'
BY Zenon DEF IInv, OwnNexthops

\* Steps that claim no node id and register nothing leave the sessions known.
LEMMA SessionsKept ==
  ASSUME SessionsKnown, UNCHANGED <<origins, nextToken, phase, node>>,
         \A n \in Node : sinks'[n] \in {0, sinks[n]},
         \A n \in Node, v \in VNI : subscribers'[v][n] \in {0, subscribers[v][n]}
  PROVE  SessionsKnown'
BY DEF SessionsKnown

\* Steps that leave the table, the fences and the subscriptions alone account for every key.
LEMMA RoutesUntouched ==
  ASSUME NEW due, NEW content, NEW skipped, UNCHANGED <<routes, subscribers, fenced>>,
         \A s \in Session : due[s] \cap Key = {}
  PROVE  RoutesAccounted(due, content, skipped)
BY Zenon DEF RoutesAccounted, KeysOf

\* Steps that leave the records and the sinks alone account for every record.
LEMMA RecordsUntouched ==
  ASSUME NEW due, NEW content, UNCHANGED <<table, sinks>>,
         \A s \in Session : due[s] \cap GKey = {}
  PROVE  RecordsAccounted(due, content)
BY Zenon DEF RecordsAccounted

\* A closed queue takes its session out of the feeds and changes nothing else.
LEMMA CloseStep ==
  ASSUME IInv, NEW s \in Session, closeQueue(s),
         UNCHANGED <<routes, subscribers, fenced, table, sinks>>
  PROVE  /\ behind' \in SUBSET Session
         /\ told' \in [Session -> [Item -> SUBSET NextHop]]
         /\ withheld' \in [Session -> SUBSET Key]
         /\ FeedIsCurrent' /\ GlobalFeedMatchesTable'
<1>1. Nothing \in [Session -> SUBSET Item] /\ Nothing \in [Session -> SUBSET Key]
  BY Zenon DEF Nothing
<1>2. \A t \in Session : Nothing[t] = {}
  BY Zenon DEF Nothing
<1>3. fanout(Nothing, Nothing, Nothing, {s}) /\ TypeOK /\ FeedIsCurrent
      /\ GlobalFeedMatchesTable
  BY Zenon DEF closeQueue, IInv
<1>4. RoutesAccounted(Nothing, Nothing, Nothing) /\ RecordsAccounted(Nothing, Nothing)
  BY <1>2, RoutesUntouched, RecordsUntouched, Zenon
<1>5. /\ behind' \in SUBSET Session
      /\ told' \in [Session -> [Item -> SUBSET NextHop]]
      /\ withheld' \in [Session -> SUBSET Key]
  BY <1>1, <1>2, <1>3, FanoutType
<1> QED
  BY <1>3, <1>4, <1>5, FeedStep, GlobalStep, Zenon

\* Announce and Withdraw keep the invariant when n alone changes its nexthops of k, to nexthops
\* of its own, and the index with them; the one sink that may be skipped is that of an announcer.
LEMMA StoreRouteStep ==
  ASSUME IInv, NEW n \in Node, NEW k \in Key, NEW nhs \in SUBSET NextHop,
         \A nh \in nhs : Owner[nh] = n,
         NEW skip \in {{}, {n}}, skip = {} \/ nhs # {},
         StoreRoute([routes EXCEPT ![k] = [@ EXCEPT ![n] = nhs]],
                    [byOrigin EXCEPT ![n] = IF nhs = {} THEN @ \ {k} ELSE @ \cup {k}], skip)
  PROVE  IInv'
<1> DEFINE rt == [routes EXCEPT ![k] = [@ EXCEPT ![n] = nhs]]
           due == [s \in Session |-> Subscribed(s, Changed(rt, fenced), Node \ skip)]
           content == [i \in Item |-> IF i \in Key THEN advertised(rt, fenced)[i] ELSE {}]
<1>1. /\ TypeOK /\ IndexConsistent /\ OwnNexthops(routes)
      /\ FeedIsCurrent /\ GlobalFeedMatchesTable /\ SnapshotCoherent /\ SessionsKnown
  BY Zenon DEF IInv
<1>2. /\ routes' = rt
      /\ byOrigin' = [byOrigin EXCEPT ![n] = IF nhs = {} THEN @ \ {k} ELSE @ \cup {k}]
      /\ fanout(due, content, Nothing, {})
      /\ UNCHANGED <<subscribers, origins, table, tableOrigin, tableBy, sinks, fenced,
                     nextToken, globalSnap, phase, node>>
  BY Zenon DEF StoreRoute
<1>3. /\ rt \in [Key -> [Node -> SUBSET NextHop]]
      /\ routes \in [Key -> [Node -> SUBSET NextHop]]
  BY <1>1, Zenon DEF TypeOK
<1>4. \A j \in Key, m \in Node : rt[j][m] = IF j = k /\ m = n THEN nhs ELSE routes[j][m]
  BY <1>3, Zenon
<1>5. OwnNexthops(rt)
  BY <1>1, <1>4 DEF OwnNexthops
<1>6. byOrigin' \in [Node -> SUBSET Key]
  BY <1>1, <1>2, Zenon DEF TypeOK
<1>7. IndexConsistent'
  <2>1. \A m \in Node : byOrigin'[m] = {j \in Key : routes'[j][m] # {}}
    <3>1. \A m \in Node : byOrigin'[m] = IF m # n THEN byOrigin[m]
                                         ELSE IF nhs = {} THEN byOrigin[n] \ {k}
                                         ELSE byOrigin[n] \cup {k}
      BY <1>1, <1>2, Zenon DEF TypeOK
    <3> HIDE DEF rt
    <3> QED
      BY <1>1, <1>2, <1>4, <3>1 DEF IndexConsistent
  <2> QED
    BY <1>1, <1>2, <2>1, Zenon DEF IndexConsistent
<1>8. /\ behind' \in SUBSET Session
      /\ told' \in [Session -> [Item -> SUBSET NextHop]]
      /\ withheld' \in [Session -> SUBSET Key]
  <2>1. due \in [Session -> SUBSET Item]
    BY Zenon DEF Subscribed, Changed, Item
  <2>2. content \in [Item -> SUBSET NextHop]
    BY AdvertisedType DEF Item
  <2>3. Nothing \in [Session -> SUBSET Key]
    BY Zenon DEF Nothing
  <2> HIDE DEF due, content
  <2> QED
    BY <1>1, <1>2, <2>1, <2>2, <2>3, FanoutType
<1>9. FeedIsCurrent'
  <2> SUFFICES ASSUME NEW v \in VNI, NEW m \in Node, NEW s \in Session \ behind',
                      s = subscribers'[v][m], NEW j \in KeysOf(v)
               PROVE  \/ j \in due[s] /\ content[j] = advertised(routes', fenced')[j]
                      \/ /\ j \notin due[s] /\ subscribers[v][m] = s
                         /\ \A T \in SUBSET NextHop : Current(T, routes, fenced, m, j)
                                                        => Current(T, routes', fenced', m, j)
    <3>1. SUFFICES RoutesAccounted(due, content, Nothing)
      <4>1. TypeOK /\ FeedIsCurrent /\ fanout(due, content, Nothing, {})
        BY <1>1, <1>2, Zenon
      <4> HIDE DEF due, content
      <4> QED
        BY <3>1, <4>1, FeedStep, Zenon
    <3> QED
      BY ZenonT(30) DEF RoutesAccounted
  <2>1. j \in Key /\ VniOf[j] = v /\ subscribers[v][m] = s
    BY <1>2, Zenon DEF KeysOf
  <2>2. CASE j \in due[s]
    BY <1>2, <2>1, <2>2, Zenon DEF Item
  <2>3. CASE j \notin due[s] /\ advertised(routes, fenced)[j] = advertised(rt, fenced)[j]
    <3> HIDE DEF rt, due
    <3> QED
      BY <1>1, <1>2, <1>3, <1>5, <2>1, <2>3, KeptOverTable, Zenon
  <2>4. CASE j \notin due[s] /\ advertised(routes, fenced)[j] # advertised(rt, fenced)[j]
    <3>1. m \in skip
      BY <2>1, <2>4, Zenon DEF Subscribed, Changed
    <3>2. m = n /\ nhs # {}
      BY <3>1
    <3>3. j = k
      <4>1. ASSUME j # k PROVE rt[j] = routes[j]
        BY <1>3, <2>1, <4>1, Zenon
      <4> QED
        BY <2>1, <2>4, <4>1, Zenon DEF advertised
    <3>4. rt[j][n] # {} /\ \A q \in Node : q # n => rt[j][q] = routes[j][q]
      BY <1>4, <2>1, <3>2, <3>3
    <3> HIDE DEF rt, due
    <3> QED
      BY <1>1, <1>2, <1>3, <1>5, <2>1, <2>4, <3>2, <3>4, KeptByAnnouncer, Zenon
  <2> QED
    BY <2>2, <2>3, <2>4, Zenon
<1>10. GlobalFeedMatchesTable'
  <2>1. \A s \in Session : due[s] \cap GKey = {}
    BY ReflectorAssumption, Zenon DEF Subscribed, Changed
  <2> HIDE DEF due, content
  <2> QED
    BY <1>1, <1>2, <2>1, RecordsUntouched, GlobalStep, Zenon
<1>11. TypeOK'
  BY <1>1, <1>2, <1>3, <1>6, <1>8, Zenon DEF TypeOK
<1>12. SessionsKnown' /\ SnapshotCoherent'
  BY <1>1, <1>2, SessionsKept, Zenon DEF SnapshotCoherent
<1> QED
  BY <1>2, <1>5, <1>7, <1>9, <1>10, <1>11, <1>12, NewIInv, Zenon

\* A record that changes is sent to every sink, and the cached replay goes.
LEMMA StoreRecordStep ==
  ASSUME IInv, NEW g \in GKey, NEW tb \in [GKey -> SUBSET NextHop],
         NEW org \in [GKey -> SUBSET Node], NEW by \in [Node -> SUBSET GKey],
         \A h \in GKey \ {g} : tb[h] = table[h],
         RecordsIndexed(tb, org, by), StoreRecord(tb, org, by, g)
  PROVE  IInv'
<1> DEFINE due == [s \in Session |-> OnGlobalFeed(s, {g}, sinks)]
           content == [i \in Item |-> IF i \in GKey THEN tb[i] ELSE {}]
<1>1. /\ TypeOK /\ FeedIsCurrent /\ GlobalFeedMatchesTable /\ IndexConsistent
      /\ SessionsKnown /\ OwnNexthops(routes)
  BY Zenon DEF IInv
<1>2. /\ table' = tb /\ tableOrigin' = org /\ tableBy' = by /\ globalSnap' = {}
      /\ fanout(due, content, Nothing, {})
      /\ UNCHANGED <<routes, byOrigin, subscribers, origins, sinks, fenced, nextToken, phase,
                     node>>
  BY Zenon DEF StoreRecord
<1>3. due \in [Session -> SUBSET Item] /\ \A s \in Session : due[s] \subseteq {g}
  BY Zenon DEF OnGlobalFeed, Item
<1>4. content \in [Item -> SUBSET NextHop]
  BY Zenon DEF Item
<1>5. Nothing \in [Session -> SUBSET Key]
  BY Zenon DEF Nothing
<1>6. RecordsAccounted(due, content)
  <2> SUFFICES ASSUME NEW n \in Node, NEW s \in Session \ behind', s = sinks'[n],
                      NEW h \in GKey
               PROVE  \/ h \in due[s] /\ content[h] = table'[h]
                      \/ h \notin due[s] /\ sinks[n] = s /\ table'[h] = table[h]
    BY Zenon DEF RecordsAccounted
  <2>1. due[s] = {g} /\ sinks[n] = s
    BY <1>2, Zenon DEF OnGlobalFeed
  <2>2. content[h] = tb[h]
    BY Zenon DEF Item
  <2> QED
    BY <1>2, <2>1, <2>2, Zenon
<1>7. RoutesAccounted(due, content, Nothing)
  <2>1. \A s \in Session : due[s] \cap Key = {}
    BY <1>3, ReflectorAssumption, Zenon
  <2> HIDE DEF due, content
  <2> QED
    BY <1>2, <2>1, RoutesUntouched, Zenon
<1> HIDE DEF due, content
<1>8. /\ behind' \in SUBSET Session
      /\ told' \in [Session -> [Item -> SUBSET NextHop]]
      /\ withheld' \in [Session -> SUBSET Key]
  <2>1. \A s \in Session : \A i \in due[s] : content[i] \in SUBSET NextHop
    BY <1>3, <1>4, Zenon
  <2>2. TypeOK /\ fanout(due, content, Nothing, {}) /\ {} \in SUBSET Session
    BY <1>1, <1>2, Zenon
  <2> QED
    BY <1>3, <1>5, <2>1, <2>2, FanoutType, Zenon
<1>9. FeedIsCurrent' /\ GlobalFeedMatchesTable'
  BY <1>1, <1>2, <1>6, <1>7, FeedStep, GlobalStep, Zenon
<1>10. TypeOK'
  BY <1>1, <1>2, <1>8, Zenon DEF TypeOK
<1>11. IndexConsistent'
  BY <1>1, <1>2, Zenon DEF IndexConsistent, RecordsIndexed
<1>12. SnapshotCoherent' /\ SessionsKnown'
  BY <1>1, <1>2, SessionsKept, Zenon DEF SnapshotCoherent
<1> QED
  BY <1>1, <1>2, <1>9, <1>10, <1>11, <1>12, NewIInv, Zenon

\* A fence change reaches every subscriber but the key's own origins, whose copy it marks.
LEMMA RefilterStep ==
  ASSUME IInv, NEW fs, refilter(fs)
  PROVE  /\ behind' \in SUBSET Session
         /\ told' \in [Session -> [Item -> SUBSET NextHop]]
         /\ withheld' \in [Session -> SUBSET Key]
         /\ FeedIsCurrent' /\ GlobalFeedMatchesTable'
<1> DEFINE K == Changed(routes, fs)
           IsOrigin(s, k) == routes[k][node[s]] # {}
           due == [s \in Session |-> {k \in Subscribed(s, K, Node) : ~IsOrigin(s, k)}]
           skipped == [s \in Session |-> {k \in Subscribed(s, K, Node) : IsOrigin(s, k)}]
           content == [i \in Item |-> IF i \in Key THEN advertised(routes, fs)[i] ELSE {}]
<1>1. TypeOK /\ FeedIsCurrent /\ GlobalFeedMatchesTable /\ OwnNexthops(routes)
  BY Zenon DEF IInv
<1>2. /\ fenced' = fs /\ fanout(due, content, skipped, {})
      /\ UNCHANGED <<routes, subscribers, sinks, table>>
  BY Zenon DEF refilter, rib
<1>3. due \in [Session -> SUBSET Item] /\ \A s \in Session : due[s] \subseteq Key
  BY Zenon DEF Subscribed, Changed, Item
<1>4. content \in [Item -> SUBSET NextHop]
  BY AdvertisedType DEF Item
<1>5. skipped \in [Session -> SUBSET Key]
  BY Zenon DEF Subscribed, Changed
<1>6. RoutesAccounted(due, content, skipped)
  <2> SUFFICES ASSUME NEW v \in VNI, NEW n \in Node, NEW s \in Session \ behind',
                      s = subscribers'[v][n], NEW k \in KeysOf(v)
               PROVE  \/ k \in skipped[s]
                      \/ k \in due[s] /\ content[k] = advertised(routes', fenced')[k]
                      \/ /\ k \notin due[s] /\ subscribers[v][n] = s
                         /\ \A T \in SUBSET NextHop : Current(T, routes, fenced, n, k)
                                                        => Current(T, routes', fenced', n, k)
    BY Zenon DEF RoutesAccounted
  <2>1. k \in Key /\ VniOf[k] = v /\ subscribers[v][n] = s
    BY <1>2, Zenon DEF KeysOf
  <2>2. CASE k \in K
    <3>1. k \in due[s] \/ k \in skipped[s]
      BY <2>1, <2>2, Zenon DEF Subscribed
    <3>2. content[k] = advertised(routes', fenced')[k]
      BY <1>2, <2>1, Zenon DEF Item
    <3> QED
      BY <3>1, <3>2, Zenon
  <2>3. CASE k \notin K
    <3>1. k \notin due[s]
      BY <2>3, Zenon DEF Subscribed
    <3>2. advertised(routes, fenced)[k] = advertised(routes, fs)[k]
      BY <2>1, <2>3, Zenon DEF Changed
    <3>3. routes \in [Key -> [Node -> SUBSET NextHop]]
      BY <1>1, Zenon DEF TypeOK
    <3> HIDE DEF due
    <3> QED
      BY <1>1, <1>2, <2>1, <3>1, <3>2, <3>3, KeptOverFence, Zenon
  <2> QED
    BY <2>2, <2>3, Zenon
<1>7. RecordsAccounted(due, content)
  <2>1. \A s \in Session : due[s] \cap GKey = {}
    BY <1>3, ReflectorAssumption, Zenon
  <2> HIDE DEF due, content
  <2> QED
    BY <1>2, <2>1, RecordsUntouched, Zenon
<1> HIDE DEF due, content, skipped
<1>8. /\ behind' \in SUBSET Session
      /\ told' \in [Session -> [Item -> SUBSET NextHop]]
      /\ withheld' \in [Session -> SUBSET Key]
  <2>1. \A s \in Session : \A i \in due[s] : content[i] \in SUBSET NextHop
    BY <1>3, <1>4, Zenon
  <2>2. TypeOK /\ fanout(due, content, skipped, {}) /\ {} \in SUBSET Session
    BY <1>1, <1>2, Zenon
  <2> QED
    BY <1>3, <1>5, <2>1, <2>2, FanoutType, Zenon
<1> QED
  BY <1>1, <1>2, <1>6, <1>7, <1>8, FeedStep, GlobalStep, Zenon

\* A new subscription is replayed its VNI whole; the others keep what they have.
LEMMA SubscribeStep ==
  ASSUME IInv, NEW t \in Session, NEW w \in VNI, Subscribe(t, w)
  PROVE  /\ behind' \in SUBSET Session
         /\ told' \in [Session -> [Item -> SUBSET NextHop]]
         /\ withheld' \in [Session -> SUBSET Key]
         /\ FeedIsCurrent' /\ GlobalFeedMatchesTable'
<1> DEFINE due == [Nothing EXCEPT ![t] = KeysOf(w)]
           content == [i \in Item |-> IF i \in Key THEN advertised(routes, fenced)[i] ELSE {}]
<1>1. TypeOK /\ FeedIsCurrent /\ GlobalFeedMatchesTable /\ SessionsKnown
  BY Zenon DEF IInv
<1>2. /\ fanout(due, content, Nothing, {})
      /\ subscribers' = [subscribers EXCEPT ![w] = [@ EXCEPT ![node[t]] = t]]
      /\ UNCHANGED <<routes, fenced, sinks, table>>
  BY Zenon DEF Subscribe
<1>3. \A s \in Session : due[s] = IF s = t THEN KeysOf(w) ELSE {}
  BY Zenon DEF Nothing
<1>4. due \in [Session -> SUBSET Item] /\ Nothing \in [Session -> SUBSET Key]
  BY Zenon DEF Nothing, KeysOf, Item
<1> HIDE DEF due
<1>5. content \in [Item -> SUBSET NextHop]
  BY AdvertisedType DEF Item
<1>6. RoutesAccounted(due, content, Nothing)
  <2> SUFFICES ASSUME NEW v \in VNI, NEW n \in Node, NEW s \in Session \ behind',
                      s = subscribers'[v][n], NEW k \in KeysOf(v)
               PROVE  \/ k \in due[s] /\ content[k] = advertised(routes', fenced')[k]
                      \/ /\ k \notin due[s] /\ subscribers[v][n] = s
                         /\ \A T \in SUBSET NextHop : Current(T, routes, fenced, n, k)
                                                        => Current(T, routes', fenced', n, k)
    BY Zenon DEF RoutesAccounted
  <2>1. k \in Key /\ VniOf[k] = v /\ content[k] = advertised(routes', fenced')[k]
    BY <1>2, Zenon DEF KeysOf, Item
  <2>2. subscribers'[v][n] = IF v = w /\ n = node[t] THEN t ELSE subscribers[v][n]
    BY <1>1, <1>2, Zenon DEF TypeOK
  <2>3. CASE v = w /\ n = node[t]
    BY <1>3, <2>1, <2>2, <2>3, Zenon
  <2>4. CASE ~(v = w /\ n = node[t])
    <3>1. subscribers[v][n] = s
      BY <2>2, <2>4, Zenon
    <3>2. s = t => v # w
      BY <1>1, <2>4, <3>1 DEF SessionsKnown, Session
    <3>3. k \notin due[s]
      <4>1. v # w => k \notin KeysOf(w)
        BY <2>1, Zenon DEF KeysOf
      <4> QED
        BY <1>3, <3>2, <4>1, Zenon
    <3> QED
      BY <1>2, <3>1, <3>3, Zenon
  <2> QED
    BY <2>3, <2>4, Zenon
<1>7. RecordsAccounted(due, content)
  <2>1. \A s \in Session : due[s] \cap GKey = {}
    BY <1>3, ReflectorAssumption, Zenon DEF KeysOf
  <2> HIDE DEF content
  <2> QED
    BY <1>2, <2>1, RecordsUntouched, Zenon
<1> HIDE DEF content
<1>8. /\ behind' \in SUBSET Session
      /\ told' \in [Session -> [Item -> SUBSET NextHop]]
      /\ withheld' \in [Session -> SUBSET Key]
  BY <1>1, <1>2, <1>4, <1>5, FanoutType
<1> QED
  BY <1>1, <1>2, <1>6, <1>7, <1>8, FeedStep, GlobalStep, Zenon

\* A new sink is replayed the tables, from the cache or afresh; both are the current ones.
LEMMA RegisterSinkStep ==
  ASSUME IInv, NEW t \in Session, RegisterSink(t)
  PROVE  /\ behind' \in SUBSET Session
         /\ told' \in [Session -> [Item -> SUBSET NextHop]]
         /\ withheld' \in [Session -> SUBSET Key]
         /\ globalSnap' = {table}
         /\ FeedIsCurrent' /\ GlobalFeedMatchesTable'
<1> DEFINE snap == IF globalSnap # {} THEN globalSnap ELSE {table}
           cached == CHOOSE c \in snap : TRUE
           due == [Nothing EXCEPT ![t] = GKey]
           content == [i \in Item |-> IF i \in GKey THEN cached[i] ELSE {}]
<1>1. TypeOK /\ FeedIsCurrent /\ GlobalFeedMatchesTable /\ SnapshotCoherent
  BY Zenon DEF IInv
<1>2. /\ fanout(due, content, Nothing, {})
      /\ sinks' = [sinks EXCEPT ![node[t]] = t]
      /\ globalSnap' = snap
      /\ UNCHANGED <<routes, fenced, subscribers, table>>
  BY Zenon DEF RegisterSink
<1>3. snap = {table} /\ cached = table
  BY <1>1, Zenon DEF SnapshotCoherent
<1> HIDE DEF snap, cached
<1>4. \A s \in Session : due[s] = IF s = t THEN GKey ELSE {}
  BY Zenon DEF Nothing
<1>5. due \in [Session -> SUBSET Item] /\ Nothing \in [Session -> SUBSET Key]
  BY Zenon DEF Nothing, Item
<1>6. content \in [Item -> SUBSET NextHop]
  BY <1>1, <1>3, Zenon DEF TypeOK
<1>7. RecordsAccounted(due, content)
  <2> SUFFICES ASSUME NEW n \in Node, NEW s \in Session \ behind', s = sinks'[n],
                      NEW g \in GKey
               PROVE  \/ g \in due[s] /\ content[g] = table'[g]
                      \/ g \notin due[s] /\ sinks[n] = s /\ table'[g] = table[g]
    BY Zenon DEF RecordsAccounted
  <2>1. content[g] = table'[g]
    BY <1>2, <1>3, Zenon DEF Item
  <2>2. s = t \/ sinks[n] = s
    BY <1>1, <1>2, Zenon DEF TypeOK
  <2> QED
    BY <1>2, <1>4, <2>1, <2>2, Zenon
<1>8. RoutesAccounted(due, content, Nothing)
  <2>1. \A s \in Session : due[s] \cap Key = {}
    BY <1>4, ReflectorAssumption, Zenon
  <2> HIDE DEF due, content
  <2> QED
    BY <1>2, <2>1, RoutesUntouched, Zenon
<1> HIDE DEF due, content
<1>9. /\ behind' \in SUBSET Session
      /\ told' \in [Session -> [Item -> SUBSET NextHop]]
      /\ withheld' \in [Session -> SUBSET Key]
  BY <1>1, <1>2, <1>5, <1>6, FanoutType
<1> QED
  BY <1>1, <1>2, <1>3, <1>7, <1>8, <1>9, FeedStep, GlobalStep, Zenon

-----------------------------------------------------------------------------
\* The first states satisfy the invariant: no session, no route, no record.
LEMMA InitIInv == Init => IInv
<1> SUFFICES ASSUME Init PROVE IInv
  OBVIOUS
<1>1. TypeOK
  <2>1. (CHOOSE n \in Node : TRUE) \in Node
    BY ReflectorAssumption, Zenon
  <2>2. 0 \in 0 .. MaxSession
    BY ReflectorAssumption
  <2> QED
    BY <2>1, <2>2, Zenon DEF Init, TypeOK
<1>2. IndexConsistent /\ SnapshotCoherent /\ OwnNexthops(routes)
  BY Zenon DEF Init, IndexConsistent, SnapshotCoherent, OwnNexthops
<1>3. SessionsKnown
  BY DEF Init, SessionsKnown, Session
<1>4. FeedIsCurrent /\ GlobalFeedMatchesTable
  BY DEF Init, FeedIsCurrent, GlobalFeedMatchesTable, Session
<1> QED
  BY <1>1, <1>2, <1>3, <1>4, Zenon DEF IInv

\* Every critical section of RIB.mu keeps it.
LEMMA StepIInv == IInv /\ [Next]_vars => IInv'
<1> SUFFICES ASSUME IInv, [Next]_vars PROVE IInv'
  OBVIOUS
<1>a. /\ TypeOK /\ IndexConsistent /\ SnapshotCoherent /\ SessionsKnown
      /\ OwnNexthops(routes) /\ FeedIsCurrent /\ GlobalFeedMatchesTable
  BY Zenon DEF IInv
<1>c. \A s \in Session : node[s] \in Node /\ s \in Nat /\ s # 0 /\ s \in 0 .. MaxSession
  BY <1>a, ReflectorAssumption DEF TypeOK, Session
<1>1. ASSUME NEW n \in Node, ClaimOrigin(n) PROVE IInv'
  <2> DEFINE t == nextToken + 1
  <2>1. /\ t \in Session /\ t \in 0 .. MaxSession /\ nextToken \in Nat /\ t = nextToken + 1
        /\ nextToken' = t
        /\ origins' = [origins EXCEPT ![n] = t]
        /\ node' = [node EXCEPT ![t] = n]
        /\ phase' = [phase EXCEPT ![t] = "claimed"]
        /\ fenced' = fenced
    BY <1>1, <1>a, ReflectorAssumption DEF ClaimOrigin, TypeOK, Session
  <2> HIDE DEF t
  <2>2. /\ origins' \in [Node -> 0 .. MaxSession] /\ nextToken' \in 0 .. MaxSession
        /\ phase' \in [Session -> {"new", "claimed", "open", "ended"}]
        /\ node' \in [Session -> Node] /\ fenced' \in SUBSET Fence
    BY <1>a, <2>1, Zenon DEF TypeOK
  <2>3. ASSUME \A m \in Node : sinks'[m] \in {0, sinks[m]},
               \A m \in Node, v \in VNI : subscribers'[v][m] \in {0, subscribers[v][m]}
        PROVE  SessionsKnown'
    <3>a. /\ phase \in [Session -> {"new", "claimed", "open", "ended"}]
          /\ node \in [Session -> Node] /\ origins \in [Node -> 0 .. MaxSession]
      BY <1>a, Zenon DEF TypeOK
    <3>b. /\ \A m \in Node : sinks[m] \in 0 .. MaxSession
          /\ \A m \in Node, v \in VNI : subscribers[v][m] \in 0 .. MaxSession
      BY <1>a DEF TypeOK
    <3>1. \A s \in Session : phase'[s] = "new" <=> s > nextToken'
      <4>1. \A s \in Session : phase[s] = "new" <=> s > nextToken
        BY <1>a, Zenon DEF SessionsKnown
      <4> QED
        BY <1>c, <2>1, <3>a, <4>1
    <3>2. \A m \in Node : origins'[m] <= nextToken'
      <4>1. \A m \in Node : origins[m] <= nextToken /\ origins[m] \in Nat
        BY <1>a, <3>a, ReflectorAssumption DEF SessionsKnown
      <4> QED
        BY <2>1, <3>a, <4>1
    <3>3. \A s \in 0 .. MaxSession : s # 0 /\ s <= nextToken
                                       => s <= nextToken' /\ node'[s] = node[s]
      <4>1. \A s \in 0 .. MaxSession : s # 0 => s \in Session /\ s \in Nat
        BY ReflectorAssumption DEF Session
      <4> QED
        BY <2>1, <3>a, <4>1
    <3>4. \A m \in Node : sinks'[m] # 0 => sinks'[m] <= nextToken' /\ node'[sinks'[m]] = m
      <4>1. \A m \in Node : sinks[m] # 0 => sinks[m] <= nextToken /\ node[sinks[m]] = m
        BY <1>a, Zenon DEF SessionsKnown
      <4> QED
        BY <2>3, <3>3, <3>b, <4>1, Zenon
    <3>5. \A m \in Node, v \in VNI :
            subscribers'[v][m] # 0 => /\ subscribers'[v][m] <= nextToken'
                                      /\ node'[subscribers'[v][m]] = m
      <4>1. \A m \in Node, v \in VNI :
              subscribers[v][m] # 0 => /\ subscribers[v][m] <= nextToken
                                       /\ node[subscribers[v][m]] = m
        BY <1>a, Zenon DEF SessionsKnown
      <4> QED
        BY <2>3, <3>3, <3>b, <4>1
    <3> QED
      BY <3>1, <3>2, <3>4, <3>5, Zenon DEF SessionsKnown
  <2>4. CASE origins[n] # 0
    <3>1. /\ sinks' = [sinks EXCEPT ![n] = 0]
          /\ dropOriginLocked(n, [sinks EXCEPT ![n] = 0], {})
      BY <1>1, <2>4, Zenon DEF ClaimOrigin
    <3>2. /\ routes' \in [Key -> [Node -> SUBSET NextHop]]
          /\ byOrigin' \in [Node -> SUBSET Key]
          /\ subscribers' = [v \in VNI |-> [subscribers[v] EXCEPT ![n] = 0]]
          /\ table' \in [GKey -> SUBSET NextHop]
          /\ tableOrigin' \in [GKey -> SUBSET Node]
          /\ tableBy' \in [Node -> SUBSET GKey]
          /\ globalSnap' \in SUBSET [GKey -> SUBSET NextHop]
          /\ behind' \in SUBSET Session
          /\ told' \in [Session -> [Item -> SUBSET NextHop]]
          /\ withheld' \in [Session -> SUBSET Key]
          /\ IndexConsistent' /\ SnapshotCoherent' /\ OwnNexthops(routes')
          /\ FeedIsCurrent' /\ GlobalFeedMatchesTable'
      <4>1. {} \in SUBSET Session /\ fenced' = fenced
        BY <2>1, Zenon
      <4> QED
        BY <3>1, <4>1, DropStep, Zenon
    <3>3. /\ sinks' \in [Node -> 0 .. MaxSession]
          /\ subscribers' \in [VNI -> [Node -> 0 .. MaxSession]]
          /\ \A m \in Node : sinks'[m] \in {0, sinks[m]}
          /\ \A m \in Node, v \in VNI : subscribers'[v][m] \in {0, subscribers[v][m]}
      <4>1. 0 \in 0 .. MaxSession
        BY ReflectorAssumption
      <4> QED
        BY <1>a, <2>1, <3>1, <3>2, <4>1, Zenon DEF TypeOK
    <3>4. TypeOK'
      BY <2>2, <3>2, <3>3, Zenon DEF TypeOK
    <3> QED
      BY NewIInv, <2>3, <3>2, <3>3, <3>4, Zenon
  <2>5. CASE origins[n] = 0
    <3>1. UNCHANGED <<routes, byOrigin, subscribers, table, tableOrigin, tableBy, globalSnap,
                      sinks, behind, told, withheld, fenced>>
      BY <1>1, <2>5, Zenon DEF ClaimOrigin, KeepState, queues
    <3>2. TypeOK'
      BY <1>a, <2>2, <3>1, Zenon DEF TypeOK
    <3>3. IndexConsistent' /\ SnapshotCoherent' /\ GlobalFeedMatchesTable' /\ FeedIsCurrent'
      BY <1>a, <3>1, Zenon DEF IndexConsistent, SnapshotCoherent, GlobalFeedMatchesTable,
         FeedIsCurrent
    <3> QED
      BY <1>a, NewIInv, <2>3, <3>1, <3>2, <3>3, Zenon
  <2> QED
    BY <2>4, <2>5, Zenon
<1>2. ASSUME NEW t \in Session, RegisterSink(t) PROVE IInv'
  <2>1. /\ phase[t] = "claimed" /\ phase' = [phase EXCEPT ![t] = "open"]
        /\ sinks' = [sinks EXCEPT ![node[t]] = t]
        /\ UNCHANGED <<routes, byOrigin, subscribers, fenced, origins, nextToken, table,
                       tableOrigin, tableBy, node>>
    BY <1>2, Zenon DEF RegisterSink
  <2>2. /\ behind' \in SUBSET Session
        /\ told' \in [Session -> [Item -> SUBSET NextHop]]
        /\ withheld' \in [Session -> SUBSET Key]
        /\ globalSnap' = {table}
        /\ FeedIsCurrent' /\ GlobalFeedMatchesTable'
    BY <1>2, RegisterSinkStep, Zenon
  <2>3. /\ sinks' \in [Node -> 0 .. MaxSession]
        /\ phase' \in [Session -> {"new", "claimed", "open", "ended"}]
        /\ globalSnap' \in SUBSET [GKey -> SUBSET NextHop]
    BY <1>a, <1>c, <2>1, <2>2, Zenon DEF TypeOK
  <2>4. TypeOK'
    BY <1>a, <2>1, <2>2, <2>3, Zenon DEF TypeOK
  <2>5. SessionsKnown'
    <3>1. \A s \in Session : phase'[s] = "new" <=> phase[s] = "new"
      BY <1>a, <2>1, Zenon DEF TypeOK
    <3>2. ~(t > nextToken)
      BY <1>a, <2>1, Zenon DEF SessionsKnown
    <3>3. t <= nextToken
      BY <1>a, <1>c, <3>2 DEF TypeOK
    <3>4. \A n \in Node : sinks'[n] # 0 => sinks'[n] <= nextToken /\ node[sinks'[n]] = n
      BY <1>a, <2>1, <3>3, Zenon DEF SessionsKnown, TypeOK
    <3>5. UNCHANGED <<origins, subscribers, nextToken, node>>
      BY <2>1, Zenon
    <3>6. SessionsKnown
      BY <1>a, Zenon
    <3> QED
      BY <3>1, <3>4, <3>5, <3>6, Zenon DEF SessionsKnown
  <2>6. IndexConsistent' /\ SnapshotCoherent'
    BY <1>a, <2>1, <2>2, Zenon DEF IndexConsistent, SnapshotCoherent
  <2> QED
    BY <1>a, NewIInv, <2>1, <2>2, <2>4, <2>5, <2>6, Zenon
<1>3. ASSUME NEW t \in Session, OptOut(t) PROVE IInv'
  <2>1. /\ phase[t] = "claimed" /\ phase' = [phase EXCEPT ![t] = "open"]
        /\ UNCHANGED <<routes, byOrigin, subscribers, origins, table, tableOrigin, tableBy,
                       sinks, fenced, nextToken, globalSnap, node, behind, told, withheld>>
    BY <1>3, Zenon DEF OptOut, rib, queues
  <2>2. /\ phase' \in [Session -> {"new", "claimed", "open", "ended"}]
        /\ \A s \in Session : phase'[s] = "new" <=> phase[s] = "new"
    BY <1>a, <2>1, Zenon DEF TypeOK
  <2>3. TypeOK'
    BY <1>a, <2>1, <2>2, Zenon DEF TypeOK
  <2>4. SessionsKnown'
    BY <1>a, <2>1, <2>2, Zenon DEF SessionsKnown
  <2>5. IndexConsistent' /\ SnapshotCoherent' /\ GlobalFeedMatchesTable' /\ FeedIsCurrent'
    BY <1>a, <2>1, Zenon DEF IndexConsistent, SnapshotCoherent, GlobalFeedMatchesTable, FeedIsCurrent
  <2> QED
    BY <1>a, NewIInv, <2>1, <2>3, <2>4, <2>5, Zenon
<1>4. ASSUME NEW t \in Session, ReleaseOrigin(t) PROVE IInv'
  <2> DEFINE n == node[t]
  <2>1. /\ n \in Node /\ phase[t] = "open" /\ phase' = [phase EXCEPT ![t] = "ended"]
        /\ UNCHANGED <<fenced, nextToken, node>>
    BY <1>4, <1>c, Zenon DEF ReleaseOrigin
  <2>2. /\ phase' \in [Session -> {"new", "claimed", "open", "ended"}]
        /\ \A s \in Session : phase'[s] = "new" <=> phase[s] = "new"
    BY <1>a, <2>1, Zenon DEF TypeOK
  <2>3. ASSUME \A m \in Node : origins'[m] \in {0, origins[m]},
               \A m \in Node : sinks'[m] \in {0, sinks[m]},
               \A m \in Node, v \in VNI : subscribers'[v][m] \in {0, subscribers[v][m]}
        PROVE  SessionsKnown'
    <3>1. /\ \A s \in Session : phase'[s] = "new" <=> s > nextToken
          /\ \A m \in Node : origins[m] <= nextToken /\ 0 <= nextToken
      BY <1>a, <2>2, ReflectorAssumption DEF SessionsKnown, TypeOK
    <3>2. \A m \in Node : sinks'[m] # 0 => sinks'[m] <= nextToken /\ node[sinks'[m]] = m
      BY <1>a, <2>3, Zenon DEF SessionsKnown
    <3>3. \A m \in Node, v \in VNI :
            subscribers'[v][m] # 0 => /\ subscribers'[v][m] <= nextToken
                                      /\ node[subscribers'[v][m]] = m
      BY <1>a, <2>3 DEF SessionsKnown
    <3>4. \A m \in Node : origins'[m] <= nextToken
      BY <2>3, <3>1, Zenon
    <3> QED
      BY <2>1, <3>1, <3>2, <3>3, <3>4, Zenon DEF SessionsKnown
  <2> HIDE DEF n
  <2>4. CASE origins[n] = t
    <3>1. /\ sinks' = [sinks EXCEPT ![n] = 0] /\ origins' = [origins EXCEPT ![n] = 0]
          /\ dropOriginLocked(n, [sinks EXCEPT ![n] = 0], {t})
      BY <1>4, <2>4, Zenon DEF ReleaseOrigin, n
    <3>2. /\ routes' \in [Key -> [Node -> SUBSET NextHop]]
          /\ byOrigin' \in [Node -> SUBSET Key]
          /\ subscribers' = [v \in VNI |-> [subscribers[v] EXCEPT ![n] = 0]]
          /\ table' \in [GKey -> SUBSET NextHop]
          /\ tableOrigin' \in [GKey -> SUBSET Node]
          /\ tableBy' \in [Node -> SUBSET GKey]
          /\ globalSnap' \in SUBSET [GKey -> SUBSET NextHop]
          /\ behind' \in SUBSET Session
          /\ told' \in [Session -> [Item -> SUBSET NextHop]]
          /\ withheld' \in [Session -> SUBSET Key]
          /\ IndexConsistent' /\ SnapshotCoherent' /\ OwnNexthops(routes')
          /\ FeedIsCurrent' /\ GlobalFeedMatchesTable'
      BY <2>1, <3>1, DropStep, Zenon
    <3>3. 0 \in 0 .. MaxSession
      BY ReflectorAssumption
    <3>4. /\ sinks' \in [Node -> 0 .. MaxSession] /\ origins' \in [Node -> 0 .. MaxSession]
          /\ subscribers' \in [VNI -> [Node -> 0 .. MaxSession]]
          /\ \A m \in Node : sinks'[m] \in {0, sinks[m]} /\ origins'[m] \in {0, origins[m]}
          /\ \A m \in Node, v \in VNI : subscribers'[v][m] \in {0, subscribers[v][m]}
      BY <1>a, <2>1, <3>1, <3>2, <3>3, Zenon DEF TypeOK
    <3>5. TypeOK'
      BY <1>a, <2>1, <2>2, <3>2, <3>4, Zenon DEF TypeOK
    <3> QED
      BY NewIInv, <2>3, <3>2, <3>4, <3>5, Zenon
  <2>5. CASE origins[n] # t
    <3>1. /\ closeQueue(t)
          /\ UNCHANGED <<routes, byOrigin, subscribers, table, tableOrigin, tableBy,
                         globalSnap, sinks, origins, fenced>>
      BY <1>4, <2>5, Zenon DEF ReleaseOrigin, KeepState, n
    <3>2. /\ behind' \in SUBSET Session
          /\ told' \in [Session -> [Item -> SUBSET NextHop]]
          /\ withheld' \in [Session -> SUBSET Key]
          /\ FeedIsCurrent' /\ GlobalFeedMatchesTable'
      BY <3>1, CloseStep, Zenon
    <3>3. TypeOK'
      BY <1>a, <2>1, <2>2, <3>1, <3>2, Zenon DEF TypeOK
    <3>4. IndexConsistent' /\ SnapshotCoherent' /\ SessionsKnown'
      BY <1>a, <2>3, <3>1, Zenon DEF IndexConsistent, SnapshotCoherent
    <3> QED
      BY <1>a, NewIInv, <3>1, <3>2, <3>3, <3>4, Zenon
  <2> QED
    BY <2>4, <2>5, Zenon
<1>5. ASSUME NEW t \in Session, FallBehind(t) PROVE IInv'
  <2>1. /\ closeQueue(t)
        /\ UNCHANGED <<routes, byOrigin, subscribers, origins, table, tableOrigin, tableBy,
                       sinks, fenced, nextToken, globalSnap, phase, node>>
    BY <1>5, Zenon DEF FallBehind, rib
  <2>2. /\ behind' \in SUBSET Session
        /\ told' \in [Session -> [Item -> SUBSET NextHop]]
        /\ withheld' \in [Session -> SUBSET Key]
        /\ FeedIsCurrent' /\ GlobalFeedMatchesTable'
    BY <2>1, CloseStep, Zenon
  <2>3. TypeOK'
    BY <1>a, <2>1, <2>2, Zenon DEF TypeOK
  <2>4. IndexConsistent' /\ SnapshotCoherent' /\ SessionsKnown'
    BY <1>a, SessionsKept, <2>1, Zenon DEF IndexConsistent, SnapshotCoherent
  <2> QED
    BY <1>a, NewIInv, <2>1, <2>2, <2>3, <2>4, Zenon
<1>6. ASSUME NEW t \in Session, NEW w \in VNI, Subscribe(t, w) PROVE IInv'
  <2>1. /\ phase[t] = "open"
        /\ subscribers' = [subscribers EXCEPT ![w] = [@ EXCEPT ![node[t]] = t]]
        /\ UNCHANGED <<routes, byOrigin, origins, table, tableOrigin, tableBy, sinks, fenced,
                       nextToken, globalSnap, phase, node>>
    BY <1>6, Zenon DEF Subscribe
  <2>2. /\ behind' \in SUBSET Session
        /\ told' \in [Session -> [Item -> SUBSET NextHop]]
        /\ withheld' \in [Session -> SUBSET Key]
        /\ FeedIsCurrent' /\ GlobalFeedMatchesTable'
    BY <1>6, SubscribeStep, Zenon
  <2>3. subscribers' \in [VNI -> [Node -> 0 .. MaxSession]]
    BY <1>a, <1>c, <2>1, Zenon DEF TypeOK
  <2>4. TypeOK'
    BY <1>a, <2>1, <2>2, <2>3, Zenon DEF TypeOK
  <2>5. SessionsKnown'
    <3>1. ~(t > nextToken)
      BY <1>a, <2>1, Zenon DEF SessionsKnown
    <3>2. t <= nextToken
      BY <1>a, <1>c, <3>1 DEF TypeOK
    <3>3. \A n \in Node, v \in VNI :
            subscribers'[v][n] = IF v = w /\ n = node[t] THEN t ELSE subscribers[v][n]
      BY <1>a, <2>1, Zenon DEF TypeOK
    <3> QED
      BY <1>a, <2>1, <3>2, <3>3 DEF SessionsKnown
  <2>6. IndexConsistent' /\ SnapshotCoherent'
    BY <1>a, <2>1, Zenon DEF IndexConsistent, SnapshotCoherent
  <2> QED
    BY <1>a, NewIInv, <2>1, <2>2, <2>4, <2>5, <2>6, Zenon
<1>7. ASSUME NEW t \in Session, NEW w \in VNI, Unsubscribe(t, w) PROVE IInv'
  <2>1. /\ subscribers' = [subscribers EXCEPT ![w] = [@ EXCEPT ![node[t]] = 0]]
        /\ UNCHANGED <<routes, byOrigin, origins, table, tableOrigin, tableBy, sinks, fenced,
                       nextToken, globalSnap, phase, node, behind, told, withheld>>
    BY <1>7, Zenon DEF Unsubscribe, queues
  <2>2. \A n \in Node, v \in VNI : subscribers'[v][n] \in {0, subscribers[v][n]}
    BY <1>a, <2>1, Zenon DEF TypeOK
  <2>3. 0 \in 0 .. MaxSession
    BY ReflectorAssumption
  <2>4. subscribers' \in [VNI -> [Node -> 0 .. MaxSession]]
    BY <1>a, <1>c, <2>1, <2>3, Zenon DEF TypeOK
  <2>5. TypeOK'
    BY <1>a, <2>1, <2>4, Zenon DEF TypeOK
  <2>6. SessionsKnown' /\ IndexConsistent' /\ SnapshotCoherent' /\ GlobalFeedMatchesTable'
    BY <1>a, SessionsKept, <2>1, <2>2, Zenon DEF IndexConsistent, SnapshotCoherent, GlobalFeedMatchesTable
  <2>7. FeedIsCurrent'
    <3>1. \A n \in Node, v \in VNI :
            subscribers'[v][n] \in Session => subscribers'[v][n] = subscribers[v][n]
      BY <1>c, <2>2, Zenon
    <3>2. UNCHANGED <<routes, fenced, behind, told, withheld>>
      BY <2>1, Zenon
    <3> QED
      BY <1>a, <3>1, <3>2, Zenon DEF FeedIsCurrent
  <2> QED
    BY <1>a, NewIInv, <2>1, <2>5, <2>6, <2>7, Zenon
<1>8. ASSUME NEW t \in Session, NEW k \in Key, NEW nhs \in SUBSET NextHop, Announce(t, k, nhs)
      PROVE  IInv'
  <2>1. /\ node[t] \in Node /\ nhs # {} /\ \A nh \in nhs : Owner[nh] = node[t]
        /\ StoreRoute([routes EXCEPT ![k] = [@ EXCEPT ![node[t]] = nhs]],
                      [byOrigin EXCEPT ![node[t]] = @ \cup {k}], {node[t]})
    BY <1>8, <1>c, Zenon DEF Announce
  <2>2. StoreRoute([routes EXCEPT ![k] = [@ EXCEPT ![node[t]] = nhs]],
                   [byOrigin EXCEPT ![node[t]] = IF nhs = {} THEN @ \ {k} ELSE @ \cup {k}],
                   {node[t]})
    BY <2>1, Zenon
  <2> QED
    BY StoreRouteStep, <2>1, <2>2, Zenon
<1>9. ASSUME NEW t \in Session, NEW k \in Key, Withdraw(t, k) PROVE IInv'
  <2>1. /\ node[t] \in Node
        /\ StoreRoute([routes EXCEPT ![k] = [@ EXCEPT ![node[t]] = {}]],
                      [byOrigin EXCEPT ![node[t]] = @ \ {k}], {})
    BY <1>9, <1>c, Zenon DEF Withdraw
  <2> DEFINE none == {}
  <2>2. StoreRoute([routes EXCEPT ![k] = [@ EXCEPT ![node[t]] = none]],
                   [byOrigin EXCEPT ![node[t]] = IF none = {} THEN @ \ {k} ELSE @ \cup {k}], {})
    BY <2>1, Zenon
  <2>3. /\ none \in SUBSET NextHop /\ \A nh \in none : Owner[nh] = node[t]
        /\ {} \in {{}, {node[t]}} /\ node[t] \in Node
    BY <2>1, Zenon
  <2> HIDE DEF none
  <2> QED
    BY StoreRouteStep, <2>2, <2>3, Zenon
<1>10. ASSUME NEW t \in Session, NEW g \in GKey, NEW nh \in NextHop, AnnounceRecord(t, g, nh)
       PROVE  IInv'
  <2> DEFINE n == node[t]
             tb == [table EXCEPT ![g] = {nh}]
             org == [tableOrigin EXCEPT ![g] = {n}]
             by == [m \in Node |-> IF m = n THEN tableBy[m] \cup {g}
                                   ELSE IF m \in tableOrigin[g] THEN tableBy[m] \ {g}
                                   ELSE tableBy[m]]
  <2>1. n \in Node /\ StoreRecord(tb, org, by, g)
    BY <1>10, <1>c, Zenon DEF AnnounceRecord
  <2> HIDE DEF n
  <2>2. /\ tb \in [GKey -> SUBSET NextHop] /\ org \in [GKey -> SUBSET Node]
        /\ by \in [Node -> SUBSET GKey]
    BY <1>a, <2>1, Zenon DEF TypeOK
  <2>3. /\ \A h \in GKey : tb[h] = IF h = g THEN {nh} ELSE table[h]
        /\ \A h \in GKey : org[h] = IF h = g THEN {n} ELSE tableOrigin[h]
    BY <1>a, Zenon DEF TypeOK
  <2>4. \A m \in Node : by[m] = {h \in GKey : org[h] = {m}}
    <3>1. ASSUME NEW m \in Node, NEW h \in GKey
          PROVE  h \in by[m] <=> org[h] = {m}
      <4>1. h \in tableBy[m] <=> tableOrigin[h] = {m}
        BY <1>a DEF IndexConsistent
      <4>2. h = g => (org[h] = {m} <=> m = n)
        BY <2>1, <2>3
      <4>3. h = g => (h \in by[m] <=> m = n)
        BY <2>1, <4>1, Zenon
      <4>4. h # g => (h \in by[m] <=> h \in tableBy[m])
        OBVIOUS
      <4> QED
        BY <2>3, <4>1, <4>2, <4>3, <4>4, ZenonT(30)
    <3> HIDE DEF org, by
    <3> QED
      BY <2>2, <3>1, Zenon
  <2> HIDE DEF tb, org, by
  <2>5. RecordsIndexed(tb, org, by)
    <3>1. \A h \in GKey : org[h] = {} <=> tb[h] = {}
      BY <1>a, <2>3, Zenon DEF IndexConsistent
    <3> QED
      BY <2>4, <3>1, Zenon DEF RecordsIndexed
  <2>6. \A h \in GKey \ {g} : tb[h] = table[h]
    BY <2>3, Zenon
  <2> QED
    BY <2>1, <2>2, <2>5, <2>6, StoreRecordStep, Zenon
<1>11. ASSUME NEW t \in Session, NEW g \in GKey, WithdrawRecord(t, g) PROVE IInv'
  <2> DEFINE n == node[t]
             tb == [table EXCEPT ![g] = {}]
             org == [tableOrigin EXCEPT ![g] = {}]
             by == [tableBy EXCEPT ![n] = @ \ {g}]
  <2>1. n \in Node /\ tableOrigin[g] = {n} /\ StoreRecord(tb, org, by, g)
    BY <1>11, <1>c, Zenon DEF WithdrawRecord
  <2> HIDE DEF n
  <2>2. /\ tb \in [GKey -> SUBSET NextHop] /\ org \in [GKey -> SUBSET Node]
        /\ by \in [Node -> SUBSET GKey]
    BY <1>a, <2>1, Zenon DEF TypeOK
  <2>3. /\ \A h \in GKey : tb[h] = IF h = g THEN {} ELSE table[h]
        /\ \A h \in GKey : org[h] = IF h = g THEN {} ELSE tableOrigin[h]
        /\ \A m \in Node : by[m] = IF m = n THEN tableBy[m] \ {g} ELSE tableBy[m]
    BY <1>a, Zenon DEF TypeOK
  <2> HIDE DEF tb, org, by
  <2>4. \A m \in Node : by[m] = {h \in GKey : org[h] = {m}}
    <3>1. ASSUME NEW m \in Node, NEW h \in GKey
          PROVE  h \in by[m] <=> org[h] = {m}
      <4>1. h \in tableBy[m] <=> tableOrigin[h] = {m}
        BY <1>a DEF IndexConsistent
      <4>2. {} # {m} /\ ({m} = {n} => m = n)
        OBVIOUS
      <4> QED
        BY <2>1, <2>3, <4>1, <4>2, Zenon
    <3> QED
      BY <2>2, <3>1, Zenon
  <2>5. RecordsIndexed(tb, org, by)
    BY <1>a, <2>3, <2>4, Zenon DEF IndexConsistent, RecordsIndexed
  <2>6. \A h \in GKey \ {g} : tb[h] = table[h]
    BY <2>3, Zenon
  <2> QED
    BY <2>1, <2>2, <2>5, <2>6, StoreRecordStep, Zenon
<1>12. ASSUME NEW fs \in SUBSET Fence, refilter(fs) PROVE IInv'
  <2>1. /\ fenced' = fs
        /\ UNCHANGED <<routes, byOrigin, subscribers, origins, table, tableOrigin, tableBy,
                       sinks, nextToken, globalSnap, phase, node>>
    BY <1>12, Zenon DEF refilter, rib
  <2>2. /\ behind' \in SUBSET Session
        /\ told' \in [Session -> [Item -> SUBSET NextHop]]
        /\ withheld' \in [Session -> SUBSET Key]
        /\ FeedIsCurrent' /\ GlobalFeedMatchesTable'
    BY <1>12, RefilterStep, Zenon
  <2>3. TypeOK'
    BY <1>a, <2>1, <2>2, Zenon DEF TypeOK
  <2>4. IndexConsistent' /\ SnapshotCoherent' /\ SessionsKnown'
    BY <1>a, SessionsKept, <2>1, Zenon DEF IndexConsistent, SnapshotCoherent
  <2> QED
    BY <1>a, NewIInv, <2>1, <2>2, <2>3, <2>4, Zenon
<1>13. ASSUME NEW f \in Fence, SetFence(f) \/ ClearFence(f) PROVE IInv'
  <2>1. fenced \cup {f} \in SUBSET Fence /\ fenced \ {f} \in SUBSET Fence
    BY <1>a, Zenon DEF TypeOK
  <2> QED
    BY <1>12, <1>13, <2>1, Zenon DEF SetFence, ClearFence
<1>14. CASE UNCHANGED vars
  <2>1. UNCHANGED <<routes, byOrigin, subscribers, origins, table, tableOrigin, tableBy, sinks,
                    fenced, nextToken, globalSnap, phase, node, behind, told, withheld>>
    BY <1>14, Zenon DEF vars, rib, queues
  <2>2. TypeOK'
    BY <1>a, <2>1, Zenon DEF TypeOK
  <2>3. IndexConsistent' /\ SnapshotCoherent' /\ SessionsKnown'
    BY <1>a, SessionsKept, <2>1, Zenon DEF IndexConsistent, SnapshotCoherent
  <2>4. FeedIsCurrent' /\ GlobalFeedMatchesTable'
    BY <1>a, <2>1, Zenon DEF FeedIsCurrent, GlobalFeedMatchesTable
  <2> QED
    BY <1>a, NewIInv, <2>1, <2>2, <2>3, <2>4, Zenon
<1> QED
  BY <1>1, <1>2, <1>3, <1>4, <1>5, <1>6, <1>7, <1>8, <1>9, <1>10, <1>11, <1>13, <1>14, ZenonT(30)
     DEF Next, AnnounceNat, AnnouncePublic, WithdrawNat, WithdrawPublic

\* The inductive invariant holds in every state.
LEMMA IInvHolds == Spec => []IInv
BY InitIInv, StepIInv, PTL DEF Spec

-----------------------------------------------------------------------------
(* The results *)

\* The RIB's maps, indexes and queues keep their types: in particular every token and sink names
\* one of the sessions that were started.
THEOREM TypeCorrect == Spec => []TypeOK
<1>1. IInv => TypeOK
  BY Zenon DEF IInv
<1> QED
  BY <1>1, IInvHolds, PTL

\* The ownership indexes list exactly what each node originates, so that dropOriginLocked
\* withdraws all of it and nothing that another node has taken over.
THEOREM IndexConsistentHolds == Spec => []IndexConsistent
<1>1. IInv => IndexConsistent
  BY Zenon DEF IInv
<1> QED
  BY <1>1, IInvHolds, PTL

\* The replay cached for reconnecting edges is nil or the current tables.
THEOREM SnapshotCoherentHolds == Spec => []SnapshotCoherent
<1>1. IInv => SnapshotCoherent
  BY Zenon DEF IInv
<1> QED
  BY <1>1, IInvHolds, PTL

\* A subscriber that never fell behind has the advertised nexthops of every key it does not
\* originate, but for the fence changes refilter keeps from a key's origins.
THEOREM FeedMatchesTableHolds == Spec => []FeedMatchesTable
<1>1. IInv => FeedMatchesTable
  BY DEF IInv, FeedIsCurrent, FeedMatchesTable, Current
<1> QED
  BY <1>1, IInvHolds, PTL

\* A session on the global feed that never fell behind has the NAT and public tables exactly.
THEOREM GlobalFeedMatchesTableHolds == Spec => []GlobalFeedMatchesTable
<1>1. IInv => GlobalFeedMatchesTable
  BY Zenon DEF IInv
<1> QED
  BY <1>1, IInvHolds, PTL

\* Only a session's Hello and its end move sessions and tokens.
LEMMA LifeSteps ==
  ASSUME Next
  PROVE  \/ \E n \in Node : ClaimOrigin(n)
         \/ \E s \in Session : ReleaseOrigin(s)
         \/ \E s \in Session : RegisterSink(s) \/ OptOut(s)
         \/ UNCHANGED phase /\ UNCHANGED origins
<1>1. ASSUME NEW s \in Session, FallBehind(s) PROVE UNCHANGED phase /\ UNCHANGED origins
  BY <1>1, Zenon DEF FallBehind, rib
<1>2. ASSUME NEW s \in Session, NEW v \in VNI, Subscribe(s, v) \/ Unsubscribe(s, v)
      PROVE  UNCHANGED phase /\ UNCHANGED origins
  BY <1>2, Zenon DEF Subscribe, Unsubscribe
<1>3. ASSUME NEW s \in Session, NEW k \in Key,
             Withdraw(s, k) \/ \E nhs \in SUBSET NextHop : Announce(s, k, nhs)
      PROVE  UNCHANGED phase /\ UNCHANGED origins
  BY <1>3, Zenon DEF Withdraw, Announce, StoreRoute
<1>4. ASSUME NEW s \in Session, NEW g \in GKey,
             WithdrawRecord(s, g) \/ \E nh \in NextHop : AnnounceRecord(s, g, nh)
      PROVE  UNCHANGED phase /\ UNCHANGED origins
  BY <1>4, Zenon DEF WithdrawRecord, AnnounceRecord, StoreRecord
<1>5. ASSUME NEW f \in Fence, SetFence(f) \/ ClearFence(f)
      PROVE  UNCHANGED phase /\ UNCHANGED origins
  BY <1>5, Zenon DEF SetFence, ClearFence, refilter, rib
<1> QED
  BY <1>1, <1>2, <1>3, <1>4, <1>5, Zenon
     DEF Next, AnnounceNat, AnnouncePublic, WithdrawNat, WithdrawPublic

\* The cleanup of a superseded session checks its token (ReleaseOrigin) and touches nothing.
THEOREM StaleCleanupInertHolds == Spec => StaleCleanupInert
<1> DEFINE Inert == \A s \in Session : /\ phase[s] = "open" /\ phase'[s] = "ended"
                                       /\ origins[node[s]] # s
                                       => UNCHANGED <<rib, fenced>>
<1>1. ASSUME IInv, Next PROVE Inert
  <2> SUFFICES ASSUME NEW s \in Session, phase[s] = "open", phase'[s] = "ended",
                      origins[node[s]] # s
               PROVE  UNCHANGED <<rib, fenced>>
    OBVIOUS
  <2>1. phase \in [Session -> {"new", "claimed", "open", "ended"}]
    BY <1>1, Zenon DEF IInv, TypeOK
  <2>2. ASSUME NEW t \in Session, ReleaseOrigin(t) PROVE UNCHANGED <<rib, fenced>>
    <3>1. t = s
      BY <2>1, <2>2, Zenon DEF ReleaseOrigin
    <3> QED
      BY <2>2, <3>1, Zenon DEF ReleaseOrigin, KeepState, rib
  <2>3. ASSUME NEW n \in Node, ClaimOrigin(n) PROVE FALSE
    BY <2>1, <2>3, Zenon DEF ClaimOrigin
  <2>4. ASSUME NEW t \in Session, RegisterSink(t) \/ OptOut(t) PROVE FALSE
    BY <2>1, <2>4, Zenon DEF RegisterSink, OptOut
  <2>5. ~UNCHANGED phase
    OBVIOUS
  <2> QED
    BY <1>1, <2>2, <2>3, <2>4, <2>5, LifeSteps, Zenon
<1>2. IInv /\ [Next]_vars => [Inert]_vars
  BY <1>1, Zenon
<1> QED
  BY <1>2, IInvHolds, PTL DEF StaleCleanupInert, Spec

\* A session's end, or a claim of its node id, withdraws no record another node has taken over
\* (natByOrigin, publicByOrigin and the origin check of dropOriginNat and dropOriginPublic).
THEOREM TakeoverSurvivesHolds == Spec => TakeoverSurvives
<1> DEFINE Survives == \A g \in GKey, n \in Node :
                         (tableOrigin[g] = {n} /\ tableOrigin'[g] = {} /\ origins' # origins)
                           => origins'[n] # origins[n]
<1>1. ASSUME IInv, Next PROVE Survives
  <2> SUFFICES ASSUME NEW g \in GKey, NEW n \in Node, tableOrigin[g] = {n},
                      tableOrigin'[g] = {}, origins' # origins
               PROVE  origins'[n] # origins[n]
    OBVIOUS
  <2>1. TypeOK /\ SessionsKnown
    BY <1>1, Zenon DEF IInv
  <2>2. ASSUME NEW m \in Node, NEW sk, NEW over, dropOriginLocked(m, sk, over) PROVE m = n
    <3>1. g \in RecordsOf(m)
      BY <2>2, Zenon DEF dropOriginLocked
    <3> QED
      BY <3>1, Zenon DEF RecordsOf
  <2>3. ASSUME NEW m \in Node, ClaimOrigin(m) PROVE origins'[n] # origins[n]
    <3>1. m = n
      <4>1. tableOrigin' # tableOrigin
        OBVIOUS
      <4>2. dropOriginLocked(m, [sinks EXCEPT ![m] = 0], {})
        BY <2>3, <4>1, Zenon DEF ClaimOrigin, KeepState
      <4> QED
        BY <2>2, <4>2, Zenon
    <3>2. origins'[n] = nextToken + 1
      <4>1. origins \in [Node -> 0 .. MaxSession]
        BY <2>1, Zenon DEF TypeOK
      <4>2. origins' = [origins EXCEPT ![m] = nextToken + 1]
        BY <2>3, Zenon DEF ClaimOrigin
      <4> QED
        BY <3>1, <4>1, <4>2, Zenon
    <3>3. origins[n] <= nextToken /\ origins[n] \in Int /\ nextToken \in Int
      <4>1. origins \in [Node -> 0 .. MaxSession] /\ nextToken \in 0 .. MaxSession
        BY <2>1, Zenon DEF TypeOK
      <4>2. origins[n] <= nextToken
        BY <2>1, Zenon DEF SessionsKnown
      <4> QED
        BY <4>1, <4>2
    <3> QED
      BY <3>2, <3>3
  <2>4. ASSUME NEW s \in Session, ReleaseOrigin(s) PROVE origins'[n] # origins[n]
    <3>1. /\ origins[node[s]] = s /\ origins' = [origins EXCEPT ![node[s]] = 0]
          /\ dropOriginLocked(node[s], [sinks EXCEPT ![node[s]] = 0], {s})
      BY <2>4, Zenon DEF ReleaseOrigin
    <3>2. node[s] = n
      <4>1. node[s] \in Node
        BY <2>1, Zenon DEF TypeOK
      <4> QED
        BY <2>2, <3>1, <4>1, Zenon
    <3> QED
      BY <2>1, <3>1, <3>2, Zenon DEF TypeOK, Session
  <2>5. ASSUME NEW s \in Session, RegisterSink(s) \/ OptOut(s) PROVE FALSE
    BY <2>5, Zenon DEF RegisterSink, OptOut, rib
  <2> QED
    BY <1>1, <2>3, <2>4, <2>5, LifeSteps, Zenon
<1>2. IInv /\ [Next]_vars => [Survives]_vars
  BY <1>1, Zenon
<1> QED
  BY <1>2, IInvHolds, PTL DEF TakeoverSurvives, Spec

-----------------------------------------------------------------------------
(***************************************************************************)
(* Proofs about SessionQueue, for any cap, snapshot length and number of   *)
(* messages: nothing accepted is lost, duplicated or reordered, the delta  *)
(* counter counts the live deltas queued and keeps to the cap, and the     *)
(* drain never sleeps through a notification.                              *)
(*                                                                         *)
(* What makes the two invariants inductive is where the drain is: it holds *)
(* a batch exactly while it sends (so that taking the queue overwrites     *)
(* nothing), and a queue that is open has its Recv loop running (so that a *)
(* drain that goes to sleep on an open queue will still be notified).      *)
(***************************************************************************)

BatchWithSender ==
  /\ drain = "send" => batch # <<>>
  /\ drain \in {"take", "wait"} => batch = <<>>

ClosedByReceiver == session # "recv" => closed

QueueInv == QueueTypeOK /\ BatchWithSender /\ ClosedByReceiver /\ DeltasCounted /\ InOrder /\ NoLostWakeup

-----------------------------------------------------------------------------
\* The ids of a sequence of messages are a sequence of the same length.
LEMMA IdsType ==
  ASSUME NEW ms \in Seq(Message)
  PROVE  /\ Ids(ms) \in Seq(Nat) /\ Len(Ids(ms)) = Len(ms)
         /\ \A i \in 1 .. Len(ms) : Ids(ms)[i] = ms[i].id
<1>1. Len(ms) \in Nat
  OBVIOUS
<1>2. ASSUME NEW i \in 1 .. Len(ms) PROVE ms[i].id \in Nat
  <2>1. ms[i] \in Message
    BY <1>1
  <2> QED
    BY <2>1, Zenon DEF Message
<1>3. Ids(ms) \in [1 .. Len(ms) -> Nat]
  BY <1>2, Zenon DEF Ids
<1> QED
  BY <1>1, <1>3 DEF Ids

\* The ids of a concatenation are the concatenation of the ids.
LEMMA IdsConcat ==
  ASSUME NEW s \in Seq(Message), NEW t \in Seq(Message)
  PROVE  Ids(s \o t) = Ids(s) \o Ids(t)
<1>1. /\ s \o t \in Seq(Message) /\ Len(s \o t) = Len(s) + Len(t)
      /\ Len(s) \in Nat /\ Len(t) \in Nat
  OBVIOUS
<1>2. /\ Ids(s) \in Seq(Nat) /\ Len(Ids(s)) = Len(s)
      /\ Ids(t) \in Seq(Nat) /\ Len(Ids(t)) = Len(t)
  BY IdsType, Zenon
<1>3. Ids(s \o t) \in Seq(Nat) /\ Len(Ids(s \o t)) = Len(s) + Len(t)
  <2>1. Ids(s \o t) \in Seq(Nat) /\ Len(Ids(s \o t)) = Len(s \o t)
    BY <1>1, IdsType, Zenon
  <2> QED
    BY <1>1, <2>1, Zenon
<1>4. Ids(s) \o Ids(t) \in Seq(Nat) /\ Len(Ids(s) \o Ids(t)) = Len(s) + Len(t)
  <2>1. Ids(s) \o Ids(t) \in Seq(Nat) /\ Len(Ids(s) \o Ids(t)) = Len(Ids(s)) + Len(Ids(t))
    BY <1>2, ConcatProperties, Zenon
  <2> QED
    BY <1>2, <2>1, Zenon
<1>5. ASSUME NEW i \in 1 .. Len(s) + Len(t) PROVE Ids(s \o t)[i] = (Ids(s) \o Ids(t))[i]
  <2>1. Ids(s \o t)[i] = (s \o t)[i].id
    BY <1>1, IdsType, Zenon
  <2>2. CASE i <= Len(s)
    <3>1. i \in 1 .. Len(s)
      BY <1>1, <2>2
    <3>2. (s \o t)[i] = s[i] /\ (Ids(s) \o Ids(t))[i] = Ids(s)[i]
      BY <1>2, <3>1
    <3> QED
      BY <2>1, <3>1, <3>2, IdsType, Zenon
  <2>3. CASE ~(i <= Len(s))
    <3>1. i - Len(s) \in 1 .. Len(t)
      BY <1>1, <2>3
    <3>2. (s \o t)[i] = t[i - Len(s)] /\ (Ids(s) \o Ids(t))[i] = Ids(t)[i - Len(s)]
      BY <1>1, <1>2, <2>3
    <3> QED
      BY <2>1, <3>1, <3>2, IdsType, Zenon
  <2> QED
    BY <2>2, <2>3, Zenon
<1> QED
  BY <1>3, <1>4, <1>5, SeqEqual, Zenon

\* A batch's ids are its first message's, then the rest's.
LEMMA IdsHeadTail ==
  ASSUME NEW s \in Seq(Message), s # <<>>
  PROVE  Ids(s) = <<Head(s).id>> \o Ids(Tail(s))
<1>1. Head(s) \in Message /\ Tail(s) \in Seq(Message) /\ <<Head(s)>> \in Seq(Message)
  OBVIOUS
<1>2. s = <<Head(s)>> \o Tail(s)
  OBVIOUS
<1>3. Ids(<<Head(s)>>) = <<Head(s).id>>
  <2>1. Len(<<Head(s)>>) = 1 /\ <<Head(s)>>[1] = Head(s)
    OBVIOUS
  <2> QED
    BY <2>1 DEF Ids
<1>4. Ids(<<Head(s)>> \o Tail(s)) = Ids(<<Head(s)>>) \o Ids(Tail(s))
  BY <1>1, IdsConcat, Zenon
<1> QED
  BY <1>2, <1>3, <1>4, Zenon

\* Sequences of ids may be bracketed either way.
LEMMA IdsAssociative ==
  ASSUME NEW a \in Seq(Nat), NEW b \in Seq(Nat), NEW c \in Seq(Nat)
  PROVE  a \o (b \o c) = (a \o b) \o c
<1> DEFINE l == a \o (b \o c)
          r == (a \o b) \o c
<1>1. Len(a) \in Nat /\ Len(b) \in Nat /\ Len(c) \in Nat
  OBVIOUS
<1>2. a \o b \in Seq(Nat) /\ Len(a \o b) = Len(a) + Len(b)
  BY ConcatProperties, Zenon
<1>3. b \o c \in Seq(Nat) /\ Len(b \o c) = Len(b) + Len(c)
  BY ConcatProperties, Zenon
<1>4. l \in Seq(Nat) /\ Len(l) = Len(a) + Len(b) + Len(c)
  <2>1. l \in Seq(Nat) /\ Len(l) = Len(a) + Len(b \o c)
    BY <1>3, ConcatProperties, Zenon
  <2> QED
    BY <1>1, <1>3, <2>1
<1>5. r \in Seq(Nat) /\ Len(r) = Len(a) + Len(b) + Len(c)
  <2>1. r \in Seq(Nat) /\ Len(r) = Len(a \o b) + Len(c)
    BY <1>2, ConcatProperties, Zenon
  <2> QED
    BY <1>1, <1>2, <2>1, Zenon
<1>6. ASSUME NEW i \in 1 .. Len(a) + Len(b) + Len(c) PROVE l[i] = r[i]
  <2>1. CASE i <= Len(a)
    BY <1>1, <1>2, <1>3, <2>1
  <2>2. CASE Len(a) < i /\ i <= Len(a) + Len(b)
    BY <1>1, <1>2, <1>3, <2>2
  <2>3. CASE Len(a) + Len(b) < i
    <3>1. l[i] = (b \o c)[i - Len(a)] /\ (b \o c)[i - Len(a)] = c[i - Len(a) - Len(b)]
      BY <1>1, <1>3, <2>3
    <3>2. r[i] = c[i - (Len(a) + Len(b))]
      BY <1>1, <1>2, <2>3
    <3>3. i - Len(a) - Len(b) = i - (Len(a) + Len(b))
      BY <1>1
    <3> QED
      BY <3>1, <3>2, <3>3, Zenon
  <2> QED
    BY <1>1, <2>1, <2>2, <2>3
<1> HIDE DEF l, r
<1>7. l = r
  BY <1>4, <1>5, <1>6, SeqEqual, Zenon
<1> QED
  BY <1>7, Zenon DEF l, r

-----------------------------------------------------------------------------
\* A snapshot's messages, as SendSnapshot makes them, are messages.
LEMMA SnapshotType ==
  ASSUME NEW n \in Nat
  PROVE  [i \in 1 .. SnapLen |-> [id |-> n + i, live |-> FALSE]] \in Seq(Message)
<1>1. SnapLen \in Nat
  BY SessionQueueAssumption, Zenon
<1>2. ASSUME NEW i \in 1 .. SnapLen PROVE [id |-> n + i, live |-> FALSE] \in Message
  BY <1>1 DEF Message
<1> QED
  BY <1>1, <1>2

\* Every step keeps the types.
LEMMA QueueTypeStep ==
  ASSUME QueueTypeOK, BatchWithSender, QueueNext
  PROVE  QueueTypeOK'
<1> USE DEF QueueTypeOK
<1>1. CASE Send
  <2>1. [id |-> sentTo + 1, live |-> TRUE] \in Message
    BY DEF Message
  <2>2. CASE closed
    BY <1>1, <2>2 DEF Send
  <2>3. CASE ~closed /\ deltas >= MaxPendingDeltas
    BY <1>1, <2>3 DEF Send
  <2>4. CASE ~closed /\ ~(deltas >= MaxPendingDeltas)
    <3>1. /\ pending' = Append(pending, [id |-> sentTo + 1, live |-> TRUE])
          /\ accepted' = Append(accepted, sentTo + 1)
      BY <1>1, <2>4, Zenon DEF Send
    <3>2. pending' \in Seq(Message) /\ accepted' \in Seq(Nat)
      BY <2>1, <3>1
    <3> QED
      BY <1>1, <2>4, <3>2 DEF Send, notify
  <2> QED
    BY <2>2, <2>3, <2>4, Zenon
<1>2. CASE SendSnapshot
  <2> DEFINE ms == [i \in 1 .. SnapLen |-> [id |-> sentTo + i, live |-> FALSE]]
  <2>1. ms \in Seq(Message)
    BY SnapshotType, Zenon
  <2>2. sentTo' \in Nat
    BY <1>2, SessionQueueAssumption DEF SendSnapshot
  <2>3. CASE closed
    BY <1>2, <2>2, <2>3, Zenon DEF SendSnapshot
  <2>4. CASE ~closed
    <3>1. pending' = pending \o ms /\ accepted' = accepted \o Ids(ms)
      BY <1>2, <2>4, Zenon DEF SendSnapshot
    <3>2. Ids(ms) \in Seq(Nat)
      BY <2>1, IdsType, Zenon
    <3> HIDE DEF ms
    <3>3. pending' \in Seq(Message) /\ accepted' \in Seq(Nat)
      BY <2>1, <3>1, <3>2, ConcatProperties, Zenon
    <3> QED
      BY <1>2, <2>2, <2>4, <3>3, Zenon DEF SendSnapshot, notify
  <2> QED
    BY <2>3, <2>4, Zenon
<1>3. CASE take
  <2>1. CASE pending # <<>>
    BY <1>3, <2>1 DEF take
  <2>2. CASE pending = <<>>
    BY <1>3, <2>2, Zenon DEF take
  <2> QED
    BY <2>1, <2>2, Zenon
<1>4. CASE wakeUp
  BY <1>4, Zenon DEF wakeUp
<1>5. CASE StreamSend
  <2>1. batch # <<>> /\ batch \in Seq(Message)
    BY <1>5, Zenon DEF StreamSend, BatchWithSender
  <2>2. Head(batch) \in Message /\ Tail(batch) \in Seq(Message)
    BY <2>1
  <2>3. Head(batch).id \in Nat
    BY <2>2, Zenon DEF Message
  <2>4. Append(delivered, Head(batch).id) \in Seq(Nat)
    BY <2>3
  <2> QED
    BY <1>5, <2>2, <2>4, Zenon DEF StreamSend
<1>6. CASE StreamFails
  BY <1>6, Zenon DEF StreamFails, notify
<1>7. CASE close
  BY <1>7, Zenon DEF close
<1>8. CASE closeNotify
  BY <1>8, Zenon DEF closeNotify, notify
<1>9. CASE Wait
  BY <1>9, Zenon DEF Wait
<1> QED
  BY <1>1, <1>2, <1>3, <1>4, <1>5, <1>6, <1>7, <1>8, <1>9, Zenon DEF QueueNext, Drain

\* Every step keeps the drain's place, the close flag and the wake-ups.
LEMMA ControlStep ==
  ASSUME QueueTypeOK, BatchWithSender, ClosedByReceiver, NoLostWakeup, QueueNext
  PROVE  BatchWithSender' /\ ClosedByReceiver' /\ NoLostWakeup'
<1> USE DEF QueueTypeOK, BatchWithSender, ClosedByReceiver, NoLostWakeup
<1>1. CASE Send
  <2>1. CASE closed
    BY <1>1, <2>1, Zenon DEF Send
  <2>2. CASE ~closed /\ deltas >= MaxPendingDeltas
    BY <1>1, <2>2, Zenon DEF Send
  <2>3. CASE ~closed /\ ~(deltas >= MaxPendingDeltas)
    <3>1. wake' = 1 /\ deltas' = deltas + 1 /\ UNCHANGED <<closed, drain, batch, session>>
      BY <1>1, <2>3, Zenon DEF Send, notify
    <3> QED
      BY <2>3, <3>1
  <2> QED
    BY <2>1, <2>2, <2>3, Zenon
<1>2. CASE SendSnapshot
  <2>1. UNCHANGED <<deltas, closed, drain, batch, session>>
    BY <1>2, Zenon DEF SendSnapshot
  <2>2. UNCHANGED <<pending, wake>> \/ wake' = 1
    BY <1>2, Zenon DEF SendSnapshot, notify
  <2> QED
    BY <2>1, <2>2
<1>3. CASE take
  <2>1. CASE pending # <<>>
    BY <1>3, <2>1, Zenon DEF take
  <2>2. CASE pending = <<>>
    BY <1>3, <2>2, Zenon DEF take
  <2> QED
    BY <2>1, <2>2, Zenon
<1>4. CASE wakeUp
  BY <1>4, Zenon DEF wakeUp
<1>5. CASE StreamSend
  BY <1>5, Zenon DEF StreamSend
<1>6. CASE StreamFails
  BY <1>6, Zenon DEF StreamFails, notify
<1>7. CASE close
  BY <1>7, Zenon DEF close
<1>8. CASE closeNotify
  BY <1>8 DEF closeNotify, notify
<1>9. CASE Wait
  BY <1>9, Zenon DEF Wait
<1> QED
  BY <1>1, <1>2, <1>3, <1>4, <1>5, <1>6, <1>7, <1>8, <1>9, ZenonT(30) DEF QueueNext, Drain

\* Every step keeps what was accepted, in order, between the stream, the
\* drain's batch and the queue.
LEMMA OrderStep ==
  ASSUME QueueTypeOK, BatchWithSender, InOrder, QueueNext
  PROVE  InOrder'
<1>1. /\ pending \in Seq(Message) /\ batch \in Seq(Message)
      /\ accepted \in Seq(Nat) /\ delivered \in Seq(Nat) /\ sentTo \in Nat
  BY Zenon DEF QueueTypeOK
<1>2. Ids(pending) \in Seq(Nat) /\ Ids(batch) \in Seq(Nat)
  BY <1>1, IdsType, Zenon
<1>3. accepted = delivered \o Ids(batch) \o Ids(pending)
  BY Zenon DEF InOrder
<1>4. Ids(<<>>) = <<>>
  BY DEF Ids
<1>5. ASSUME NEW ms \in Seq(Message), pending' = pending \o ms,
             accepted' = accepted \o Ids(ms), UNCHANGED <<batch, delivered>>
      PROVE  InOrder'
  <2>1. Ids(ms) \in Seq(Nat)
    BY IdsType, Zenon
  <2>2. Ids(pending \o ms) = Ids(pending) \o Ids(ms)
    BY <1>1, IdsConcat, Zenon
  <2>3. delivered \o Ids(batch) \in Seq(Nat)
    BY <1>1, <1>2, ConcatProperties, Zenon
  <2>4. (delivered \o Ids(batch)) \o (Ids(pending) \o Ids(ms))
          = ((delivered \o Ids(batch)) \o Ids(pending)) \o Ids(ms)
    BY <1>2, <2>1, <2>3, IdsAssociative, Zenon
  <2>5. accepted' = delivered \o Ids(batch) \o Ids(pending \o ms)
    BY <1>3, <1>5, <2>2, <2>4, Zenon
  <2> QED
    BY <1>5, <2>5, Zenon DEF InOrder
<1>6. CASE Send
  <2> DEFINE m == [id |-> sentTo + 1, live |-> TRUE]
  <2>1. CASE closed \/ deltas >= MaxPendingDeltas
    BY <1>6, <2>1, Zenon DEF Send, InOrder
  <2>2. CASE ~(closed \/ deltas >= MaxPendingDeltas)
    <3>1. m \in Message /\ <<m>> \in Seq(Message)
      BY <1>1 DEF Message
    <3>2. pending' = Append(pending, m) /\ accepted' = Append(accepted, m.id)
      BY <1>6, <2>2, Zenon DEF Send
    <3>3. UNCHANGED <<batch, delivered>>
      BY <1>6, Zenon DEF Send
    <3>4. m.id \in Nat
      BY <1>1
    <3>5. Ids(<<m>>) = <<m.id>>
      BY DEF Ids
    <3> HIDE DEF m
    <3>6. pending' = pending \o <<m>> /\ accepted' = accepted \o <<m.id>>
      BY <1>1, <3>1, <3>2, <3>4, AppendIsConcat, Zenon
    <3> QED
      BY <1>5, <3>1, <3>3, <3>5, <3>6, Zenon
  <2> QED
    BY <2>1, <2>2, Zenon
<1>7. CASE SendSnapshot
  <2> DEFINE ms == [i \in 1 .. SnapLen |-> [id |-> sentTo + i, live |-> FALSE]]
  <2>1. CASE closed
    BY <1>7, <2>1, Zenon DEF SendSnapshot, InOrder
  <2>2. CASE ~closed
    <3>1. ms \in Seq(Message)
      BY <1>1, SnapshotType, Zenon
    <3>2. /\ pending' = pending \o ms /\ accepted' = accepted \o Ids(ms)
          /\ UNCHANGED <<batch, delivered>>
      BY <1>7, <2>2, Zenon DEF SendSnapshot
    <3> HIDE DEF ms
    <3> QED
      BY <1>5, <3>1, <3>2, Zenon
  <2> QED
    BY <2>1, <2>2, Zenon
<1>8. CASE take
  <2>1. CASE pending # <<>>
    <3>1. /\ batch = <<>> /\ batch' = pending /\ pending' = <<>>
          /\ UNCHANGED <<accepted, delivered>>
      BY <1>8, <2>1, Zenon DEF take, BatchWithSender
    <3>2. delivered \o <<>> = delivered
      BY <1>1, ConcatEmptySeq, Zenon
    <3>3. delivered \o Ids(pending) \in Seq(Nat)
      BY <1>1, <1>2, ConcatProperties, Zenon
    <3>4. (delivered \o Ids(pending)) \o <<>> = delivered \o Ids(pending)
      BY <3>3, ConcatEmptySeq, Zenon
    <3>5. accepted = delivered \o Ids(pending) \o Ids(<<>>)
      BY <1>3, <1>4, <3>1, <3>2, <3>4, Zenon
    <3> QED
      BY <3>1, <3>5, Zenon DEF InOrder
  <2>2. CASE pending = <<>>
    BY <1>8, <2>2, Zenon DEF take, InOrder
  <2> QED
    BY <2>1, <2>2, Zenon
<1>9. CASE StreamSend
  <2>1. batch # <<>>
    BY <1>9, Zenon DEF StreamSend, BatchWithSender
  <2>2. Head(batch) \in Message /\ Tail(batch) \in Seq(Message)
    BY <1>1, <2>1
  <2>3. Head(batch).id \in Nat /\ <<Head(batch).id>> \in Seq(Nat) /\ Ids(Tail(batch)) \in Seq(Nat)
    <3>1. Head(batch).id \in Nat
      BY <2>2, Zenon DEF Message
    <3>2. Ids(Tail(batch)) \in Seq(Nat)
      BY <2>2, IdsType, Zenon
    <3> QED
      BY <3>1, <3>2
  <2>4. Ids(batch) = <<Head(batch).id>> \o Ids(Tail(batch))
    BY <1>1, <2>1, IdsHeadTail, Zenon
  <2>5. Append(delivered, Head(batch).id) = delivered \o <<Head(batch).id>>
    BY <1>1, <2>3, AppendIsConcat, Zenon
  <2>6. delivered \o (<<Head(batch).id>> \o Ids(Tail(batch)))
          = (delivered \o <<Head(batch).id>>) \o Ids(Tail(batch))
    BY <1>1, <2>3, IdsAssociative, Zenon
  <2>7. accepted = Append(delivered, Head(batch).id) \o Ids(Tail(batch)) \o Ids(pending)
    BY <1>3, <2>4, <2>5, <2>6, Zenon
  <2> QED
    BY <1>9, <2>7, Zenon DEF StreamSend, InOrder
<1>10. CASE wakeUp \/ StreamFails \/ close \/ closeNotify \/ Wait
  BY <1>10, Zenon DEF wakeUp, StreamFails, close, closeNotify, Wait, InOrder
<1> QED
  BY <1>6, <1>7, <1>8, <1>9, <1>10, Zenon DEF QueueNext, Drain

-----------------------------------------------------------------------------
\* The live places of a queue are finitely many.
LEMMA LiveFinite ==
  ASSUME NEW s \in Seq(Message)
  PROVE  IsFiniteSet(LiveAt(s)) /\ Cardinality(LiveAt(s)) \in Nat
<1>1. Len(s) \in Nat
  OBVIOUS
<1>2. IsFiniteSet(1 .. Len(s))
  BY <1>1, FS_Interval
<1>3. LiveAt(s) \in SUBSET (1 .. Len(s))
  BY Zenon DEF LiveAt
<1>4. IsFiniteSet(LiveAt(s))
  BY <1>2, <1>3, FS_Subset, Zenon
<1> QED
  BY <1>4, FS_CardinalityType, Zenon

\* A live delta at the back is one more live place.
LEMMA LiveAppend ==
  ASSUME NEW s \in Seq(Message), NEW m \in Message, m.live
  PROVE  Cardinality(LiveAt(Append(s, m))) = Cardinality(LiveAt(s)) + 1
<1>1. /\ Len(s) \in Nat /\ Len(Append(s, m)) = Len(s) + 1
      /\ Append(s, m)[Len(s) + 1] = m
      /\ \A i \in 1 .. Len(s) : Append(s, m)[i] = s[i]
  OBVIOUS
<1>2. 1 .. (Len(s) + 1) = (1 .. Len(s)) \cup {Len(s) + 1}
  BY <1>1
<1>3. LiveAt(Append(s, m)) = LiveAt(s) \cup {Len(s) + 1}
  BY <1>1, <1>2, Zenon DEF LiveAt
<1>4. Len(s) + 1 \notin LiveAt(s)
  BY <1>1 DEF LiveAt
<1> QED
  BY <1>3, <1>4, LiveFinite, FS_AddElement, Zenon

\* Messages that are not live add no live place.
LEMMA LiveConcat ==
  ASSUME NEW s \in Seq(Message), NEW t \in Seq(Message),
         \A i \in 1 .. Len(t) : ~t[i].live
  PROVE  LiveAt(s \o t) = LiveAt(s)
<1>1. /\ Len(s) \in Nat /\ Len(t) \in Nat /\ Len(s \o t) = Len(s) + Len(t)
      /\ \A i \in 1 .. Len(s) : (s \o t)[i] = s[i]
  OBVIOUS
<1>2. ASSUME NEW i \in 1 .. Len(s) + Len(t), ~(i \in 1 .. Len(s)) PROVE ~(s \o t)[i].live
  <2>1. i - Len(s) \in 1 .. Len(t)
    BY <1>1, <1>2
  <2>2. (s \o t)[i] = t[i - Len(s)]
    BY <1>1, <1>2
  <2> QED
    BY <2>1, <2>2, Zenon
<1>3. \A i \in 1 .. Len(s) : i \in 1 .. Len(s) + Len(t)
  BY <1>1
<1> QED
  BY <1>1, <1>2, <1>3, Zenon DEF LiveAt

\* Every step keeps the counter at the number of live deltas queued, and the
\* cap over it.
LEMMA CountStep ==
  ASSUME QueueTypeOK, DeltasCounted, QueueNext
  PROVE  DeltasCounted'
<1>1. pending \in Seq(Message) /\ deltas \in Nat /\ sentTo \in Nat
  BY Zenon DEF QueueTypeOK
<1>2. MaxPendingDeltas \in Nat /\ SnapLen \in Nat
  BY SessionQueueAssumption, Zenon
<1>3. UNCHANGED <<pending, deltas>> => DeltasCounted'
  BY Zenon DEF DeltasCounted
<1>4. CASE Send
  <2>1. CASE closed \/ deltas >= MaxPendingDeltas
    BY <1>3, <1>4, <2>1, Zenon DEF Send
  <2>2. CASE ~(closed \/ deltas >= MaxPendingDeltas)
    <3> DEFINE m == [id |-> sentTo + 1, live |-> TRUE]
    <3>1. pending' = Append(pending, m) /\ deltas' = deltas + 1
      BY <1>4, <2>2, Zenon DEF Send
    <3>2. m \in Message /\ m.live
      BY <1>1 DEF Message
    <3> HIDE DEF m
    <3>3. Cardinality(LiveAt(Append(pending, m))) = Cardinality(LiveAt(pending)) + 1
      BY <1>1, <3>2, LiveAppend, Zenon
    <3>4. deltas + 1 <= MaxPendingDeltas
      BY <1>1, <1>2, <2>2
    <3> QED
      BY <3>1, <3>3, <3>4, Zenon DEF DeltasCounted
  <2> QED
    BY <2>1, <2>2, Zenon
<1>5. CASE SendSnapshot
  <2>1. CASE closed
    BY <1>3, <1>5, <2>1, Zenon DEF SendSnapshot
  <2>2. CASE ~closed
    <3> DEFINE ms == [i \in 1 .. SnapLen |-> [id |-> sentTo + i, live |-> FALSE]]
    <3>1. pending' = pending \o ms /\ deltas' = deltas
      BY <1>5, <2>2, Zenon DEF SendSnapshot
    <3>2. ms \in Seq(Message)
      BY <1>1, SnapshotType, Zenon
    <3>3. \A i \in 1 .. Len(ms) : ~ms[i].live
      BY <1>2
    <3> HIDE DEF ms
    <3>4. LiveAt(pending \o ms) = LiveAt(pending)
      BY <1>1, <3>2, <3>3, LiveConcat, Zenon
    <3> QED
      BY <3>1, <3>4, Zenon DEF DeltasCounted
  <2> QED
    BY <2>1, <2>2, Zenon
<1>6. CASE take
  <2>1. CASE pending # <<>>
    <3>1. pending' = <<>> /\ deltas' = 0
      BY <1>6, <2>1, Zenon DEF take
    <3>2. LiveAt(<<>>) = {}
      BY DEF LiveAt
    <3>3. Cardinality({}) = 0
      BY FS_EmptySet, Zenon
    <3> QED
      BY <1>2, <3>1, <3>2, <3>3 DEF DeltasCounted
  <2>2. CASE pending = <<>>
    BY <1>3, <1>6, <2>2, Zenon DEF take
  <2> QED
    BY <2>1, <2>2, Zenon
<1>7. CASE wakeUp \/ StreamSend \/ StreamFails \/ close \/ closeNotify \/ Wait
  BY <1>3, <1>7, Zenon DEF wakeUp, StreamSend, StreamFails, close, closeNotify, Wait
<1> QED
  BY <1>4, <1>5, <1>6, <1>7, Zenon DEF QueueNext, Drain

-----------------------------------------------------------------------------
\* The invariant holds in every behaviour of the queue and its goroutines.
THEOREM QueueInvariant == QueueSpec => []QueueInv
<1>1. QueueInit => QueueInv
  <2> SUFFICES ASSUME QueueInit PROVE QueueInv
    OBVIOUS
  <2>1. QueueTypeOK
    BY EmptySeq, Zenon DEF QueueInit, QueueTypeOK
  <2>2. BatchWithSender /\ ClosedByReceiver /\ NoLostWakeup
    BY Zenon DEF QueueInit, BatchWithSender, ClosedByReceiver, NoLostWakeup
  <2>3. Ids(<<>>) = <<>>
    BY DEF Ids
  <2>4. InOrder
    BY <2>3 DEF QueueInit, InOrder
  <2>5. DeltasCounted
    <3>1. LiveAt(<<>>) = {}
      BY DEF LiveAt
    <3> QED
      BY <3>1, FS_EmptySet, SessionQueueAssumption DEF QueueInit, DeltasCounted
  <2> QED
    BY <2>1, <2>2, <2>4, <2>5, Zenon DEF QueueInv
<1>2. QueueInv /\ [QueueNext]_queueVars => QueueInv'
  <2>1. ASSUME QueueInv, QueueNext PROVE QueueInv'
    BY <2>1, QueueTypeStep, ControlStep, CountStep, OrderStep, Zenon DEF QueueInv
  <2>2. ASSUME QueueInv, UNCHANGED queueVars PROVE QueueInv'
    BY <2>2, Zenon DEF QueueInv, queueVars, QueueTypeOK, BatchWithSender, ClosedByReceiver, DeltasCounted,
                InOrder, NoLostWakeup
  <2> QED
    BY <2>1, <2>2, Zenon
<1> QED
  BY <1>1, <1>2, PTL DEF QueueSpec

\* The queue, its counters and both goroutines keep the types QueueTypeOK gives
\* them; in particular the wake channel never holds more than one token.
THEOREM QueueTypeCorrect == QueueSpec => []QueueTypeOK
<1> QED
  BY QueueInvariant, PTL DEF QueueInv

\* queue.go and server.go: nothing that Send or SendSnapshot accepted is lost,
\* duplicated or reordered on its way to the stream, for any cap and load.
THEOREM InOrderHolds == QueueSpec => []InOrder
<1> QED
  BY QueueInvariant, PTL DEF QueueInv

\* queue.go notify and take: the drain never sleeps on an empty wake channel
\* with something queued, or with the queue closed and notified.
THEOREM NoLostWakeupHolds == QueueSpec => []NoLostWakeup
<1> QED
  BY QueueInvariant, PTL DEF QueueInv

\* queue.go Send, SendSnapshot and take: the counter is the number of live
\* deltas queued and never passes maxPendingDeltas, for any cap, snapshot
\* length and load.
THEOREM DeltasCountedHolds == QueueSpec => []DeltasCounted
<1> QED
  BY QueueInvariant, PTL DEF QueueInv
=============================================================================
