----------------------------- MODULE Reflector -----------------------------
(***************************************************************************)
(* The route reflector (mesh/reflector): one in-memory routing information *)
(* base (RIB) behind one mutex, the gRPC sessions of the nodes that feed   *)
(* it, and the outbound queue of each session.  Every action is one        *)
(* critical section of RIB.mu, so the interleavings of this module are the *)
(* interleavings of the sessions' goroutines.                              *)
(*                                                                         *)
(* Nexthop lists are sets (the RIB sorts and de-duplicates them), a fence  *)
(* prefix is the set of nodes whose underlay it covers, and the `external' *)
(* flag, which the agents derive from the key, is part of the key.         *)
(* A session's queue is modelled by what its consumer knows once the queue *)
(* is drained (`told').  A queue that refused a delta because it was full, *)
(* or closed, is in `behind' and its consumer is no longer followed: the   *)
(* queue itself is module SessionQueue.                                    *)
(***************************************************************************)
EXTENDS Integers, FiniteSets

CONSTANTS
  Node,              \* Hello node ids: origins and sink ids share this namespace
  NextHop,           \* underlay addresses
  Owner,             \* Owner[nh]: the node whose certificate carries nh
  VNI,               \* virtual network ids
  Key,               \* route keys (vni, prefix)
  VniOf,             \* VniOf[k]: the vni of a route key
  GKey,              \* keys of the global tables: NAT blocks and public records
  PublicKey,         \* the keys among GKey that are public records
  PublicOwner,       \* PublicOwner[g]: the owner underlay a public key contains
  Edge,              \* the nodes whose Hello asks for the global feed: the WAN edges
  Fence,             \* underlay prefixes that may be fenced
  Within,            \* Within[f]: the nodes whose underlay prefix f contains
  MaxSession         \* bound: sessions started in a behaviour

Session == 1 .. MaxSession
Item == Key \cup GKey

ASSUME ReflectorAssumption ==
  /\ Owner \in [NextHop -> Node]
  /\ VniOf \in [Key -> VNI]
  /\ Edge \subseteq Node
  /\ Within \in [Fence -> SUBSET Node]
  /\ PublicKey \subseteq GKey
  /\ PublicOwner \in [PublicKey -> NextHop]
  /\ Key \cap GKey = {}
  /\ MaxSession \in Nat
  /\ Node # {}

VARIABLES
  routes,       \* routes[k][n]: the nexthops origin n announced for k, {} for none
  byOrigin,     \* byOrigin[n]: the keys n originates
  subscribers,  \* subscribers[v][n]: the session whose sink is registered, 0 for none
  fenced,       \* the fences in force
  origins,      \* origins[n]: the token of the session that speaks for n, 0 for none
  nextToken,    \* the last token handed out
  table,        \* nat and public: table[g] = {owner underlay}, {} when absent
  tableOrigin,  \* natOrigin and publicOrigin, {} when absent
  tableBy,      \* natByOrigin and publicByOrigin
  sinks,        \* sinks[n]: the session registered for the global feed, 0 for none
  globalSnap,   \* the cached replay: {} when nil, else the singleton of its content
  phase,        \* where each session's goroutine is
  node,         \* node[s]: the node id session s said Hello with
  behind,       \* sessions whose queue refused a delta or is closed
  told,         \* told[s][i]: what s knows of item i once its queue is drained
  withheld      \* history: withheld[s], keys whose last fence change skipped s

rib == <<routes, byOrigin, subscribers, origins, table, tableOrigin, tableBy, sinks>>
queues == <<behind, told, withheld>>
vars == <<rib, fenced, nextToken, globalSnap, phase, node, queues>>

TypeOK ==
  /\ routes \in [Key -> [Node -> SUBSET NextHop]]
  /\ byOrigin \in [Node -> SUBSET Key]
  /\ subscribers \in [VNI -> [Node -> 0 .. MaxSession]]
  /\ fenced \in SUBSET Fence
  /\ origins \in [Node -> 0 .. MaxSession]
  /\ nextToken \in 0 .. MaxSession
  /\ table \in [GKey -> SUBSET NextHop]
  /\ tableOrigin \in [GKey -> SUBSET Node]
  /\ tableBy \in [Node -> SUBSET GKey]
  /\ sinks \in [Node -> 0 .. MaxSession]
  /\ globalSnap \in SUBSET [GKey -> SUBSET NextHop]
  /\ phase \in [Session -> {"new", "claimed", "open", "ended"}]
  /\ node \in [Session -> Node]
  /\ behind \in SUBSET Session
  /\ told \in [Session -> [Item -> SUBSET NextHop]]
  /\ withheld \in [Session -> SUBSET Key]

(***************************************************************************)
(* What the RIB advertises.                                                *)
(***************************************************************************)
nexthopFenced(nh, fs) == \E f \in fs : Owner[nh] \in Within[f]

advertised(rt, fs) ==
  [k \in Key |-> {nh \in NextHop : /\ \E n \in Node : nh \in rt[k][n]
                                   /\ ~nexthopFenced(nh, fs)}]

KeysOf(v) == {k \in Key : VniOf[k] = v}

(***************************************************************************)
(* Fanout.  due[s] are the items session s is sent in one critical section *)
(* and content their new value; skipped[s] are the changes kept from it.   *)
(* `over' are the sessions whose queue closes with the step.               *)
(***************************************************************************)
fanout(due, content, skipped, over) ==
  /\ behind' = behind \cup over
  /\ told' = [s \in Session |-> [i \in Item |->
                IF s \in behind' THEN {}
                ELSE IF i \in due[s] THEN content[i] ELSE told[s][i]]]
  /\ withheld' = [s \in Session |->
                    IF s \in behind' THEN {} ELSE (withheld[s] \ due[s]) \cup skipped[s]]

\* The route keys whose advertised nexthops a critical section changes.
Changed(rt, fs) ==
  {k \in Key : advertised(routes, fenced)[k] # advertised(rt, fs)[k]}

\* The keys of K that session s is a subscriber for, under a sink id in N.
Subscribed(s, K, N) == {k \in K : \E n \in N : subscribers[VniOf[k]][n] = s}

\* The records of G that go to session s when sk are the registered sinks.
OnGlobalFeed(s, G, sk) == IF \E n \in Node : sk[n] = s THEN G ELSE {}

Nothing == [s \in Session |-> {}]

\* The queue of s drops a delta (Send past maxPendingDeltas) or is closed.
closeQueue(s) == fanout(Nothing, Nothing, Nothing, {s})

-----------------------------------------------------------------------------
(***************************************************************************)
(* A session begins and ends.                                              *)
(***************************************************************************)
\* Mutant: whose record it is is not looked at.
RecordsOf_Anyone(n) == {g \in GKey : n \in Node /\ table[g] # {}}

\* dropOriginNat and dropOriginPublic: the records n still owns.
RecordsOf(n) == {g \in tableBy[n] : tableOrigin[g] = {n} /\ table[g] # {}}

\* dropOriginLocked(n), with the global sinks sk left by its caller and the
\* queue that closes with the step in `over': every
\* route, record and subscription of n goes, and the changes are fanned out
\* while n's own subscriptions still stand.
dropOriginLocked(n, sk, over) ==
  LET rt  == [k \in Key |-> IF k \in byOrigin[n]
                              THEN [routes[k] EXCEPT ![n] = {}] ELSE routes[k]]
      gone == RecordsOf(n)
      adv  == advertised(rt, fenced)
  IN  /\ routes' = rt
      /\ byOrigin' = [byOrigin EXCEPT ![n] = {}]
      /\ subscribers' = [v \in VNI |-> [subscribers[v] EXCEPT ![n] = 0]]
      /\ table' = [g \in GKey |-> IF g \in gone THEN {} ELSE table[g]]
      /\ tableOrigin' = [g \in GKey |-> IF g \in gone THEN {} ELSE tableOrigin[g]]
      /\ tableBy' = [tableBy EXCEPT ![n] = {}]
      /\ globalSnap' = IF gone = {} THEN globalSnap ELSE {}
      /\ fanout([s \in Session |-> Subscribed(s, Changed(rt, fenced), Node)
                                     \cup OnGlobalFeed(s, gone, sk)],
                [i \in Item |-> IF i \in Key THEN adv[i] ELSE {}],
                Nothing, over)

KeepState == UNCHANGED <<routes, byOrigin, subscribers, table, tableOrigin,
                         tableBy, globalSnap>>

\* Hello: the session takes the node id over and drops what its predecessor left.
ClaimOrigin(n) ==
  LET s == nextToken + 1
      sk == [sinks EXCEPT ![n] = 0]
  IN  /\ nextToken < MaxSession
      /\ nextToken' = s
      /\ origins' = [origins EXCEPT ![n] = s]
      /\ node' = [node EXCEPT ![s] = n]
      /\ phase' = [phase EXCEPT ![s] = "claimed"]
      /\ IF origins[n] # 0
           THEN sinks' = sk /\ dropOriginLocked(n, sk, {})
           ELSE UNCHANGED <<sinks, queues>> /\ KeepState
      /\ UNCHANGED fenced

\* The second critical section of Hello, for a session that takes the global
\* feed: it is registered and replayed the shared snapshot, whole.
RegisterSink(s) ==
  LET snap == IF globalSnap # {} THEN globalSnap ELSE {table}
      content == CHOOSE c \in snap : TRUE
  IN  /\ phase[s] = "claimed" /\ node[s] \in Edge
      /\ phase' = [phase EXCEPT ![s] = "open"]
      /\ sinks' = [sinks EXCEPT ![node[s]] = s]
      /\ globalSnap' = snap
      /\ fanout([Nothing EXCEPT ![s] = GKey],
                [i \in Item |-> IF i \in GKey THEN content[i] ELSE {}], Nothing, {})
      /\ UNCHANGED <<routes, byOrigin, subscribers, fenced, origins, nextToken, table,
                     tableOrigin, tableBy, node>>

\* A compute node opts out of the global feed and only gets its end marker.
OptOut(s) ==
  /\ phase[s] = "claimed" /\ node[s] \notin Edge
  /\ phase' = [phase EXCEPT ![s] = "open"]
  /\ UNCHANGED <<rib, fenced, nextToken, globalSnap, node, queues>>

\* Mutant: the cleanup of a superseded session is not told apart.
ReleaseOrigin_NoToken(s) ==
  LET n == node[s]
      sk == [sinks EXCEPT ![n] = 0]
  IN  /\ phase[s] = "open"
      /\ phase' = [phase EXCEPT ![s] = "ended"]
      /\ origins' = [origins EXCEPT ![n] = 0]
      /\ sinks' = sk
      /\ dropOriginLocked(n, sk, {s})
      /\ UNCHANGED <<fenced, nextToken, node>>

\* The Recv loop ends: ReleaseOrigin, then the queue closes.
ReleaseOrigin(s) ==
  LET n == node[s]
      sk == [sinks EXCEPT ![n] = 0]
  IN  /\ phase[s] = "open"
      /\ phase' = [phase EXCEPT ![s] = "ended"]
      /\ IF origins[n] = s
           THEN /\ origins' = [origins EXCEPT ![n] = 0]
                /\ sinks' = sk
                /\ dropOriginLocked(n, sk, {s})
           ELSE UNCHANGED <<origins, sinks>> /\ KeepState /\ closeQueue(s)
      /\ UNCHANGED <<fenced, nextToken, node>>

\* The session's queue is full when the RIB sends, or its drain's stream.Send
\* fails and closes it; the Recv loop still runs.
FallBehind(s) ==
  /\ phase[s] = "open" /\ s \notin behind
  /\ closeQueue(s)
  /\ UNCHANGED <<rib, fenced, nextToken, globalSnap, phase, node>>

-----------------------------------------------------------------------------
(***************************************************************************)
(* The messages of an open session.  None of them checks the token: a      *)
(* session that was superseded still speaks under its node id.             *)
(***************************************************************************)
Subscribe(s, v) ==
  LET n == node[s]
      adv == advertised(routes, fenced)
  IN  /\ phase[s] = "open"
      /\ subscribers[v][n] # s
      /\ subscribers' = [subscribers EXCEPT ![v] = [@ EXCEPT ![n] = s]]
      /\ fanout([Nothing EXCEPT ![s] = KeysOf(v)],
                [i \in Item |-> IF i \in Key THEN adv[i] ELSE {}], Nothing, {})
      /\ UNCHANGED <<routes, byOrigin, origins, table, tableOrigin, tableBy, sinks, fenced,
                     nextToken, globalSnap, phase, node>>

Unsubscribe(s, v) ==
  /\ phase[s] = "open"
  /\ subscribers' = [subscribers EXCEPT ![v] = [@ EXCEPT ![node[s]] = 0]]
  /\ UNCHANGED <<routes, byOrigin, origins, table, tableOrigin, tableBy, sinks, fenced,
                 nextToken, globalSnap, phase, node, queues>>

\* Announce and Withdraw store rt and index by, and tell every subscriber but
\* those whose sink id is in skip what changed.
StoreRoute(rt, by, skip) ==
  LET K == Changed(rt, fenced)
      adv == advertised(rt, fenced)
  IN  /\ routes' = rt
      /\ byOrigin' = by
      /\ fanout([s \in Session |-> Subscribed(s, K, Node \ skip)],
                [i \in Item |-> IF i \in Key THEN adv[i] ELSE {}],
                Nothing, {})
      /\ UNCHANGED <<subscribers, origins, table, tableOrigin, tableBy, sinks, fenced,
                     nextToken, globalSnap, phase, node>>

Announce(s, k, nhs) ==
  LET n == node[s]
  IN  /\ phase[s] = "open"
      /\ nhs # {} /\ \A nh \in nhs : Owner[nh] = n
      /\ StoreRoute([routes EXCEPT ![k] = [@ EXCEPT ![n] = nhs]],
                    [byOrigin EXCEPT ![n] = @ \cup {k}], {n})

Withdraw(s, k) ==
  LET n == node[s]
  IN  /\ phase[s] = "open"
      /\ StoreRoute([routes EXCEPT ![k] = [@ EXCEPT ![n] = {}]],
                    [byOrigin EXCEPT ![n] = @ \ {k}], {})

\* Mutant: the cached replay survives a change.
StoreRecord_KeepsSnapshot(tb, org, by, g) ==
  /\ table' = tb
  /\ tableOrigin' = org
  /\ tableBy' = by
  /\ fanout([s \in Session |-> OnGlobalFeed(s, {g}, sinks)],
            [i \in Item |-> IF i \in GKey THEN tb[i] ELSE {}], Nothing, {})
  /\ UNCHANGED <<routes, byOrigin, subscribers, origins, sinks, fenced, nextToken,
                 globalSnap, phase, node>>

\* AnnounceNat and AnnouncePublic differ only in their key: a NAT block moves
\* to whoever announces it, a public record's key contains its owner.
StoreRecord(tb, org, by, g) ==
  /\ table' = tb
  /\ tableOrigin' = org
  /\ tableBy' = by
  /\ globalSnap' = {}
  /\ fanout([s \in Session |-> OnGlobalFeed(s, {g}, sinks)],
            [i \in Item |-> IF i \in GKey THEN tb[i] ELSE {}], Nothing, {})
  /\ UNCHANGED <<routes, byOrigin, subscribers, origins, sinks, fenced, nextToken,
                 phase, node>>

\* Mutant: a taken-over block stays in its previous origin's index.
AnnounceRecord_KeepsIndex(s, g, nh) ==
  LET n == node[s]
  IN  /\ phase[s] = "open"
      /\ Owner[nh] = n
      /\ StoreRecord([table EXCEPT ![g] = {nh}],
                     [tableOrigin EXCEPT ![g] = {n}],
                     [tableBy EXCEPT ![n] = @ \cup {g}], g)

AnnounceRecord(s, g, nh) ==
  LET n == node[s]
  IN  /\ phase[s] = "open"
      /\ Owner[nh] = n
      /\ StoreRecord([table EXCEPT ![g] = {nh}],
                     [tableOrigin EXCEPT ![g] = {n}],
                     [m \in Node |-> IF m = n THEN tableBy[m] \cup {g}
                                     ELSE IF m \in tableOrigin[g] THEN tableBy[m] \ {g}
                                     ELSE tableBy[m]], g)

AnnounceNat(s, g, nh) == g \in GKey \ PublicKey /\ AnnounceRecord(s, g, nh)

AnnouncePublic(s, g, nh) ==
  g \in PublicKey /\ nh = PublicOwner[g] /\ AnnounceRecord(s, g, nh)

WithdrawRecord(s, g) ==
  LET n == node[s]
  IN  /\ phase[s] = "open"
      /\ table[g] # {}
      /\ tableOrigin[g] = {n} /\ \A nh \in table[g] : Owner[nh] = n
      /\ StoreRecord([table EXCEPT ![g] = {}], [tableOrigin EXCEPT ![g] = {}],
                     [tableBy EXCEPT ![n] = @ \ {g}], g)

WithdrawNat(s, g) == g \in GKey \ PublicKey /\ WithdrawRecord(s, g)

WithdrawPublic(s, g) == g \in PublicKey /\ WithdrawRecord(s, g)

-----------------------------------------------------------------------------
(***************************************************************************)
(* The admin API: fences.                                                  *)
(***************************************************************************)
\* Mutant: a fence change is stored but not fanned out.
refilter_Silent(fs) ==
  /\ fenced' = fs
  /\ UNCHANGED <<rib, queues, nextToken, globalSnap, phase, node>>

\* refilter: the change reaches every subscriber but the key's own origins.
refilter(fs) ==
  LET K == Changed(routes, fs)
      adv == advertised(routes, fs)
      IsOrigin(s, k) == routes[k][node[s]] # {}
  IN  /\ fenced' = fs
      /\ fanout([s \in Session |-> {k \in Subscribed(s, K, Node) : ~IsOrigin(s, k)}],
                [i \in Item |-> IF i \in Key THEN adv[i] ELSE {}],
                [s \in Session |-> {k \in Subscribed(s, K, Node) : IsOrigin(s, k)}], {})
      /\ UNCHANGED <<rib, nextToken, globalSnap, phase, node>>

SetFence(f) == f \notin fenced /\ refilter(fenced \cup {f})

ClearFence(f) == f \in fenced /\ refilter(fenced \ {f})

-----------------------------------------------------------------------------
Init ==
  /\ routes = [k \in Key |-> [n \in Node |-> {}]]
  /\ byOrigin = [n \in Node |-> {}]
  /\ subscribers = [v \in VNI |-> [n \in Node |-> 0]]
  /\ fenced = {}
  /\ origins = [n \in Node |-> 0]
  /\ nextToken = 0
  /\ table = [g \in GKey |-> {}]
  /\ tableOrigin = [g \in GKey |-> {}]
  /\ tableBy = [n \in Node |-> {}]
  /\ sinks = [n \in Node |-> 0]
  /\ globalSnap = {}
  /\ phase = [s \in Session |-> "new"]
  /\ node = [s \in Session |-> CHOOSE n \in Node : TRUE]
  /\ behind = {}
  /\ told = [s \in Session |-> [i \in Item |-> {}]]
  /\ withheld = [s \in Session |-> {}]

Next ==
  \/ \E n \in Node : ClaimOrigin(n)
  \/ \E s \in Session :
       \/ RegisterSink(s) \/ OptOut(s) \/ ReleaseOrigin(s) \/ FallBehind(s)
       \/ \E v \in VNI : Subscribe(s, v) \/ Unsubscribe(s, v)
       \/ \E k \in Key : Withdraw(s, k)
       \/ \E k \in Key, nhs \in SUBSET NextHop : Announce(s, k, nhs)
       \/ \E g \in GKey, nh \in NextHop : AnnounceNat(s, g, nh) \/ AnnouncePublic(s, g, nh)
       \/ \E g \in GKey : WithdrawNat(s, g) \/ WithdrawPublic(s, g)
  \/ \E f \in Fence : SetFence(f) \/ ClearFence(f)

Spec == Init /\ [][Next]_vars

-----------------------------------------------------------------------------
(***************************************************************************)
(* Properties.                                                             *)
(***************************************************************************)
\* The ownership indexes agree with the tables they index: dropOriginLocked
\* withdraws exactly what byOrigin and natByOrigin/publicByOrigin list, so a
\* key missing from them would outlive its node and a key left in them after
\* a takeover would withdraw the new owner's record.
IndexConsistent ==
  /\ \A n \in Node : byOrigin[n] = {k \in Key : routes[k][n] # {}}
  /\ \A n \in Node : tableBy[n] = {g \in GKey : tableOrigin[g] = {n}}
  /\ \A g \in GKey : tableOrigin[g] = {} <=> table[g] = {}

\* "After that, every change to the VNI's table reaches its subscribers": a
\* subscriber that never fell behind ends up with exactly the advertised
\* nexthops of every key it does not originate, whatever announces,
\* withdraws, dropped sessions and fence changes happened, and its copy of a
\* key it does originate differs only in its own nexthops.  The one exception
\* is the one refilter documents: a key whose fence change was withheld from
\* its own origin stays stale until it is next sent.
FeedMatchesTable ==
  \A v \in VNI, n \in Node : LET s == subscribers[v][n] IN
    s \in Session \ behind => \A k \in KeysOf(v) \ withheld[s] :
      LET adv == advertised(routes, fenced)[k] IN
      /\ \A nh \in NextHop : Owner[nh] # n => (nh \in told[s][k] <=> nh \in adv)
      /\ routes[k][n] = {} => told[s][k] = adv

\* A session on the global feed that never fell behind has the NAT and public
\* tables exactly, its own records included, across takeovers of a block by
\* another node and across dropped sessions.
GlobalFeedMatchesTable ==
  \A n \in Node : LET s == sinks[n] IN
    s \in Session \ behind => \A g \in GKey : told[s][g] = table[g]

\* The replay cached for reconnecting edges is never stale: it is nil or it is
\* the current NAT and public tables.
SnapshotCoherent == globalSnap \subseteq {table}

\* "The old session's own cleanup later checks its token and touches nothing":
\* when a session that was superseded ends, nothing in the RIB changes.
StaleCleanupInert ==
  [][\A s \in Session : /\ phase[s] = "open" /\ phase'[s] = "ended"
                        /\ origins[node[s]] # s
                        => UNCHANGED <<rib, fenced>>]_vars

\* A record another node took over is never withdrawn by the end of the
\* session that held it before: a session's end or a claim of its node id
\* removes only records whose current origin is that node.
TakeoverSurvives ==
  [][\A g \in GKey, n \in Node :
       (tableOrigin[g] = {n} /\ tableOrigin'[g] = {} /\ origins' # origins)
         => origins'[n] # origins[n]]_vars

\* "When a session ends ... the reflector withdraws every route, NAT block and
\* public record its origin announced": once every session of a node has
\* ended, the RIB holds no route of it.
EndedNodesHaveNoRoutes ==
  \A n \in Node :
    (\A s \in Session : node[s] = n => phase[s] \in {"new", "ended"})
      => \A k \in Key : routes[k][n] = {}
=============================================================================
