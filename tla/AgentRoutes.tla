---------------------------- MODULE AgentRoutes ----------------------------
(***************************************************************************)
(* The route half of the node agent (mesh/agent: Bus.Run, its reconcile    *)
(* tick, the learned routes and what they program) between the route       *)
(* reflector and the node's flowplane.  The flowplane is module            *)
(* DataplaneRoutes; the reflector is its table, the agent's subscriptions  *)
(* and the in-order stream to the agent (module Reflector has its inside). *)
(*                                                                         *)
(* The agent is one goroutine: a tick is a sequence of dataplane calls     *)
(* (`pc'), and the interfaces, the reflector and the flowplane move        *)
(* between them.  A call can be refused, or lost before or after it took   *)
(* effect.  Keys and learnable routes are pairs (vni, prefix); nexthops    *)
(* and VNIs are numbers, so that a sorted list's first is the least.       *)
(***************************************************************************)
EXTENDS Integers, Sequences, SequencesExt, FiniteSets, FiniteSetsExt

CONSTANTS
  Key, HostKey, VniOf, SelfRoute, NoRoute, Anchored,     \* see DataplaneRoutes
  Learnable,        \* the (vni, prefix) the reflector may hold a route for
  NextHop, Here,    \* underlay addresses; this node's own
  Imports,          \* the peerings that may be configured: pairs (local vni, peer vni)
  Refuse,           \* keys whose AddRoute the flowplane may always refuse (a full map)
  StartRib, StartConfig,  \* what the fabric holds, and is configured with, at the start
  Prompt,           \* ticks come only once the receive queue is drained
  RouteCallsPerTick, RetryMaxTicks, UnsubscribeAfterTicks,
  MaxChanges,       \* bound: changes of interfaces, routes, config, and restarts
  MaxFaults         \* bound: lost or refused calls and records

Public == 0
VNI == {VniOf[k] : k \in Key}

\* The zero dpRoute, never a wanted route: the key may hold anything.
Unknown == [nh |-> 0, dvni |-> 0, external |-> FALSE]

VARIABLES
  kernel, shadow, by_id, journal, ifaces, self_routes, ifaces_partial, live,
  unlisted, unheld,                                      \* see DataplaneRoutes
  rib,            \* reflector: rib[l] is the nexthop set of l, {} for no route
  subscribed,     \* reflector: the VNIs of this node's session
  inbox,          \* the stream to the agent, in order
  session,        \* the session is up
  config,         \* [egress, imports]: what the CompiledNICs ask for
  learned,        \* learnedOwn, learnedPublic: {} or the singleton of a nexthop set
  programmed,     \* programmed[k]: {} or the singleton of what was last programmed
  retries,        \* [want, failures, wait] of a key being refused; failures = 0: none
  seen, rxRoutes, \* this replay's records, per VNI
  localHosts,     \* the interfaces of the last refreshLocalHosts
  egressVNIs, peerImports,      \* the last reconcile's
  absentTicks,    \* reconciles in a row without the VNI
  dpStale,        \* the flowplane restarted since the last refresh, or was unreachable
  resendQueue,    \* keys owed a re-send
  applied,        \* [subs, hosts] announced on this session
  desired,        \* [subs, hosts] of the reconcile in progress
  pc, todo, budget,             \* where the tick is
  refused,        \* the keys whose AddRoute is always refused
  lost,           \* history: the reflector dropped a record of this session's replays
  changes, faults

\* What the flowplane stores: AddRoute reads delivery VNI 0 as the key's own.
Wire(k, r) == [r EXCEPT !.dvni = IF @ = Public THEN k[1] ELSE @]
WireRoute == [nh : NextHop, dvni : VNI, external : BOOLEAN]

D == INSTANCE DataplaneRoutes WITH Route <- WireRoute

dataplane == <<kernel, shadow, by_id, journal, ifaces, self_routes, ifaces_partial,
               live, unlisted, unheld>>
reflector == <<rib, subscribed, inbox, session, lost, refused>>
memory == <<learned, programmed, retries, seen, rxRoutes, localHosts, egressVNIs,
            peerImports, absentTicks, resendQueue, applied, desired>>
vars == <<dataplane, reflector, config, memory, dpStale, pc, todo, budget, refused, changes, faults>>

NoRetry == [want |-> {}, failures |-> 0, wait |-> 0]
Nothing == [subs |-> {}, hosts |-> {}]

\* The agent starts, with nothing in memory, on a node that has its guests and its
\* config and joins a fabric that has its routes.
Init ==
  /\ by_id \in SUBSET HostKey
  /\ kernel = [k \in Key |-> IF k \in by_id THEN SelfRoute ELSE NoRoute]
  /\ shadow = [k \in Key |-> NoRoute]
  /\ journal = by_id /\ ifaces = by_id /\ self_routes = by_id /\ live = by_id
  /\ ifaces_partial = FALSE /\ unlisted = {} /\ unheld = {}
  /\ rib \in StartRib /\ config \in StartConfig
  /\ refused \in SUBSET Refuse
  /\ subscribed = {} /\ inbox = <<>> /\ session = FALSE /\ lost = FALSE
  /\ learned = [l \in Learnable |-> {}]
  /\ programmed = [k \in Key |-> {}]
  /\ retries = [k \in Key |-> NoRetry]
  /\ seen = {} /\ rxRoutes = [v \in VNI \cup {Public} |-> 0]
  /\ localHosts = {} /\ egressVNIs = {} /\ peerImports = {}
  /\ absentTicks = [v \in VNI \cup {Public} |-> 0]
  /\ dpStale = FALSE /\ resendQueue = {}
  /\ applied = Nothing /\ desired = Nothing
  /\ pc = "idle" /\ todo = {} /\ budget = 0
  /\ changes = 0 /\ faults = 0

(***************************************************************************)
(* What a key should be programmed with: {} or a singleton.                *)
(***************************************************************************)
\* A local guest's key never gets this node's own VTEP; any other gets the first.
NexthopFor(k, nhs, hosts) ==
  LET usable == IF k \in hosts THEN nhs \ {Here} ELSE nhs
  IN IF usable = {} THEN {} ELSE {Min(usable)}

FromOwn(k, table, hosts) ==
  {[nh |-> nh, dvni |-> k[1], external |-> FALSE] :
     nh \in UNION {NexthopFor(k, nhs, hosts) : nhs \in table[k]}}

FromPeer(k, peer, table, hosts) ==
  {[nh |-> nh, dvni |-> peer, external |-> FALSE] :
     nh \in UNION {NexthopFor(k, nhs, hosts) : nhs \in table[<<peer, k[2]>>]}}

FromPublic(k, table) ==
  {[nh |-> Min(nhs), dvni |-> Public, external |-> TRUE] : nhs \in table[<<Public, k[2]>>]}

\* The own table decides a key it has a route for alone; then the first peer import
\* with a usable route; then, in an egress VNI, the public default.
DesiredRoute(k, table, hosts, egress, imports) ==
  LET peers == {p \in {i[2] : i \in {j \in imports : j[1] = k[1]}} :
                  <<p, k[2]>> \in Learnable /\ FromPeer(k, p, table, hosts) # {}}
  IN IF k \in Learnable /\ table[k] # {} THEN FromOwn(k, table, hosts)
     ELSE IF peers # {} THEN FromPeer(k, Min(peers), table, hosts)
     ELSE IF k[1] \in egress /\ <<Public, k[2]>> \in Learnable THEN FromPublic(k, table)
     ELSE {}

Want(k) == DesiredRoute(k, learned, localHosts, egressVNIs, peerImports)

RouteKeys ==
  {k \in Key :
     \/ programmed[k] # {}
     \/ k \in Learnable /\ learned[k] # {}
     \/ \E i \in peerImports : i[1] = k[1] /\ <<i[2], k[2]>> \in Learnable
                               /\ learned[<<i[2], k[2]>>] # {}
     \/ k[1] \in egressVNIs /\ <<Public, k[2]>> \in Learnable /\ learned[<<Public, k[2]>>] # {}}

\* The keys a learned route feeds: its own table's and its importers', or the
\* egress VNIs' if it is a public default.
Fed(l) == {k \in Key : k[2] = l[2] /\ (IF l[1] = Public THEN k[1] \in egressVNIs
                                       ELSE k = l \/ <<k[1], l[1]>> \in peerImports)}

(***************************************************************************)
(* One call of syncKey, and its outcomes.                                  *)
(***************************************************************************)
Outcome == {"ok", "refused", "lost", "landed"}
Transient == {"lost", "landed"}

Calls(k, force) == force \/ programmed[k] # Want(k)

\* A held key's call stops at the shadow and cannot be refused.
Refusable(k) == k \notin self_routes /\ (Want(k) # {} \/ shadow[k] # NoRoute)
AlwaysRefused(k) == k \in refused /\ Refusable(k) /\ Want(k) # {}

NoteFailure(k) ==
  LET again == retries[k].failures > 0 /\ retries[k].want = Want(k)
      n == Min({(IF again THEN retries[k].failures ELSE 0) + 1, RetryMaxTicks})
  IN [want |-> Want(k), failures |-> n, wait |-> Min({2 ^ (n - 1), RetryMaxTicks})]

\* Mutant: the wait never ends.
BackingOff_Forever(k) ==
  Want(k) # {} /\ retries[k].failures > 0 /\ retries[k].want = Want(k)

\* It waits only while the key wants the very route that was refused.
BackingOff(k) ==
  /\ Want(k) # {} /\ retries[k].failures > 0
  /\ retries[k].want = Want(k)
  /\ retries[k].wait > 0

Program(k) ==
  IF Want(k) = {} THEN D!DeleteRoute(k, TRUE)
  ELSE \E r \in Want(k) : D!ReplaceRoute(k, Wire(k, r), TRUE)

SyncKey(k, outcome) ==
  /\ IF AlwaysRefused(k) THEN outcome \notin {"ok", "landed"} ELSE outcome = "refused" => Refusable(k)
  /\ IF outcome = "ok" \/ (outcome = "refused" /\ AlwaysRefused(k)) THEN UNCHANGED faults
     ELSE faults < MaxFaults /\ faults' = faults + 1
  /\ IF outcome \in {"ok", "landed"} THEN Program(k) ELSE UNCHANGED dataplane
  /\ programmed' = [programmed EXCEPT ![k] = IF outcome = "ok" THEN Want(k) ELSE {Unknown}]
  /\ retries' = CASE outcome = "ok" -> [retries EXCEPT ![k] = NoRetry]
                  [] outcome = "refused" -> [retries EXCEPT ![k] = NoteFailure(k)]
                  [] OTHER -> IF pc = "diff" /\ retries[k].want # Want(k)
                              THEN [retries EXCEPT ![k] = NoRetry] ELSE retries

(***************************************************************************)
(* The reconcile tick: read the config and the interfaces, refresh the     *)
(* local hosts, converge the drifted keys, pay down the re-send, send the  *)
(* delta.                                                                  *)
(***************************************************************************)
LocalVNIs(hosts) == {VniOf[k] : k \in hosts}
LocalImports(hosts) == {i \in config.imports : i[1] \in LocalVNIs(hosts)}
Subs(hosts) == {Public} \cup LocalVNIs(hosts) \cup {i[2] : i \in LocalImports(hosts)}

\* forgetUnsubscribed: the VNIs with learned routes that the reconcile left out.
Absent(subs) == {v \in (VNI \cup {Public}) \ subs :
                   \E l \in Learnable : l[1] = v /\ learned[l] # {}}
Forgotten(subs) == {v \in Absent(subs) : absentTicks[v] + 1 >= UnsubscribeAfterTicks}

Reconcile ==
  /\ pc = "idle" /\ session
  /\ Prompt => inbox = <<>>
  /\ desired' = [subs |-> Subs(by_id), hosts |-> by_id]
  /\ egressVNIs' = config.egress \cap LocalVNIs(by_id)
  /\ peerImports' = LocalImports(by_id)
  /\ absentTicks' = [v \in VNI \cup {Public} |->
                       IF v \in Absent(desired'.subs) \ Forgotten(desired'.subs)
                       THEN absentTicks[v] + 1 ELSE 0]
  /\ learned' = [l \in Learnable |-> IF l[1] \in Forgotten(desired'.subs) THEN {} ELSE learned[l]]
  /\ pc' = "refresh"
  /\ UNCHANGED <<dataplane, reflector, config, programmed, retries, seen, rxRoutes, localHosts,
                 resendQueue, applied, dpStale, todo, budget, changes, faults>>

\* The API server could not be read: the last config stands and nothing is announced.
ReconcileFails ==
  /\ pc = "idle" /\ session /\ faults < MaxFaults
  /\ Prompt => inbox = <<>>
  /\ desired' = applied
  /\ faults' = faults + 1
  /\ pc' = "refresh"
  /\ UNCHANGED <<dataplane, reflector, config, learned, programmed, retries, seen, rxRoutes,
                 localHosts, egressVNIs, peerImports, absentTicks, resendQueue, applied,
                 dpStale, todo, budget, changes>>

\* Each backoff is counted down from here: a tick has passed.
Ticked == [k \in Key |-> [retries[k] EXCEPT !.wait = Max({0, @ - 1})]]

\* refreshLocalHosts: a host that left gives up this node's own VTEP, and its key is
\* re-asserted; a restarted flowplane is owed every key.
RefreshLocalHosts ==
  /\ pc = "refresh"
  /\ localHosts' = by_id
  /\ learned' = [l \in Learnable |-> IF l \in localHosts \ by_id
                                     THEN {nhs \ {Here} : nhs \in learned[l]} ELSE learned[l]]
  /\ todo' = {<<k, TRUE>> : k \in localHosts \ by_id}
  /\ resendQueue' = IF dpStale THEN RouteKeys \cup (localHosts \ by_id) ELSE resendQueue
  /\ dpStale' = FALSE
  /\ retries' = Ticked
  /\ pc' = "release"
  /\ UNCHANGED <<dataplane, reflector, config, programmed, seen, rxRoutes, egressVNIs,
                 peerImports, absentTicks, applied, desired, budget, changes, faults>>

RefreshFails ==
  /\ pc = "refresh" /\ faults < MaxFaults
  /\ faults' = faults + 1
  /\ dpStale' = TRUE
  /\ retries' = Ticked
  /\ pc' = "release"
  /\ UNCHANGED <<dataplane, reflector, config, learned, programmed, seen, rxRoutes, localHosts,
                 egressVNIs, peerImports, absentTicks, resendQueue, applied, desired, todo,
                 budget, changes>>

Phase(drifted, left, owed) ==
  IF drifted # {} /\ left > 0 THEN "diff" ELSE IF owed # {} /\ left > 0 THEN "resend" ELSE "send"

\* The keys that drifted and are not backing off, and the tick's budget of calls.
PlanResync ==
  /\ pc = "release" /\ todo = {}
  /\ todo' = {<<k, FALSE>> : k \in {q \in RouteKeys : Calls(q, FALSE) /\ ~BackingOff(q)}}
  /\ retries' = [k \in Key |-> IF k \in RouteKeys THEN retries[k] ELSE NoRetry]
  /\ budget' = RouteCallsPerTick
  /\ pc' = Phase(todo', budget', resendQueue)
  /\ UNCHANGED <<dataplane, reflector, config, learned, programmed, seen, rxRoutes, localHosts,
                 egressVNIs, peerImports, absentTicks, resendQueue, applied, desired, dpStale,
                 changes, faults>>

quiet == <<reflector, config, learned, seen, rxRoutes, localHosts, egressVNIs, peerImports,
           absentTicks, applied, desired, dpStale, changes>>

\* A call that did not reach the flowplane ends the resync for this tick.
DiffKey(k, outcome) ==
  /\ pc = "diff" /\ <<k, FALSE>> \in todo
  /\ SyncKey(k, outcome)
  /\ budget' = IF outcome \in Transient THEN 0 ELSE budget - 1
  /\ todo' = IF budget' = 0 THEN {} ELSE todo \ {<<k, FALSE>>}
  /\ pc' = Phase(todo', budget', resendQueue)
  /\ UNCHANGED <<quiet, resendQueue>>

ResendKey(k, outcome) ==
  /\ pc = "resend" /\ k \in resendQueue
  /\ resendQueue' = resendQueue \ {k}
  /\ IF Want(k) = {} /\ programmed[k] = {} /\ k \notin localHosts
     THEN outcome = "ok" /\ UNCHANGED <<dataplane, programmed, retries, faults, budget>>
     ELSE SyncKey(k, outcome) /\ budget' = IF outcome \in Transient THEN 0 ELSE budget - 1
  /\ pc' = Phase({}, budget', resendQueue')
  /\ todo' = {}
  /\ UNCHANGED quiet

(***************************************************************************)
(* The session: what the agent sends, and what the reflector answers.      *)
(***************************************************************************)
Update(l, nhs) == [op |-> IF nhs = {} THEN "withdraw" ELSE "add", of |-> l, nhs |-> nhs]
EndOfRIB(v, n) == [op |-> "eor", of |-> v, n |-> n]

\* A subscribe is answered with the VNI's table and its record count; an older
\* reflector can drop a record of it.
Replay(v, dropped) ==
  LET records == {l \in Learnable : l[1] = v /\ rib[l] # {}}
  IN SetToSeq({Update(l, rib[l]) : l \in records \ dropped}) \o <<EndOfRIB(v, Cardinality(records))>>

\* sendDelta: subscribes, announces, withdraws, unsubscribes, in this order.
SendDelta(dropped) ==
  LET added == desired.subs \ applied.subs
      moved == (desired.hosts \ applied.hosts) \cup (applied.hosts \ desired.hosts)
      fanout == SetToSeq({Update(k, rib'[k]) : k \in {q \in moved : q[1] \in subscribed \cup added}})
  IN /\ pc = "send" /\ session
     /\ dropped # {} => /\ faults < MaxFaults
                        /\ \A l \in dropped : l[1] \in added /\ rib[l] # {}
     /\ faults' = IF dropped = {} THEN faults ELSE faults + 1
     /\ lost' = (lost \/ dropped # {})
     /\ rxRoutes' = [v \in VNI \cup {Public} |-> IF v \in added THEN 0 ELSE rxRoutes[v]]
     /\ seen' = {l \in seen : l[1] \notin added}
     /\ rib' = [l \in Learnable |-> IF l \in desired.hosts THEN rib[l] \cup {Here}
                                    ELSE IF l \in moved THEN rib[l] \ {Here} ELSE rib[l]]
     /\ subscribed' = (subscribed \cup added) \ (applied.subs \ desired.subs)
     /\ inbox' = inbox \o FlattenSeq([i \in 1 .. Cardinality(added) |->
                                        Replay(SetToSeq(added)[i], dropped)]) \o fanout
     /\ applied' = desired /\ desired' = Nothing
     /\ pc' = "idle"
     /\ UNCHANGED <<dataplane, refused, session, config, learned, programmed, retries, localHosts,
                    egressVNIs, peerImports, absentTicks, resendQueue, dpStale, todo, budget,
                    changes>>

\* The stream broke before the delta was sent: Run returns.
SendFails ==
  /\ pc = "send" /\ ~session
  /\ desired' = Nothing /\ pc' = "idle"
  /\ UNCHANGED <<dataplane, reflector, config, learned, programmed, retries, seen, rxRoutes,
                 localHosts, egressVNIs, peerImports, absentTicks, resendQueue, applied, dpStale,
                 todo, budget, changes, faults>>

Connect ==
  /\ pc = "idle" /\ ~session
  /\ session' = TRUE /\ inbox' = <<>> /\ lost' = FALSE
  /\ seen' = {} /\ rxRoutes' = [v \in VNI \cup {Public} |-> 0]
  /\ applied' = Nothing
  /\ UNCHANGED <<dataplane, refused, rib, subscribed, config, learned, programmed, retries, localHosts,
                 egressVNIs, peerImports, absentTicks, resendQueue, desired, dpStale, pc, todo,
                 budget, changes, faults>>

\* Mutant: the record count is not compared.
Stale_Unchecked(v, n) == {l \in Learnable \ seen : l[1] = v /\ learned[l] # {} /\ n = n}

\* pruneVNI: what a complete replay did not name has left the RIB.
Stale(v, n) == IF rxRoutes[v] # n THEN {}
               ELSE {l \in Learnable \ seen : l[1] = v /\ learned[l] # {}}

HandleServerMsg ==
  /\ pc = "idle" /\ inbox # <<>>
  /\ inbox' = Tail(inbox)
  /\ LET m == Head(inbox)
         stale == IF m.op = "eor" THEN Stale(m.of, m.n) ELSE {}
     IN /\ learned' = [l \in Learnable |->
                         IF l \in stale \/ (m.op = "withdraw" /\ l = m.of) THEN {}
                         ELSE IF m.op = "add" /\ l = m.of
                              THEN {IF l[1] = Public THEN {Min(m.nhs)} ELSE m.nhs}
                              ELSE learned[l]]
        /\ IF m.op = "add"
           THEN /\ seen' = seen \cup {m.of}
                /\ rxRoutes' = [rxRoutes EXCEPT ![m.of[1]] = @ + 1]
           ELSE UNCHANGED <<seen, rxRoutes>>
        /\ todo' = IF m.op = "eor" THEN {<<k, FALSE>> : k \in UNION {Fed(l) : l \in stale}}
                   ELSE {<<k, k = m.of>> : k \in Fed(m.of)}
        /\ pc' = IF todo' = {} THEN "idle" ELSE "apply"
  /\ UNCHANGED <<dataplane, refused, rib, subscribed, session, lost, config, programmed, retries,
                 localHosts, egressVNIs, peerImports, absentTicks, resendQueue, applied, desired,
                 dpStale, budget, changes, faults>>

\* The keys a RouteUpdate, a prune or a host that left must program, one call each.
SyncLearned(k, force, outcome) ==
  /\ pc \in {"apply", "release"} /\ <<k, force>> \in todo
  /\ IF Calls(k, force) THEN SyncKey(k, outcome)
     ELSE outcome = "ok" /\ UNCHANGED <<dataplane, programmed, retries, faults>>
  /\ todo' = todo \ {<<k, force>>}
  /\ pc' = IF pc = "apply" /\ todo' = {} THEN "idle" ELSE pc
  /\ UNCHANGED <<quiet, resendQueue, budget>>

(***************************************************************************)
(* What moves around the agent, MaxChanges times in all.                   *)
(***************************************************************************)
Change == changes < MaxChanges /\ changes' = changes + 1
agent == <<memory, pc, todo, budget, faults>>

Attach(k) ==
  /\ Change
  /\ D!CreateInterface(k)
  /\ UNCHANGED <<reflector, config, dpStale, agent>>

Detach(k) ==
  /\ Change
  /\ D!DetachInterface(k, TRUE, {})
  /\ UNCHANGED <<reflector, config, dpStale, agent>>

\* The flowplane restarts and adopts its pinned maps; its instance id is new.
DataplaneRestart ==
  /\ Change
  /\ D!Restart(FALSE, {}, {}, {})
  /\ dpStale' = TRUE
  /\ UNCHANGED <<reflector, config, agent>>

\* Another node announces or withdraws.
RemoteChange(l, nhs) ==
  /\ Change
  /\ rib' = [rib EXCEPT ![l] = nhs \cup (@ \cap {Here})]
  /\ rib' # rib
  /\ inbox' = IF l[1] \in subscribed THEN Append(inbox, Update(l, rib'[l])) ELSE inbox
  /\ UNCHANGED <<dataplane, refused, subscribed, session, lost, config, dpStale, agent>>

ConfigChange(egress, imports) ==
  /\ Change
  /\ config' = [egress |-> egress, imports |-> imports]
  /\ config' # config
  /\ UNCHANGED <<dataplane, reflector, dpStale, agent>>

\* The reflector ends the session and withdraws what this node originated.
SessionDrop ==
  /\ Change
  /\ session /\ session' = FALSE
  /\ subscribed' = {}
  /\ rib' = [l \in Learnable |-> rib[l] \ {Here}]
  /\ UNCHANGED <<dataplane, refused, inbox, lost, config, dpStale, agent>>

Calling == \E k \in Key, outcome \in Outcome :
             \/ DiffKey(k, outcome)
             \/ ResendKey(k, outcome)
             \/ \E force \in BOOLEAN : SyncLearned(k, force, outcome)

Agent == \/ Reconcile \/ ReconcileFails \/ RefreshLocalHosts \/ RefreshFails \/ PlanResync
         \/ \E dropped \in SUBSET Learnable : SendDelta(dropped)
         \/ SendFails \/ Connect \/ HandleServerMsg \/ Calling

Environment ==
  \/ \E k \in HostKey : Attach(k) \/ Detach(k)
  \/ DataplaneRestart \/ SessionDrop
  \/ \E l \in Learnable, nhs \in SUBSET (NextHop \ {Here}) : RemoteChange(l, nhs)
  \/ \E egress \in SUBSET LocalVNIs(HostKey), imports \in SUBSET Imports : ConfigChange(egress, imports)

Next == Agent \/ Environment

\* The agent's goroutine keeps running, and its select serves the receive queue.
Fairness == WF_vars(Agent) /\ SF_vars(HandleServerMsg)

Spec == Init /\ [][Next]_vars /\ Fairness

(***************************************************************************)
(* Properties.                                                             *)
(***************************************************************************)
\* What the flowplane should hold for k, from the reflector's table, the interfaces
\* attached and the config alone.
Goal(k) ==
  LET view == [l \in Learnable |-> IF l[1] \in Subs(by_id) /\ rib[l] # {} THEN {rib[l]} ELSE {}]
      want == DesiredRoute(k, view, by_id, config.egress \cap LocalVNIs(by_id), LocalImports(by_id))
  IN {Wire(k, r) : r \in want}

Converged ==
  \A k \in Key \ refused :
    /\ shadow[k] = IF Goal(k) = {} THEN NoRoute ELSE CHOOSE r \in Goal(k) : TRUE
    /\ k \in self_routes \/ kernel[k] = shadow[k]

\* Once the world stops changing, the flowplane ends up holding exactly the routes the
\* reflector's table, the interfaces and the config call for, and stays there: whatever
\* calls were lost or refused, restarts, drops and moves came before, and however long
\* another key is refused (syncRoutes, "every reconcile tick converges the rest").  Only
\* a session whose replay lost a record waits for the next one.
RoutesConverge == <>[](lost \/ Converged)

\* A learned route is forgotten only once the reflector has withdrawn it, or has been
\* told to stop sending its VNI: never on an incomplete replay (pruneVNI) and never for
\* a VNI the node is subscribed to (forgetUnsubscribed).
ForgetsOnlyWithdrawn ==
  [][\A l \in Learnable :
       learned[l] # {} /\ learned'[l] = {} =>
         \/ rib[l] = {}
         \/ l[1] \notin subscribed
         \/ \E i \in DOMAIN inbox' : inbox'[i].op = "add" /\ inbox'[i].of = l]_vars
=============================================================================
