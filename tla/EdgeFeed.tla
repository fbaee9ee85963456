------------------------------ MODULE EdgeFeed ------------------------------
(***************************************************************************)
(* A WAN edge's agent on the global feed (mesh/agent, bus.go and           *)
(* public.go): the reflector's tables of load balancer backends and NAT    *)
(* blocks, the session that replays and then follows them, and the agent   *)
(* that turns each record into dataplane calls.  The calls may fail, and   *)
(* one whose answer was lost may have been carried out.                    *)
(*                                                                         *)
(* The dataplane is modelled by its contract, in the terms of LoadBalancers*)
(* and NatOwners: it refuses a load balancer or a backend it already has   *)
(* and a backend for a load balancer it does not know.  Handling a message *)
(* is one step: the agent's Run goroutine alone makes these calls.  A NAT  *)
(* block keeps its port range, and the path for dataplanes without         *)
(* ReplaceNeighborNats is left out.                                        *)
(***************************************************************************)
EXTENDS Integers, Sequences, SequencesExt, FiniteSets, FiniteSetsExt

CONSTANTS
  Address,     \* load balancer addresses
  Backend,     \* backends: owner node and overlay address
  PortSet,     \* the port sets a backend may announce for its address
  NatBlock,    \* NAT blocks: public address and port range
  NatOwner,    \* who may own a block: records [underlay, vni]
  NoLb,        \* no load balancer
  MaxChanges,  \* bound: changes of the reflector's tables
  MaxFaults    \* bound: failed calls, lossy replays, lost sessions and restarts

VARIABLES
  public,      \* the reflector's LB_IP records: public[a][b] is {} or {ports}
  nat,         \* the reflector's NAT blocks: nat[k] is {} or {owner}
  session,     \* the agent has a session
  inbox,       \* its queue of ServerMsgs
  edgeLbs,     \* the agent: edgeLbs[a] is NoLb or [ports, backends]
  seenPublic,  \* backends seen since the session began
  seenNat,     \* blocks seen, as <<block, vni>> -> {} or {owner}
  globalRecords, replayingGlobal,
  dpLbs,       \* the dataplane's load balancers
  dpNat,       \* the dataplane's blocks: {} or {owner}
  failed,      \* history: a call failed in this session and was given up
  lossy,       \* history: this session's replay dropped a record
  unsure,      \* history: addresses where the dataplane may hold what the
               \* agent does not know: a failed call was carried out, or the
               \* agent restarted.  Cleared when both start afresh
  changes, faults

agent == <<edgeLbs, seenPublic, seenNat, globalRecords, replayingGlobal>>
dataplane == <<dpLbs, dpNat>>
history == <<failed, lossy, unsure>>
vars == <<public, nat, session, inbox, agent, dataplane, history, changes, faults>>

Pair == Address \X Backend
Vni == {o.vni : o \in NatOwner}
NoNat == [e \in NatBlock \X Vni |-> {}]
Lb(P) == [ports |-> P, backends |-> {}]

-----------------------------------------------------------------------------
(***************************************************************************)
(* The reflector.  A change is fanned out to the session; a registration   *)
(* replays both tables in any order and closes with the record count.  An  *)
(* older reflector may drop a record of the replay.                        *)
(***************************************************************************)
LbMsg(op, a, b, P) == [op |-> op, kind |-> "lb", key |-> <<a, b>>, val |-> P]
NatMsg(op, k, o) == [op |-> op, kind |-> "nat", key |-> k, val |-> o]
EndOfGlobal(n) == [op |-> "end", kind |-> "end", key |-> n]

Send(m) == inbox' = IF session THEN Append(inbox, m) ELSE inbox

Change ==
  /\ changes < MaxChanges /\ changes' = changes + 1
  /\ UNCHANGED <<session, agent, dataplane, history, faults>>

AnnouncePublic(a, b, P) ==
  /\ Change /\ public[a][b] # {P}
  /\ public' = [public EXCEPT ![a][b] = {P}] /\ UNCHANGED nat
  /\ Send(LbMsg("add", a, b, P))

WithdrawPublic(a, b) ==
  /\ Change
  /\ public' = [public EXCEPT ![a][b] = {}] /\ UNCHANGED nat
  /\ \E P \in public[a][b] : Send(LbMsg("withdraw", a, b, P))

AnnounceNat(k, o) ==
  /\ Change /\ nat[k] # {o}
  /\ nat' = [nat EXCEPT ![k] = {o}] /\ UNCHANGED public
  /\ Send(NatMsg("add", k, o))

WithdrawNat(k) ==
  /\ Change
  /\ nat' = [nat EXCEPT ![k] = {}] /\ UNCHANGED public
  /\ \E o \in nat[k] : Send(NatMsg("withdraw", k, o))

Records ==
  UNION {{LbMsg("add", p[1], p[2], P) : P \in public[p[1]][p[2]]} : p \in Pair}
    \cup UNION {{NatMsg("add", k, o) : o \in nat[k]} : k \in NatBlock}

(***************************************************************************)
(* The dataplane's calls.  A handler works on a record of the state it     *)
(* changes and yields the set of its outcomes; ok is the answer of the     *)
(* last call.  A call that fails may have been carried out or not.         *)
(***************************************************************************)
Now == [lbs |-> dpLbs, nat |-> dpNat, edge |-> edgeLbs, unsure |-> unsure,
        failed |-> failed, faults |-> faults, ok |-> TRUE]

Try(s, as, refused, done) ==
  IF refused THEN {[s EXCEPT !.ok = FALSE]}
  ELSE {[done EXCEPT !.ok = TRUE]}
         \cup IF s.faults = MaxFaults THEN {}
              ELSE {[s EXCEPT !.ok = FALSE, !.faults = @ + 1],
                    [done EXCEPT !.ok = FALSE, !.faults = @ + 1, !.unsure = @ \cup as]}

AddLoadBalancer(s, a, P) ==
  Try(s, {a}, s.lbs[a] # NoLb, [s EXCEPT !.lbs[a] = Lb(P)])
DelLoadBalancer(s, a) == Try(s, {a}, FALSE, [s EXCEPT !.lbs[a] = NoLb])
AddLbBackend(s, a, b) ==
  Try(s, {a}, s.lbs[a] = NoLb \/ b \in s.lbs[a].backends,
      [s EXCEPT !.lbs[a].backends = @ \cup {b}])
DelLbBackend(s, a, b) ==
  Try(s, {a}, s.lbs[a] = NoLb, [s EXCEPT !.lbs[a].backends = @ \ {b}])
AddNeighborNat(s, k, o) == Try(s, {}, FALSE, [s EXCEPT !.nat[k] = {o}])
WithdrawNeighborNat(s, k, v) ==
  Try(s, {}, FALSE, [s EXCEPT !.nat[k] = {o \in @ : o.vni # v}])

\* The next call is made after a success only; after any answer; and a
\* failure that is logged and given up.
Then(S, F(_)) == UNION {IF s.ok THEN F(s) ELSE {s} : s \in S}
ForEach(F(_, _), x, S) ==
  FoldSet(LAMBDA e, T : UNION {F([t EXCEPT !.ok = TRUE], e) : t \in T}, S, x)
GivenUp(S) == {[s EXCEPT !.failed = @ \/ ~s.ok, !.ok = TRUE] : s \in S}

-----------------------------------------------------------------------------
(***************************************************************************)
(* The agent's handling of a load balancer record.                         *)
(***************************************************************************)
registerLoadBalancer(s, a, P) ==
  LET first == AddLoadBalancer(s, a, P)
      Again(t) == IF t.ok THEN {t}
                  ELSE Then(DelLoadBalancer(t, a), LAMBDA u : AddLoadBalancer(u, a, P))
  IN {IF t.ok THEN [t EXCEPT !.edge[a] = Lb(P), !.unsure = @ \ {a}] ELSE t :
        t \in UNION {Again(u) : u \in first}}

Attach(s, a, b) ==
  GivenUp(Then(AddLbBackend(s, a, b),
               LAMBDA t : {[t EXCEPT !.edge[a].backends = @ \cup {b}]}))

Detach(s, a, b) ==
  Then(DelLbBackend(s, a, b), LAMBDA t : {[t EXCEPT !.edge[a].backends = @ \ {b}]})

Drop(s, a) ==
  Then(DelLoadBalancer(s, a), LAMBDA t : {[t EXCEPT !.edge[a] = NoLb, !.unsure = @ \ {a}]})

addLbBackend(s, a, b, P) ==
  LET Rebuild(t) == ForEach(LAMBDA u, x : Attach(u, a, x), s.edge[a].backends, {t})
      ready == CASE s.edge[a] = NoLb -> registerLoadBalancer(s, a, P)
                 [] s.edge[a] # NoLb /\ s.edge[a].ports # P ->
                      Then(Then(Drop(s, a), LAMBDA t : registerLoadBalancer(t, a, P)), Rebuild)
                 [] OTHER -> {s}
  IN GivenUp(Then(ready, LAMBDA t : IF b \in t.edge[a].backends THEN {t} ELSE Attach(t, a, b)))

delLbBackend(s, a, b) ==
  IF s.edge[a] = NoLb THEN {s}
  ELSE GivenUp(Then(IF b \in s.edge[a].backends THEN Detach(s, a, b) ELSE {s},
                    LAMBDA t : IF t.edge[a].backends # {} THEN {t} ELSE Drop(t, a)))

\* Mutant: nothing is pruned.
pruneLbBackends_None(S) == S

pruneLbBackends(S) ==
  LET Stale(s, a) == {b \in s.edge[a].backends : <<a, b>> \notin seenPublic}
      Prune(s, a) ==
        LET rest == ForEach(LAMBDA t, b : GivenUp(Detach(t, a, b)), Stale(s, a), {s})
        IN UNION {IF t.edge[a].backends = {} THEN GivenUp(Drop(t, a)) ELSE {t} : t \in rest}
  IN ForEach(LAMBDA s, a : IF s.edge[a] = NoLb THEN {s} ELSE Prune(s, a), Address, S)

-----------------------------------------------------------------------------
(***************************************************************************)
(* The steps of the agent.                                                 *)
(***************************************************************************)
Becomes(s) ==
  /\ dpLbs' = s.lbs /\ dpNat' = s.nat /\ edgeLbs' = s.edge
  /\ unsure' = s.unsure /\ failed' = s.failed /\ faults' = s.faults

Receive(kind) ==
  /\ session /\ inbox # <<>> /\ Head(inbox).kind = kind
  /\ inbox' = Tail(inbox)
  /\ UNCHANGED <<public, nat, session, lossy, changes>>

ApplyPublic ==
  /\ Receive("lb")
  /\ globalRecords' = globalRecords + 1
  /\ LET m == Head(inbox)
         a == m.key[1]
         b == m.key[2]
     IN IF m.op = "add"
        THEN /\ seenPublic' = seenPublic \cup {m.key}
             /\ \E s \in addLbBackend(Now, a, b, m.val) : Becomes(s)
        ELSE /\ seenPublic' = seenPublic \ {m.key}
             /\ \E s \in delLbBackend(Now, a, b) : Becomes(s)
  /\ UNCHANGED <<seenNat, replayingGlobal>>

ApplyNat ==
  /\ Receive("nat")
  /\ globalRecords' = globalRecords + 1
  /\ LET m == Head(inbox)
         e == <<m.key, m.val.vni>>
     IN IF m.op = "add"
        THEN /\ seenNat' = [seenNat EXCEPT ![e] = {m.val}]
             /\ \E s \in IF replayingGlobal THEN {Now}
                         ELSE GivenUp(AddNeighborNat(Now, m.key, m.val)) : Becomes(s)
        ELSE /\ seenNat' = [seenNat EXCEPT ![e] = {}]
             /\ \E s \in GivenUp(WithdrawNeighborNat(Now, m.key, m.val.vni)) : Becomes(s)
  /\ UNCHANGED <<seenPublic, replayingGlobal>>

Seen == {<<e[1], o>> : e \in DOMAIN seenNat, o \in NatOwner}
SeenBlocks == {x \in Seen : x[2] \in seenNat[<<x[1], x[2].vni>>]}
OneByOne(S) == ForEach(LAMBDA s, x : GivenUp(AddNeighborNat(s, x[1], x[2])), SeenBlocks, S)

\* ReplaceNeighborNats: the whole set; unreachable, with nothing applied or an
\* answer lost; or stopped on the way, when stale blocks are partly removed.
syncNeighborNats(s) ==
  LET want == [k \in NatBlock |-> {o \in NatOwner : <<k, o>> \in SeenBlocks}]
      stale == {k \in NatBlock : want[k] = {}}
      Cut(gone) == [s EXCEPT !.nat = [k \in NatBlock |-> IF k \in gone THEN {} ELSE @[k]],
                             !.faults = @ + 1, !.failed = TRUE]
  IN GivenUp(Try(s, {}, FALSE, [s EXCEPT !.nat = want]))
       \cup IF s.faults = MaxFaults THEN {} ELSE OneByOne({Cut(g) : g \in SUBSET stale})

\* Mutant: the record count is not compared.
PruneGlobal_Unchecked ==
  /\ Receive("end")
  /\ replayingGlobal' = FALSE
  /\ \E s \in pruneLbBackends(syncNeighborNats(Now)) : Becomes(s)
  /\ UNCHANGED <<seenPublic, seenNat, globalRecords>>

PruneGlobal ==
  /\ Receive("end")
  /\ replayingGlobal' = FALSE
  /\ \E s \in IF globalRecords # Head(inbox).key THEN OneByOne({Now})
              ELSE pruneLbBackends(syncNeighborNats(Now)) : Becomes(s)
  /\ UNCHANGED <<seenPublic, seenNat, globalRecords>>

Fault == faults < MaxFaults /\ faults' = faults + 1

\* Run opens a session: the agent forgets what it has seen, and the reflector
\* queues the replay.
Connect ==
  /\ ~session /\ session' = TRUE
  /\ seenPublic' = {} /\ seenNat' = NoNat /\ globalRecords' = 0 /\ replayingGlobal' = TRUE
  /\ failed' = FALSE
  /\ \E dropped \in {{}} \cup {{m} : m \in Records} :
       /\ IF dropped = {} THEN UNCHANGED faults ELSE Fault
       /\ lossy' = (dropped # {})
       /\ \E q \in SetToSeqs(Records \ dropped) :
            inbox' = Append(q, EndOfGlobal(Cardinality(Records)))
  /\ UNCHANGED <<public, nat, edgeLbs, dataplane, unsure, changes>>

Disconnect ==
  /\ Fault
  /\ session /\ session' = FALSE /\ inbox' = <<>>
  /\ UNCHANGED <<public, nat, agent, dataplane, history, changes>>

\* The agent restarts; the dataplane keeps what it holds.
Restart ==
  /\ Fault
  /\ session' = FALSE /\ inbox' = <<>>
  /\ edgeLbs' = [a \in Address |-> NoLb]
  /\ unsure' = unsure \cup {a \in Address : dpLbs[a] # NoLb}
  /\ UNCHANGED <<public, nat, seenPublic, seenNat, globalRecords, replayingGlobal,
                 dataplane, failed, lossy, changes>>

Init ==
  /\ public = [a \in Address |-> [b \in Backend |-> {}]]
  /\ nat = [k \in NatBlock |-> {}]
  /\ session = FALSE /\ inbox = <<>>
  /\ edgeLbs = [a \in Address |-> NoLb] /\ seenPublic = {} /\ seenNat = NoNat
  /\ globalRecords = 0 /\ replayingGlobal = FALSE
  /\ dpLbs = [a \in Address |-> NoLb] /\ dpNat = [k \in NatBlock |-> {}]
  /\ failed = FALSE /\ lossy = FALSE /\ unsure = {}
  /\ changes = 0 /\ faults = 0

Next ==
  \/ \E a \in Address, b \in Backend, P \in PortSet : AnnouncePublic(a, b, P)
  \/ \E a \in Address, b \in Backend : WithdrawPublic(a, b)
  \/ \E k \in NatBlock, o \in NatOwner : AnnounceNat(k, o)
  \/ \E k \in NatBlock : WithdrawNat(k)
  \/ ApplyPublic
  \/ ApplyNat
  \/ PruneGlobal
  \/ Connect
  \/ Disconnect
  \/ Restart

Spec == Init /\ [][Next]_vars

-----------------------------------------------------------------------------
LbType == {NoLb} \cup [ports : PortSet, backends : SUBSET Backend]

\* The agent's and the dataplane's tables have their shape.
TypeOK ==
  /\ edgeLbs \in [Address -> LbType] /\ dpLbs \in [Address -> LbType]
  /\ seenPublic \subseteq Pair /\ \A e \in DOMAIN seenNat : seenNat[e] \subseteq NatOwner
  /\ dpNat \in [NatBlock -> SUBSET NatOwner]
  /\ session \in BOOLEAN /\ globalRecords \in Nat

Served(lb) == IF lb = NoLb THEN {} ELSE lb.backends

\* Once an edge has handled everything its session sent, and no call of this
\* session was given up, its dataplane holds exactly the reflector's records: every
\* announced backend, no other, no load balancer without one, and each NAT
\* block at its owner.  What earlier sessions got wrong, lost or never heard
\* of has been put right by the replay and its prune (pruneGlobal).  Out of it
\* are the addresses in unsure.
EdgeMatchesFeed ==
  session /\ inbox = <<>> /\ ~failed /\ ~lossy =>
    /\ \A a \in Address \ unsure :
         /\ Served(dpLbs[a]) = {b \in Backend : public[a][b] # {}}
         /\ dpLbs[a] # NoLb => Served(dpLbs[a]) # {}
    /\ dpNat = nat

\* No step detaches a backend whose record the reflector still holds, unless a
\* call fails in that step or the record is in flight to be attached again:
\* neither a prune on a lossy replay, nor a port change, nor the re-creation
\* of a load balancer by a restarted agent (registerLoadBalancer).
KeepsLiveBackends ==
  [][\A a \in Address, b \in Backend :
        b \in Served(dpLbs[a]) \ Served(dpLbs'[a]) /\ public[a][b] # {} =>
          \/ faults' # faults
          \/ \E i \in 1..Len(inbox') : inbox'[i].op = "add" /\ inbox'[i].key = <<a, b>>
          \/ a \in unsure /\ (lossy \/ failed)]_vars
=============================================================================
