---------------------------- MODULE AddressPool ----------------------------
(***************************************************************************)
(* The controllers that hand out public addresses and SNAT port blocks:    *)
(* mesh/controllers/ipalloc.go (the claim loop), lbip.go (load balancers), *)
(* natgateway.go (one gateway) and mesh/allocator/portblock.go.            *)
(*                                                                         *)
(* A claim on an address is an API object whose name is the address, so    *)
(* creating it is a compare-and-swap.  Each controller has one worker, and *)
(* every call a worker makes to the API server is a step: the other        *)
(* worker, users, the informers and the garbage collector move in between. *)
(* A worker starts from its informer's copy of the object (`seen`), which  *)
(* may be old; claims and NICs are read from the API server.               *)
(*                                                                         *)
(* Ports are numbered through: port p of address a is a * Ports + p, so    *)
(* the order of blocks by number is the order of the code's block indices. *)
(***************************************************************************)
EXTENDS Naturals, FiniteSets, FiniteSetsExt

CONSTANTS Addr,        \* the pool's allocatable addresses, positive numbers
          Pins,        \* what spec.ip / spec.publicIPs may ask for (NoAddr: nothing)
          LB,          \* load balancers
          Source,      \* the NICs' addresses, numbers in the code's sort order
          StartNics,   \* the sources there may be at the start
          Ports,       \* usable ports per address
          Sizes,       \* the values of spec.portsPerSource
          MaxEvents    \* bound on what users do and on failures, together

\* Names of load balancers are not taken for the gateway's, or for the mark of a free address.
ASSUME AddressPoolAssumption ==
  /\ Addr \subseteq Nat \ {0} /\ 0 \in Pins
  /\ Source \subseteq Nat /\ IsFiniteSet(Source) /\ StartNics \subseteq SUBSET Source
  /\ Ports \in Nat \ {0} /\ Sizes \subseteq Nat \ {0}
  /\ \E z \in Sizes : \A y \in Sizes : y <= z
  /\ LB \cap {"gw", "free"} = {}

VARIABLES claims,      \* address -> the consumer that holds it, or Free
          obj,         \* consumer -> the object in the API server
          seen,        \* consumer -> the informer's copy
          nics,        \* the sources: addresses of the VPC's NICs
          pool,        \* what the pool's type and state make of a request
          due,         \* the keys in the controllers' work queues
          freed,       \* controllers with a claim's deletion still to be handled
          work,        \* controller -> its worker
          events
poolVars == <<claims, obj, seen, nics, pool, due, freed, work, events>>

claimRetries == 5
NoAddr == 0
GW == "gw"
Consumer == LB \cup {GW}
Controller == {"lb", "gw"}
Of(c) == IF c = GW THEN "gw" ELSE "lb"
Free == <<"free", 0>>
NoBlock == [at |-> 0, size |-> 0]
NoTable == [s \in Source |-> NoBlock]

\* A load balancer has one address and no table, a gateway a table.
NewObject(uid) ==
  [live |-> TRUE, uid |-> uid, pin |-> NoAddr, size |-> Max(Sizes), gen |-> 1, observed |-> 0,
   state |-> "", ip |-> NoAddr, table |-> NoTable]
NoObject(uid) == [NewObject(uid) EXCEPT !.live = FALSE]

Idle == [pc |-> "idle", key |-> GW, obj |-> NoObject(0), want |-> NoAddr, tries |-> 0,
         grow |-> FALSE, srcs |-> {}, addrs |-> {}, state |-> "", table |-> NoTable,
         keep |-> TRUE]

OwnerRef(j) == <<j.key, j.obj.uid>>
Mine(j) == {a \in Addr : claims[a] = OwnerRef(j)}
FreeAddrs == {a \in Addr : claims[a] = Free}

-----------------------------------------------------------------------------
(* portblock.go: the layout of blocks over a set of addresses *)

Starts(addrs, size) ==
  {a * Ports + i * size : a \in addrs, i \in 0..(Ports \div size) - 1}

\* Mutant: nothing is seeded, blocks go by position.
Preassign_Positional(table, addrs, size) == NoTable

\* Preassign: a persisted block is kept when it is a block of this layout.  Blocks of sources
\* that are gone are seeded too, and keep their slot for this pass.
Preassign(table, addrs, size) ==
  [s \in Source |-> IF table[s].at \in Starts(addrs, size)
                      THEN [at |-> table[s].at, size |-> size] ELSE NoBlock]

\* How many come before x in S.
Rank(x, S) == Cardinality({y \in S : y < x})

\* Mutant: a block in use is handed out again.
Open_Used(kept, addrs, size) == Starts(addrs, size)

Open(kept, addrs, size) == Starts(addrs, size) \ {kept[r].at : r \in Source}

\* Assign, called for the new sources in their order, hands each the lowest block still open:
\* the first gets the first, the second the second, as far as they go.
Assign(s, new, open, size) ==
  LET block == {b \in open : Rank(b, open) = Rank(s, new)}
  IN  IF block = {} THEN NoBlock ELSE [at |-> CHOOSE b \in block : TRUE, size |-> size]

assignBlocks(j, addrs) ==
  LET kept == Preassign(j.obj.table, addrs, j.obj.size)
      new == {s \in j.srcs : kept[s] = NoBlock}
  IN  [s \in Source |->
         CASE s \notin j.srcs -> NoBlock
           [] s \in new -> Assign(s, new, Open(kept, addrs, j.obj.size), j.obj.size)
           [] OTHER -> kept[s]]

Unblocked(j, table) == {s \in j.srcs : table[s] = NoBlock}

-----------------------------------------------------------------------------
(* ipalloc.go: the claim loop, shared by both controllers *)

Pinned(j) == ~j.grow /\ j.obj.pin # NoAddr

\* The status to write; a gateway's table is left alone.
Write(j, state) == [j EXCEPT !.pc = "write", !.state = state, !.want = NoAddr]

\* The gateway's status write carries the table laid out over addrs.
Publish(j, addrs) ==
  LET t == assignBlocks(j, addrs)
  IN  [Write(j, IF Unblocked(j, t) = {} THEN "Ready" ELSE "Exhausted")
         EXCEPT !.table = t, !.keep = FALSE]

Claimed(k, j, a) ==
  CASE k = "lb" -> [j EXCEPT !.pc = "release", !.want = a]
    [] k = "gw" /\ j.grow -> Publish(j, j.addrs \cup {a})
    [] OTHER -> [j EXCEPT !.pc = "addrs", !.want = NoAddr]

Refused(j) == Write(j, "Invalid")

NothingFree(k, j) == IF j.grow THEN Publish(j, j.addrs) ELSE Write(j, "Exhausted")

Wants(j, a) == [j EXCEPT !.pc = "create", !.want = a]

Retry(k, j) ==
  IF j.tries + 1 < claimRetries THEN [j EXCEPT !.pc = "list", !.tries = @ + 1, !.want = NoAddr]
  ELSE NothingFree(k, j)

\* poolAllocations, then the choice of an address.
Listed(k, j) ==
  LET mine == Mine(j)
  IN  CASE Pinned(j) /\ j.obj.pin \in mine -> Claimed(k, j, j.obj.pin)
        [] Pinned(j) /\ j.obj.pin \in FreeAddrs -> Wants(j, j.obj.pin)
        [] Pinned(j) /\ j.obj.pin \notin mine \cup FreeAddrs -> Refused(j)
        [] ~Pinned(j) /\ ~j.grow /\ mine # {} -> Claimed(k, j, Min(mine))
        [] ~Pinned(j) /\ (j.grow \/ mine = {}) /\ FreeAddrs # {} ->
             Wants(j, IF j.obj.ip \in FreeAddrs THEN j.obj.ip ELSE Min(FreeAddrs))
        [] OTHER -> NothingFree(k, j)

\* Create said AlreadyExists: who holds the name?
Read(k, j) ==
  CASE claims[j.want] = Free -> Retry(k, j)
    [] claims[j.want] = OwnerRef(j) -> IF j.grow THEN Retry(k, j) ELSE Claimed(k, j, j.want)
    [] OTHER -> IF Pinned(j) THEN Refused(j) ELSE Retry(k, j)

List(k) ==
  /\ work[k].pc = "list"
  /\ work' = [work EXCEPT ![k] = Listed(k, @)]
  /\ UNCHANGED <<claims, obj, seen, nics, pool, due, freed, events>>

Create(k) ==
  LET j == work[k] IN
  /\ j.pc = "create"
  /\ \/ /\ claims[j.want] = Free
        /\ claims' = [claims EXCEPT ![j.want] = OwnerRef(j)]
        /\ work' = [work EXCEPT ![k] = Claimed(k, j, j.want)]
     \/ /\ claims[j.want] # Free
        /\ work' = [work EXCEPT ![k] = [j EXCEPT !.pc = "who"]]
        /\ UNCHANGED claims
  /\ UNCHANGED <<obj, seen, nics, pool, due, freed, events>>

Who(k) ==
  /\ work[k].pc = "who"
  /\ work' = [work EXCEPT ![k] = Read(k, @)]
  /\ UNCHANGED <<claims, obj, seen, nics, pool, due, freed, events>>

-----------------------------------------------------------------------------
(* lbip.go *)

\* Reconcile and Sync up to the claim: the object and the pool come from the cache.
TakeLb(l) ==
  LET o == seen[l]
      j == [Idle EXCEPT !.key = l, !.obj = o]
  IN
  /\ l \in due /\ work["lb"].pc = "idle"
  /\ due' = due \ {l}
  /\ work' = [work EXCEPT !["lb"] =
                IF ~o.live \/ (o.state = "Allocated" /\ o.observed = o.gen) THEN Idle
                ELSE IF pool # "Ready" THEN Write(j, pool)
                ELSE [j EXCEPT !.pc = "list"]]
  /\ UNCHANGED <<claims, obj, seen, nics, pool, freed, events>>

\* Mutant: the address kept becomes the status, and nothing is given back.
releaseClaimsExcept_Keeps ==
  LET j == work["lb"] IN
  /\ j.pc = "release"
  /\ work' = [work EXCEPT !["lb"] = [Write(j, "Allocated") EXCEPT !.want = j.want]]
  /\ UNCHANGED <<claims, obj, seen, nics, pool, due, freed, events>>

\* releaseClaimsExcept, one deletion at a time; the address kept becomes the status.
releaseClaimsExcept ==
  LET j == work["lb"]
      rest == Mine(j) \ {j.want}
  IN
  /\ j.pc = "release"
  /\ \/ \E a \in rest : /\ claims' = [claims EXCEPT ![a] = Free]
                        /\ freed' = Controller
                        /\ UNCHANGED work
     \/ /\ rest = {}
        /\ work' = [work EXCEPT !["lb"] = [Write(j, "Allocated") EXCEPT !.want = j.want]]
        /\ UNCHANGED <<claims, freed>>
  /\ UNCHANGED <<obj, seen, nics, pool, due, events>>

\* setState: an update of the copy the pass started from.  A newer object is a conflict, which
\* fails the pass and queues the key again.
WriteLb ==
  LET j == work["lb"]
      o == [j.obj EXCEPT !.state = j.state, !.ip = j.want, !.observed = j.obj.gen]
  IN
  /\ j.pc = "write"
  /\ work' = [work EXCEPT !["lb"] = Idle]
  /\ IF obj[j.key] = j.obj THEN obj' = [obj EXCEPT ![j.key] = o] /\ UNCHANGED due
     ELSE due' = due \cup {j.key} /\ UNCHANGED obj
  /\ UNCHANGED <<claims, seen, nics, pool, freed, events>>

-----------------------------------------------------------------------------
(* natgateway.go *)

\* Reconcile reads the gateway from the cache, Sync lists the NICs and looks at the pool.
TakeGw ==
  LET o == seen[GW]
      j == [Idle EXCEPT !.obj = o, !.srcs = nics]
  IN
  /\ GW \in due /\ work["gw"].pc = "idle"
  /\ due' = due \ {GW}
  /\ work' = [work EXCEPT !["gw"] =
                IF ~o.live THEN Idle
                ELSE IF pool # "Ready" THEN Write(j, pool)
                ELSE [j EXCEPT !.pc = IF o.pin = NoAddr THEN "addrs" ELSE "list"]]
  /\ UNCHANGED <<claims, obj, seen, nics, pool, freed, events>>

\* consumerAddresses and the first layout; when a source is left without a block, claim another
\* address.
Lay ==
  LET j == [work["gw"] EXCEPT !.addrs = Mine(work["gw"])]
  IN
  /\ j.pc = "addrs"
  /\ work' = [work EXCEPT !["gw"] =
                IF Unblocked(j, assignBlocks(j, j.addrs)) = {} THEN Publish(j, j.addrs)
                ELSE [j EXCEPT !.pc = "list", !.grow = TRUE, !.tries = 0]]
  /\ UNCHANGED <<claims, obj, seen, nics, pool, due, freed, events>>

\* Both of its status writes read the object again, by name, and retry on a conflict: the write
\* lands on whatever object has the name now.  No object is an error.
WriteGw ==
  LET j == work["gw"]
      cur == obj[GW]
  IN
  /\ j.pc = "write"
  /\ work' = [work EXCEPT !["gw"] = Idle]
  /\ IF cur.live
       THEN /\ obj' = [obj EXCEPT ![GW] = [cur EXCEPT !.state = j.state,
                                             !.table = IF j.keep THEN @ ELSE j.table]]
            /\ UNCHANGED due
       ELSE due' = due \cup {GW} /\ UNCHANGED obj
  /\ UNCHANGED <<claims, seen, nics, pool, freed, events>>

-----------------------------------------------------------------------------
(* Informers, garbage collection, users, failures *)

\* The informer hands over the object's latest version, and its event queues the key.
Deliver(c) ==
  /\ seen[c] # obj[c]
  /\ seen' = [seen EXCEPT ![c] = obj[c]]
  /\ due' = due \cup {c}
  /\ UNCHANGED <<claims, obj, nics, pool, freed, work, events>>

\* Mutant: the watch on deletions wakes the Pending only.
Parked_Pending(k) ==
  {c \in Consumer : Of(c) = k /\ seen[c].live /\ seen[c].state = "Pending"}

\* lbsWaitingOnPool, natgwsForFreedAddress: whoever is parked, as far as the cache knows.
Parked(k) ==
  {c \in Consumer : Of(c) = k /\ seen[c].live /\ seen[c].state \in {"Exhausted", "Pending"}}

FreedAddress(k) ==
  /\ k \in freed
  /\ freed' = freed \ {k}
  /\ due' = due \cup Parked(k)
  /\ UNCHANGED <<claims, obj, seen, nics, pool, work, events>>

Ownerless(a) == claims[a] # Free /\ \A c \in Consumer : ~(obj[c].live /\ claims[a] = <<c, obj[c].uid>>)

\* Kubernetes garbage collection: a claim whose owner is gone.
Collect(a) ==
  /\ Ownerless(a)
  /\ claims' = [claims EXCEPT ![a] = Free]
  /\ freed' = Controller
  /\ UNCHANGED <<obj, seen, nics, pool, due, work, events>>

Edit(c, o) ==
  /\ events < MaxEvents /\ events' = events + 1
  /\ o # obj[c]
  /\ obj' = [obj EXCEPT ![c] = o]
  /\ UNCHANGED <<claims, seen, nics, pool, due, freed, work>>

User(c) ==
  LET o == obj[c] IN
  \/ ~o.live /\ Edit(c, NewObject(o.uid + 1))
  \/ o.live /\ Edit(c, NoObject(o.uid))
  \/ o.live /\ \E p \in Pins : Edit(c, [o EXCEPT !.pin = p, !.gen = @ + 1])
  \/ o.live /\ c = GW /\ \E z \in Sizes : Edit(c, [o EXCEPT !.size = z, !.gen = @ + 1])

\* natgwsForNIC: any change of a NIC queues the gateway.
Nic(s) ==
  /\ events < MaxEvents /\ events' = events + 1
  /\ nics' = IF s \in nics THEN nics \ {s} ELSE nics \cup {s}
  /\ due' = due \cup {c \in {GW} : seen[c].live}
  /\ UNCHANGED <<claims, obj, seen, pool, freed, work>>

\* lbsForPool, natgwsForPool: any change of the pool queues its consumers.
Pool(p) ==
  /\ events < MaxEvents /\ events' = events + 1
  /\ p # pool /\ pool' = p
  /\ due' = due \cup {c \in Consumer : seen[c].live}
  /\ UNCHANGED <<claims, obj, seen, nics, freed, work>>

\* A call fails, and with it the pass; the key is queued again.  A call that was carried out and
\* answered with an error is the step followed by this one.
Fail(k) ==
  /\ work[k].pc # "idle"
  /\ events < MaxEvents /\ events' = events + 1
  /\ work' = [work EXCEPT ![k] = Idle]
  /\ due' = due \cup {work[k].key}
  /\ UNCHANGED <<claims, obj, seen, nics, pool, freed>>

\* The controller restarts, or another replica takes the lease: the caches are filled from the
\* API server and every object is reconciled.
PoolRestart ==
  /\ events < MaxEvents /\ events' = events + 1
  /\ work' = [k \in Controller |-> Idle]
  /\ seen' = obj
  /\ due' = {c \in Consumer : obj[c].live}
  /\ freed' = {}
  /\ UNCHANGED <<claims, obj, nics, pool>>

-----------------------------------------------------------------------------
\* The controller starts on objects that were never reconciled; some do not exist yet.
PoolInit ==
  /\ claims = [a \in Addr |-> Free]
  /\ \E there \in SUBSET Consumer :
       obj = [c \in Consumer |-> IF c \in there THEN NewObject(1) ELSE NoObject(0)]
  /\ seen = obj
  /\ nics \in StartNics
  /\ pool = "Ready"
  /\ due = {c \in Consumer : obj[c].live}
  /\ freed = {}
  /\ work = [k \in Controller |-> Idle]
  /\ events = 0

Worker(k) == List(k) \/ Create(k) \/ Who(k)

PoolNext ==
  \/ \E k \in Controller : Worker(k) \/ FreedAddress(k) \/ Fail(k)
  \/ \E l \in LB : TakeLb(l)
  \/ releaseClaimsExcept \/ WriteLb
  \/ TakeGw \/ Lay \/ WriteGw
  \/ \E c \in Consumer : Deliver(c) \/ User(c)
  \/ \E a \in Addr : Collect(a)
  \/ \E s \in Source : Nic(s)
  \/ \E p \in {"Ready", "Pending", "Invalid"} : Pool(p)
  \/ PoolRestart

PoolSpec == PoolInit /\ [][PoolNext]_poolVars

-----------------------------------------------------------------------------
State == {"", "Allocated", "Ready", "Exhausted", "Pending", "Invalid"}
Table == [Source -> [at : Nat, size : Nat]]

Object ==
  [live : BOOLEAN, uid : Nat, pin : Pins, size : Sizes, gen : Nat, observed : Nat,
   state : State, ip : Addr \cup {NoAddr}, table : Table]

Pass ==
  [pc : {"idle", "list", "create", "who", "release", "addrs", "write"}, key : Consumer,
   obj : Object, want : Addr \cup {NoAddr}, tries : 0..claimRetries, grow : BOOLEAN,
   srcs : SUBSET Source, addrs : SUBSET Addr, state : State, table : Table, keep : BOOLEAN]

PoolTypeOK ==
  /\ claims \in [Addr -> {Free} \cup (Consumer \X Nat)]
  /\ obj \in [Consumer -> Object] /\ seen \in [Consumer -> Object]
  /\ nics \in SUBSET Source /\ pool \in {"Ready", "Pending", "Invalid"}
  /\ due \in SUBSET Consumer /\ freed \in SUBSET Controller
  /\ work \in [Controller -> Pass] /\ events \in Nat

\* Nothing is on its way: every change was seen, every queue is empty, every worker is idle.
Quiet ==
  /\ due = {} /\ freed = {} /\ seen = obj
  /\ \A k \in Controller : work[k].pc = "idle"
  /\ \A a \in Addr : ~Ownerless(a)

Held(c) == {a \in Addr : claims[a] = <<c, obj[c].uid>>}

\* What a consumer publishes it holds, at every moment and whatever the others claim, release or
\* collect.  A load balancer whose status is about its current spec has exactly the address it
\* publishes, and the one it asked for (claim, releaseClaimsExcept, setState), so no two of them
\* publish the same; a gateway's first incarnation has every address its table has blocks on.
PublishedIsHeld ==
  /\ \A l \in LB :
       obj[l].live /\ obj[l].state = "Allocated" /\ obj[l].observed = obj[l].gen =>
         Held(l) = {obj[l].ip} /\ obj[l].pin \in {NoAddr, obj[l].ip}
  /\ obj[GW].live /\ obj[GW].uid = 1 =>
       \A s \in Source : obj[GW].table[s] # NoBlock => obj[GW].table[s].at \div Ports \in Held(GW)

\* No two sources are ever given a port in common ("handing the same (public IP, port range) to
\* two distinct sources overlaps their SNAT tuples", mesh/allocator/portblock.go:122): not by a
\* pass over an old table, nor when addresses are added or the size of a block changes.
DisjointBlocks ==
  \A s, t \in Source :
    LET b == obj[GW].table[s]
        c == obj[GW].table[t]
    IN  s # t /\ b # NoBlock /\ c # NoBlock => b.at + b.size <= c.at \/ c.at + c.size <= b.at

LbServed(l) ==
  LET o == obj[l] IN
  \/ ~o.live
  \/ o.state = "Allocated" /\ Held(l) = {o.ip} /\ o.pin \in {NoAddr, o.ip}
  \/ o.state = "Exhausted" /\ o.pin = NoAddr /\ FreeAddrs = {} /\ Held(l) = {}
  \/ o.state = "Invalid" /\ o.pin # NoAddr

\* A gateway that took the name of a deleted one is left out: a pass for its predecessor that
\* was under way may have written it a table and a state, and a first write of its own that
\* repeats them raises no event for the next address.
GwServed ==
  LET o == obj[GW] IN
  \/ ~o.live \/ o.uid > 1
  \/ /\ o.state \in {"Ready", "Exhausted"}
     /\ \A s \in Source : o.table[s] # NoBlock => s \in nics /\ o.table[s].at \in Starts(Held(GW), o.size)
     /\ \A s, t \in nics : s # t /\ o.table[s] = o.table[t] => o.table[s] = NoBlock
     /\ o.state = "Ready" <=> \A s \in nics : o.table[s] # NoBlock
     /\ o.state = "Exhausted" => FreeAddrs = {}
  \/ o.state = "Invalid" /\ o.pin # NoAddr

\* When everything has come to rest on a pool that is Ready, every consumer has what it can have:
\* a load balancer publishes exactly the address it holds, every NIC has a block of its own on an
\* address the gateway holds, and whoever is parked as Exhausted faces a pool with nothing free
\* (claim, releaseClaimsExcept, the delete-only watches on IPAllocation).
RestIsServed == Quiet /\ pool = "Ready" => GwServed /\ \A l \in LB : LbServed(l)

Moves(s) ==
  LET b == obj[GW].table[s] IN
  /\ b.at \div Ports \in Held(GW)
  /\ obj'[GW].live /\ obj'[GW].uid = obj[GW].uid /\ obj'[GW].table[s] # b
  /\ s \in work["gw"].srcs /\ work["gw"].obj.size = b.size

\* A pass of the gateway's controller that starts from the current table moves no source it lists
\* from its block on an address the gateway holds, however many addresses and sources were added
\* (assignBlocks, Preassign).
KeepsBlocks ==
  [][\A s \in Source : Moves(s) => work["gw"].obj.table # obj[GW].table]_poolVars

\* What the allocator promises: "an existing source must ALWAYS keep its block so its live flows
\* are never re-NATed" (mesh/allocator/portblock.go:8).  A pass that starts from an informer's
\* copy older than the controller's own last write breaks it.
ExistingSourceKeepsBlock == [][\A s \in Source : ~Moves(s)]_poolVars
=============================================================================
