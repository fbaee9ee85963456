------------------------------- MODULE VMMove -------------------------------
(***************************************************************************)
(* How one VM changes pools: the compiler's break-before-make gate on the  *)
(* dispatch (mesh/controllers), the broker of every pool that starts and   *)
(* stops it and reports it gone (dispatch/pkg/broker), the pool's lease    *)
(* and phase (clusterpool), and the failover reconciler that fences a lost *)
(* pool, rebinds its VM and later lifts the fence (failover).              *)
(*                                                                         *)
(* A twin is the CompiledVM of the VM in a pool's namespace.  KubeVirt,    *)
(* Kubernetes' garbage collection and csi-addons are external.  A write    *)
(* that fails and is retried is a stuttering step; the status conditions   *)
(* (Moving, FailoverBlocked, FenceReleaseBlocked) report and decide        *)
(* nothing, and are left out.                                              *)
(***************************************************************************)
CONSTANTS
  Pool, NoPool,
  Home,       \* where the scheduler first put the VM
  Lossy,      \* pools whose broker may stop renewing the lease
  Covered,    \* pools whose spec.underlayPrefix contains every node they have
  Race        \* the schedules below that the code does not exclude but relies
              \* on not happening: a subset of {"drain", "materializer"}

ASSUME VMMoveAssumption ==
  /\ NoPool \notin Pool /\ Home \in Pool
  /\ Lossy \subseteq Pool /\ Covered \subseteq Pool
  /\ Race \subseteq {"drain", "materializer"}

VARIABLES
  clusterName,  \* the VM's spec.clusterName
  vmCache,      \* ... as the compiler's informer shows it
  compiling,    \* the pool a compile pass found open and is about to write to
  twin,         \* twin[p]: "none", "live", or "retired" (deleted, finalizer on)
  released,     \* released[p]: the twin's status.released
  twinCache,    \* twinCache[p]: the twin as p's broker's informer shows it
  fresh,        \* fresh[p]: that informer has the twin's latest version
  syncing,      \* syncing[p]: p's sync pass is about to create the CompiledVM
  cvm,          \* cvm[p]: p has the CompiledVM downstream
  vm,           \* vm[p]: p has the KubeVirt VirtualMachine
  vmi,          \* vmi[p]: its instance: "none", "pending" (no node yet), "running"
  applying,     \* applying[p]: p's materializer has read the CompiledVM
  lease,        \* lease[p]: "fresh", "stale" (HealthStale), "lost" (FailoverThreshold)
  phase,        \* phase[p]: status.phase
  nodeDrain,    \* nodeDrain[p]: status.nodeDrain says the prefix is drained
  fencedPrefixes, \* fencedPrefixes[p]: status.fencedPrefixes lists it
  fence,        \* fence[p]: fenceState of its NetworkFence, or "absent"
  blocked,      \* blocked[p]: Ceph refuses the prefix
  netFence,     \* netFence[p]: the reflector hides its routes
  pass,         \* pass[p]: where failover's pass over p stands
  unchanged     \* unchanged[p]: nobody wrote p's status since that pass did

dispatch == <<clusterName, vmCache, compiling, twin, released>>
broker == <<twinCache, fresh, syncing>>
cluster == <<cvm, vm, vmi, applying>>
health == <<lease, phase, unchanged>>
recovery == <<nodeDrain, fencedPrefixes>>
fences == <<fence, blocked, netFence>>
vars == <<dispatch, broker, cluster, health, recovery, fences, pass>>

TypeOK ==
  /\ clusterName \in Pool /\ vmCache \in Pool /\ compiling \in Pool \cup {NoPool}
  /\ twin \in [Pool -> {"none", "live", "retired"}]
  /\ twinCache \in [Pool -> {"none", "live", "retired"}]
  /\ vmi \in [Pool -> {"none", "pending", "running"}]
  /\ lease \in [Pool -> {"fresh", "stale", "lost"}]
  /\ phase \in [Pool -> {"Ready", "Unknown"}]
  /\ fence \in [Pool -> {"absent", "Fenced", "Unfenced"}]
  /\ pass \in [Pool -> {"idle", "fencing", "recording", "releasing", "rebinding"}]
  /\ released \in [Pool -> BOOLEAN] /\ fresh \in [Pool -> BOOLEAN]
  /\ syncing \in [Pool -> BOOLEAN] /\ cvm \in [Pool -> BOOLEAN]
  /\ vm \in [Pool -> BOOLEAN] /\ applying \in [Pool -> BOOLEAN]
  /\ nodeDrain \in [Pool -> BOOLEAN] /\ fencedPrefixes \in [Pool -> BOOLEAN]
  /\ blocked \in [Pool -> BOOLEAN] /\ netFence \in [Pool -> BOOLEAN]
  /\ unchanged \in [Pool -> BOOLEAN]

Set(f, p, x) == [f EXCEPT ![p] = x]

-----------------------------------------------------------------------------
(***************************************************************************)
(* The compiler (mesh/controllers).                                        *)
(***************************************************************************)
\* An operator changes spec.clusterName.
Move(p) ==
  /\ clusterName # p
  /\ clusterName' = p
  /\ UNCHANGED <<vmCache, compiling, twin, released, broker, cluster, health, recovery, fences, pass>>

VMCacheSync ==
  /\ vmCache' = clusterName
  /\ UNCHANGED <<clusterName, compiling, twin, released, broker, cluster, health, recovery, fences, pass>>

\* Mutant: a twin on its way out no longer keeps the gate closed.
awaitingRelease_LiveOnly(p) == {q \in Pool \ {p} : twin[q] = "live"}

\* The twins, read uncached, that keep pool p closed.
awaitingRelease(p) == {q \in Pool : twin[q] # "none" /\ (q # p \/ twin[q] = "retired")}

retireTwin(Q) ==
  /\ twin' = [q \in Pool |-> IF q \in Q THEN "retired" ELSE twin[q]]
  /\ fresh' = [q \in Pool |-> fresh[q] /\ (q \notin Q \/ twin[q] = "retired")]

\* The first half of a compile pass: the gate.
Gate ==
  /\ compiling = NoPool
  /\ IF awaitingRelease(vmCache) # {}
       THEN retireTwin(awaitingRelease(vmCache) \ {vmCache}) /\ UNCHANGED compiling
       ELSE compiling' = vmCache /\ UNCHANGED <<twin, fresh>>
  /\ UNCHANGED <<clusterName, vmCache, released, twinCache, syncing, cluster, health, recovery, fences, pass>>

\* The second half: create the twin; one that is there is left as it is.
Compile ==
  /\ compiling # NoPool
  /\ compiling' = NoPool
  /\ IF twin[compiling] = "none"
       THEN twin' = Set(twin, compiling, "live") /\ fresh' = Set(fresh, compiling, FALSE)
       ELSE UNCHANGED <<twin, fresh>>
  /\ UNCHANGED <<clusterName, vmCache, released, twinCache, syncing, cluster, health, recovery, fences, pass>>

\* CompiledVMReleaseReconciler drops the finalizer of a released twin.
DropFinalizer(p) ==
  /\ twin[p] = "retired" /\ released[p]
  /\ twin' = Set(twin, p, "none")
  /\ released' = Set(released, p, FALSE)
  /\ fresh' = Set(fresh, p, FALSE)
  /\ UNCHANGED <<clusterName, vmCache, compiling, twinCache, syncing, cluster, health, recovery, fences, pass>>

-----------------------------------------------------------------------------
(***************************************************************************)
(* The broker of pool p: one worker runs the sync and the release passes.  *)
(***************************************************************************)
TwinCacheSync(p) ==
  /\ ~fresh[p]
  /\ twinCache' = Set(twinCache, p, twin[p]) /\ fresh' = Set(fresh, p, TRUE)
  /\ UNCHANGED <<dispatch, syncing, cluster, health, recovery, fences, pass>>

\* Mutant: a terminating twin counts as wanted until it is gone.
SyncCompiledVMs_KeepsRetired(p) ==
  /\ ~syncing[p]
  /\ \/ twinCache[p] # "none" /\ ~cvm[p]
        /\ syncing' = Set(syncing, p, TRUE) /\ UNCHANGED cvm
     \/ twinCache[p] = "none" /\ cvm[p]
        /\ cvm' = Set(cvm, p, FALSE) /\ UNCHANGED syncing
  /\ UNCHANGED <<dispatch, twinCache, fresh, vm, vmi, applying, health, recovery, fences, pass>>

\* A sync pass stops what the dispatch no longer wants, or decides to create ...
SyncCompiledVMs(p) ==
  /\ ~syncing[p]
  /\ \/ twinCache[p] = "live" /\ ~cvm[p]
        /\ syncing' = Set(syncing, p, TRUE) /\ UNCHANGED cvm
     \/ twinCache[p] # "live" /\ cvm[p]
        /\ cvm' = Set(cvm, p, FALSE) /\ UNCHANGED syncing
  /\ UNCHANGED <<dispatch, twinCache, fresh, vm, vmi, applying, health, recovery, fences, pass>>

\* ... and creates.
CreateDownstream(p) ==
  /\ syncing[p]
  /\ syncing' = Set(syncing, p, FALSE) /\ cvm' = Set(cvm, p, TRUE)
  /\ UNCHANGED <<dispatch, twinCache, fresh, vm, vmi, applying, health, recovery, fences, pass>>

\* Mutant: only the CompiledVM is looked for.
letGo_CompiledVMOnly(p) == ~cvm[p]

letGo(p) == ~cvm[p] /\ ~vm[p] /\ vmi[p] = "none"

\* Mutant: the release is patched without the optimistic lock.
ReportReleases_Unlocked(p) ==
  /\ ~syncing[p]
  /\ twinCache[p] = "retired" /\ letGo(p)
  /\ twin[p] # "none" /\ ~released[p]
  /\ released' = Set(released, p, TRUE) /\ fresh' = Set(fresh, p, FALSE)
  /\ UNCHANGED <<clusterName, vmCache, compiling, twin, twinCache, syncing,
                 cluster, health, recovery, fences, pass>>

\* The release pass.  The patch is refused unless it is made to the version read.
ReportReleases(p) ==
  /\ ~syncing[p]
  /\ twinCache[p] = "retired" /\ letGo(p)
  /\ fresh[p] /\ ~released[p]
  /\ released' = Set(released, p, TRUE) /\ fresh' = Set(fresh, p, FALSE)
  /\ UNCHANGED <<clusterName, vmCache, compiling, twin, twinCache, syncing,
                 cluster, health, recovery, fences, pass>>

BrokerRestarts(p) ==
  /\ syncing' = Set(syncing, p, FALSE)
  /\ twinCache' = Set(twinCache, p, twin[p]) /\ fresh' = Set(fresh, p, TRUE)
  /\ UNCHANGED <<dispatch, cluster, health, recovery, fences, pass>>

Heartbeat(p) ==
  /\ lease[p] # "fresh"
  /\ lease' = Set(lease, p, "fresh") /\ unchanged' = Set(unchanged, p, FALSE)
  /\ UNCHANGED <<dispatch, broker, cluster, phase, recovery, fences, pass>>

\* No failover pass is under way, and the broker has seen the VM leave the
\* dispatch and finished taking it down.
Settled(p) == pass[p] = "idle" /\ fresh[p] /\ twinCache[p] # "live" /\ ~syncing[p] /\ letGo(p)

\* DrainStatus: the prefix is drained when no instance runs on one of its nodes;
\* the status reporter is a loop of its own, ordered after no other pass.
ReportStatus(p) ==
  /\ fencedPrefixes[p]
  /\ nodeDrain' = Set(nodeDrain, p, vmi[p] # "running")
  /\ nodeDrain'[p] # nodeDrain[p]
  /\ nodeDrain'[p] => Settled(p) \/ "drain" \in Race
  /\ unchanged' = Set(unchanged, p, FALSE)
  /\ UNCHANGED <<dispatch, broker, cluster, lease, phase, fencedPrefixes, fences, pass>>

-----------------------------------------------------------------------------
(***************************************************************************)
(* The pool's cluster: the vm-materializer, and KubeVirt and Kubernetes    *)
(* (external).                                                             *)
(***************************************************************************)
\* The materializer applies the VM it read a CompiledVM for; with the race,
\* the CompiledVM may be gone by then.
MaterializerReads(p) ==
  /\ "materializer" \in Race
  /\ cvm[p] /\ ~applying[p]
  /\ applying' = Set(applying, p, TRUE)
  /\ UNCHANGED <<dispatch, broker, cvm, vm, vmi, health, recovery, fences, pass>>

Materialize(p) ==
  /\ IF "materializer" \in Race THEN applying[p] ELSE cvm[p] /\ ~vm[p]
  /\ vm' = Set(vm, p, TRUE) /\ applying' = Set(applying, p, FALSE)
  /\ UNCHANGED <<dispatch, broker, cvm, vmi, health, recovery, fences, pass>>

\* Owner references: the VM follows its CompiledVM, the instance its VM.
CollectVM(p) ==
  /\ vm[p] /\ ~cvm[p]
  /\ vm' = Set(vm, p, FALSE)
  /\ UNCHANGED <<dispatch, broker, cvm, vmi, applying, health, recovery, fences, pass>>

CreateVMI(p) ==
  /\ vm[p] /\ vmi[p] = "none"
  /\ vmi' = Set(vmi, p, "pending")
  /\ UNCHANGED <<dispatch, broker, cvm, vm, applying, health, recovery, fences, pass>>

StartVMI(p) ==
  /\ vmi[p] = "pending"
  /\ vmi' = Set(vmi, p, "running")
  /\ UNCHANGED <<dispatch, broker, cvm, vm, applying, health, recovery, fences, pass>>

\* The instance and its launcher are gone: collected, or crashed.
StopVMI(p) ==
  /\ vmi[p] # "none"
  /\ vmi' = Set(vmi, p, "none")
  /\ UNCHANGED <<dispatch, broker, cvm, vm, applying, health, recovery, fences, pass>>

-----------------------------------------------------------------------------
(***************************************************************************)
(* Pool health and the fence backends.                                     *)
(***************************************************************************)
LeaseAges(p) ==
  /\ p \in Lossy /\ lease[p] # "lost"
  /\ lease' = Set(lease, p, IF lease[p] = "fresh" THEN "stale" ELSE "lost")
  /\ UNCHANGED <<dispatch, broker, cluster, phase, unchanged, recovery, fences, pass>>

phaseFromLease(p) == IF lease[p] = "fresh" THEN "Ready" ELSE "Unknown"

PoolHealth(p) ==
  /\ phase[p] # phaseFromLease(p)
  /\ phase' = Set(phase, p, phaseFromLease(p)) /\ unchanged' = Set(unchanged, p, FALSE)
  /\ UNCHANGED <<dispatch, broker, cluster, lease, recovery, fences, pass>>

Reachable(p) == phase[p] = "Ready" /\ lease[p] = "fresh"
poolLost(p) == phase[p] = "Unknown" /\ lease[p] = "lost"

\* csi-addons carries out the CR's fenceState (module NetworkFence).
CephActs(p) ==
  /\ fence[p] # "absent" /\ blocked[p] # (fence[p] = "Fenced")
  /\ blocked' = Set(blocked, p, fence[p] = "Fenced")
  /\ UNCHANGED <<dispatch, broker, cluster, health, recovery, fence, netFence, pass>>

ReflectorRestarts ==
  /\ netFence' = [p \in Pool |-> FALSE]
  /\ UNCHANGED <<dispatch, broker, cluster, health, recovery, fence, blocked, pass>>

-----------------------------------------------------------------------------
(***************************************************************************)
(* The failover reconciler.  A pass over pool p first runs releaseDrained; *)
(* the route gate can only hold a release back, which is the choice of not *)
(* taking the step.  A status Update is refused once someone else wrote    *)
(* the pool.                                                               *)
(***************************************************************************)
releaseDrained(p) ==
  /\ pass[p] = "idle" /\ fencedPrefixes[p]
  /\ \/ /\ fence[p] = "absent"
        /\ fencedPrefixes' = Set(fencedPrefixes, p, FALSE) /\ UNCHANGED fences
     \/ /\ fence[p] # "absent" /\ nodeDrain[p] /\ Reachable(p)
        /\ netFence' = Set(netFence, p, FALSE)
        /\ \/ fence[p] = "Fenced"
              /\ fence' = Set(fence, p, "Unfenced") /\ UNCHANGED fencedPrefixes
           \/ fence[p] = "Unfenced" /\ ~blocked[p]
              /\ fence' = Set(fence, p, "absent")
              /\ fencedPrefixes' \in {fencedPrefixes, Set(fencedPrefixes, p, FALSE)}
        /\ UNCHANGED blocked
  /\ UNCHANGED <<dispatch, broker, cluster, health, nodeDrain, pass>>

forgetDrain(p) ==
  /\ pass[p] = "idle" /\ poolLost(p)
  /\ nodeDrain' = Set(nodeDrain, p, FALSE)
  /\ pass' = Set(pass, p, "fencing") /\ unchanged' = Set(unchanged, p, TRUE)
  /\ UNCHANGED <<dispatch, broker, cluster, lease, phase, fencedPrefixes, fences>>

\* StorageFencer.Fence: the fence is confirmed only by a report of this CR.
StorageFenced(p) == fence[p] = "Fenced" /\ blocked[p]

\* An unconfirmed storage fence ends the pass; a spent CR is replaced.
StorageUnconfirmed(p) ==
  /\ pass[p] = "fencing" /\ ~StorageFenced(p)
  /\ fence' = Set(fence, p, IF fence[p] = "Unfenced" /\ blocked[p] THEN "Unfenced" ELSE "Fenced")
  /\ pass' = Set(pass, p, "idle")
  /\ UNCHANGED <<dispatch, broker, cluster, health, recovery, blocked, netFence>>

\* The reflector cannot be told: what is fenced is recorded, if that succeeds.
NetworkUnconfirmed(p) ==
  /\ pass[p] = "fencing" /\ StorageFenced(p)
  /\ fencedPrefixes' = Set(fencedPrefixes, p, fencedPrefixes[p] \/ unchanged[p])
  /\ pass' = Set(pass, p, "idle")
  /\ UNCHANGED <<dispatch, broker, cluster, health, nodeDrain, fences>>

BothConfirmed(p) ==
  /\ pass[p] = "fencing" /\ StorageFenced(p)
  /\ netFence' = Set(netFence, p, TRUE)
  /\ pass' = Set(pass, p, "recording")
  /\ UNCHANGED <<dispatch, broker, cluster, health, recovery, fence, blocked>>

\* Mutant: a conflict on the status update is ignored.
setFencedPrefixes_IgnoresConflict(p) ==
  /\ pass[p] = "recording"
  /\ fencedPrefixes' = Set(fencedPrefixes, p, fencedPrefixes[p] \/ unchanged[p])
  /\ pass' = Set(pass, p, IF p \in Covered THEN "releasing" ELSE "idle")
  /\ UNCHANGED <<dispatch, broker, cluster, health, nodeDrain, fences>>

\* A conflict, or coverage that is not complete, ends the pass before the rebind.
setFencedPrefixes(p) ==
  /\ pass[p] = "recording"
  /\ fencedPrefixes' = Set(fencedPrefixes, p, fencedPrefixes[p] \/ unchanged[p])
  /\ pass' = Set(pass, p, IF unchanged[p] /\ p \in Covered THEN "releasing" ELSE "idle")
  /\ UNCHANGED <<dispatch, broker, cluster, health, nodeDrain, fences>>

\* A twin the cached list misses, or shows at an older version, stays as it is.
releaseFencedTwins(p) ==
  /\ pass[p] = "releasing"
  /\ \/ twin[p] = "retired"
        /\ released' = Set(released, p, TRUE) /\ fresh' = Set(fresh, p, FALSE)
     \/ UNCHANGED <<released, fresh>>
  /\ pass' = Set(pass, p, "rebinding")
  /\ UNCHANGED <<clusterName, vmCache, compiling, twin, twinCache, syncing,
                 cluster, health, recovery, fences>>

\* The VM, if it is still bound to p, goes to a Ready pool, if there is one.
rebindPoolVMs(p) ==
  /\ pass[p] = "rebinding"
  /\ \/ clusterName = p /\ clusterName' \in {q \in Pool \ {p} : phase[q] = "Ready"}
     \/ UNCHANGED clusterName
  /\ pass' = Set(pass, p, "idle")
  /\ UNCHANGED <<vmCache, compiling, twin, released, broker, cluster, health, recovery, fences>>

-----------------------------------------------------------------------------
Init ==
  /\ clusterName = Home /\ vmCache = Home /\ compiling = NoPool
  /\ twin = [p \in Pool |-> "none"] /\ twinCache = twin
  /\ released = [p \in Pool |-> FALSE] /\ fresh = [p \in Pool |-> TRUE]
  /\ syncing = released /\ cvm = released /\ vm = released /\ applying = released
  /\ vmi = [p \in Pool |-> "none"]
  /\ lease = [p \in Pool |-> "fresh"] /\ phase = [p \in Pool |-> "Ready"]
  /\ nodeDrain = released /\ fencedPrefixes = released
  /\ fence = [p \in Pool |-> "absent"] /\ blocked = released /\ netFence = released
  /\ pass = [p \in Pool |-> "idle"] /\ unchanged = fresh

Broker(p) ==
  \/ TwinCacheSync(p) \/ SyncCompiledVMs(p) \/ CreateDownstream(p) \/ ReportReleases(p)
  \/ BrokerRestarts(p) \/ Heartbeat(p) \/ ReportStatus(p)

Cluster(p) ==
  \/ MaterializerReads(p) \/ Materialize(p) \/ CollectVM(p)
  \/ CreateVMI(p) \/ StartVMI(p) \/ StopVMI(p)

Failover(p) ==
  \/ releaseDrained(p) \/ forgetDrain(p) \/ StorageUnconfirmed(p) \/ NetworkUnconfirmed(p)
  \/ BothConfirmed(p) \/ setFencedPrefixes(p) \/ releaseFencedTwins(p) \/ rebindPoolVMs(p)

Next ==
  \/ VMCacheSync \/ Gate \/ Compile \/ ReflectorRestarts
  \/ \E p \in Pool :
       \/ Move(p) \/ DropFinalizer(p) \/ Broker(p) \/ Cluster(p)
       \/ LeaseAges(p) \/ PoolHealth(p) \/ CephActs(p) \/ Failover(p)

Spec == Init /\ [][Next]_vars

\* Controllers requeue until they have nothing left to do, brokers resync
\* periodically, and KubeVirt keeps trying to start an instance.
Fairness ==
  /\ WF_vars(VMCacheSync) /\ WF_vars(Gate) /\ WF_vars(Compile)
  /\ \A p \in Pool :
       /\ WF_vars(DropFinalizer(p)) /\ WF_vars(TwinCacheSync(p)) /\ WF_vars(SyncCompiledVMs(p))
       /\ SF_vars(CreateDownstream(p)) /\ SF_vars(ReportReleases(p))
       /\ WF_vars(MaterializerReads(p)) /\ WF_vars(Materialize(p)) /\ WF_vars(CollectVM(p)) /\ WF_vars(CreateVMI(p))
       /\ SF_vars(StartVMI(p)) /\ WF_vars(~vm[p] /\ StopVMI(p))

FairSpec == Spec /\ Fairness
-----------------------------------------------------------------------------
\* The VM runs on p and its writes reach the disk.
CanWrite(p) == vmi[p] = "running" /\ ~(blocked[p] /\ p \in Covered)

\* "It never lets two copies of a VM write the same disk" (failover.md): however
\* planned moves, reversed moves, outages, recoveries, stale caches and restarts
\* interleave, at most one pool runs the VM with access to its disk.
SingleWriter == \A p, q \in Pool : CanWrite(p) /\ CanWrite(q) => p = q

\* "Nothing on this pool can still run the VM a twin names" once its release is
\* reported (release.go:75): only the pool with an unreleased twin runs the VM,
\* unless Ceph refuses the whole pool.
OnlyOwnerRuns == \A p \in Pool : CanWrite(p) => twin[p] # "none" /\ ~released[p]

\* The source twin is let go only on proof: when its finalizer is dropped the
\* pool holds nothing that could run the VM, or Ceph refuses the whole pool.
ProofBeforeRelease ==
  [][\A p \in Pool : twin[p] # "none" /\ twin'[p] = "none"
        => letGo(p) \/ (blocked[p] /\ p \in Covered)]_vars

\* Failover takes the VM off a pool only when its storage fence stands, covers
\* every node, and is recorded for the pool's recovery.
RebindIsFenced ==
  [][\A p \in Pool : rebindPoolVMs(p) /\ clusterName' # clusterName
        => fence[p] = "Fenced" /\ blocked[p] /\ p \in Covered /\ fencedPrefixes[p]]_vars

\* A move completes: once spec.clusterName stays put, the VM runs there again
\* and again, wherever earlier moves were overtaken or reversed.
MoveCompletes == \A q \in Pool : <>[](clusterName = q) => []<>(vmi[q] = "running")

\* "The prefix is recorded in status.fencedPrefixes once its storage fence is
\* confirmed ... so recovery knows to release it" (failover.md:144): a pool that
\* is back, with no pass over it under way, has no fence the status omits.
ConfirmedIsRecorded ==
  \A p \in Pool : netFence[p] /\ pass[p] = "idle" /\ Reachable(p) => fencedPrefixes[p]
=============================================================================
