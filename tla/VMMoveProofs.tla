---------------------------- MODULE VMMoveProofs ----------------------------
(***************************************************************************)
(* Proofs about VMMove, for any set of pools and any moves, outages and    *)
(* restarts: the VM never has two writers.                                 *)
(*                                                                         *)
(* SingleWriter is not inductive: a pool that runs nothing now may hold    *)
(* what starts the VM later (a KubeVirt VM, a CompiledVM, a sync pass about *)
(* to create one, an informer that still shows a live twin).  IInv follows *)
(* these leftovers: each is on the pool with the one unreleased twin, or   *)
(* on a pool whose fence stands until the pool reports it drained.         *)
(***************************************************************************)
EXTENDS VMMove, TLAPS

\* The VM has at most one twin, and an open gate has seen no other.
OneTwin ==
  /\ \A p, q \in Pool : twin[p] # "none" /\ twin[q] # "none" => p = q
  /\ compiling # NoPool => \A p \in Pool : twin[p] # "none" => p = compiling

\* What p holds that runs the VM or can come to run it.
Leftover(p) == cvm[p] \/ vm[p] \/ vmi[p] # "none" \/ syncing[p] \/ twinCache[p] = "live"

Owns(p) == twin[p] # "none" /\ ~released[p]

Guarded(p) == fence[p] = "Fenced" /\ blocked[p] /\ p \in Covered /\ ~nodeDrain[p]

LeftoverIsSafe == \A p \in Pool : Leftover(p) => Owns(p) \/ Guarded(p)

\* What the optimistic lock gives: a fresh informer shows the twin as it is, and
\* only a twin that is on its way out is ever released.
CacheSound ==
  \A p \in Pool : /\ fresh[p] => twinCache[p] = twin[p]
                  /\ released[p] => twin[p] = "retired"

\* How far failover's pass has come tells what stands.
PassFenced ==
  \A p \in Pool :
    /\ pass[p] # "idle" => ~nodeDrain[p]
    /\ pass[p] \in {"recording", "releasing", "rebinding"} => fence[p] = "Fenced" /\ blocked[p]
    /\ pass[p] \in {"releasing", "rebinding"} => p \in Covered /\ fencedPrefixes[p]

IInv == TypeOK /\ OneTwin /\ LeftoverIsSafe /\ CacheSound /\ PassFenced

-----------------------------------------------------------------------------
\* No step leaves the types: every action writes values of its variables' types.
LEMMA TypeStep ==
  ASSUME TypeOK, [Next]_vars
  PROVE  TypeOK'
<1> USE VMMoveAssumption
    DEF TypeOK, Set, dispatch, broker, cluster, health, recovery, fences
<1>1. CASE UNCHANGED vars
  BY <1>1, Zenon DEF vars
<1>2. CASE VMCacheSync
  BY <1>2, Zenon DEF VMCacheSync
<1>3. CASE Gate
  <2>1. twin' \in [Pool -> {"none", "live", "retired"}]
    BY <1>3 DEF Gate, retireTwin
  <2>2. fresh' \in [Pool -> BOOLEAN]
    <3>1. CASE fresh' = fresh
      BY <3>1, Zenon
    <3>2. CASE retireTwin(awaitingRelease(vmCache) \ {vmCache})
      BY <3>2, Zenon DEF retireTwin
    <3> QED
      BY <1>3, <3>1, <3>2, Zenon DEF Gate
  <2>3. compiling' \in Pool \cup {NoPool}
    BY <1>3 DEF Gate, retireTwin
  <2> QED
    BY <1>3, <2>1, <2>2, <2>3, Zenon DEF Gate
<1>4. CASE Compile
  <2>1. twin' \in [Pool -> {"none", "live", "retired"}]
    BY <1>4 DEF Compile
  <2>2. fresh' \in [Pool -> BOOLEAN]
    <3>1. CASE fresh' = fresh
      BY <3>1, Zenon
    <3>2. CASE fresh' = [fresh EXCEPT ![compiling] = FALSE]
      BY <3>2, Zenon
    <3> QED
      BY <1>4, <3>1, <3>2, Zenon DEF Compile
  <2> QED
    BY <1>4, <2>1, <2>2, Zenon DEF Compile
<1>5. CASE ReflectorRestarts
  BY <1>5, Zenon DEF ReflectorRestarts
<1>6. ASSUME NEW r \in Pool,
             \/ Move(r) \/ DropFinalizer(r) \/ Broker(r) \/ Cluster(r)
             \/ LeaseAges(r) \/ PoolHealth(r) \/ CephActs(r) \/ Failover(r)
      PROVE  TypeOK'
  <2>1. CASE Move(r)
    BY <2>1, Zenon DEF Move
  <2>2. CASE DropFinalizer(r)
    BY <2>2, Zenon DEF DropFinalizer
  <2>3. CASE TwinCacheSync(r)
    BY <2>3, Zenon DEF TwinCacheSync
  <2>4. CASE SyncCompiledVMs(r)
    <3>1. CASE syncing' = [syncing EXCEPT ![r] = TRUE] /\ cvm' = cvm
      BY <2>4, <3>1, Zenon DEF SyncCompiledVMs
    <3>2. CASE cvm' = [cvm EXCEPT ![r] = FALSE] /\ syncing' = syncing
      BY <2>4, <3>2, Zenon DEF SyncCompiledVMs
    <3> QED
      BY <2>4, <3>1, <3>2, Zenon DEF SyncCompiledVMs
  <2>5. CASE CreateDownstream(r)
    BY <2>5, Zenon DEF CreateDownstream
  <2>6. CASE ReportReleases(r)
    BY <2>6, Zenon DEF ReportReleases
  <2>7. CASE BrokerRestarts(r)
    BY <2>7, Zenon DEF BrokerRestarts
  <2>8. CASE Heartbeat(r)
    BY <2>8, Zenon DEF Heartbeat
  <2>9. CASE ReportStatus(r)
    BY <2>9, Zenon DEF ReportStatus
  <2>10. CASE MaterializerReads(r)
    BY <2>10, Zenon DEF MaterializerReads
  <2>11. CASE Materialize(r)
    BY <2>11, Zenon DEF Materialize
  <2>12. CASE CollectVM(r)
    BY <2>12, Zenon DEF CollectVM
  <2>13. CASE CreateVMI(r)
    BY <2>13, Zenon DEF CreateVMI
  <2>14. CASE StartVMI(r)
    BY <2>14, Zenon DEF StartVMI
  <2>15. CASE StopVMI(r)
    BY <2>15, Zenon DEF StopVMI
  <2>16. CASE LeaseAges(r)
    BY <2>16, Zenon DEF LeaseAges
  <2>17. CASE PoolHealth(r)
    BY <2>17, Zenon DEF PoolHealth, phaseFromLease
  <2>18. CASE CephActs(r)
    BY <2>18, Zenon DEF CephActs
  <2>19. CASE releaseDrained(r)
    <3>1. fencedPrefixes' \in [Pool -> BOOLEAN]
      <4>1. fencedPrefixes' \in {fencedPrefixes, [fencedPrefixes EXCEPT ![r] = FALSE]}
        BY <2>19, Zenon DEF releaseDrained
      <4>2. CASE fencedPrefixes' = fencedPrefixes
        BY <4>2, Zenon
      <4>3. CASE fencedPrefixes' = [fencedPrefixes EXCEPT ![r] = FALSE]
        BY <4>3, Zenon
      <4> QED
        BY <4>1, <4>2, <4>3, Zenon
    <3>2. netFence' \in [Pool -> BOOLEAN]
      <4>1. netFence' \in {netFence, [netFence EXCEPT ![r] = FALSE]}
        BY <2>19, Zenon DEF releaseDrained
      <4>2. CASE netFence' = netFence
        BY <4>2, Zenon
      <4>3. CASE netFence' = [netFence EXCEPT ![r] = FALSE]
        BY <4>3, Zenon
      <4> QED
        BY <4>1, <4>2, <4>3, Zenon
    <3>3. fence' \in [Pool -> {"absent", "Fenced", "Unfenced"}]
      BY <2>19 DEF releaseDrained
    <3>4. blocked' = blocked
      BY <2>19, Zenon DEF releaseDrained
    <3> QED
      BY <2>19, <3>1, <3>2, <3>3, <3>4, Zenon DEF releaseDrained
  <2>20. CASE forgetDrain(r)
    BY <2>20, Zenon DEF forgetDrain
  <2>21. CASE StorageUnconfirmed(r)
    BY <2>21, Zenon DEF StorageUnconfirmed
  <2>22. CASE NetworkUnconfirmed(r)
    BY <2>22, Zenon DEF NetworkUnconfirmed
  <2>23. CASE BothConfirmed(r)
    BY <2>23, Zenon DEF BothConfirmed
  <2>24. CASE setFencedPrefixes(r)
    BY <2>24, Zenon DEF setFencedPrefixes
  <2>25. CASE releaseFencedTwins(r)
    <3>1. CASE released' = [released EXCEPT ![r] = TRUE] /\ fresh' = [fresh EXCEPT ![r] = FALSE]
      BY <2>25, <3>1, Zenon DEF releaseFencedTwins
    <3>2. CASE released' = released /\ fresh' = fresh
      BY <2>25, <3>2, Zenon DEF releaseFencedTwins
    <3> QED
      BY <2>25, <3>1, <3>2, Zenon DEF releaseFencedTwins
  <2>26. CASE rebindPoolVMs(r)
    BY <2>26 DEF rebindPoolVMs
  <2> QED
    BY <1>6, <2>1, <2>2, <2>3, <2>4, <2>5, <2>6, <2>7, <2>8, <2>9,
       <2>10, <2>11, <2>12, <2>13, <2>14, <2>15, <2>16, <2>17, <2>18,
       <2>19, <2>20, <2>21, <2>22, <2>23, <2>24, <2>25, <2>26
       DEF Broker, Cluster, Failover
<1> QED
  BY <1>1, <1>2, <1>3, <1>4, <1>5, <1>6, Zenon DEF Next

\* The rest of IInv: one step per action, and under it one per conjunct it can
\* disturb.  Race = {} is needed by two of them: a drain report follows the sync
\* it depends on, and a VM is applied for a CompiledVM that is there.
LEMMA SafeStep ==
  ASSUME Race = {}, TypeOK, OneTwin, LeftoverIsSafe, CacheSound, PassFenced, [Next]_vars
  PROVE  OneTwin' /\ LeftoverIsSafe' /\ CacheSound' /\ PassFenced'
<1> USE VMMoveAssumption
    DEF Set, dispatch, broker, cluster, health, recovery, fences
<1>1. CASE UNCHANGED vars
  BY <1>1, Zenon DEF vars, OneTwin, LeftoverIsSafe, Leftover, Owns, Guarded, CacheSound, PassFenced
<1>2. CASE VMCacheSync
  BY <1>2, Zenon DEF VMCacheSync, OneTwin, LeftoverIsSafe, Leftover, Owns, Guarded, CacheSound, PassFenced
<1>3. CASE Gate
  <2>1. OneTwin'
    BY <1>3 DEF Gate, retireTwin, awaitingRelease, TypeOK, OneTwin
  <2>2. LeftoverIsSafe'
    BY <1>3 DEF Gate, retireTwin, awaitingRelease, TypeOK, LeftoverIsSafe, Leftover, Owns, Guarded, CacheSound
  <2>3. CacheSound'
    BY <1>3 DEF Gate, retireTwin, awaitingRelease, TypeOK, CacheSound
  <2>4. PassFenced'
    BY <1>3, Zenon DEF Gate, PassFenced
  <2> QED
    BY <2>1, <2>2, <2>3, <2>4, Zenon
<1>4. CASE Compile
  <2>1. OneTwin'
    BY <1>4 DEF Compile, TypeOK, OneTwin
  <2>2. LeftoverIsSafe'
    BY <1>4 DEF Compile, TypeOK, LeftoverIsSafe, Leftover, Owns, Guarded, CacheSound
  <2>3. CacheSound'
    BY <1>4 DEF Compile, TypeOK, CacheSound
  <2>4. PassFenced'
    BY <1>4, Zenon DEF Compile, PassFenced
  <2> QED
    BY <2>1, <2>2, <2>3, <2>4, Zenon
<1>5. CASE ReflectorRestarts
  BY <1>5, Zenon DEF ReflectorRestarts, OneTwin, LeftoverIsSafe, Leftover, Owns, Guarded, CacheSound, PassFenced
<1>6. ASSUME NEW r \in Pool,
             \/ Move(r) \/ DropFinalizer(r) \/ Broker(r) \/ Cluster(r)
             \/ LeaseAges(r) \/ PoolHealth(r) \/ CephActs(r) \/ Failover(r)
      PROVE  OneTwin' /\ LeftoverIsSafe' /\ CacheSound' /\ PassFenced'
  <2>1. CASE Move(r)
    BY <2>1, Zenon DEF Move, OneTwin, LeftoverIsSafe, Leftover, Owns, Guarded, CacheSound, PassFenced
  <2>2. CASE DropFinalizer(r)
    <3>1. OneTwin'
      BY <2>2 DEF DropFinalizer, TypeOK, OneTwin
    <3>2. LeftoverIsSafe'
      BY <2>2 DEF DropFinalizer, TypeOK, LeftoverIsSafe, Leftover, Owns, Guarded, CacheSound
    <3>3. CacheSound'
      BY <2>2 DEF DropFinalizer, TypeOK, CacheSound
    <3>4. PassFenced'
      BY <2>2, Zenon DEF DropFinalizer, PassFenced
    <3> QED
      BY <3>1, <3>2, <3>3, <3>4, Zenon
  <2>3. CASE TwinCacheSync(r)
    <3>1. LeftoverIsSafe'
      BY <2>3 DEF TwinCacheSync, TypeOK, LeftoverIsSafe, Leftover, Owns, Guarded, CacheSound
    <3>2. CacheSound'
      BY <2>3 DEF TwinCacheSync, TypeOK, CacheSound
    <3>3. OneTwin' /\ PassFenced'
      BY <2>3, Zenon DEF TwinCacheSync, OneTwin, PassFenced
    <3> QED
      BY <3>1, <3>2, <3>3, Zenon
  <2>4. CASE SyncCompiledVMs(r)
    <3>1. LeftoverIsSafe'
      BY <2>4 DEF SyncCompiledVMs, TypeOK, LeftoverIsSafe, Leftover, Owns, Guarded, CacheSound
    <3>2. OneTwin' /\ CacheSound' /\ PassFenced'
      BY <2>4, Zenon DEF SyncCompiledVMs, OneTwin, CacheSound, PassFenced
    <3> QED
      BY <3>1, <3>2, Zenon
  <2>5. CASE CreateDownstream(r)
    <3>1. LeftoverIsSafe'
      BY <2>5 DEF CreateDownstream, TypeOK, LeftoverIsSafe, Leftover, Owns, Guarded, CacheSound
    <3>2. OneTwin' /\ CacheSound' /\ PassFenced'
      BY <2>5, Zenon DEF CreateDownstream, OneTwin, CacheSound, PassFenced
    <3> QED
      BY <3>1, <3>2, Zenon
  <2>6. CASE ReportReleases(r)
    <3>1. LeftoverIsSafe'
      BY <2>6 DEF ReportReleases, letGo, TypeOK, LeftoverIsSafe, Leftover, Owns, Guarded, CacheSound
    <3>2. CacheSound'
      BY <2>6 DEF ReportReleases, letGo, TypeOK, CacheSound
    <3>3. OneTwin' /\ PassFenced'
      BY <2>6, Zenon DEF ReportReleases, OneTwin, PassFenced
    <3> QED
      BY <3>1, <3>2, <3>3, Zenon
  <2>7. CASE BrokerRestarts(r)
    <3>1. LeftoverIsSafe'
      BY <2>7 DEF BrokerRestarts, TypeOK, LeftoverIsSafe, Leftover, Owns, Guarded, CacheSound
    <3>2. CacheSound'
      BY <2>7 DEF BrokerRestarts, TypeOK, CacheSound
    <3>3. OneTwin' /\ PassFenced'
      BY <2>7, Zenon DEF BrokerRestarts, OneTwin, PassFenced
    <3> QED
      BY <3>1, <3>2, <3>3, Zenon
  <2>8. CASE Heartbeat(r)
    BY <2>8, Zenon DEF Heartbeat, OneTwin, LeftoverIsSafe, Leftover, Owns, Guarded, CacheSound, PassFenced
  <2>9. CASE ReportStatus(r)
    <3>1. LeftoverIsSafe'
      BY Race = {}, <2>9 DEF ReportStatus, Settled, letGo, TypeOK, LeftoverIsSafe, Leftover, Owns, Guarded, CacheSound
    <3>2. PassFenced'
      BY Race = {}, <2>9 DEF ReportStatus, Settled, letGo, TypeOK, PassFenced
    <3>3. OneTwin' /\ CacheSound'
      BY <2>9, Zenon DEF ReportStatus, OneTwin, CacheSound
    <3> QED
      BY <3>1, <3>2, <3>3, Zenon
  <2>10. CASE MaterializerReads(r)
    BY Race = {}, <2>10, Zenon DEF MaterializerReads, OneTwin, LeftoverIsSafe, Leftover, Owns, Guarded, CacheSound, PassFenced
  <2>11. CASE Materialize(r)
    <3>1. LeftoverIsSafe'
      BY Race = {}, <2>11 DEF Materialize, TypeOK, LeftoverIsSafe, Leftover, Owns, Guarded
    <3>2. OneTwin' /\ CacheSound' /\ PassFenced'
      BY <2>11, Zenon DEF Materialize, OneTwin, CacheSound, PassFenced
    <3> QED
      BY <3>1, <3>2, Zenon
  <2>12. CASE CollectVM(r)
    <3>1. LeftoverIsSafe'
      BY <2>12 DEF CollectVM, TypeOK, LeftoverIsSafe, Leftover, Owns, Guarded
    <3>2. OneTwin' /\ CacheSound' /\ PassFenced'
      BY <2>12, Zenon DEF CollectVM, OneTwin, CacheSound, PassFenced
    <3> QED
      BY <3>1, <3>2, Zenon
  <2>13. CASE CreateVMI(r)
    <3>1. LeftoverIsSafe'
      BY <2>13 DEF CreateVMI, TypeOK, LeftoverIsSafe, Leftover, Owns, Guarded
    <3>2. OneTwin' /\ CacheSound' /\ PassFenced'
      BY <2>13, Zenon DEF CreateVMI, OneTwin, CacheSound, PassFenced
    <3> QED
      BY <3>1, <3>2, Zenon
  <2>14. CASE StartVMI(r)
    <3>1. LeftoverIsSafe'
      BY <2>14 DEF StartVMI, TypeOK, LeftoverIsSafe, Leftover, Owns, Guarded
    <3>2. OneTwin' /\ CacheSound' /\ PassFenced'
      BY <2>14, Zenon DEF StartVMI, OneTwin, CacheSound, PassFenced
    <3> QED
      BY <3>1, <3>2, Zenon
  <2>15. CASE StopVMI(r)
    <3>1. LeftoverIsSafe'
      BY <2>15 DEF StopVMI, TypeOK, LeftoverIsSafe, Leftover, Owns, Guarded
    <3>2. OneTwin' /\ CacheSound' /\ PassFenced'
      BY <2>15, Zenon DEF StopVMI, OneTwin, CacheSound, PassFenced
    <3> QED
      BY <3>1, <3>2, Zenon
  <2>16. CASE LeaseAges(r)
    BY <2>16, Zenon DEF LeaseAges, OneTwin, LeftoverIsSafe, Leftover, Owns, Guarded, CacheSound, PassFenced
  <2>17. CASE PoolHealth(r)
    BY <2>17, Zenon DEF PoolHealth, OneTwin, LeftoverIsSafe, Leftover, Owns, Guarded, CacheSound, PassFenced
  <2>18. CASE CephActs(r)
    <3>1. LeftoverIsSafe'
      BY <2>18 DEF CephActs, TypeOK, LeftoverIsSafe, Leftover, Owns, Guarded
    <3>2. PassFenced'
      BY <2>18 DEF CephActs, TypeOK, PassFenced
    <3>3. OneTwin' /\ CacheSound'
      BY <2>18, Zenon DEF CephActs, OneTwin, CacheSound
    <3> QED
      BY <3>1, <3>2, <3>3, Zenon
  <2>19. CASE releaseDrained(r)
    <3>1. LeftoverIsSafe'
      BY <2>19 DEF releaseDrained, TypeOK, LeftoverIsSafe, Leftover, Owns, Guarded, PassFenced
    <3>2. PassFenced'
      BY <2>19 DEF releaseDrained, TypeOK, PassFenced
    <3>3. OneTwin' /\ CacheSound'
      BY <2>19, Zenon DEF releaseDrained, OneTwin, CacheSound
    <3> QED
      BY <3>1, <3>2, <3>3, Zenon
  <2>20. CASE forgetDrain(r)
    <3>1. LeftoverIsSafe'
      BY <2>20 DEF forgetDrain, TypeOK, LeftoverIsSafe, Leftover, Owns, Guarded
    <3>2. PassFenced'
      BY <2>20 DEF forgetDrain, TypeOK, PassFenced
    <3>3. OneTwin' /\ CacheSound'
      BY <2>20, Zenon DEF forgetDrain, OneTwin, CacheSound
    <3> QED
      BY <3>1, <3>2, <3>3, Zenon
  <2>21. CASE StorageUnconfirmed(r)
    <3>1. LeftoverIsSafe'
      BY <2>21 DEF StorageUnconfirmed, StorageFenced, TypeOK, LeftoverIsSafe, Leftover, Owns, Guarded, PassFenced
    <3>2. PassFenced'
      BY <2>21 DEF StorageUnconfirmed, StorageFenced, TypeOK, PassFenced
    <3>3. OneTwin' /\ CacheSound'
      BY <2>21, Zenon DEF StorageUnconfirmed, OneTwin, CacheSound
    <3> QED
      BY <3>1, <3>2, <3>3, Zenon
  <2>22. CASE NetworkUnconfirmed(r)
    <3>1. PassFenced'
      BY <2>22 DEF NetworkUnconfirmed, StorageFenced, TypeOK, PassFenced
    <3>2. OneTwin' /\ LeftoverIsSafe' /\ CacheSound'
      BY <2>22, Zenon DEF NetworkUnconfirmed, OneTwin, LeftoverIsSafe, Leftover, Owns, Guarded, CacheSound
    <3> QED
      BY <3>1, <3>2, Zenon
  <2>23. CASE BothConfirmed(r)
    <3>1. PassFenced'
      BY <2>23 DEF BothConfirmed, StorageFenced, TypeOK, PassFenced
    <3>2. OneTwin' /\ LeftoverIsSafe' /\ CacheSound'
      BY <2>23, Zenon DEF BothConfirmed, OneTwin, LeftoverIsSafe, Leftover, Owns, Guarded, CacheSound
    <3> QED
      BY <3>1, <3>2, Zenon
  <2>24. CASE setFencedPrefixes(r)
    <3>1. PassFenced'
      BY <2>24 DEF setFencedPrefixes, TypeOK, PassFenced
    <3>2. OneTwin' /\ LeftoverIsSafe' /\ CacheSound'
      BY <2>24, Zenon DEF setFencedPrefixes, OneTwin, LeftoverIsSafe, Leftover, Owns, Guarded, CacheSound
    <3> QED
      BY <3>1, <3>2, Zenon
  <2>25. CASE releaseFencedTwins(r)
    <3>1. LeftoverIsSafe'
      BY <2>25 DEF releaseFencedTwins, TypeOK, LeftoverIsSafe, Leftover, Owns, Guarded, CacheSound, PassFenced
    <3>2. CacheSound'
      BY <2>25 DEF releaseFencedTwins, TypeOK, CacheSound
    <3>3. PassFenced'
      BY <2>25 DEF releaseFencedTwins, TypeOK, PassFenced
    <3>4. OneTwin'
      BY <2>25, Zenon DEF releaseFencedTwins, OneTwin
    <3> QED
      BY <3>1, <3>2, <3>3, <3>4, Zenon
  <2>26. CASE rebindPoolVMs(r)
    <3>1. PassFenced'
      BY <2>26 DEF rebindPoolVMs, TypeOK, PassFenced
    <3>2. OneTwin' /\ LeftoverIsSafe' /\ CacheSound'
      BY <2>26, Zenon DEF rebindPoolVMs, OneTwin, LeftoverIsSafe, Leftover, Owns, Guarded, CacheSound
    <3> QED
      BY <3>1, <3>2, Zenon
  <2> QED
    BY <1>6, <2>1, <2>2, <2>3, <2>4, <2>5, <2>6, <2>7, <2>8, <2>9,
       <2>10, <2>11, <2>12, <2>13, <2>14, <2>15, <2>16, <2>17, <2>18,
       <2>19, <2>20, <2>21, <2>22, <2>23, <2>24, <2>25, <2>26
       DEF Broker, Cluster, Failover
<1> QED
  BY <1>1, <1>2, <1>3, <1>4, <1>5, <1>6, Zenon DEF Next

\* The two lemmas together: IInv is inductive.
LEMMA IInvStep ==
  ASSUME Race = {}, IInv, [Next]_vars
  PROVE  IInv'
<1>1. TypeOK'
  BY TypeStep, Zenon DEF IInv
<1> QED
  BY <1>1, SafeStep, Zenon DEF IInv

\* Every pool starts empty, its informer in step with the dispatch.
LEMMA InitIInv == Init => IInv
BY VMMoveAssumption
   DEF Init, IInv, TypeOK, OneTwin, LeftoverIsSafe, CacheSound, PassFenced, Leftover

-----------------------------------------------------------------------------
\* Whatever races happen, every variable keeps its type.
THEOREM TypeCorrect == Spec => []TypeOK
<1>1. Init => TypeOK
  BY VMMoveAssumption DEF Init, TypeOK
<1>2. TypeOK /\ [Next]_vars => TypeOK'
  BY TypeStep, Zenon
<1> QED
  BY <1>1, <1>2, PTL DEF Spec

\* IInv holds in every reachable state when neither race happens.
THEOREM Invariance == ASSUME Race = {} PROVE Spec => []IInv
<1>1. Init => IInv
  BY InitIInv, Zenon
<1>2. IInv /\ [Next]_vars => IInv'
  BY Race = {}, IInvStep, Zenon
<1> QED
  BY <1>1, <1>2, PTL DEF Spec

\* A pool whose writes reach the disk is the pool with the unreleased twin: what
\* letGo and the fences promise the compiler's gate.
THEOREM OnlyOwnerRunsHolds == ASSUME Race = {} PROVE Spec => []OnlyOwnerRuns
<1>1. IInv => OnlyOwnerRuns
  BY Zenon DEF IInv, LeftoverIsSafe, Leftover, Owns, Guarded, OnlyOwnerRuns, CanWrite
<1> QED
  BY <1>1, Invariance, PTL

\* Two copies of the VM never write its disk.
THEOREM SingleWriterHolds == ASSUME Race = {} PROVE Spec => []SingleWriter
<1>1. IInv => SingleWriter
  <2>1. IInv => OnlyOwnerRuns
    BY Zenon DEF IInv, LeftoverIsSafe, Leftover, Owns, Guarded, OnlyOwnerRuns, CanWrite
  <2> QED
    BY <2>1, Zenon DEF IInv, OneTwin, OnlyOwnerRuns, SingleWriter
<1> QED
  BY <1>1, Invariance, PTL

\* A twin disappears only when its pool holds nothing of the VM, or is fenced.
THEOREM ProofBeforeReleaseHolds == ASSUME Race = {} PROVE Spec => ProofBeforeRelease
<1> DEFINE Proved == \A p \in Pool : twin[p] # "none" /\ twin'[p] = "none"
                       => letGo(p) \/ (blocked[p] /\ p \in Covered)
<1>1. IInv /\ [Next]_vars => [Proved]_vars
  <2> SUFFICES ASSUME IInv, Next, NEW p \in Pool, twin[p] # "none", twin'[p] = "none"
               PROVE  letGo(p) \/ (blocked[p] /\ p \in Covered)
    OBVIOUS
  <2>1. DropFinalizer(p)
    <3> USE DEF IInv, TypeOK, Set, dispatch, broker, cluster, health, recovery, fences
    <3>1. ~Gate /\ ~Compile
      BY VMMoveAssumption DEF Gate, retireTwin, Compile
    <3>2. ~VMCacheSync /\ ~ReflectorRestarts
      BY Zenon DEF VMCacheSync, ReflectorRestarts
    <3>3. ASSUME NEW r \in Pool PROVE ~Broker(r) /\ ~Cluster(r)
      BY Zenon DEF Broker, TwinCacheSync, SyncCompiledVMs, CreateDownstream, ReportReleases,
             BrokerRestarts, Heartbeat, ReportStatus, Cluster, MaterializerReads,
             Materialize, CollectVM, CreateVMI, StartVMI, StopVMI
    <3>4. ASSUME NEW r \in Pool PROVE ~Failover(r)
      BY Zenon DEF Failover, releaseDrained, forgetDrain, StorageUnconfirmed, NetworkUnconfirmed,
             BothConfirmed, setFencedPrefixes, releaseFencedTwins, rebindPoolVMs
    <3>5. ASSUME NEW r \in Pool PROVE ~(Move(r) \/ LeaseAges(r) \/ PoolHealth(r) \/ CephActs(r))
      BY Zenon DEF Move, LeaseAges, PoolHealth, CephActs
    <3>6. PICK r \in Pool : DropFinalizer(r)
      BY <3>1, <3>2, <3>3, <3>4, <3>5, Zenon DEF Next
    <3> QED
      BY <3>6 DEF DropFinalizer
  <2> QED
    BY <2>1, Zenon DEF IInv, TypeOK, LeftoverIsSafe, Leftover, Owns, Guarded, DropFinalizer, letGo
<1> QED
  BY <1>1, Invariance, PTL DEF ProofBeforeRelease, Spec

\* A rebind happens under a fence that stands, is complete and is recorded.
THEOREM RebindIsFencedHolds == ASSUME Race = {} PROVE Spec => RebindIsFenced
<1>1. IInv => [\A p \in Pool : rebindPoolVMs(p) /\ clusterName' # clusterName
                 => fence[p] = "Fenced" /\ blocked[p] /\ p \in Covered /\ fencedPrefixes[p]]_vars
  BY Zenon DEF IInv, PassFenced, rebindPoolVMs
<1> QED
  BY <1>1, Invariance, PTL DEF RebindIsFenced
=============================================================================
