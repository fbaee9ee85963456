--------------------------- MODULE StorageProofs ----------------------------
(***************************************************************************)
(* Proofs about the two components that guard a machine's disk and share   *)
(* no state: the storage fence (NetworkFence) and the disk that moves      *)
(* between the pools (DiskMove).                                           *)
(***************************************************************************)
EXTENDS NetworkFence, DiskMove, TLAPS

-----------------------------------------------------------------------------
(***************************************************************************)
(* Proofs about NetworkFence, for any set of pools that share a prefix:    *)
(* a confirmed fence stands and a missing CR leaves nothing behind.        *)
(*                                                                         *)
(* The argument: a result in the status is trusted only when it reports    *)
(* the operation the CR now asks for, and by then csi-addons' cache and    *)
(* worker can no longer do the opposite.  A CR is never flipped back, so   *)
(* what an earlier operation does late, it does before such a report.      *)
(***************************************************************************)
\* The worker: whatever it ran last is what Ceph has, and a worker whose view
\* is current runs what the CR asks for.
WorkerSound ==
  /\ stage = "idle" <=> job = "none"
  /\ stage = "ok" => (blocked <=> job = "fence")
  /\ fresh => /\ spec # "absent" /\ ~deleting /\ stage # "idle"
              /\ cache = spec
              /\ job = (IF spec = "Fenced" THEN "fence" ELSE "unfence")

\* Only an unfenced CR is deleted, and a CR asking for a fence is new.
CRSound ==
  /\ deleting => spec = "Unfenced" /\ report = "unfence"
  /\ spec = "Fenced" => report # "unfence"

\* The prefix is open and nothing is left that would block it.
Open == ~blocked /\ job # "fence" /\ cache # "Fenced"

\* The prefix is blocked and nothing is left that would open it.
Shut == blocked /\ job # "unfence" /\ cache = "Fenced"

OpenWhenReleased == spec = "absent" \/ (spec = "Unfenced" /\ report = "unfence") => Open

ShutWhenConfirmed ==
  /\ spec = "Fenced" /\ report = "fence" => Shut
  /\ \A p \in Pool : answer[p] = "fenced"
       => Shut /\ spec = "Fenced" /\ label = p /\ want[p] = "fence"

FenceInv == TypeOK /\ WorkerSound /\ CRSound /\ OpenWhenReleased /\ ShutWhenConfirmed

-----------------------------------------------------------------------------
\* No call and no step of csi-addons leaves the types.
LEMMA FenceTypeStep ==
  ASSUME TypeOK, [Next]_vars
  PROVE  TypeOK'
<1> USE NetworkFenceAssumption DEF TypeOK, cr, worker, Answer, Delete, FencedFor
<1>1. CASE UNCHANGED vars
  BY <1>1 DEF vars
<1>2. ASSUME NEW p \in Pool, Fence(p) PROVE TypeOK'
  <2>1. CASE FenceAbsent(p)
    BY <1>2, <2>1, Zenon DEF Fence, FenceAbsent, Create
  <2>2. CASE FenceRefused(p)
    BY <1>2, <2>2 DEF Fence, FenceRefused
  <2>3. CASE FenceUnfenced(p)
    <3>1. CASE report = "unfence"
      BY <1>2, <2>3, <3>1, Zenon DEF Fence, FenceUnfenced
    <3>2. CASE report # "unfence"
      BY <1>2, <2>3, <3>2 DEF Fence, FenceUnfenced
    <3> QED
      BY <3>1, <3>2, Zenon
  <2>4. CASE FenceFenced(p)
    BY <1>2, <2>4 DEF Fence, FenceFenced
  <2> QED
    BY <1>2, <2>1, <2>2, <2>3, <2>4, Zenon DEF Fence
<1>3. ASSUME NEW p \in Pool, Release(p) PROVE TypeOK'
  <2>1. CASE ReleaseAbsent(p)
    BY <1>3, <2>1 DEF Release, ReleaseAbsent
  <2>2. CASE ReleaseRefused(p)
    BY <1>3, <2>2 DEF Release, ReleaseRefused
  <2>3. CASE ReleaseFenced(p)
    <3>1. answer' \in [Pool -> {"none", "fenced", "released", "error"}]
      BY <2>3, Zenon DEF ReleaseFenced
    <3>2. spec' \in {"absent", "Fenced", "Unfenced"} /\ fresh' \in BOOLEAN
      BY <2>3, Zenon DEF ReleaseFenced
    <3>3. UNCHANGED <<label, report, deleting, finalizer, cache, job, stage, blocked, want>>
      BY <1>3, <2>3, Zenon DEF Release, ReleaseFenced
    <3> QED
      BY <3>1, <3>2, <3>3
  <2>4. CASE ReleaseUnfenced(p)
    <3>1. CASE report = "unfence"
      BY <1>3, <2>4, <3>1, Zenon DEF Release, ReleaseUnfenced
    <3>2. CASE report # "unfence"
      BY <1>3, <2>4, <3>2 DEF Release, ReleaseUnfenced
    <3> QED
      BY <3>1, <3>2, Zenon
  <2> QED
    BY <1>3, <2>1, <2>2, <2>3, <2>4, Zenon DEF Release
<1>4. ASSUME NEW p \in Pool, Turn(p) PROVE TypeOK'
  BY <1>4 DEF Turn
<1>5. CASE CacheSync
  BY <1>5 DEF CacheSync, Current
<1>6. CASE WorkerStart
  BY <1>6, Zenon DEF WorkerStart
<1>7. CASE WorkerRuns \/ WorkerFails
  <2>1. blocked' \in BOOLEAN
    BY <1>7, Zenon DEF WorkerRuns, WorkerFails
  <2> QED
    BY <1>7, <2>1 DEF WorkerRuns, WorkerFails
<1>8. CASE WorkerReports \/ WorkerCrashes
  <2>1. CASE WorkerReports
    <3>1. report' \in {"none", "fence", "unfence", "failed"}
      BY <2>1, Zenon DEF WorkerReports
    <3> QED
      BY <2>1, <3>1, Zenon DEF WorkerReports
  <2>2. CASE WorkerCrashes
    BY <2>2, Zenon DEF WorkerCrashes
  <2> QED
    BY <1>8, <2>1, <2>2, Zenon
<1>9. CASE WorkerFinalizes
  BY <1>9, Zenon DEF WorkerFinalizes
<1> QED
  BY <1>1, <1>2, <1>3, <1>4, <1>5, <1>6, <1>7, <1>8, <1>9, Zenon DEF Next, Calls

\* The rest of FenceInv.  The calls write the CR and csi-addons' steps everything else.
LEMMA FenceSoundStep ==
  ASSUME FenceInv, TypeOK', [Next]_vars
  PROVE  (WorkerSound /\ CRSound /\ OpenWhenReleased /\ ShutWhenConfirmed)'
<1> DEFINE Sound == WorkerSound /\ CRSound /\ OpenWhenReleased /\ ShutWhenConfirmed
<1> USE NetworkFenceAssumption
    DEF FenceInv, TypeOK, WorkerSound, CRSound, OpenWhenReleased, ShutWhenConfirmed, Open, Shut,
        cr, worker, Answer, Delete, FencedFor
<1>1. CASE UNCHANGED vars
  BY <1>1, Zenon DEF vars
<1>2. ASSUME NEW p \in Pool, Fence(p) PROVE Sound'
  <2>1. CASE FenceAbsent(p)
    BY <1>2, <2>1, Zenon DEF Fence, FenceAbsent, Create
  <2>2. CASE FenceRefused(p)
    BY <1>2, <2>2, Zenon DEF Fence, FenceRefused
  <2>3. CASE FenceUnfenced(p)
    BY <1>2, <2>3 DEF Fence, FenceUnfenced
  <2>4. CASE FenceFenced(p)
    BY <1>2, <2>4, Zenon DEF Fence, FenceFenced
  <2> QED
    BY <1>2, <2>1, <2>2, <2>3, <2>4, Zenon DEF Fence
<1>3. ASSUME NEW p \in Pool, Release(p) PROVE Sound'
  <2>1. CASE ReleaseAbsent(p) \/ ReleaseRefused(p)
    BY <1>3, <2>1 DEF Release, ReleaseAbsent, ReleaseRefused
  <2>2. CASE ReleaseFenced(p)
    BY <1>3, <2>2, Zenon DEF Release, ReleaseFenced
  <2>3. CASE ReleaseUnfenced(p)
    BY <1>3, <2>3 DEF Release, ReleaseUnfenced
  <2> QED
    BY <1>3, <2>1, <2>2, <2>3, Zenon DEF Release
<1>4. ASSUME NEW p \in Pool, Turn(p) PROVE Sound'
  BY <1>4 DEF Turn
<1>5. CASE CacheSync
  BY <1>5, Zenon DEF CacheSync, Current
<1>6. CASE WorkerStart
  BY <1>6, Zenon DEF WorkerStart, Current
<1>7. CASE WorkerRuns
  BY <1>7 DEF WorkerRuns
<1>8. CASE WorkerFails
  BY <1>8 DEF WorkerFails
<1>9. CASE WorkerReports
  BY <1>9, Zenon DEF WorkerReports
<1>10. CASE WorkerCrashes
  BY <1>10, Zenon DEF WorkerCrashes
<1>11. CASE WorkerFinalizes
  BY <1>11, Zenon DEF WorkerFinalizes
<1> QED
  BY <1>1, <1>2, <1>3, <1>4, <1>5, <1>6, <1>7, <1>8, <1>9, <1>10, <1>11, Zenon DEF Next, Calls

\* At the start there is no CR, and csi-addons has seen none.
LEMMA FenceInvInit == Init => FenceInv
BY NetworkFenceAssumption, Zenon
   DEF Init, FenceInv, TypeOK, WorkerSound, CRSound, OpenWhenReleased, ShutWhenConfirmed, Open

\* FenceInv holds in every reachable state.
THEOREM FenceInvariant == Spec => []FenceInv
<1>1. Init => FenceInv
  BY FenceInvInit, Zenon
<1>2. FenceInv /\ [Next]_vars => FenceInv'
  BY FenceTypeStep, FenceSoundStep, Zenon DEF FenceInv
<1> QED
  BY <1>1, <1>2, PTL DEF Spec

-----------------------------------------------------------------------------
\* Every variable keeps its type.
THEOREM FenceTypeCorrect == Spec => []TypeOK
<1>1. FenceInv => TypeOK
  BY Zenon DEF FenceInv
<1> QED
  BY <1>1, FenceInvariant, PTL

\* While a pool relies on the nil Fence returned to it, Ceph blocks the prefix.
THEOREM ConfirmedIsBlockedHolds == Spec => []ConfirmedIsBlocked
<1>1. FenceInv => ConfirmedIsBlocked
  BY Zenon DEF FenceInv, ShutWhenConfirmed, Shut, ConfirmedIsBlocked
<1> QED
  BY <1>1, FenceInvariant, PTL

\* A NetworkFence that is gone, or going, blocks nothing and will block nothing.
THEOREM NoLeakedBlockHolds == Spec => []NoLeakedBlock
<1>1. FenceInv => NoLeakedBlock
  BY Zenon DEF FenceInv, CRSound, OpenWhenReleased, Open, NoLeakedBlock
<1> QED
  BY <1>1, FenceInvariant, PTL

\* Release returns nil only for a prefix that is open and stays open.
THEOREM ReleasedIsOpenHolds == Spec => ReleasedIsOpen
<1>1. FenceInv => [\A p \in Pool : Release(p) /\ answer'[p] = "released" => ~blocked /\ job # "fence"]_vars
  BY Zenon DEF FenceInv, TypeOK, OpenWhenReleased, Open, Release, ReleaseAbsent, ReleaseRefused,
         ReleaseFenced, ReleaseUnfenced, Answer
<1> QED
  BY <1>1, FenceInvariant, PTL DEF ReleasedIsOpen

\* No pool undoes the fence of another.
THEOREM OnlyOwnerReleasesHolds == Spec => OnlyOwnerReleases
<1> DEFINE Own == \A p \in Pool : label = p /\ spec = "Fenced" /\ spec' # "Fenced" => want[p] = "release"
<1>1. FenceInv /\ [Next]_vars => [Own]_vars
  BY NetworkFenceAssumption, Zenon
     DEF FenceInv, TypeOK, CRSound, cr, Next, Calls, Fence, FenceAbsent, FenceRefused, FenceUnfenced, FenceFenced,
         Release, ReleaseAbsent, ReleaseRefused, ReleaseFenced, ReleaseUnfenced, FencedFor, Turn,
         CacheSync, WorkerStart, WorkerRuns, WorkerFails, WorkerReports, WorkerCrashes, WorkerFinalizes
<1> QED
  BY <1>1, FenceInvariant, PTL DEF OnlyOwnerReleases, Spec

-----------------------------------------------------------------------------
\* The StorageFencer implements the promise failover relies on: a pool is told
\* its fence stands only while it does, and the blocklist entry goes only when no
\* pool relies on it.
THEOREM Refinement == Spec => ImplementsPromise
<1>1. Init => Promise!Init
  BY Zenon DEF Init, Promise!Init, held
<1>2. FenceInv /\ FenceInv' /\ [Next]_vars => [Promise!Next]_<<blocked, held>>
  <2> SUFFICES ASSUME FenceInv, FenceInv', [Next]_vars
               PROVE  Promise!Next \/ UNCHANGED <<blocked, held>>
    OBVIOUS
  <2> USE DEF FenceInv, TypeOK, held, Promise!Next
  <2>1. CASE UNCHANGED vars
    BY <2>1, Zenon DEF vars
  <2>2. ASSUME NEW p \in Pool, Fence(p) PROVE Promise!Confirm(p) \/ Promise!LetGo(p)
    <3>1. blocked' = blocked
      BY <2>2, Zenon DEF Fence
    <3>2. answer'[p] \in {"fenced", "error"} /\ \A q \in Pool \ {p} : answer'[q] = answer[q]
      BY <2>2, Zenon DEF Fence, FenceAbsent, FenceRefused, FenceUnfenced, FenceFenced, Answer
    <3>3. CASE answer'[p] = "fenced"
      <4>1. blocked /\ held' = {p}
        BY <3>1, <3>3, Zenon DEF ShutWhenConfirmed, Shut
      <4> QED
        BY <3>1, <4>1, Zenon DEF Promise!Confirm
    <3>4. CASE answer'[p] = "error"
      <4>1. held' = held \ {p}
        BY <3>2, <3>4, Zenon
      <4> QED
        BY <3>1, <4>1, Zenon DEF Promise!LetGo
    <3> QED
      BY <3>2, <3>3, <3>4, Zenon
  <2>3. ASSUME NEW p \in Pool, Release(p) \/ Turn(p) PROVE Promise!LetGo(p)
    <3>1. blocked' = blocked
      BY <2>3, Zenon DEF Release, Turn
    <3>2. answer'[p] # "fenced" /\ \A q \in Pool \ {p} : answer'[q] = answer[q]
      BY <2>3 DEF Release, ReleaseAbsent, ReleaseRefused, ReleaseFenced, ReleaseUnfenced, Answer, Turn
    <3>3. held' = held \ {p}
      BY <3>2, Zenon
    <3> QED
      BY <3>1, <3>3, Zenon DEF Promise!LetGo
  <2>4. CASE WorkerRuns \/ WorkerFails
    <3>1. answer' = answer /\ held' = held
      BY <2>4, Zenon DEF WorkerRuns, WorkerFails
    <3>2. CASE blocked' = blocked
      BY <3>1, <3>2, Zenon
    <3>3. CASE blocked' = TRUE
      BY <3>1, <3>3, Zenon DEF Promise!Block
    <3>4. CASE blocked' = FALSE
      <4>1. held = {}
        BY <3>1, <3>4, Zenon DEF ShutWhenConfirmed, Shut
      <4> QED
        BY <3>1, <3>4, <4>1, Zenon DEF Promise!Unblock
    <3> QED
      BY <3>2, <3>3, <3>4, Zenon
  <2>5. CASE CacheSync \/ WorkerStart \/ WorkerReports \/ WorkerCrashes \/ WorkerFinalizes
    BY <2>5, Zenon DEF CacheSync, WorkerStart, WorkerReports, WorkerCrashes, WorkerFinalizes
  <2> QED
    BY <2>1, <2>2, <2>3, <2>4, <2>5, Zenon DEF Next, Calls
<1> QED
  BY <1>1, <1>2, FenceInvariant, PTL DEF Spec, ImplementsPromise, Promise!Spec

-----------------------------------------------------------------------------
(***************************************************************************)
(* What becomes of a machine's disk, for any number of pools, images,      *)
(* moves and failures.                                                     *)
(*                                                                         *)
(* An image leaves Ceph with a claim whose volume has the policy Delete,   *)
(* or by a reclaim.  The second needs a Volume that is being deleted.  For *)
(* the first, the invariant follows a volume from its making: while CDI    *)
(* imports, no guest has its image and no other pool knows it; once the    *)
(* claim is bound, Delete means that the finalizer is on and releaseDisk   *)
(* has not yet got past its first part.                                    *)
(*                                                                         *)
(* MoveKeepsDisk and ReclaimedIsGone rest on that and on one more fact: a  *)
(* machine whose disk was on record at each move only ever has one image.  *)
(***************************************************************************)
\* What is on record anywhere names a disk a guest may have written to.
KnownIsWritten ==
  /\ vol.id \in written \cup {NoImage}
  /\ \A p \in Cluster :
       /\ {att[p].id, att[p].status, loc[p].id, loc[p].status} \subseteq written \cup {NoImage}
       /\ claim[p] = "pending" => pv[p].img \in written

\* An image that is being imported is in Ceph, unwritten, and one pool's alone.
ImportIsPrivate ==
  \A p \in Cluster :
    /\ pv[p].img \in 0..made
    /\ claim[p] = "prime" => pv[p].img \in images \ written /\ dv[p] # "none"
    /\ \A q \in Cluster : pv[p].img = pv[q].img => p = q \/ pv[p].img \in written \cup {NoImage}

\* Where a written image may still hang on the policy Delete.
Protected ==
  \A p \in Cluster :
    /\ loc[p].fin => loc[p].here
    /\ claim[p] = "bound" => pv[p].img \in written
    /\ claim[p] = "pending" => pv[p].policy = "Retain"
    /\ claim[p] = "bound" /\ pv[p].policy = "Delete"
         => loc[p].fin /\ dv[p] # "none" /\ rel[p] = "idle"
    /\ claim[p] = "terminating" /\ pv[p].policy = "Delete" => pv[p].img \notin written

\* The reclaiming pair exists only for a Volume that is being deleted, and holds its disk.
ReclaimIsAsked ==
  /\ recl # "idle" \/ rpv.phase # "none" => vol.phase # "live"
  /\ rpv.phase # "none" => rpv.img \in written

DiskInv ==
  DiskTypeOK /\ ImageSurvives /\ KnownIsWritten /\ ImportIsPrivate /\ Protected /\ ReclaimIsAsked

-----------------------------------------------------------------------------
\* Setting a field of an attachment leaves an attachment.
LEMMA AttachmentUpdate ==
  ASSUME NEW a \in Attachment, NEW n \in Nat
  PROVE  [a EXCEPT !.status = n] \in Attachment
BY Zenon DEF Attachment

\* Setting a field of an attachment's copy leaves a copy, and so does starting one.
LEMMA CopyUpdate ==
  ASSUME NEW a \in Copy, NEW n \in Nat
  PROVE  /\ [a EXCEPT !.id = n] \in Copy
         /\ [a EXCEPT !.status = n] \in Copy
         /\ [a EXCEPT !.fin = TRUE] \in Copy
         /\ [a EXCEPT !.deleting = TRUE] \in Copy
         /\ [NoLoc EXCEPT !.here = TRUE, !.id = n] \in Copy
         /\ NoLoc \in Copy
<1>1. [a EXCEPT !.id = n] \in Copy
  BY Zenon DEF Copy
<1>2. [a EXCEPT !.status = n] \in Copy
  BY Zenon DEF Copy
<1>3. [a EXCEPT !.fin = TRUE] \in Copy
  BY Zenon DEF Copy
<1>4. [a EXCEPT !.deleting = TRUE] \in Copy
  BY Zenon DEF Copy
<1>5. [NoLoc EXCEPT !.here = TRUE, !.id = n] \in Copy
  BY Zenon DEF Copy, NoLoc, NoImage
<1>6. NoLoc \in Copy
  BY Zenon DEF Copy, NoLoc, NoImage
<1> QED
  BY <1>1, <1>2, <1>3, <1>4, <1>5, <1>6, Zenon

\* The first states satisfy the invariant: there is no disk yet.
LEMMA DiskInvInit == DiskInit => DiskInv
<1> SUFFICES ASSUME DiskInit PROVE DiskInv
  OBVIOUS
<1> USE DEF DiskInit, NoImage
<1>1. DiskTypeOK
  BY Zenon DEF DiskTypeOK, Attachment, Copy, NoAtt, NoLoc, NoPV, NoReclaimPV
<1>2. ImageSurvives /\ Protected /\ ReclaimIsAsked
  BY Zenon DEF ImageSurvives, Protected, ReclaimIsAsked, NoReclaimPV, NoLoc
<1>3. KnownIsWritten /\ ImportIsPrivate
  BY DEF KnownIsWritten, ImportIsPrivate, NoAtt, NoLoc, NoPV
<1> QED
  BY <1>1, <1>2, <1>3, Zenon DEF DiskInv

\* Every step of a user, a controller, a broker, CDI, the driver, and every failure keeps it.
LEMMA DiskInvStep == DiskInv /\ [DiskNext]_diskVars => DiskInv'
<1> SUFFICES ASSUME DiskTypeOK, ImageSurvives, KnownIsWritten, ImportIsPrivate, Protected,
                    ReclaimIsAsked, [DiskNext]_diskVars
             PROVE  DiskInv'
  BY Zenon DEF DiskInv
<1> USE DEF NoImage, poolVars, reclVars
<1>1. ASSUME NEW p \in Cluster, Move(p) PROVE DiskInv'
  BY <1>1 DEF Move, DiskInv, DiskTypeOK, ImageSurvives, KnownIsWritten, ImportIsPrivate, Protected,
     ReclaimIsAsked
<1>2. ASSUME NEW p \in Cluster, ReleaseVM(p) PROVE DiskInv'
  BY <1>2 DEF ReleaseVM, DiskInv, DiskTypeOK, ImageSurvives, KnownIsWritten, ImportIsPrivate,
     Protected, ReclaimIsAsked
<1>3. ASSUME NEW p \in Cluster, SyncAttachment(p) PROVE DiskInv'
  <2> DEFINE Fits(x) == /\ x \in Copy
                        /\ x.id \in {att[p].id, loc[p].id, NoImage}
                        /\ x.status \in {loc[p].status, NoImage}
                        /\ x.fin => x.here
  <2>a. att[p].id \in Nat /\ loc[p] \in Copy
    BY Zenon DEF DiskTypeOK, Attachment
  <2>b. /\ Fits([loc[p] EXCEPT !.id = att[p].id])
        /\ Fits([NoLoc EXCEPT !.here = TRUE, !.id = att[p].id])
        /\ Fits([loc[p] EXCEPT !.deleting = TRUE])
        /\ Fits(NoLoc)
    <3>1. Fits([loc[p] EXCEPT !.id = att[p].id])
      BY <2>a, CopyUpdate, Zenon DEF Copy, Protected
    <3>2. Fits([NoLoc EXCEPT !.here = TRUE, !.id = att[p].id])
      BY <2>a, CopyUpdate DEF Copy, NoLoc
    <3>3. Fits([loc[p] EXCEPT !.deleting = TRUE])
      BY <2>a, CopyUpdate, Zenon DEF Copy, Protected
    <3>4. Fits(NoLoc)
      BY <2>a, CopyUpdate, Zenon DEF NoLoc
    <3> QED
      BY <3>1, <3>2, <3>3, <3>4, Zenon
  <2>c. PICK x : Fits(x) /\ loc' = [loc EXCEPT ![p] = x]
    BY <1>3, <2>b, Zenon DEF SyncAttachment
  <2>d. \/ loc[p].fin /\ loc'[p].fin /\ UNCHANGED <<dv, claim>>
        \/ ~loc[p].fin
    <3>1. CASE att[p].here /\ loc[p].fin /\ loc[p].here
      BY <1>3, <2>a, <3>1 DEF SyncAttachment, DiskTypeOK, Copy
    <3>2. CASE ~att[p].here /\ loc[p].fin
      BY <1>3, <2>a, <3>2 DEF SyncAttachment, DiskTypeOK, Copy
    <3> QED
      BY <3>1, <3>2, Zenon DEF DiskTypeOK, Copy, Protected
  <2>1. DiskTypeOK'
    <3>1. loc' \in [Cluster -> Copy]
      BY <2>c, Zenon DEF DiskTypeOK
    <3>2. /\ dv' \in [Cluster -> {"none", "new", "provisioned"}]
          /\ claim' \in [Cluster -> {"none", "prime", "pending", "bound", "terminating"}]
      <4> DEFINE C == {"none", "prime", "pending", "bound", "terminating"}
      <4>1. claim[p] \in C /\ Collected(claim[p]) \in C
        BY Zenon DEF DiskTypeOK, Collected
      <4>2. \/ UNCHANGED <<dv, claim>>
            \/ /\ dv' = [dv EXCEPT ![p] = "none"]
               /\ \E c \in {claim[p], Collected(claim[p])} : claim' = [claim EXCEPT ![p] = c]
        BY <1>3, Zenon DEF SyncAttachment
      <4>3. dv \in [Cluster -> {"none", "new", "provisioned"}] /\ claim \in [Cluster -> C]
        BY Zenon DEF DiskTypeOK
      <4>4. dv' \in [Cluster -> {"none", "new", "provisioned"}]
        BY <4>2, <4>3, Zenon
      <4>5. claim' \in [Cluster -> C]
        BY <4>1, <4>2, <4>3, Zenon
      <4> QED
        BY <4>4, <4>5, Zenon
    <3>3. UNCHANGED <<cluster, vm, twins, att, pv, rel, vol, rpv, rpvc, recl, images, made, written,
                      kept, moves, faults>>
      BY <1>3, Zenon DEF SyncAttachment
    <3> QED
      BY <3>1, <3>2, <3>3, Zenon DEF DiskTypeOK
  <2>2. KnownIsWritten'
    BY <1>3, <2>c DEF SyncAttachment, Collected, DiskTypeOK, KnownIsWritten, Protected
  <2>3. ImportIsPrivate'
    BY <1>3 DEF SyncAttachment, Collected, NoLoc, DiskTypeOK, ImportIsPrivate
  <2>4. Protected'
    <3>1. CASE loc[p].fin
      BY <1>3, <2>c, <2>d, <3>1 DEF SyncAttachment, DiskTypeOK, Protected
    <3>2. CASE ~loc[p].fin
      <4>1. ~(claim[p] = "bound" /\ pv[p].policy = "Delete")
        BY <3>2, Zenon DEF Protected
      <4>2. claim[p] = "prime" => pv[p].img \notin written
        BY Zenon DEF ImportIsPrivate
      <4>3. \A q \in Cluster : q # p => loc'[q] = loc[q] /\ claim'[q] = claim[q] /\ dv'[q] = dv[q]
        BY <1>3, <2>c DEF SyncAttachment, DiskTypeOK
      <4>4. claim'[p] \in {claim[p], Collected(claim[p])} /\ (loc'[p].fin => loc'[p].here)
        BY <1>3, <2>c DEF SyncAttachment, DiskTypeOK
      <4> QED
        BY <1>3, <4>1, <4>2, <4>3, <4>4 DEF SyncAttachment, Collected, DiskTypeOK, Protected
    <3> QED
      BY <3>1, <3>2, Zenon
  <2>5. ImageSurvives' /\ ReclaimIsAsked'
    BY <1>3, Zenon DEF SyncAttachment, Collected, NoLoc, ImageSurvives, ReclaimIsAsked
  <2> QED
    BY <2>1, <2>2, <2>3, <2>4, <2>5, Zenon DEF DiskInv
<1>4. ASSUME NEW p \in Cluster, ReportDiskIdentity(p) PROVE DiskInv'
  <2>1. DiskTypeOK'
    <3>1. att[p] \in Attachment /\ loc[p].status \in Nat
      BY Zenon DEF DiskTypeOK, Copy
    <3>2. [att[p] EXCEPT !.status = loc[p].status] \in Attachment
      BY <3>1, AttachmentUpdate, Zenon
    <3> QED
      BY <1>4, <3>2 DEF ReportDiskIdentity, DiskTypeOK
  <2>2. KnownIsWritten'
    BY <1>4 DEF ReportDiskIdentity, KnownIsWritten
  <2>3. ImageSurvives' /\ ImportIsPrivate' /\ Protected' /\ ReclaimIsAsked'
    BY <1>4, Zenon DEF ReportDiskIdentity, ImageSurvives, ImportIsPrivate, Protected, ReclaimIsAsked
  <2> QED
    BY <2>1, <2>2, <2>3, Zenon DEF DiskInv
<1>5. ASSUME NEW p \in Cluster, MirrorDiskIdentity(p) PROVE DiskInv'
  <2>1. DiskTypeOK'
    BY <1>5, Zenon DEF MirrorDiskIdentity, DiskTypeOK, Attachment
  <2>2. ImageSurvives'
    BY <1>5 DEF MirrorDiskIdentity, ImageSurvives
  <2>3. KnownIsWritten'
    BY <1>5 DEF MirrorDiskIdentity, KnownIsWritten
  <2>4. ReclaimIsAsked'
    BY <1>5 DEF MirrorDiskIdentity, ReclaimIsAsked
  <2>5. ImportIsPrivate' /\ Protected'
    BY <1>5, Zenon DEF MirrorDiskIdentity, ImportIsPrivate, Protected
  <2> QED
    BY <2>1, <2>2, <2>3, <2>4, <2>5, Zenon DEF DiskInv
<1>6. ASSUME NEW p \in Cluster, Materialize(p) PROVE DiskInv'
  <2>a. loc[p].id \in Nat /\ loc[p].id \in written \cup {NoImage} /\ written \subseteq 1..made
    BY Zenon DEF DiskTypeOK, Copy, KnownIsWritten
  <2>b. \/ /\ claim[p] = "none" /\ dv' = dv /\ claim' = [claim EXCEPT ![p] = "pending"]
           /\ loc[p].id \in written /\ loc[p].id \in 0..made
           /\ pv' = [pv EXCEPT ![p] = [img |-> loc[p].id, policy |-> "Retain"]]
        \/ dv' = [dv EXCEPT ![p] = "new"] /\ UNCHANGED <<pv, claim>>
    BY <1>6, <2>a DEF Materialize, adoptDisk, shouldAdopt, DiskTypeOK
  <2>c. UNCHANGED <<cluster, vm, twins, att, loc, rel, vol, rpv, rpvc, recl, images, made, written,
                    kept, moves, faults>>
    BY <1>6, Zenon DEF Materialize, reclVars
  <2>1. DiskTypeOK'
    <3>1. [img |-> loc[p].id, policy |-> "Retain"] \in [img : Nat, policy : {"Delete", "Retain"}]
      BY <2>a, Zenon
    <3>2. pv' \in [Cluster -> [img : Nat, policy : {"Delete", "Retain"}]]
      BY <2>b, <3>1 DEF DiskTypeOK
    <3>3. dv' \in [Cluster -> {"none", "new", "provisioned"}]
      BY <2>b, Zenon DEF DiskTypeOK
    <3>4. claim' \in [Cluster -> {"none", "prime", "pending", "bound", "terminating"}]
      BY <2>b, Zenon DEF DiskTypeOK
    <3> QED
      BY <2>c, <3>2, <3>3, <3>4 DEF DiskTypeOK
  <2>2. KnownIsWritten'
    BY <2>b, <2>c DEF DiskTypeOK, KnownIsWritten
  <2>3. ImportIsPrivate'
    <3>1. CASE pv' = pv /\ claim' = claim
      BY <2>b, <2>c, <3>1, Zenon DEF DiskTypeOK, ImportIsPrivate
    <3>2. CASE /\ pv' = [pv EXCEPT ![p] = [img |-> loc[p].id, policy |-> "Retain"]] /\ dv' = dv
               /\ claim' = [claim EXCEPT ![p] = "pending"]
               /\ loc[p].id \in written /\ loc[p].id \in 0..made
      <4>1. \A q \in Cluster : pv'[q].img = IF q = p THEN loc[p].id ELSE pv[q].img
        BY <3>2, Zenon DEF DiskTypeOK
      <4> QED
        BY <2>c, <3>2, <4>1 DEF DiskTypeOK, ImportIsPrivate
    <3> QED
      BY <2>b, <3>1, <3>2, Zenon
  <2>4. Protected'
    BY <2>b, <2>c DEF DiskTypeOK, Protected
  <2>5. ImageSurvives' /\ ReclaimIsAsked'
    BY <2>c, Zenon DEF ImageSurvives, ReclaimIsAsked
  <2> QED
    BY <2>1, <2>2, <2>3, <2>4, <2>5, Zenon DEF DiskInv
<1>7. ASSUME NEW p \in Cluster, Provision(p) PROVE DiskInv'
  <2>1. DiskTypeOK'
    BY <1>7 DEF Provision, DiskTypeOK
  <2>2. ImageSurvives'
    BY <1>7, Zenon DEF Provision, ImageSurvives
  <2>3. KnownIsWritten'
    BY <1>7 DEF Provision, KnownIsWritten
  <2>4. ImportIsPrivate'
    BY <1>7 DEF Provision, DiskTypeOK, ImportIsPrivate
  <2>5. Protected'
    BY <1>7 DEF Provision, Protected
  <2>6. ReclaimIsAsked'
    BY <1>7, Zenon DEF Provision, ReclaimIsAsked
  <2> QED
    BY <2>1, <2>2, <2>3, <2>4, <2>5, <2>6, Zenon DEF DiskInv
<1>8. ASSUME NEW p \in Cluster, Imported(p) PROVE DiskInv'
  <2>0. pv[p].img \in images \ written /\ pv[p].img \in 1..made
    BY <1>8, Zenon DEF Imported, DiskTypeOK, ImportIsPrivate
  <2>1. DiskTypeOK'
    <3>1. claim' \in [Cluster -> {"none", "prime", "pending", "bound", "terminating"}]
      BY <1>8, Zenon DEF Imported, DiskTypeOK
    <3>2. written' \subseteq 1..made
      BY <1>8, <2>0, Zenon DEF Imported, DiskTypeOK
    <3>3. UNCHANGED <<cluster, vm, twins, att, loc, dv, pv, rel, vol, rpv, rpvc, recl, images, made,
                      kept, moves, faults>>
      BY <1>8, Zenon DEF Imported
    <3> QED
      BY <3>1, <3>2, <3>3 DEF DiskTypeOK
  <2>2. ImageSurvives'
    BY <1>8, <2>0, Zenon DEF Imported, ImageSurvives
  <2>3. KnownIsWritten'
    BY <1>8 DEF Imported, KnownIsWritten
  <2>4. ImportIsPrivate'
    BY <1>8 DEF Imported, DiskTypeOK, ImportIsPrivate
  <2>5. Protected'
    BY <1>8 DEF Imported, DiskTypeOK, Protected, ImportIsPrivate
  <2>6. ReclaimIsAsked'
    BY <1>8, Zenon DEF Imported, ReclaimIsAsked
  <2> QED
    BY <2>1, <2>2, <2>3, <2>4, <2>5, <2>6, Zenon DEF DiskInv
<1>9. ASSUME NEW p \in Cluster, Bind(p) PROVE DiskInv'
  <2>1. DiskTypeOK'
    BY <1>9, Zenon DEF Bind, DiskTypeOK
  <2>2. KnownIsWritten'
    BY <1>9 DEF Bind, KnownIsWritten
  <2>3. ImportIsPrivate'
    BY <1>9 DEF Bind, ImportIsPrivate
  <2>4. Protected'
    BY <1>9 DEF Bind, DiskTypeOK, Protected, KnownIsWritten
  <2>5. ImageSurvives' /\ ReclaimIsAsked'
    BY <1>9, Zenon DEF Bind, ImageSurvives, ReclaimIsAsked
  <2> QED
    BY <2>1, <2>2, <2>3, <2>4, <2>5, Zenon DEF DiskInv
<1>10. ASSUME NEW p \in Cluster, ClaimGone(p) PROVE DiskInv'
  <2>1. DiskTypeOK'
    BY <1>10 DEF ClaimGone, NoPV, DiskTypeOK
  <2>2. ImageSurvives'
    BY <1>10, Zenon DEF ClaimGone, NoPV, DiskTypeOK, ImageSurvives, Protected
  <2>3. KnownIsWritten'
    BY <1>10 DEF ClaimGone, NoPV, KnownIsWritten
  <2>4. ImportIsPrivate'
    BY <1>10 DEF ClaimGone, NoPV, DiskTypeOK, ImportIsPrivate
  <2>5. Protected'
    BY <1>10 DEF ClaimGone, NoPV, DiskTypeOK, Protected
  <2>6. ReclaimIsAsked'
    BY <1>10, Zenon DEF ClaimGone, NoPV, ReclaimIsAsked
  <2> QED
    BY <2>1, <2>2, <2>3, <2>4, <2>5, <2>6, Zenon DEF DiskInv
<1>11. ASSUME NEW p \in Cluster, EnsureFinalizer(p) PROVE DiskInv'
  <2>1. DiskTypeOK'
    <3>1. loc[p] \in Copy /\ TRUE \in BOOLEAN
      BY Zenon DEF DiskTypeOK
    <3>2. [loc[p] EXCEPT !.fin = TRUE] \in Copy
      BY <3>1, CopyUpdate, Zenon
    <3> QED
      BY <1>11, <3>2, Zenon DEF EnsureFinalizer, DiskTypeOK
  <2>2. KnownIsWritten'
    BY <1>11 DEF EnsureFinalizer, KnownIsWritten
  <2>3. Protected'
    BY <1>11 DEF EnsureFinalizer, Protected
  <2>4. ImageSurvives' /\ ImportIsPrivate' /\ ReclaimIsAsked'
    BY <1>11, Zenon DEF EnsureFinalizer, ImageSurvives, ImportIsPrivate, ReclaimIsAsked
  <2> QED
    BY <2>1, <2>2, <2>3, <2>4, Zenon DEF DiskInv
<1>12. ASSUME NEW p \in Cluster, EnsureRetain(p) PROVE DiskInv'
  <2>1. DiskTypeOK'
    BY <1>12 DEF EnsureRetain, DiskTypeOK
  <2>2. KnownIsWritten'
    BY <1>12 DEF EnsureRetain, KnownIsWritten
  <2>3. ImportIsPrivate'
    BY <1>12 DEF EnsureRetain, ImportIsPrivate
  <2>4. Protected'
    BY <1>12 DEF EnsureRetain, Protected
  <2>5. ImageSurvives' /\ ReclaimIsAsked'
    BY <1>12, Zenon DEF EnsureRetain, ImageSurvives, ReclaimIsAsked
  <2> QED
    BY <2>1, <2>2, <2>3, <2>4, <2>5, Zenon DEF DiskInv
<1>13. ASSUME NEW p \in Cluster, RecordIdentity(p) PROVE DiskInv'
  <2>1. DiskTypeOK'
    <3>1. loc[p] \in Copy /\ pv[p].img \in Nat
      BY Zenon DEF DiskTypeOK
    <3>2. [loc[p] EXCEPT !.status = pv[p].img] \in Copy
      BY <3>1, CopyUpdate, Zenon
    <3> QED
      BY <1>13, <3>2, Zenon DEF RecordIdentity, DiskTypeOK
  <2>2. KnownIsWritten'
    BY <1>13 DEF RecordIdentity, DiskTypeOK, KnownIsWritten, Protected
  <2>3. Protected'
    BY <1>13 DEF RecordIdentity, Protected
  <2>4. ImageSurvives' /\ ImportIsPrivate' /\ ReclaimIsAsked'
    BY <1>13, Zenon DEF RecordIdentity, ImageSurvives, ImportIsPrivate, ReclaimIsAsked
  <2> QED
    BY <2>1, <2>2, <2>3, <2>4, Zenon DEF DiskInv
<1>14. ASSUME NEW p \in Cluster, RetainAll(p) PROVE DiskInv'
  <2>1. DiskTypeOK'
    BY <1>14 DEF RetainAll, diskClaims, DiskTypeOK
  <2>2. KnownIsWritten'
    BY <1>14 DEF RetainAll, diskClaims, KnownIsWritten
  <2>3. ImportIsPrivate'
    BY <1>14 DEF RetainAll, diskClaims, ImportIsPrivate
  <2>4. Protected'
    BY <1>14 DEF RetainAll, diskClaims, DiskTypeOK, Protected
  <2>5. ImageSurvives' /\ ReclaimIsAsked'
    BY <1>14, Zenon DEF RetainAll, diskClaims, ImageSurvives, ReclaimIsAsked
  <2> QED
    BY <2>1, <2>2, <2>3, <2>4, <2>5, Zenon DEF DiskInv
<1>15. ASSUME NEW p \in Cluster, DropClaim(p) PROVE DiskInv'
  <2>1. DiskTypeOK'
    BY <1>15, Zenon DEF DropClaim, Collected, DiskTypeOK
  <2>2. KnownIsWritten'
    BY <1>15 DEF DropClaim, Collected, KnownIsWritten
  <2>3. ImportIsPrivate'
    BY <1>15 DEF DropClaim, Collected, ImportIsPrivate
  <2>4. Protected'
    BY <1>15 DEF DropClaim, Collected, DiskTypeOK, Protected, ImportIsPrivate
  <2>5. ImageSurvives' /\ ReclaimIsAsked'
    BY <1>15, Zenon DEF DropClaim, Collected, ImageSurvives, ReclaimIsAsked
  <2> QED
    BY <2>1, <2>2, <2>3, <2>4, <2>5, Zenon DEF DiskInv
<1>16. ASSUME NEW p \in Cluster, Released(p) PROVE DiskInv'
  <2>1. DiskTypeOK'
    BY <1>16, Zenon DEF Released, Collected, NoLoc, DiskTypeOK, Copy
  <2>2. KnownIsWritten'
    BY <1>16 DEF Released, Collected, NoLoc, KnownIsWritten
  <2>3. ImportIsPrivate'
    BY <1>16 DEF Released, Collected, NoLoc, DiskTypeOK, ImportIsPrivate
  <2>4. Protected'
    BY <1>16 DEF Released, Collected, NoLoc, DiskTypeOK, Protected, ImportIsPrivate
  <2>5. ImageSurvives' /\ ReclaimIsAsked'
    BY <1>16, Zenon DEF Released, Collected, NoLoc, ImageSurvives, ReclaimIsAsked
  <2> QED
    BY <2>1, <2>2, <2>3, <2>4, <2>5, Zenon DEF DiskInv
<1>17. ASSUME NEW p \in Cluster, ReleaseFails(p) PROVE DiskInv'
  <2>1. DiskTypeOK'
    BY <1>17 DEF ReleaseFails, DiskTypeOK
  <2>2. Protected'
    BY <1>17 DEF ReleaseFails, Protected
  <2>3. ImageSurvives' /\ KnownIsWritten' /\ ImportIsPrivate' /\ ReclaimIsAsked'
    BY <1>17, Zenon DEF ReleaseFails, ImageSurvives, KnownIsWritten, ImportIsPrivate, ReclaimIsAsked
  <2> QED
    BY <2>1, <2>2, <2>3, Zenon DEF DiskInv
<1>18. ASSUME DeleteVM PROVE DiskInv'
  BY <1>18 DEF DeleteVM, DiskInv, DiskTypeOK, ImageSurvives, KnownIsWritten, ImportIsPrivate,
     Protected, ReclaimIsAsked
<1>19. ASSUME DeleteVolume PROVE DiskInv'
  <2>1. DiskTypeOK'
    BY <1>19, Zenon DEF DeleteVolume, DiskTypeOK
  <2>2. ImageSurvives'
    BY <1>19, Zenon DEF DeleteVolume, ImageSurvives
  <2>3. KnownIsWritten'
    BY <1>19 DEF DeleteVolume, KnownIsWritten
  <2>4. ReclaimIsAsked'
    BY <1>19, Zenon DEF DeleteVolume, ReclaimIsAsked
  <2>5. ImportIsPrivate' /\ Protected'
    BY <1>19, Zenon DEF DeleteVolume, ImportIsPrivate, Protected
  <2> QED
    BY <2>1, <2>2, <2>3, <2>4, <2>5, Zenon DEF DiskInv
<1>20. ASSUME CompileVM PROVE DiskInv'
  BY <1>20 DEF CompileVM, DiskInv, DiskTypeOK, ImageSurvives, KnownIsWritten, ImportIsPrivate,
     Protected, ReclaimIsAsked
<1>21. ASSUME CompileAttachment PROVE DiskInv'
  <2>1. DiskTypeOK'
    BY <1>21 DEF CompileAttachment, diskIdentityForAttachment, NoAtt, DiskTypeOK, Attachment
  <2>2. KnownIsWritten'
    BY <1>21 DEF CompileAttachment, diskIdentityForAttachment, NoAtt, KnownIsWritten
  <2>3. ImageSurvives' /\ ImportIsPrivate' /\ Protected' /\ ReclaimIsAsked'
    BY <1>21, Zenon DEF CompileAttachment, diskIdentityForAttachment, NoAtt, ImageSurvives,
       ImportIsPrivate, Protected, ReclaimIsAsked
  <2> QED
    BY <2>1, <2>2, <2>3, Zenon DEF DiskInv
<1>22. ASSUME HoldVolume PROVE DiskInv'
  <2>1. DiskTypeOK'
    BY <1>22, Zenon DEF HoldVolume, DiskTypeOK
  <2>2. ImageSurvives'
    BY <1>22, Zenon DEF HoldVolume, ImageSurvives
  <2>3. KnownIsWritten'
    BY <1>22 DEF HoldVolume, KnownIsWritten
  <2>4. ReclaimIsAsked'
    BY <1>22, Zenon DEF HoldVolume, ReclaimIsAsked
  <2>5. ImportIsPrivate' /\ Protected'
    BY <1>22, Zenon DEF HoldVolume, ImportIsPrivate, Protected
  <2> QED
    BY <2>1, <2>2, <2>3, <2>4, <2>5, Zenon DEF DiskInv
<1>23. ASSUME ReleaseVolume PROVE DiskInv'
  <2>1. DiskTypeOK'
    BY <1>23, Zenon DEF ReleaseVolume, Reclaiming, DiskTypeOK
  <2>2. ImageSurvives'
    BY <1>23 DEF ReleaseVolume, Reclaiming, ImageSurvives
  <2>3. KnownIsWritten'
    BY <1>23 DEF ReleaseVolume, Reclaiming, KnownIsWritten
  <2>4. ReclaimIsAsked'
    BY <1>23 DEF ReleaseVolume, Reclaiming, ReclaimIsAsked
  <2>5. ImportIsPrivate' /\ Protected'
    BY <1>23, Zenon DEF ReleaseVolume, Reclaiming, ImportIsPrivate, Protected
  <2> QED
    BY <2>1, <2>2, <2>3, <2>4, <2>5, Zenon DEF DiskInv
<1>24. ASSUME CreateReclaimPV PROVE DiskInv'
  <2>1. DiskTypeOK'
    BY <1>24, Zenon DEF CreateReclaimPV, Reclaiming, DiskTypeOK
  <2>2. ReclaimIsAsked'
    BY <1>24, Zenon DEF CreateReclaimPV, Reclaiming, DiskTypeOK, ReclaimIsAsked, KnownIsWritten
  <2>3. ImageSurvives' /\ KnownIsWritten' /\ ImportIsPrivate' /\ Protected'
    BY <1>24, Zenon DEF CreateReclaimPV, Reclaiming, ImageSurvives, KnownIsWritten, ImportIsPrivate,
       Protected
  <2> QED
    BY <2>1, <2>2, <2>3, Zenon DEF DiskInv
<1>25. ASSUME CreateReclaimPVC PROVE DiskInv'
  <2>1. DiskTypeOK'
    BY <1>25, Zenon DEF CreateReclaimPVC, DiskTypeOK
  <2>2. ReclaimIsAsked'
    BY <1>25, Zenon DEF CreateReclaimPVC, ReclaimIsAsked
  <2>3. ImageSurvives' /\ KnownIsWritten' /\ ImportIsPrivate' /\ Protected'
    BY <1>25, Zenon DEF CreateReclaimPVC, ImageSurvives, KnownIsWritten, ImportIsPrivate, Protected
  <2> QED
    BY <2>1, <2>2, <2>3, Zenon DEF DiskInv
<1>26. ASSUME markReclaimStarted PROVE DiskInv'
  <2>1. DiskTypeOK'
    BY <1>26, Zenon DEF markReclaimStarted, DiskTypeOK
  <2>2. ImageSurvives'
    BY <1>26 DEF markReclaimStarted, ImageSurvives
  <2>3. KnownIsWritten'
    BY <1>26 DEF markReclaimStarted, KnownIsWritten
  <2>4. ReclaimIsAsked'
    BY <1>26 DEF markReclaimStarted, ReclaimIsAsked
  <2>5. ImportIsPrivate' /\ Protected'
    BY <1>26, Zenon DEF markReclaimStarted, ImportIsPrivate, Protected
  <2> QED
    BY <2>1, <2>2, <2>3, <2>4, <2>5, Zenon DEF DiskInv
<1>27. ASSUME ReleaseReclaimPVC PROVE DiskInv'
  <2>1. DiskTypeOK'
    BY <1>27, Zenon DEF ReleaseReclaimPVC, Reclaiming, DiskTypeOK
  <2>2. ReclaimIsAsked'
    BY <1>27 DEF ReleaseReclaimPVC, Reclaiming, ReclaimIsAsked
  <2>3. ImageSurvives' /\ KnownIsWritten' /\ ImportIsPrivate' /\ Protected'
    BY <1>27, Zenon DEF ReleaseReclaimPVC, Reclaiming, ImageSurvives, KnownIsWritten,
       ImportIsPrivate, Protected
  <2> QED
    BY <2>1, <2>2, <2>3, Zenon DEF DiskInv
<1>28. ASSUME BindReclaim PROVE DiskInv'
  <2>1. DiskTypeOK'
    BY <1>28, Zenon DEF BindReclaim, DiskTypeOK
  <2>2. ReclaimIsAsked'
    BY <1>28 DEF BindReclaim, ReclaimIsAsked
  <2>3. ImageSurvives' /\ KnownIsWritten' /\ ImportIsPrivate' /\ Protected'
    BY <1>28, Zenon DEF BindReclaim, ImageSurvives, KnownIsWritten, ImportIsPrivate, Protected
  <2> QED
    BY <2>1, <2>2, <2>3, Zenon DEF DiskInv
<1>29. ASSUME DeleteImage PROVE DiskInv'
  <2>1. DiskTypeOK'
    BY <1>29, Zenon DEF DeleteImage, NoReclaimPV, DiskTypeOK
  <2>2. ImageSurvives'
    BY <1>29, Zenon DEF DeleteImage, NoReclaimPV, DiskTypeOK, ImageSurvives, ReclaimIsAsked
  <2>3. ImportIsPrivate'
    BY <1>29, Zenon DEF DeleteImage, NoReclaimPV, DiskTypeOK, ImportIsPrivate, ReclaimIsAsked
  <2>4. ReclaimIsAsked'
    BY <1>29, Zenon DEF DeleteImage, NoReclaimPV, ReclaimIsAsked
  <2>5. KnownIsWritten' /\ Protected'
    BY <1>29, Zenon DEF DeleteImage, NoReclaimPV, KnownIsWritten, Protected
  <2> QED
    BY <2>1, <2>2, <2>3, <2>4, <2>5, Zenon DEF DiskInv
<1>30. ASSUME ReclaimFails PROVE DiskInv'
  <2>1. DiskTypeOK'
    BY <1>30 DEF ReclaimFails, DiskTypeOK
  <2>2. ReclaimIsAsked'
    BY <1>30, Zenon DEF ReclaimFails, ReclaimIsAsked
  <2>3. ImageSurvives' /\ KnownIsWritten' /\ ImportIsPrivate' /\ Protected'
    BY <1>30, Zenon DEF ReclaimFails, ImageSurvives, KnownIsWritten, ImportIsPrivate, Protected
  <2> QED
    BY <2>1, <2>2, <2>3, Zenon DEF DiskInv
<1>31. CASE UNCHANGED diskVars
  <2>1. DiskTypeOK'
    BY <1>31 DEF diskVars, DiskTypeOK
  <2>2. ImageSurvives' /\ KnownIsWritten' /\ ImportIsPrivate'
    BY <1>31, Zenon DEF diskVars, ImageSurvives, KnownIsWritten, ImportIsPrivate
  <2>3. Protected' /\ ReclaimIsAsked'
    BY <1>31, Zenon DEF diskVars, Protected, ReclaimIsAsked
  <2> QED
    BY <2>1, <2>2, <2>3, Zenon DEF DiskInv
<1> QED
  BY <1>1, <1>2, <1>3, <1>4, <1>5, <1>6, <1>7, <1>8, <1>9, <1>10, <1>11, <1>12, <1>13, <1>14,
     <1>15, <1>16, <1>17, <1>18, <1>19, <1>20, <1>21, <1>22, <1>23, <1>24, <1>25, <1>26, <1>27,
     <1>28, <1>29, <1>30, <1>31
     DEF DiskNext, User, PoolStep, Reclaim, Fail

\* No image a guest may have written to leaves Ceph while its Volume stays, for any number of
\* pools, images, moves and failures (releaseDisk, ensureRetain, reclaim).
THEOREM ImageSurvivesHolds == DiskSpec => []ImageSurvives
<1>1. DiskInv => ImageSurvives
  BY Zenon DEF DiskInv
<1> QED
  BY DiskInvInit, DiskInvStep, <1>1, PTL DEF DiskSpec

-----------------------------------------------------------------------------
(***************************************************************************)
(* MoveKeepsDisk and ReclaimedIsGone, for machines whose disk was on       *)
(* record at each move.  The argument is that such a machine only ever has *)
(* one image: before its first move it has one pool, whose DataVolume is   *)
(* provisioned once, and after it whatever makes an attachment stamps the  *)
(* recorded identity on it, so that no pool makes a DataVolume again.  The *)
(* delicate attachment is one compiled before the identity was known, that *)
(* a machine finds when it moves back: its DataVolume is still there,      *)
(* because its copy cannot have been told to go.                           *)
(***************************************************************************)
\* The machine's disk was on record at each of its moves.
Tracked == moves = 0 \/ kept # NoImage

\* Nothing compiles an attachment any more.
Ending == vm = "deleting" \/ vol.phase = "gone"

\* What was on record stays on record.
RecordKept ==
  /\ kept \in written \cup {NoImage}
  /\ kept # NoImage \/ vol.fin \/ vol.started \/ rpvc \/ recl # "idle" => vol.id # NoImage
  /\ \A p \in Cluster : dv[p] # "none" \/ loc[p].deleting => loc[p].here

\* Before the first move only the machine's pool knows of the disk, and gives it up at the end.
FirstPool ==
  moves = 0 =>
    /\ \A p \in Cluster :
         /\ att[p].here \/ loc[p].here => p = cluster
         /\ loc[p].here /\ (~att[p].here \/ loc[p].deleting) => Ending
    /\ made # 0 => Ending \/ dv[cluster] = "provisioned"

\* There is one image, and no attachment from which a pool would make another.
OneImage ==
  Tracked =>
    /\ made \in {0, 1}
    /\ \A p \in Cluster :
         /\ att[p].here /\ loc[p].deleting => att[p].id # NoImage
         /\ made = 1 => /\ dv[p] # "new"
                        /\ att[p].here /\ dv[p] = "none" => att[p].id # NoImage
                        /\ loc[p].here /\ dv[p] = "none" => loc[p].id # NoImage

\* Once the reclaiming pair was made, the image is gone when its volume is, and stays so.
HandedBack ==
  Tracked /\ \/ rpv.phase = "none" /\ (vol.started \/ rpvc \/ recl # "idle")
             \/ vol.phase = "gone" /\ vol.fin
    => 1 \notin images

Strong == RecordKept /\ FirstPool /\ OneImage /\ HandedBack

-----------------------------------------------------------------------------
\* What a machine with a tracked disk has on record, and holds, is image 1.
LEMMA TheImage ==
  ASSUME DiskInv, Strong, Tracked
  PROVE  /\ written \subseteq {1} /\ images \subseteq {1}
         /\ \A i \in written \cup {NoImage} : i # NoImage => i = 1 /\ made = 1
<1>1. made \in {0, 1} /\ images \subseteq 1..made /\ written \subseteq 1..made
  BY Zenon DEF DiskInv, DiskTypeOK, Strong, OneImage
<1>2. 1..made \subseteq {1}
  BY <1>1
<1>3. 1..0 = {}
  OBVIOUS
<1> QED
  BY <1>1, <1>2, <1>3, Zenon DEF NoImage

\* Steps that leave the DataVolumes and what the attachments say of the disk.
LEMMA Calm ==
  ASSUME RecordKept, FirstPool, OneImage,
         \A p \in Cluster : /\ att'[p].here = att[p].here /\ att'[p].id = att[p].id
                            /\ loc'[p].here = loc[p].here /\ loc'[p].id = loc[p].id
                            /\ loc'[p].deleting = loc[p].deleting,
         UNCHANGED <<cluster, moves, made, dv, kept>>, written \subseteq written',
         vol.id # NoImage => vol'.id # NoImage,
         vol'.fin \/ vol'.started \/ rpvc' \/ recl' # "idle" => vol'.id # NoImage,
         Ending => Ending'
  PROVE  RecordKept' /\ FirstPool' /\ OneImage'
<1>1. RecordKept'
  BY Zenon DEF RecordKept
<1>2. FirstPool'
  BY Zenon DEF FirstPool
<1>3. OneImage'
  BY Zenon DEF OneImage, Tracked
<1> QED
  BY <1>1, <1>2, <1>3, Zenon

\* Steps that hand nothing back and make no image.
LEMMA HandedKept ==
  ASSUME HandedBack, UNCHANGED <<moves, kept, rpv, rpvc, recl>>, images' \subseteq images,
         vol'.started = vol.started,
         vol'.phase = "gone" /\ vol'.fin => vol.phase = "gone" /\ vol.fin
  PROVE  HandedBack'
BY Zenon DEF HandedBack, Tracked

\* The attachments as users, compilers and brokers leave them alone.
LEMMA CalmRecords ==
  ASSUME UNCHANGED <<att, loc>>
  PROVE  \A p \in Cluster : /\ att'[p].here = att[p].here /\ att'[p].id = att[p].id
                            /\ loc'[p].here = loc[p].here /\ loc'[p].id = loc[p].id
                            /\ loc'[p].deleting = loc[p].deleting
OBVIOUS

\* There is no disk yet, and nothing to keep.
LEMMA InitStrong == DiskInit => Strong
<1> SUFFICES ASSUME DiskInit PROVE Strong
  OBVIOUS
<1>1. RecordKept /\ FirstPool
  BY Zenon DEF DiskInit, RecordKept, FirstPool, NoImage, NoAtt, NoLoc
<1>2. OneImage /\ HandedBack
  BY DEF DiskInit, OneImage, HandedBack, NoAtt
<1> QED
  BY <1>1, <1>2, Zenon DEF Strong

\* The steps of users, controllers, brokers, CDI and the driver, and the failures, keep it.
LEMMA StepStrong == DiskInv /\ Strong /\ [DiskNext]_diskVars => Strong'
<1> SUFFICES ASSUME DiskInv, Strong, [DiskNext]_diskVars PROVE Strong'
  OBVIOUS
<1>a. /\ DiskTypeOK /\ KnownIsWritten /\ ImportIsPrivate /\ ReclaimIsAsked
      /\ RecordKept /\ FirstPool /\ OneImage /\ HandedBack
  BY Zenon DEF DiskInv, Strong
<1>b. /\ \A p \in Cluster : att[p] \in Attachment /\ loc[p] \in Copy
      /\ vol \in [phase : {"live", "deleting", "gone"}, id : Nat, fin : BOOLEAN,
                  started : BOOLEAN]
  BY <1>a, Zenon DEF DiskTypeOK
<1> USE DEF poolVars, reclVars
<1>1. ASSUME NEW p \in Cluster, Move(p) PROVE Strong'
  <2>1. /\ moves' = moves + 1 /\ moves' # 0
        /\ kept' = IF moves > 0 /\ kept = NoImage THEN NoImage ELSE vol.id
        /\ UNCHANGED <<vm, att, loc, dv, vol, rpv, rpvc, recl, images, made, written>>
    BY <1>1, <1>a DEF Move, DiskTypeOK
  <2>2. Tracked' => Tracked
    BY <1>a, <2>1 DEF Tracked, DiskTypeOK
  <2>3. RecordKept'
    BY <1>a, <2>1, Zenon DEF RecordKept, KnownIsWritten
  <2>4. FirstPool'
    BY <2>1, Zenon DEF FirstPool
  <2>5. OneImage'
    BY <1>a, <2>1, <2>2, Zenon DEF OneImage
  <2>6. HandedBack'
    BY <1>a, <2>1, <2>2, Zenon DEF HandedBack
  <2> QED
    BY <2>3, <2>4, <2>5, <2>6, Zenon DEF Strong
<1>2. CASE DeleteVM \/ CompileVM \/ \E p \in Cluster : ReleaseVM(p)
  <2>1. /\ UNCHANGED <<cluster, moves, made, dv, kept, written, vol, att, loc, rpv, rpvc, recl,
                       images>>
        /\ vm' \in {vm, "deleting"}
    BY <1>2, Zenon DEF DeleteVM, CompileVM, ReleaseVM
  <2>2. Ending => Ending'
    BY <2>1, Zenon DEF Ending
  <2>3. HandedBack'
    BY <1>a, <2>1, HandedKept, Zenon
  <2> QED
    BY <1>a, <2>1, <2>2, <2>3, Calm, CalmRecords, Zenon DEF Strong, RecordKept
<1>3. CASE DeleteVolume \/ HoldVolume
  <2>1. /\ UNCHANGED <<cluster, moves, made, dv, kept, written, att, loc, rpv, rpvc, recl,
                       images, vm>>
        /\ vol.phase = "live" /\ vol'.id = vol.id /\ vol'.started = vol.started
        /\ vol'.fin => vol.fin \/ vol.id # NoImage
        /\ vol'.phase = "gone" => ~vol'.fin
    BY <1>3, <1>b, Zenon DEF DeleteVolume, HoldVolume
  <2>2. Ending => Ending'
    BY <2>1, Zenon DEF Ending
  <2>3. HandedBack'
    BY <1>a, <2>1, HandedKept, Zenon
  <2> QED
    BY <1>a, <2>1, <2>2, <2>3, Calm, CalmRecords, Zenon DEF Strong, RecordKept
<1>4. CASE CompileAttachment
  <2>1. /\ UNCHANGED <<cluster, moves, made, dv, kept, written, loc, rpv, rpvc, recl, images,
                       vm, vol>>
        /\ att' = [p \in Cluster |->
             IF vm = "deleting" \/ vol.phase = "gone" \/ p # cluster THEN NoAtt
             ELSE IF gateOpen THEN [here |-> TRUE, id |-> vol.id, status |-> att[p].status]
             ELSE att[p]]
    BY <1>4, Zenon DEF CompileAttachment, diskIdentityForAttachment
  <2>2. ASSUME NEW p \in Cluster
        PROVE  \/ ~att'[p].here /\ (Ending \/ p # cluster)
               \/ /\ p = cluster /\ ~Ending
                  /\ att'[p].here /\ att'[p].id = vol.id
               \/ p = cluster /\ ~Ending /\ att'[p] = att[p]
    BY <2>1, Zenon DEF NoAtt, Ending
  <2>3. RecordKept' /\ HandedBack'
    BY <1>a, <2>1, Zenon DEF RecordKept, HandedBack, Tracked
  <2>4. FirstPool'
    <3> SUFFICES ASSUME moves = 0
                 PROVE  FirstPool'
      BY <2>1, Zenon DEF FirstPool
    <3>1. ASSUME NEW p \in Cluster
          PROVE  /\ att'[p].here \/ loc'[p].here => p = cluster
                 /\ loc'[p].here /\ (~att'[p].here \/ loc'[p].deleting) => Ending
      BY <1>a, <2>1, <2>2, Zenon DEF FirstPool
    <3>2. Ending' <=> Ending
      BY <2>1, Zenon DEF Ending
    <3> QED
      BY <1>a, <2>1, <3>1, <3>2, Zenon DEF FirstPool
  <2>5. OneImage'
    <3> SUFFICES ASSUME Tracked PROVE OneImage'
      BY <2>1, Zenon DEF OneImage, Tracked
    <3>1. ASSUME NEW p \in Cluster, att'[p].here, att'[p].id = NoImage, att'[p] # att[p]
          PROVE  ~loc[p].deleting /\ (made = 1 => dv[p] # "none")
      <4>1. p = cluster /\ ~Ending /\ vol.id = NoImage
        BY <2>2, <3>1, Zenon
      <4>2. kept = NoImage /\ moves = 0
        BY <1>a, <4>1, Zenon DEF RecordKept, Tracked
      <4>3. ~loc[p].deleting
        BY <1>a, <4>1, <4>2, Zenon DEF FirstPool, RecordKept
      <4> QED
        BY <1>a, <4>1, <4>2, <4>3 DEF FirstPool
    <3> QED
      BY <1>a, <2>1, <3>1, Zenon DEF OneImage
  <2> QED
    BY <2>3, <2>4, <2>5, Zenon DEF Strong
<1>5. ASSUME NEW q \in Cluster, SyncAttachment(q) PROVE Strong'
  <2>1. UNCHANGED <<cluster, moves, made, kept, written, att, rpv, rpvc, recl, images, vm, vol>>
    BY <1>5, Zenon DEF SyncAttachment
  <2>2. \/ /\ att[q].here /\ dv' = dv
           /\ \E x : /\ loc' = [loc EXCEPT ![q] = x] /\ x.here /\ x.id = att[q].id
                     /\ x.deleting <=> loc[q].here /\ loc[q].deleting
        \/ /\ ~att[q].here /\ loc[q].here /\ dv' = dv
           /\ loc' = [loc EXCEPT ![q].deleting = TRUE]
        \/ /\ ~att[q].here /\ loc[q].here /\ dv' = [dv EXCEPT ![q] = "none"]
           /\ loc' = [loc EXCEPT ![q] = NoLoc]
    <3>1. CASE att[q].here /\ loc[q].here
      <4>1. dv' = dv /\ loc' = [loc EXCEPT ![q] = [@ EXCEPT !.id = att[q].id]]
        BY <1>5, <3>1, Zenon DEF SyncAttachment
      <4>2. LET x == [loc[q] EXCEPT !.id = att[q].id] IN
              x.here /\ x.id = att[q].id /\ x.deleting = loc[q].deleting
        BY <1>b, <3>1, Zenon DEF Copy
      <4> QED
        BY <3>1, <4>1, <4>2, Zenon
    <3>2. CASE att[q].here /\ ~loc[q].here
      <4>1. dv' = dv /\ loc' = [loc EXCEPT ![q] = [NoLoc EXCEPT !.here = TRUE, !.id = att[q].id]]
        BY <1>5, <3>2, Zenon DEF SyncAttachment
      <4>2. LET x == [NoLoc EXCEPT !.here = TRUE, !.id = att[q].id] IN
              x.here /\ x.id = att[q].id /\ ~x.deleting
        BY Zenon DEF NoLoc
      <4> QED
        BY <3>2, <4>1, <4>2, Zenon
    <3>3. CASE ~att[q].here
      BY <1>5, <3>3, Zenon DEF SyncAttachment
    <3> QED
      BY <3>1, <3>2, <3>3, Zenon
  <2>3. /\ \A p \in Cluster \ {q} : loc'[p] = loc[p] /\ dv'[p] = dv[p]
        /\ \/ /\ att[q].here /\ dv'[q] = dv[q] /\ loc'[q].here /\ loc'[q].id = att[q].id
              /\ loc'[q].deleting <=> loc[q].here /\ loc[q].deleting
           \/ /\ ~att[q].here /\ loc[q].here /\ dv'[q] = dv[q]
              /\ loc'[q].here /\ loc'[q].id = loc[q].id
           \/ /\ ~att[q].here /\ loc[q].here /\ dv'[q] = "none"
              /\ ~loc'[q].here /\ ~loc'[q].deleting
    <3>1. loc \in [Cluster -> Copy] /\ dv \in [Cluster -> {"none", "new", "provisioned"}]
      BY <1>a, Zenon DEF DiskTypeOK
    <3>2. ASSUME loc' = [loc EXCEPT ![q].deleting = TRUE]
          PROVE  loc'[q].here = loc[q].here /\ loc'[q].id = loc[q].id
      BY <1>b, <3>1, <3>2, Zenon DEF Copy
    <3> QED
      BY <2>2, <3>1, <3>2 DEF NoLoc
  <2>4. RecordKept'
    BY <1>a, <2>1, <2>3, Zenon DEF RecordKept
  <2>5. FirstPool'
    <3> SUFFICES ASSUME moves = 0 PROVE FirstPool'
      BY <2>1, Zenon DEF FirstPool
    <3>1. Ending' <=> Ending
      BY <2>1, Zenon DEF Ending
    <3>2. ASSUME NEW p \in Cluster
          PROVE  /\ att[p].here \/ loc'[p].here => p = cluster
                 /\ loc'[p].here /\ (~att[p].here \/ loc'[p].deleting) => Ending
      <4>1. CASE p = q
        BY <1>a, <2>3, <4>1, Zenon DEF FirstPool
      <4>2. CASE p # q
        BY <1>a, <2>3, <4>2, Zenon DEF FirstPool
      <4> QED
        BY <4>1, <4>2, Zenon
    <3>3. cluster \in Cluster
      BY <1>a, Zenon DEF DiskTypeOK
    <3>4. made # 0 => Ending \/ dv'[cluster] = "provisioned"
      BY <1>a, <2>3, <3>3, Zenon DEF FirstPool
    <3> QED
      BY <2>1, <3>1, <3>2, <3>4, Zenon DEF FirstPool
  <2>6. OneImage'
    <3> SUFFICES ASSUME Tracked PROVE OneImage'
      BY <2>1, Zenon DEF OneImage, Tracked
    <3>1. ASSUME NEW p \in Cluster
          PROVE  /\ att[p].here /\ loc'[p].deleting => att[p].id # NoImage
                 /\ made = 1 => /\ dv'[p] # "new"
                                /\ att[p].here /\ dv'[p] = "none" => att[p].id # NoImage
                                /\ loc'[p].here /\ dv'[p] = "none" => loc'[p].id # NoImage
      <4>1. CASE p = q
        BY <1>a, <2>3, <4>1, Zenon DEF OneImage, RecordKept
      <4>2. CASE p # q
        BY <1>a, <2>3, <4>2, Zenon DEF OneImage
      <4> QED
        BY <4>1, <4>2, Zenon
    <3> QED
      BY <1>a, <2>1, <3>1, Zenon DEF OneImage
  <2>7. HandedBack'
    BY <1>a, <2>1, HandedKept, Zenon
  <2> QED
    BY <2>4, <2>5, <2>6, <2>7, Zenon DEF Strong
<1>6. ASSUME NEW q \in Cluster, ReportDiskIdentity(q) PROVE Strong'
  <2>1. /\ UNCHANGED <<cluster, moves, made, kept, dv, written, loc, rpv, rpvc, recl, images, vm,
                       vol>>
        /\ att' = [att EXCEPT ![q].status = loc[q].status]
    BY <1>6, Zenon DEF ReportDiskIdentity
  <2>2. \A p \in Cluster : att'[p].here = att[p].here /\ att'[p].id = att[p].id
    BY <1>a, <1>b, <2>1 DEF DiskTypeOK, Attachment
  <2>3. Ending => Ending'
    BY <2>1, Zenon DEF Ending
  <2>4. HandedBack'
    BY <1>a, <2>1, HandedKept, Zenon
  <2> QED
    BY <1>a, <2>1, <2>2, <2>3, <2>4, Calm, Zenon DEF Strong, RecordKept
<1>7. ASSUME NEW q \in Cluster, MirrorDiskIdentity(q) PROVE Strong'
  <2>1. /\ UNCHANGED <<cluster, moves, made, kept, dv, written, att, loc, rpv, rpvc, recl,
                       images, vm>>
        /\ vol'.id # NoImage /\ vol'.phase = vol.phase /\ vol'.fin = vol.fin
        /\ vol'.started = vol.started
    BY <1>7, <1>b, Zenon DEF MirrorDiskIdentity
  <2>2. Ending => Ending'
    BY <2>1, Zenon DEF Ending
  <2>3. HandedBack'
    BY <1>a, <2>1, HandedKept, Zenon
  <2> QED
    BY <1>a, <2>1, <2>2, <2>3, Calm, CalmRecords, Zenon DEF Strong
<1>8. ASSUME NEW q \in Cluster, Materialize(q) PROVE Strong'
  <2>1. /\ UNCHANGED <<cluster, moves, made, kept, written, att, loc, rpv, rpvc, recl, images, vm,
                       vol>>
        /\ loc[q].here
        /\ \/ dv' = dv
           \/ dv[q] = "none" /\ loc[q].id = NoImage /\ dv' = [dv EXCEPT ![q] = "new"]
    BY <1>8, Zenon DEF Materialize, shouldAdopt, adoptDisk
  <2>2. HandedBack'
    BY <1>a, <2>1, HandedKept, Zenon
  <2>3. Ending' <=> Ending
    BY <2>1, Zenon DEF Ending
  <2>4. CASE dv' = dv
    BY <1>a, <2>1, <2>2, <2>3, <2>4, Calm, CalmRecords, Zenon DEF Strong, RecordKept
  <2>5. CASE dv[q] = "none" /\ loc[q].id = NoImage /\ dv' = [dv EXCEPT ![q] = "new"]
    <3>1. \A p \in Cluster : dv'[p] = IF p = q THEN "new" ELSE dv[p]
      BY <1>a, <2>5, Zenon DEF DiskTypeOK
    <3>2. cluster \in Cluster
      BY <1>a, Zenon DEF DiskTypeOK
    <3>3. RecordKept'
      BY <1>a, <2>1, <3>1, Zenon DEF RecordKept
    <3>4. FirstPool'
      BY <1>a, <2>1, <2>3, <2>5, <3>1, <3>2, Zenon DEF FirstPool
    <3>5. OneImage'
      BY <1>a, <2>1, <2>5, <3>1, Zenon DEF OneImage, Tracked
    <3> QED
      BY <2>2, <3>3, <3>4, <3>5, Zenon DEF Strong
  <2> QED
    BY <2>1, <2>4, <2>5, Zenon
<1>9. ASSUME NEW q \in Cluster, Provision(q) PROVE Strong'
  <2>1. /\ UNCHANGED <<cluster, moves, kept, written, att, loc, rpv, rpvc, recl, vm, vol>>
        /\ dv[q] = "new" /\ dv' = [dv EXCEPT ![q] = "provisioned"]
        /\ made' = made + 1 /\ images' = images \cup {made + 1}
    BY <1>9, Zenon DEF Provision
  <2>2. /\ \A p \in Cluster : dv'[p] = IF p = q THEN "provisioned" ELSE dv[p]
        /\ made \in Nat
    BY <1>a, <2>1, Zenon DEF DiskTypeOK
  <2>3. Ending' <=> Ending
    BY <2>1, Zenon DEF Ending
  <2>4. loc[q].here
    BY <1>a, <2>1, Zenon DEF RecordKept
  <2>5. RecordKept'
    BY <1>a, <2>1, <2>2, <2>4, Zenon DEF RecordKept
  <2>6. FirstPool'
    BY <1>a, <2>1, <2>2, <2>3, <2>4, Zenon DEF FirstPool
  <2>7. ASSUME Tracked
        PROVE  /\ made = 0 /\ vol.id = NoImage /\ kept = NoImage /\ moves = 0
               /\ ~vol.fin
    <3>1. made = 0
      BY <1>a, <2>1, <2>7, Zenon DEF OneImage
    <3>2. vol.id = NoImage /\ kept = NoImage
      BY <1>a, <2>7, <3>1, TheImage DEF KnownIsWritten, RecordKept
    <3> QED
      BY <1>a, <2>7, <3>1, <3>2, Zenon DEF Tracked, RecordKept
  <2>8. OneImage'
    <3> SUFFICES ASSUME Tracked PROVE OneImage'
      BY <2>1, Zenon DEF OneImage, Tracked
    <3>1. \A p \in Cluster \ {q} : ~att[p].here /\ ~loc[p].here /\ dv[p] = "none"
      BY <1>a, <2>4, <2>7, Zenon DEF FirstPool, RecordKept
    <3>2. made' = 1
      BY <2>1, <2>7
    <3>3. \A p \in Cluster :
            /\ att[p].here /\ loc[p].deleting => att[p].id # NoImage
            /\ dv'[p] # "new"
            /\ (att[p].here \/ loc[p].here) => dv'[p] # "none"
      BY <1>a, <2>2, <3>1, Zenon DEF OneImage
    <3> QED
      BY <2>1, <3>2, <3>3, Zenon DEF OneImage
  <2>9. HandedBack'
    <3> SUFFICES ASSUME Tracked,
                        \/ rpv.phase = "none" /\ (vol.started \/ rpvc \/ recl # "idle")
                        \/ vol.phase = "gone" /\ vol.fin
                 PROVE  FALSE
      BY <2>1, Zenon DEF HandedBack, Tracked
    <3> QED
      BY <1>a, <2>7, Zenon DEF RecordKept
  <2> QED
    BY <2>5, <2>6, <2>8, <2>9, Zenon DEF Strong
<1>10. ASSUME NEW q \in Cluster,
              \/ Imported(q) \/ Bind(q) \/ ClaimGone(q) \/ EnsureRetain(q) \/ RetainAll(q)
              \/ DropClaim(q) \/ ReleaseFails(q)
       PROVE  Strong'
  <2>1. /\ UNCHANGED <<cluster, moves, made, kept, dv, att, loc, rpv, rpvc, recl, vm, vol>>
        /\ written \subseteq written' /\ images' \subseteq images
    BY <1>10, Zenon DEF Imported, Bind, ClaimGone, EnsureRetain, RetainAll, DropClaim, ReleaseFails
  <2>2. Ending => Ending'
    BY <2>1, Zenon DEF Ending
  <2>3. HandedBack'
    BY <1>a, <2>1, HandedKept, Zenon
  <2> QED
    BY <1>a, <2>1, <2>2, <2>3, Calm, CalmRecords, Zenon DEF Strong, RecordKept
<1>11. ASSUME NEW q \in Cluster, EnsureFinalizer(q) \/ RecordIdentity(q) PROVE Strong'
  <2>1. /\ UNCHANGED <<cluster, moves, made, kept, dv, written, att, rpv, rpvc, recl, images, vm,
                       vol>>
        /\ \/ loc' = [loc EXCEPT ![q].fin = TRUE]
           \/ loc' = [loc EXCEPT ![q].status = pv[q].img]
    BY <1>11, Zenon DEF EnsureFinalizer, RecordIdentity
  <2>2. \A p \in Cluster : /\ loc'[p].here = loc[p].here /\ loc'[p].id = loc[p].id
                           /\ loc'[p].deleting = loc[p].deleting
    <3>1. CASE loc' = [loc EXCEPT ![q].fin = TRUE]
      BY <1>a, <1>b, <3>1 DEF DiskTypeOK, Copy
    <3>2. CASE loc' = [loc EXCEPT ![q].status = pv[q].img]
      BY <1>a, <1>b, <3>2 DEF DiskTypeOK, Copy
    <3> QED
      BY <2>1, <3>1, <3>2, Zenon
  <2>3. Ending => Ending'
    BY <2>1, Zenon DEF Ending
  <2>4. HandedBack'
    BY <1>a, <2>1, HandedKept, Zenon
  <2> QED
    BY <1>a, <2>1, <2>2, <2>3, <2>4, Calm, Zenon DEF Strong, RecordKept
<1>12. ASSUME NEW q \in Cluster, Released(q) PROVE Strong'
  <2>1. /\ UNCHANGED <<cluster, moves, made, kept, written, att, rpv, rpvc, recl, images, vm, vol>>
        /\ loc[q].here /\ loc[q].deleting
        /\ loc' = [loc EXCEPT ![q] = NoLoc] /\ dv' = [dv EXCEPT ![q] = "none"]
    BY <1>12, Zenon DEF Released, Releasing
  <2>2. /\ \A p \in Cluster \ {q} : loc'[p] = loc[p] /\ dv'[p] = dv[p]
        /\ ~loc'[q].here /\ ~loc'[q].deleting /\ dv'[q] = "none"
    BY <1>a, <2>1 DEF DiskTypeOK, NoLoc
  <2>3. Ending' <=> Ending
    BY <2>1, Zenon DEF Ending
  <2>4. RecordKept'
    BY <1>a, <2>1, <2>2, Zenon DEF RecordKept
  <2>5. FirstPool'
    <3> SUFFICES ASSUME moves = 0 PROVE FirstPool'
      BY <2>1, Zenon DEF FirstPool
    <3>1. Ending /\ cluster \in Cluster
      BY <1>a, <2>1, Zenon DEF FirstPool, DiskTypeOK
    <3> QED
      BY <1>a, <2>1, <2>2, <2>3, <3>1, Zenon DEF FirstPool
  <2>6. OneImage'
    <3> SUFFICES ASSUME Tracked PROVE OneImage'
      BY <2>1, Zenon DEF OneImage, Tracked
    <3>1. att[q].here => att[q].id # NoImage
      BY <1>a, <2>1, Zenon DEF OneImage
    <3>2. ASSUME NEW p \in Cluster
          PROVE  /\ att[p].here /\ loc'[p].deleting => att[p].id # NoImage
                 /\ made = 1 => /\ dv'[p] # "new"
                                /\ att[p].here /\ dv'[p] = "none" => att[p].id # NoImage
                                /\ loc'[p].here /\ dv'[p] = "none" => loc'[p].id # NoImage
      <4>1. CASE p = q
        BY <2>2, <3>1, <4>1, Zenon
      <4>2. CASE p # q
        BY <1>a, <2>2, <4>2, Zenon DEF OneImage
      <4> QED
        BY <4>1, <4>2, Zenon
    <3> QED
      BY <1>a, <2>1, <3>2, Zenon DEF OneImage
  <2>7. HandedBack'
    BY <1>a, <2>1, HandedKept, Zenon
  <2> QED
    BY <2>4, <2>5, <2>6, <2>7, Zenon DEF Strong
<1>13. CASE \/ ReleaseVolume \/ CreateReclaimPV \/ CreateReclaimPVC \/ markReclaimStarted
            \/ ReclaimFails \/ ReleaseReclaimPVC \/ BindReclaim \/ DeleteImage
  <2>1. /\ UNCHANGED <<cluster, moves, made, kept, dv, written, att, loc, vm>>
        /\ vol'.id = vol.id /\ vol'.fin = vol.fin /\ images' \subseteq images
    <3>1. CASE ReleaseVolume \/ markReclaimStarted
      BY <1>b, <3>1, Zenon DEF ReleaseVolume, markReclaimStarted
    <3>2. CASE \/ CreateReclaimPV \/ CreateReclaimPVC \/ ReclaimFails \/ ReleaseReclaimPVC
               \/ BindReclaim \/ DeleteImage
      BY <3>2, Zenon DEF CreateReclaimPV, CreateReclaimPVC, ReclaimFails, ReleaseReclaimPVC,
         BindReclaim, DeleteImage
    <3> QED
      BY <1>13, <3>1, <3>2, Zenon
  <2>2. /\ Ending => Ending'
        /\ vol'.started \/ rpvc' \/ recl' # "idle" => vol.id # NoImage
    <3>1. CASE ReleaseVolume
      BY <1>a, <1>b, <3>1, Zenon DEF ReleaseVolume, Ending, RecordKept
    <3>2. CASE CreateReclaimPV \/ ReleaseReclaimPVC
      BY <1>a, <3>2, Zenon DEF CreateReclaimPV, ReleaseReclaimPVC, Reclaiming, Ending, RecordKept
    <3>3. CASE CreateReclaimPVC \/ ReclaimFails \/ BindReclaim \/ DeleteImage
      BY <1>a, <3>3 DEF CreateReclaimPVC, ReclaimFails, BindReclaim, DeleteImage, Ending,
         RecordKept
    <3>4. CASE markReclaimStarted
      BY <1>a, <1>b, <3>4, Zenon DEF markReclaimStarted, Ending, RecordKept
    <3> QED
      BY <1>13, <3>1, <3>2, <3>3, <3>4, Zenon
  <2>3. HandedBack'
    <3> SUFFICES ASSUME Tracked, 1 \in images',
                        \/ rpv'.phase = "none" /\ (vol'.started \/ rpvc' \/ recl' # "idle")
                        \/ vol'.phase = "gone" /\ vol'.fin
                 PROVE  FALSE
      BY <2>1, Zenon DEF HandedBack, Tracked
    <3>1. 1 \in images
      BY <2>1, Zenon
    <3>2. ~(rpv.phase = "none" /\ (vol.started \/ rpvc \/ recl # "idle"))
      BY <1>a, <3>1, Zenon DEF HandedBack
    <3>3. ~(vol.phase = "gone" /\ vol.fin)
      BY <1>a, <3>1, Zenon DEF HandedBack
    <3>4. CASE ReleaseVolume
      BY <3>2, <3>4, Zenon DEF ReleaseVolume, Handed
    <3>5. CASE CreateReclaimPV
      BY <3>3, <3>5, Zenon DEF CreateReclaimPV
    <3>6. CASE CreateReclaimPVC
      BY <3>2, <3>3, <3>6, Zenon DEF CreateReclaimPVC
    <3>7. CASE markReclaimStarted
      BY <1>b, <3>2, <3>3, <3>7, Zenon DEF markReclaimStarted
    <3>8. CASE ReclaimFails
      BY <3>2, <3>3, <3>8, Zenon DEF ReclaimFails
    <3>9. CASE ReleaseReclaimPVC \/ BindReclaim
      <4>1. rpv'.phase # "none" /\ vol' = vol
        BY <1>a, <3>9, Zenon DEF ReleaseReclaimPVC, BindReclaim, DiskTypeOK
      <4> QED
        BY <3>3, <4>1, Zenon
    <3>10. CASE DeleteImage
      <4>1. rpv.img = 1
        BY <1>a, <3>10, TheImage, Zenon DEF DeleteImage, ReclaimIsAsked
      <4> QED
        BY <3>10, <4>1, Zenon DEF DeleteImage
    <3> QED
      BY <1>13, <3>4, <3>5, <3>6, <3>7, <3>8, <3>9, <3>10, Zenon
  <2> QED
    BY <1>a, <2>1, <2>2, <2>3, Calm, CalmRecords, Zenon DEF Strong, RecordKept
<1>14. CASE UNCHANGED diskVars
  <2>1. UNCHANGED <<cluster, moves, made, kept, dv, written, att, loc, rpv, rpvc, recl, images, vm,
                    vol>>
    BY <1>14, Zenon DEF diskVars
  <2>2. Ending => Ending'
    BY <2>1, Zenon DEF Ending
  <2>3. HandedBack'
    BY <1>a, <2>1, HandedKept, Zenon
  <2> QED
    BY <1>a, <2>1, <2>2, <2>3, Calm, CalmRecords, Zenon DEF Strong, RecordKept
<1> QED
  BY <1>1, <1>2, <1>3, <1>4, <1>5, <1>6, <1>7, <1>8, <1>9, <1>10, <1>11, <1>12, <1>13, <1>14, Zenon
     DEF DiskNext, User, PoolStep, Reclaim, Fail

\* Both invariants hold in every state.
LEMMA StrongHolds == DiskSpec => [](DiskInv /\ Strong)
BY DiskInvInit, DiskInvStep, InitStrong, StepStrong, PTL DEF DiskSpec

\* A machine whose disk was on record at each move has that disk in its pool, for any number of
\* pools, moves and failures, and however often it moves back to a pool that has not yet let go
\* (diskIdentityForAttachment, shouldAdopt, DiskIdentityMirrorReconciler).
THEOREM MoveKeepsDiskHolds == DiskSpec => []MoveKeepsDisk
<1>1. DiskInv /\ Strong => MoveKeepsDisk
  <2> SUFFICES ASSUME DiskInv, Strong, kept # NoImage,
                      claim[cluster] \in {"prime", "pending", "bound"}
               PROVE  pv[cluster].img = kept
    BY Zenon DEF MoveKeepsDisk
  <2>1. Tracked /\ kept = 1 /\ cluster \in Cluster
    BY TheImage, Zenon DEF Tracked, Strong, RecordKept, DiskInv, DiskTypeOK
  <2>2. pv[cluster].img \in written \cup images
    BY <2>1, Zenon DEF DiskInv, KnownIsWritten, ImportIsPrivate, Protected
  <2> QED
    BY <2>1, <2>2, TheImage, Zenon
<1> QED
  BY <1>1, StrongHolds, PTL

\* A Volume that was held until its disk is reclaimed leaves no image behind, if its disk was on
\* record at each move (VolumeReclaimReconciler, whose mark tells a finished pair from one that
\* was never made).
THEOREM ReclaimedIsGoneHolds == DiskSpec => []ReclaimedIsGone
<1>1. DiskInv /\ Strong => ReclaimedIsGone
  <2> SUFFICES ASSUME DiskInv, Strong, vol.phase = "gone", vol.fin, Tracked
               PROVE  written \cap images = {}
    BY Zenon DEF ReclaimedIsGone, Tracked
  <2>1. 1 \notin images
    BY Zenon DEF Strong, HandedBack
  <2> QED
    BY <2>1, TheImage, Zenon
<1> QED
  BY <1>1, StrongHolds, PTL
=============================================================================
