------------------------------ MODULE DiskMove ------------------------------
(***************************************************************************)
(* The disk of a virtual machine that changes pools, and its end: the      *)
(* controllers of mesh/controllers (compiledvolumeattachment.go,           *)
(* volumematerializer.go, volumeadopt.go, diskidentity.go,                 *)
(* diskidentitymirror.go, volumereclaim.go) and the broker's sync and      *)
(* report of attachments (dispatch/pkg/broker).                            *)
(*                                                                         *)
(* One machine with one Volume.  On the dispatch: the Volume, and per pool *)
(* the attachment compiled for it.  In a pool: the attachment's copy, its  *)
(* DataVolume, the claim and the PersistentVolume it holds.  In Ceph: the  *)
(* images.  CDI, the PersistentVolume controller, the garbage collector    *)
(* and the CSI driver are external.                                        *)
(***************************************************************************)
EXTENDS Naturals

CONSTANTS Cluster,     \* the pools
          MaxImages,   \* bound on the images Ceph makes
          MaxMoves,    \* bound on the changes of spec.clusterName
          MaxFaults    \* bound on passes that end in the middle

VARIABLES cluster,   \* the machine's spec.clusterName
          vm,        \* "live", or "deleting"
          twins,     \* pools with a CompiledVM of the machine
          att,       \* pool -> the attachment compiled for it, on the dispatch
          loc,       \* pool -> the attachment's copy in the pool
          dv,        \* pool -> the DataVolume: not there, to be provisioned, provisioned
          claim,     \* pool -> the attachment's claim; "prime": CDI's own holds the disk
          pv,        \* pool -> the PersistentVolume
          rel,       \* pool -> where a pass of releaseDisk is
          vol,       \* the Volume
          rpv, rpvc, \* the pair that hands an image back to the driver
          recl,      \* where a pass of reclaim is
          images,    \* the images in Ceph
          made,      \* how many it ever made
          written,   \* images a guest may have written to
          kept,      \* the identity on record at the last move, if at every move there was one
          moves, faults
poolVars == <<loc, dv, claim, pv, rel>>
reclVars == <<vol, rpv, rpvc, recl>>
diskVars == <<cluster, vm, twins, att, poolVars, reclVars, images, made, written, kept, moves, faults>>

NoImage == 0
NoAtt == [here |-> FALSE, id |-> NoImage, status |-> NoImage]
NoLoc == [here |-> FALSE, id |-> NoImage, status |-> NoImage, fin |-> FALSE, deleting |-> FALSE]
NoPV == [img |-> NoImage, policy |-> "Delete"]
NoReclaimPV == [img |-> NoImage, phase |-> "none"]

Attachment == [here : BOOLEAN, id : Nat, status : Nat]
Copy == [here : BOOLEAN, id : Nat, status : Nat, fin : BOOLEAN, deleting : BOOLEAN]

DiskTypeOK ==
  /\ cluster \in Cluster /\ vm \in {"live", "deleting"} /\ twins \subseteq Cluster
  /\ att \in [Cluster -> Attachment]
  /\ loc \in [Cluster -> Copy]
  /\ dv \in [Cluster -> {"none", "new", "provisioned"}]
  /\ claim \in [Cluster -> {"none", "prime", "pending", "bound", "terminating"}]
  /\ pv \in [Cluster -> [img : Nat, policy : {"Delete", "Retain"}]]
  /\ rel \in [Cluster -> {"idle", "retained", "dropped"}]
  /\ vol \in [phase : {"live", "deleting", "gone"}, id : Nat, fin : BOOLEAN, started : BOOLEAN]
  /\ rpv \in [img : Nat, phase : {"none", "available", "bound", "released"}] /\ rpvc \in BOOLEAN
  /\ recl \in {"idle", "pvc", "mark"}
  /\ made \in Nat /\ images \subseteq 1..made /\ written \subseteq 1..made
  /\ kept \in Nat /\ moves \in Nat /\ faults \in Nat

DiskInit ==
  /\ cluster \in Cluster /\ vm = "live" /\ twins = {}
  /\ att = [p \in Cluster |-> NoAtt] /\ loc = [p \in Cluster |-> NoLoc]
  /\ dv = [p \in Cluster |-> "none"] /\ claim = [p \in Cluster |-> "none"]
  /\ pv = [p \in Cluster |-> NoPV] /\ rel = [p \in Cluster |-> "idle"]
  /\ vol = [phase |-> "live", id |-> NoImage, fin |-> FALSE, started |-> FALSE]
  /\ rpv = NoReclaimPV /\ rpvc = FALSE /\ recl = "idle"
  /\ images = {} /\ made = 0 /\ written = {} /\ kept = NoImage /\ moves = 0 /\ faults = 0

-----------------------------------------------------------------------------
(* Users, and the CompiledVM twins (VMMove models what releases them) *)

Move(p) ==
  /\ vm = "live" /\ p # cluster /\ moves < MaxMoves
  /\ cluster' = p /\ moves' = moves + 1
  /\ kept' = IF moves > 0 /\ kept = NoImage THEN NoImage ELSE vol.id
  /\ UNCHANGED <<vm, twins, att, poolVars, reclVars, images, made, written, faults>>

DeleteVM ==
  /\ vm = "live" /\ vm' = "deleting"
  /\ UNCHANGED <<cluster, twins, att, poolVars, reclVars, images, made, written, kept, moves, faults>>

\* Without the finalizer the API server lets the Volume go at once.
DeleteVolume ==
  /\ vol.phase = "live"
  /\ vol' = [vol EXCEPT !.phase = IF vol.fin THEN "deleting" ELSE "gone"]
  /\ UNCHANGED <<cluster, vm, twins, att, poolVars, rpv, rpvc, recl, images, made, written, kept,
                 moves, faults>>

CompileVM ==
  /\ vm = "live" /\ twins = {} /\ twins' = {cluster}
  /\ UNCHANGED <<cluster, vm, att, poolVars, reclVars, images, made, written, kept, moves, faults>>

ReleaseVM(p) ==
  /\ p \in twins /\ (p # cluster \/ vm = "deleting") /\ twins' = twins \ {p}
  /\ UNCHANGED <<cluster, vm, att, poolVars, reclVars, images, made, written, kept, moves, faults>>

-----------------------------------------------------------------------------
(* compiledvolumeattachment.go, on the dispatch *)

\* Mutant: the identity is left to the pool that made the disk.
diskIdentityForAttachment_Home(a) == a.status

\* What the compiler stamps on the attachment of the machine's pool.
diskIdentityForAttachment(a) == vol.id

gateOpen == twins \subseteq {cluster}

\* A disk leaves at once; arriving waits for the gate.
CompileAttachment ==
  /\ att' = [p \in Cluster |->
       IF vm = "deleting" \/ vol.phase = "gone" \/ p # cluster THEN NoAtt
       ELSE IF gateOpen THEN [here |-> TRUE, id |-> diskIdentityForAttachment(att[p]),
                              status |-> att[p].status]
       ELSE att[p]]
  /\ att' # att
  /\ UNCHANGED <<cluster, vm, twins, poolVars, reclVars, images, made, written, kept, moves, faults>>

-----------------------------------------------------------------------------
(* The broker: SyncCompiledVolumeAttachments, ReportDiskIdentities *)

\* An attachment that goes takes the DataVolume it owns along, and that its claim.
Collected(c) == IF c = "none" THEN "none" ELSE "terminating"

SyncAttachment(p) ==
  /\ IF att[p].here
       THEN /\ loc' = [loc EXCEPT ![p] = IF loc[p].here THEN [@ EXCEPT !.id = att[p].id]
                                         ELSE [NoLoc EXCEPT !.here = TRUE, !.id = att[p].id]]
            /\ UNCHANGED <<dv, claim>>
       ELSE /\ loc[p].here
            /\ IF loc[p].fin
                 THEN /\ loc' = [loc EXCEPT ![p].deleting = TRUE]
                      /\ UNCHANGED <<dv, claim>>
                 ELSE /\ loc' = [loc EXCEPT ![p] = NoLoc]
                      /\ dv' = [dv EXCEPT ![p] = "none"]
                      /\ claim' = [claim EXCEPT ![p] = IF dv[p] = "none" THEN @ ELSE Collected(@)]
  /\ loc' # loc
  /\ UNCHANGED <<cluster, vm, twins, att, pv, rel, reclVars, images, made, written, kept, moves,
                 faults>>

ReportDiskIdentity(p) ==
  /\ loc[p].status # NoImage /\ att[p].here /\ att[p].status # loc[p].status
  /\ att' = [att EXCEPT ![p].status = loc[p].status]
  /\ UNCHANGED <<cluster, vm, twins, poolVars, reclVars, images, made, written, kept, moves, faults>>

\* diskidentitymirror.go: what is reported goes on record; nothing reported clears nothing.
MirrorDiskIdentity(p) ==
  /\ att[p].here /\ att[p].status # NoImage /\ vol.phase # "gone" /\ vol.id # att[p].status
  /\ vol' = [vol EXCEPT !.id = att[p].status]
  /\ UNCHANGED <<cluster, vm, twins, att, poolVars, rpv, rpvc, recl, images, made, written, kept,
                 moves, faults>>

-----------------------------------------------------------------------------
(* volumematerializer.go and volumeadopt.go, in a pool *)

shouldAdopt(p) == loc[p].id # NoImage /\ dv[p] = "none"

\* What is missing is created: the volume retains from birth, the claim names it.
adoptDisk(p) ==
  /\ claim[p] = "none" /\ claim' = [claim EXCEPT ![p] = "pending"]
  /\ pv' = [pv EXCEPT ![p] = [img |-> loc[p].id, policy |-> "Retain"]]
  /\ UNCHANGED dv

\* The materializer does not ask whether the attachment is on its way out.
Materialize(p) ==
  /\ loc[p].here
  /\ IF shouldAdopt(p) THEN adoptDisk(p)
     ELSE dv[p] = "none" /\ dv' = [dv EXCEPT ![p] = "new"] /\ UNCHANGED <<pv, claim>>
  /\ UNCHANGED <<cluster, vm, twins, att, loc, rel, reclVars, images, made, written, kept, moves,
                 faults>>

\* CDI has the driver make an image; while it is imported, a claim of CDI's own holds it.
Provision(p) ==
  /\ dv[p] = "new" /\ claim[p] = "none" /\ made < MaxImages
  /\ made' = made + 1 /\ images' = images \cup {made + 1}
  /\ dv' = [dv EXCEPT ![p] = "provisioned"]
  /\ claim' = [claim EXCEPT ![p] = "prime"]
  /\ pv' = [pv EXCEPT ![p] = [img |-> made + 1, policy |-> "Delete"]]
  /\ UNCHANGED <<cluster, vm, twins, att, loc, rel, reclVars, written, kept, moves, faults>>

\* The import ends.  It outlasts passes of the disk identity controller: the first one has put
\* the finalizer on, and no releasing pass that found no disk is still under way.
Imported(p) ==
  /\ claim[p] = "prime" /\ loc[p].fin /\ (rel[p] = "idle" \/ pv[p].policy = "Retain")
  /\ claim' = [claim EXCEPT ![p] = "bound"]
  /\ written' = written \cup {pv[p].img}
  /\ UNCHANGED <<cluster, vm, twins, att, loc, dv, pv, rel, reclVars, images, made, kept, moves,
                 faults>>

Bind(p) ==
  /\ claim[p] = "pending" /\ claim' = [claim EXCEPT ![p] = "bound"]
  /\ UNCHANGED <<cluster, vm, twins, att, loc, dv, pv, rel, reclVars, images, made, written, kept,
                 moves, faults>>

\* A claim that was deleted goes when no pod uses it, and its volume by its policy.
ClaimGone(p) ==
  /\ claim[p] = "terminating"
  /\ claim' = [claim EXCEPT ![p] = "none"]
  /\ pv' = [pv EXCEPT ![p] = NoPV]
  /\ images' = IF pv[p].policy = "Delete" THEN images \ {pv[p].img} ELSE images
  /\ UNCHANGED <<cluster, vm, twins, att, loc, dv, rel, reclVars, made, written, kept, moves, faults>>

-----------------------------------------------------------------------------
(* diskidentity.go, in a pool *)

EnsureFinalizer(p) ==
  /\ loc[p].here /\ ~loc[p].deleting /\ ~loc[p].fin
  /\ loc' = [loc EXCEPT ![p].fin = TRUE]
  /\ UNCHANGED <<cluster, vm, twins, att, dv, claim, pv, rel, reclVars, images, made, written,
                 kept, moves, faults>>

EnsureRetain(p) ==
  /\ loc[p].here /\ ~loc[p].deleting /\ loc[p].fin /\ claim[p] = "bound"
  /\ pv[p].policy = "Delete"
  /\ pv' = [pv EXCEPT ![p].policy = "Retain"]
  /\ UNCHANGED <<cluster, vm, twins, att, loc, dv, claim, rel, reclVars, images, made, written,
                 kept, moves, faults>>

RecordIdentity(p) ==
  /\ loc[p].here /\ ~loc[p].deleting /\ loc[p].fin /\ claim[p] = "bound"
  /\ pv[p].policy = "Retain" /\ loc[p].status # pv[p].img
  /\ loc' = [loc EXCEPT ![p].status = pv[p].img]
  /\ UNCHANGED <<cluster, vm, twins, att, dv, claim, pv, rel, reclVars, images, made, written,
                 kept, moves, faults>>

\* Mutant: only a claim the attachment's own one owns is looked at.
diskClaims_Prime == {"prime"}

\* The states of the claim in which it, or one it owns, holds a volume.
diskClaims == {"prime", "pending", "bound", "terminating"}

Releasing(p) == loc[p].here /\ loc[p].deleting

\* releaseDisk, first part: every volume a claim of the attachment holds is retained.
RetainAll(p) ==
  /\ Releasing(p) /\ rel[p] = "idle" /\ rel' = [rel EXCEPT ![p] = "retained"]
  /\ pv' = [pv EXCEPT ![p].policy = IF claim[p] \in diskClaims THEN "Retain" ELSE @]
  /\ UNCHANGED <<cluster, vm, twins, att, loc, dv, claim, reclVars, images, made, written, kept,
                 moves, faults>>

\* Second part: the claim and the volume are deleted.
DropClaim(p) ==
  /\ Releasing(p) /\ rel[p] = "retained" /\ rel' = [rel EXCEPT ![p] = "dropped"]
  /\ claim' = [claim EXCEPT ![p] = Collected(@)]
  /\ UNCHANGED <<cluster, vm, twins, att, loc, dv, pv, reclVars, images, made, written, kept,
                 moves, faults>>

\* The finalizer goes, the attachment with it, and with that the DataVolume.
Released(p) ==
  /\ Releasing(p) /\ rel[p] = "dropped" /\ rel' = [rel EXCEPT ![p] = "idle"]
  /\ loc' = [loc EXCEPT ![p] = NoLoc]
  /\ dv' = [dv EXCEPT ![p] = "none"]
  /\ claim' = [claim EXCEPT ![p] = IF dv[p] = "none" THEN @ ELSE Collected(@)]
  /\ UNCHANGED <<cluster, vm, twins, att, pv, reclVars, images, made, written, kept, moves, faults>>

\* A call fails, or the process dies; the next pass starts over.
ReleaseFails(p) ==
  /\ rel[p] # "idle" /\ faults < MaxFaults
  /\ rel' = [rel EXCEPT ![p] = "idle"] /\ faults' = faults + 1
  /\ UNCHANGED <<cluster, vm, twins, att, loc, dv, claim, pv, reclVars, images, made, written,
                 kept, moves>>

-----------------------------------------------------------------------------
(* volumereclaim.go, on the dispatch *)

HoldVolume ==
  /\ vol.phase = "live" /\ vol.id # NoImage /\ ~vol.fin
  /\ vol' = [vol EXCEPT !.fin = TRUE]
  /\ UNCHANGED <<cluster, vm, twins, att, poolVars, rpv, rpvc, recl, images, made, written, kept,
                 moves, faults>>

stillAttached == \E p \in Cluster : att[p].here

Reclaiming == vol.phase = "deleting" /\ vol.id # NoImage /\ ~stillAttached /\ recl = "idle"

\* Mutant: an absent pair is taken for a finished one.
Handed_Absent == rpv.phase = "none" /\ ~rpvc

\* The driver is through: the pair was made, and is gone.
Handed == rpv.phase = "none" /\ ~rpvc /\ vol.started

ReleaseVolume ==
  /\ Reclaiming /\ Handed /\ vol' = [vol EXCEPT !.phase = "gone"]
  /\ UNCHANGED <<cluster, vm, twins, att, poolVars, rpv, rpvc, recl, images, made, written, kept,
                 moves, faults>>

\* The pair is made in two calls, and then marked as made.
CreateReclaimPV ==
  /\ Reclaiming /\ ~Handed /\ rpv.phase = "none" /\ recl' = "pvc"
  /\ rpv' = [img |-> vol.id, phase |-> "available"]
  /\ UNCHANGED <<cluster, vm, twins, att, poolVars, vol, rpvc, images, made, written, kept, moves,
                 faults>>

CreateReclaimPVC ==
  /\ recl = "pvc" /\ recl' = "mark" /\ rpvc' = TRUE
  /\ UNCHANGED <<cluster, vm, twins, att, poolVars, vol, rpv, images, made, written, kept, moves,
                 faults>>

markReclaimStarted ==
  /\ recl = "mark" /\ recl' = "idle" /\ vol' = [vol EXCEPT !.started = TRUE]
  /\ UNCHANGED <<cluster, vm, twins, att, poolVars, rpv, rpvc, images, made, written, kept, moves,
                 faults>>

ReclaimFails ==
  /\ recl # "idle" /\ faults < MaxFaults /\ recl' = "idle" /\ faults' = faults + 1
  /\ UNCHANGED <<cluster, vm, twins, att, poolVars, vol, rpv, rpvc, images, made, written, kept,
                 moves>>

ReleaseReclaimPVC ==
  /\ Reclaiming /\ rpv.phase = "bound" /\ rpvc
  /\ rpvc' = FALSE /\ rpv' = [rpv EXCEPT !.phase = "released"]
  /\ UNCHANGED <<cluster, vm, twins, att, poolVars, vol, recl, images, made, written, kept, moves,
                 faults>>

BindReclaim ==
  /\ rpv.phase = "available" /\ rpvc /\ rpv' = [rpv EXCEPT !.phase = "bound"]
  /\ UNCHANGED <<cluster, vm, twins, att, poolVars, vol, rpvc, recl, images, made, written, kept,
                 moves, faults>>

\* The driver deletes the image of a released volume; one that is not there is no error.
DeleteImage ==
  /\ rpv.phase = "released" /\ rpv' = NoReclaimPV /\ images' = images \ {rpv.img}
  /\ UNCHANGED <<cluster, vm, twins, att, poolVars, vol, rpvc, recl, made, written, kept, moves,
                 faults>>

-----------------------------------------------------------------------------
User == (\E p \in Cluster : Move(p)) \/ DeleteVM \/ DeleteVolume

PoolStep(p) ==
  \/ ReleaseVM(p) \/ SyncAttachment(p) \/ ReportDiskIdentity(p) \/ MirrorDiskIdentity(p)
  \/ Materialize(p) \/ Provision(p) \/ Imported(p) \/ Bind(p) \/ ClaimGone(p)
  \/ EnsureFinalizer(p) \/ EnsureRetain(p) \/ RecordIdentity(p)
  \/ RetainAll(p) \/ DropClaim(p) \/ Released(p)

Reclaim ==
  \/ ReleaseVolume \/ CreateReclaimPV \/ CreateReclaimPVC \/ markReclaimStarted
  \/ ReleaseReclaimPVC

Fail == (\E p \in Cluster : ReleaseFails(p)) \/ ReclaimFails

DiskNext ==
  \/ User \/ CompileVM \/ CompileAttachment \/ HoldVolume
  \/ \E p \in Cluster : PoolStep(p)
  \/ Reclaim \/ BindReclaim \/ DeleteImage \/ Fail

DiskSpec == DiskInit /\ [][DiskNext]_diskVars

\* The dispatch's controllers, the PersistentVolume controller and the driver keep working.
FairSpec ==
  /\ DiskSpec /\ WF_diskVars(CompileAttachment) /\ WF_diskVars(Reclaim) /\ WF_diskVars(BindReclaim)
  /\ WF_diskVars(DeleteImage)

-----------------------------------------------------------------------------
(***************************************************************************)
(* Properties                                                              *)
(***************************************************************************)
\* An image a guest may have written to is in Ceph for as long as nobody deletes the Volume,
\* whichever pools the machine goes through, in whichever order attachments, claims and volumes
\* go, and also when the move comes in the middle of an import (releaseDisk).
ImageSurvives == vol.phase = "live" => written \subseteq images

\* A machine whose disk was on record at each of its moves has that disk, and no blank one, in
\* its pool (diskIdentityForAttachment, shouldAdopt, the mirror that never clears).
MoveKeepsDisk ==
  kept # NoImage /\ claim[cluster] \in {"prime", "pending", "bound"} => pv[cluster].img = kept

\* A Volume that was held until its disk is reclaimed leaves no image behind, if its disk was on
\* record at each move (reclaim).
ReclaimedIsGone ==
  vol.phase = "gone" /\ vol.fin /\ (moves = 0 \/ kept # NoImage) => written \cap images = {}

\* A Volume that is deleted with its machine goes in the end (VolumeReclaimReconciler).
VolumeGoes == vol.phase = "deleting" /\ vm = "deleting" ~> vol.phase = "gone"
=============================================================================
