---------------------------- MODULE NetworkFence ----------------------------
(***************************************************************************)
(* The storage fence of one underlay prefix: the NetworkFence custom       *)
(* resource (CR) that dispatch/pkg/fence/storage.go creates, flips and     *)
(* deletes, and the csi-addons controller (external) that runs the CR's    *)
(* operation against Ceph and writes one result into its status.           *)
(*                                                                         *)
(* csi-addons is modelled from what storage.go relies on: one worker per   *)
(* CR reading from a cache that lags, a finalizer it puts on a CR before   *)
(* it acts and drops, without unfencing, once the CR is being deleted, and *)
(* a status write that fails when the CR changed since it was read.        *)
(* A call of Fence or Release that fails at the API server changes nothing *)
(* and is a stuttering step.                                               *)
(***************************************************************************)
CONSTANTS Pool, NoPool

ASSUME NetworkFenceAssumption == NoPool \notin Pool

VARIABLES
  spec,       \* the CR's spec.fenceState, or "absent"
  label,      \* the pool its label names
  report,     \* the operation status.result/message reports, "none" or "failed"
  deleting,   \* it has a deletionTimestamp
  finalizer,  \* csi-addons' finalizer is on it
  cache,      \* what csi-addons' cache shows: a fenceState, "deleting" or "absent"
  job,        \* the operation its worker is running, or "none"
  stage,      \* "idle", "run", or the operation's outcome "ok" or "err"
  fresh,      \* the CR has not changed since the worker read it
  blocked,    \* Ceph's blocklist holds the prefix
  want,       \* want[p]: the call failover keeps making for p: "fence" or "release"
  answer      \* answer[p]: what the last such call returned

cr == <<spec, label, report, deleting, finalizer>>
worker == <<job, stage, fresh>>
vars == <<cr, cache, worker, blocked, want, answer>>

TypeOK ==
  /\ spec \in {"absent", "Fenced", "Unfenced"}
  /\ label \in Pool \cup {NoPool}
  /\ report \in {"none", "fence", "unfence", "failed"}
  /\ deleting \in BOOLEAN /\ finalizer \in BOOLEAN
  /\ cache \in {"absent", "Fenced", "Unfenced", "deleting"}
  /\ job \in {"none", "fence", "unfence"}
  /\ stage \in {"idle", "run", "ok", "err"}
  /\ fresh \in BOOLEAN /\ blocked \in BOOLEAN
  /\ want \in [Pool -> {"fence", "release"}]
  /\ answer \in [Pool -> {"none", "fenced", "released", "error"}]

\* What an up-to-date cache shows.
Current == IF deleting THEN "deleting" ELSE spec

Answer(p, a) == answer' = [answer EXCEPT ![p] = a]

-----------------------------------------------------------------------------
(***************************************************************************)
(* StorageFencer.                                                          *)
(***************************************************************************)
Create(p) ==
  /\ spec' = "Fenced" /\ label' = p /\ report' = "none"
  /\ deleting' = FALSE /\ finalizer' = FALSE
  /\ fresh' = FALSE

\* The API server keeps a deleted CR that has a finalizer.
Delete ==
  /\ IF finalizer
       THEN deleting' = TRUE /\ UNCHANGED <<spec, label, report>>
       ELSE spec' = "absent" /\ label' = NoPool /\ report' = "none" /\ deleting' = FALSE
  /\ UNCHANGED finalizer
  /\ fresh' = FALSE

\* Mutant: any pool's fence is taken for this pool's own.
FencedFor_Anyone(p) == p \in Pool

\* The label: a CR another pool was fenced with is neither reused nor released.
FencedFor(p) == label = p

FenceAbsent(p) == spec = "absent" /\ Create(p) /\ Answer(p, "error")

FenceRefused(p) ==
  /\ spec # "absent" /\ (deleting \/ ~FencedFor(p))
  /\ Answer(p, "error") /\ UNCHANGED <<cr, fresh>>

\* Mutant: a CR that is being released is fenced again in place.
FenceUnfenced_FlipsBack(p) ==
  /\ spec = "Unfenced" /\ ~deleting /\ FencedFor(p)
  /\ spec' = "Fenced" /\ fresh' = FALSE
  /\ Answer(p, "error") /\ UNCHANGED <<label, report, deleting, finalizer>>

\* Mutant: a spent CR is never replaced.
FenceUnfenced_Waits(p) ==
  /\ spec = "Unfenced" /\ ~deleting /\ FencedFor(p)
  /\ Answer(p, "error") /\ UNCHANGED <<cr, fresh>>

\* A CR that is being released is never flipped back: it is waited for, then
\* deleted, and the next call creates a new one.
FenceUnfenced(p) ==
  /\ spec = "Unfenced" /\ ~deleting /\ FencedFor(p)
  /\ IF report = "unfence" THEN Delete ELSE UNCHANGED <<cr, fresh>>
  /\ Answer(p, "error")

FenceFenced(p) ==
  /\ spec = "Fenced" /\ ~deleting /\ FencedFor(p)
  /\ Answer(p, IF report = "fence" THEN "fenced" ELSE "error")
  /\ UNCHANGED <<cr, fresh>>

Fence(p) ==
  /\ want[p] = "fence"
  /\ FenceAbsent(p) \/ FenceRefused(p) \/ FenceUnfenced(p) \/ FenceFenced(p)
  /\ UNCHANGED <<cache, job, stage, blocked, want>>

ReleaseAbsent(p) == spec = "absent" /\ Answer(p, "released") /\ UNCHANGED <<cr, fresh>>

ReleaseRefused(p) ==
  /\ spec # "absent" /\ ~FencedFor(p)
  /\ Answer(p, "error") /\ UNCHANGED <<cr, fresh>>

\* Mutant: the CR is deleted without unfencing first.
ReleaseFenced_Deletes(p) ==
  /\ spec = "Fenced" /\ FencedFor(p)
  /\ Delete /\ Answer(p, "error")

ReleaseFenced(p) ==
  /\ spec = "Fenced" /\ FencedFor(p)
  /\ spec' = "Unfenced" /\ fresh' = FALSE
  /\ Answer(p, "error") /\ UNCHANGED <<label, report, deleting, finalizer>>

\* Mutant: any successful result counts, also the earlier fence's.
ReleaseUnfenced_AnyResult(p) ==
  /\ spec = "Unfenced" /\ FencedFor(p)
  /\ IF report \in {"fence", "unfence"}
       THEN Delete /\ Answer(p, "released")
       ELSE UNCHANGED <<cr, fresh>> /\ Answer(p, "error")

\* Mutant: the unfenced CR is left behind.
ReleaseUnfenced_KeepsCR(p) ==
  /\ spec = "Unfenced" /\ FencedFor(p)
  /\ Answer(p, IF report = "unfence" THEN "released" ELSE "error")
  /\ UNCHANGED <<cr, fresh>>

ReleaseUnfenced(p) ==
  /\ spec = "Unfenced" /\ FencedFor(p)
  /\ IF report = "unfence"
       THEN Delete /\ Answer(p, "released")
       ELSE UNCHANGED <<cr, fresh>> /\ Answer(p, "error")

Release(p) ==
  /\ want[p] = "release"
  /\ ReleaseAbsent(p) \/ ReleaseRefused(p) \/ ReleaseFenced(p) \/ ReleaseUnfenced(p)
  /\ UNCHANGED <<cache, job, stage, blocked, want>>

\* The pool is lost, or has come back and drained: failover makes the other call.
Turn(p) ==
  /\ want' = [want EXCEPT ![p] = IF @ = "fence" THEN "release" ELSE "fence"]
  /\ answer' = [answer EXCEPT ![p] = "none"]
  /\ UNCHANGED <<cr, cache, worker, blocked>>

-----------------------------------------------------------------------------
(***************************************************************************)
(* csi-addons (external).                                                  *)
(***************************************************************************)
CacheSync ==
  /\ cache # Current
  /\ cache' = Current
  /\ UNCHANGED <<cr, worker, blocked, want, answer>>

\* The worker reads the CR from its cache and makes sure of its finalizer.
WorkerStart ==
  /\ stage = "idle" /\ cache \in {"Fenced", "Unfenced"}
  /\ job' = IF cache = "Fenced" THEN "fence" ELSE "unfence"
  /\ stage' = "run"
  /\ fresh' = (cache = Current)
  /\ finalizer' = (finalizer \/ cache = Current)
  /\ UNCHANGED <<spec, label, report, deleting, cache, blocked, want, answer>>

WorkerRuns ==
  /\ stage = "run"
  /\ stage' = "ok"
  /\ blocked' = (job = "fence")
  /\ UNCHANGED <<cr, cache, job, fresh, want, answer>>

\* The operation reports an error: it may have taken effect all the same.
WorkerFails ==
  /\ stage = "run"
  /\ stage' = "err"
  /\ blocked' \in {blocked, job = "fence"}
  /\ UNCHANGED <<cr, cache, job, fresh, want, answer>>

\* The status write, refused with a conflict when the CR has changed.
WorkerReports ==
  /\ stage \in {"ok", "err"}
  /\ report' = IF ~fresh THEN report ELSE IF stage = "ok" THEN job ELSE "failed"
  /\ stage' = "idle" /\ job' = "none" /\ fresh' = FALSE
  /\ UNCHANGED <<spec, label, deleting, finalizer, cache, blocked, want, answer>>

WorkerCrashes ==
  /\ stage # "idle"
  /\ stage' = "idle" /\ job' = "none" /\ fresh' = FALSE
  /\ UNCHANGED <<cr, cache, blocked, want, answer>>

\* A CR seen being deleted loses the finalizer, and with it its existence.
WorkerFinalizes ==
  /\ stage = "idle" /\ cache = "deleting" /\ deleting
  /\ spec' = "absent" /\ label' = NoPool /\ report' = "none"
  /\ deleting' = FALSE /\ finalizer' = FALSE
  /\ UNCHANGED <<cache, worker, blocked, want, answer>>

-----------------------------------------------------------------------------
Init ==
  /\ spec = "absent" /\ label = NoPool /\ report = "none"
  /\ deleting = FALSE /\ finalizer = FALSE
  /\ cache = "absent" /\ job = "none" /\ stage = "idle" /\ fresh = FALSE
  /\ blocked = FALSE
  /\ want = [p \in Pool |-> "release"]
  /\ answer = [p \in Pool |-> "none"]

Calls == \E p \in Pool : Fence(p) \/ Release(p)

Next ==
  \/ Calls \/ \E p \in Pool : Turn(p)
  \/ CacheSync \/ WorkerStart \/ WorkerRuns \/ WorkerFails
  \/ WorkerReports \/ WorkerCrashes \/ WorkerFinalizes

\* Failover requeues until it gets the answer it waits for; csi-addons retries
\* its operation and does not fail or crash for ever.
Fairness ==
  /\ \A p \in Pool : WF_vars(Fence(p)) /\ WF_vars(Release(p))
  /\ WF_vars(CacheSync) /\ WF_vars(WorkerStart) /\ WF_vars(WorkerFinalizes)
  /\ SF_vars(WorkerRuns) /\ SF_vars(stage = "ok" /\ WorkerReports)
  /\ WF_vars(WorkerReports)

Spec == Init /\ [][Next]_vars /\ Fairness

-----------------------------------------------------------------------------
\* The guarantee a rebind rests on: from the moment Fence returns nil for a
\* pool until failover turns to releasing it, the prefix is blocklisted - also
\* when a release of an earlier fence was still in flight, csi-addons lags,
\* repeats an operation or crashes in the middle of one.
ConfirmedIsBlocked == \A p \in Pool : answer[p] = "fenced" => blocked

\* "A missing CR means already released": a NetworkFence that is gone or going
\* never leaves its blocklist entry behind, nor an operation that would put it
\* back.
NoLeakedBlock == spec = "absent" \/ deleting => ~blocked /\ job # "fence"

\* A pool's release is reported only when the prefix is off the blocklist and
\* nothing is left that would put it back.
ReleasedIsOpen ==
  [][\A p \in Pool : Release(p) /\ answer'[p] = "released" => ~blocked /\ job # "fence"]_vars

\* A fence is released or replaced only by a call for the pool it is labelled
\* with: pools that report the same prefix cannot undo each other's fences.
OnlyOwnerReleases ==
  [][\A p \in Pool : label = p /\ spec = "Fenced" /\ spec' # "Fenced"
                       => want[p] = "release"]_vars

\* The promise of the StorageFencer seam, as an abstract specification.
held == {p \in Pool : answer[p] = "fenced"}
Promise == INSTANCE StorageFence WITH Pool <- Pool, blocked <- blocked, held <- held
ImplementsPromise == Promise!Spec

\* A pool that stays lost, while no other pool claims the prefix and Ceph
\* answers again, is fenced in the end, wherever an earlier release was interrupted: waiting for the
\* unfence, deleting the spent CR and creating a new one cannot get stuck.
EventuallyFenced ==
  \A p \in Pool :
    <>[]( /\ stage # "err" /\ want[p] = "fence"
          /\ \A q \in Pool \ {p} : want[q] = "release" )
      => []<>(answer[p] = "fenced")

\* A recovered pool's fence is released in the end.
EventuallyReleased ==
  <>[](stage # "err" /\ \A q \in Pool : want[q] = "release")
    => <>[](spec = "absent" /\ ~blocked)
=============================================================================
