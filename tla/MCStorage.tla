----------------------------- MODULE MCStorage ------------------------------
(***************************************************************************)
(* One run for the two components that guard a machine's disk and share no *)
(* state: the storage fence of a prefix that two pools report, and a disk  *)
(* that moves between two pools.  `part' never changes and says which of   *)
(* them moves; the other one stays where it starts.                        *)
(***************************************************************************)
EXTENDS NetworkFence, DiskMove

CONSTANTS p1, p2

VARIABLE part

MCInit == part \in {"fence", "disk"} /\ Init /\ DiskInit /\ cluster = p1

MCNext ==
  \/ part = "fence" /\ Next /\ UNCHANGED <<part, diskVars>>
  \/ part = "disk" /\ DiskNext /\ UNCHANGED <<part, vars>>

\* Fairness is that of the fence.  The properties of the disk are invariants,
\* which hold in every reachable state whatever is fair.
MCSpec == MCInit /\ [][MCNext]_<<part, vars, diskVars>> /\ Fairness
=============================================================================
