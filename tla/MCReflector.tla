---------------------------- MODULE MCReflector ----------------------------
(* Model values for the runs of Reflector.                                 *)
EXTENDS Reflector, TLC

CONSTANTS a, b           \* nodes; each has one underlay address of the same name
CONSTANTS k1, v1         \* a route key and its VNI
CONSTANTS f1, f2         \* fences: overlapping prefixes, both over a and not over b
CONSTANTS nat1, pub1     \* a NAT block, and a public record owned by a

TwoNodes == {a, b}
OwnAddress == [nh \in TwoNodes |-> nh]
OneVni == [k \in {k1} |-> v1]
NoKeys == [k \in {} |-> v1]
OwnedByA == [g \in {pub1} |-> a]
NoOwner == [g \in {} |-> a]
Overlapping == {f1, f2}
OverlappingWithin == [f \in Overlapping |-> {a}]
FenceSymmetry == Permutations(Overlapping)
NoFence == {}
NoFenceWithin == [f \in {} |-> {}]
=============================================================================
