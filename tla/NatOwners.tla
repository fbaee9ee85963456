----------------------------- MODULE NatOwners -----------------------------
(***************************************************************************)
(* The neighbor-NAT blocks of a WAN edge's dataplane (flowplane-control,   *)
(* nat.rs): which node owns a port range of a public address, so that a    *)
(* returning packet can be relayed to it.  A block is listed in memory     *)
(* (neigh_nats) and stored in a pinned longest-prefix-match trie as the    *)
(* aligned port prefixes of its range.  A map write or removal may fail at *)
(* any prefix, and the process may die between two of them; the trie       *)
(* survives it, the list does not.                                         *)
(*                                                                         *)
(* One address family: the other is a copy over maps of its own.  Calls    *)
(* exclude each other (the core is behind a mutex), packets do not wait:   *)
(* one step stores or removes one block, so that a replace is many.  A     *)
(* refused call changes nothing and is left out.                           *)
(***************************************************************************)
EXTENDS Integers, FiniteSets, FiniteSetsExt

CONSTANTS
  PortBits,      \* width of a port (16 in the code)
  PortRange,     \* the ranges announced: records [ip, lo, hi], hi excluded
  Owner,         \* who may own a block: records [underlay, vni]
  NatOwnersMax,  \* NAT_OWNERS_MAX, the prefixes the trie takes
  MaxSet         \* bound: the blocks of one snapshot

VARIABLES
  neigh_nats,      \* the listed blocks
  trie,            \* NAT_OWNERS: entries [ip, at, size, of], `of' the block stored
  nat_owner_count, \* the prefixes of the listed blocks
  stale,           \* a replace in progress: the blocks it has still to remove
  fresh,           \*   and those it has still to store
  torn,            \* history: blocks whose last write, rewrite or removal failed
  orphaned,        \* history: the last adopt read or swept the trie in part
  natUp            \* the process runs

replacing == <<stale, fresh>>
natVars == <<neigh_nats, trie, nat_owner_count, replacing, torn, orphaned, natUp>>

Port == 0 .. 2 ^ PortBits - 1
RunSizes == {2 ^ b : b \in 0 .. PortBits}
Block == [at : PortRange, own : Owner]

\* Ranges are not empty (both calls refuse one that is) and end below the last
\* port, since port_max is a port too.  The first line is arithmetic.
ASSUME NatOwnersAssumption ==
  /\ RunSizes \subseteq Nat \ {0} /\ 1 \in RunSizes /\ Port \subseteq Nat
  /\ IsFiniteSet(PortRange) /\ IsFiniteSet(Owner)
  /\ \A r \in PortRange : r.ip \in Nat /\ r.lo \in Port /\ r.hi \in Port /\ r.lo < r.hi

-----------------------------------------------------------------------------
(***************************************************************************)
(* Port prefixes and blocks.                                               *)
(***************************************************************************)
\* Mutant: the run need not be aligned.
RunSize_Unaligned(at, last) == Max({s \in RunSizes : at + s - 1 <= last})

\* The largest aligned run of ports that starts at `at' and ends by `last'.
RunSize(at, last) == Max({s \in RunSizes : at % s = 0 /\ at + s - 1 <= last})

\* Where the loop of port_prefixes gets to: at lo, and from each run's start
\* to its end while that is not past `last'.
RunStarts(lo, last) ==
  {at \in lo .. last : \A S \in SUBSET (lo .. last) :
     /\ lo \in S
     /\ \A x \in S : x + RunSize(x, last) <= last => x + RunSize(x, last) \in S
     => at \in S}

\* port_prefixes: the aligned runs that make up lo .. last.
PortPrefixes(lo, last) == {<<at, RunSize(at, last)>> : at \in RunStarts(lo, last)}

PrefixTable ==
  [b \in Block |-> {[ip |-> b.at.ip, at |-> p[1], size |-> p[2], of |-> b] :
                      p \in PortPrefixes(b.at.lo, b.at.hi - 1)}]

\* owner_prefixes4: each entry carries its whole block.
owner_prefixes(b) == PrefixTable[b]
PrefixesOf(L) == UNION {owner_prefixes(b) : b \in L}

KeyOf(e) == <<e.ip, e.at, e.size>>
KeysOf(E) == {KeyOf(e) : e \in E}
Removed(t, E) == {e \in t : KeyOf(e) \notin KeysOf(E)}
Upserted(t, E) == Removed(t, E) \cup E

\* An entry carries its block, so the prefixes of a list are as many as the
\* sum over its blocks.
Count(L) == Cardinality(PrefixesOf(L))

\* What a packet to port p of address ip finds: the longest prefix wins.
Hits(t, ip, p) == {e \in t : e.ip = ip /\ p \div e.size = e.at \div e.size}
Lookup(t, ip, p) ==
  {e.of.own : e \in {x \in Hits(t, ip, p) : \A y \in Hits(t, ip, p) : x.size <= y.size}}

\* The first few prefixes of a block: what a loop over them got to.
Cuts(b) == {{e \in owner_prefixes(b) : e.at < c} : c \in Port}

Before(x, y) == x.at.ip < y.at.ip \/ (x.at.ip = y.at.ip /\ x.at.lo < y.at.lo)
At(L, r) == {b \in L : b.at.ip = r.ip /\ b.at.lo = r.lo}
Insert(L, b) == (L \ At(L, b.at)) \cup {b}

\* overlaps4: only the listed block before and the one after are looked at.
Overlaps(L, r) ==
  LET upto == {b \in L : b.at.ip < r.ip \/ (b.at.ip = r.ip /\ b.at.lo <= r.lo)}
      from == {b \in L : b.at.ip > r.ip \/ (b.at.ip = r.ip /\ b.at.lo >= r.lo)}
  IN \/ \E b \in upto : /\ \A x \in upto : ~Before(b, x)
                        /\ b.at.ip = r.ip /\ b.at.hi > r.lo
     \/ \E b \in from : /\ \A x \in from : ~Before(x, b)
                        /\ b.at.ip = r.ip /\ b.at.lo < r.hi

\* check_block_set, which finds any overlap between neighbours once sorted.
Apart(L) ==
  \A x, y \in L : x # y /\ x.at.ip = y.at.ip => x.at.hi <= y.at.lo \/ y.at.hi <= x.at.lo
Storable(W) == Count(W) <= NatOwnersMax /\ Apart(W)

-----------------------------------------------------------------------------
(***************************************************************************)
(* One block stored, rewritten or removed, and the ways each may fail.     *)
(***************************************************************************)
Fits(b) == nat_owner_count + Cardinality(owner_prefixes(b)) <= NatOwnersMax

Inserted(b) ==
  /\ neigh_nats' = Insert(neigh_nats, b)
  /\ nat_owner_count' = nat_owner_count + Cardinality(owner_prefixes(b))

\* store_block4
Stored(b) ==
  /\ Fits(b) /\ Inserted(b)
  /\ trie' = Upserted(trie, owner_prefixes(b))
  /\ torn' = torn \ {b}

\* store_block4 has no room, or takes back what it wrote before the write that
\* failed; when that fails too, for `left', the block is listed all the same.
StoreFails(b) ==
  \/ UNCHANGED <<neigh_nats, trie, nat_owner_count, torn>> /\ ~Fits(b)
  \/ /\ Fits(b)
     /\ \E done \in Cuts(b) \ {owner_prefixes(b)} :
          \/ trie' = Removed(trie, done) /\ UNCHANGED <<neigh_nats, nat_owner_count, torn>>
          \/ \E left \in SUBSET done \ {{}} :
               /\ Inserted(b)
               /\ trie' = Upserted(Removed(trie, done), left)
               /\ torn' = torn \cup {b}

\* upsert_neighbor_nat on the block `old' with this very range.
Rewritten(old, b) ==
  /\ neigh_nats' = Insert(neigh_nats, b)
  /\ trie' = Upserted(trie, owner_prefixes(b))
  /\ torn' = torn \ {old, b}
  /\ UNCHANGED nat_owner_count

RewriteFails(old, b) ==
  /\ \E done \in Cuts(b) : trie' = Upserted(trie, done)
  /\ torn' = torn \cup {old}
  /\ UNCHANGED <<neigh_nats, nat_owner_count>>

\* del_neighbor_nat
Deleted(b) ==
  /\ neigh_nats' = neigh_nats \ {b}
  /\ trie' = Removed(trie, owner_prefixes(b))
  /\ nat_owner_count' = nat_owner_count - Cardinality(owner_prefixes(b))
  /\ torn' = torn \ {b}

\* Mutant: a block whose removal failed is unlisted.
DeleteFails_Unlisted(b) ==
  /\ neigh_nats' = neigh_nats \ {b}
  /\ \E left \in SUBSET owner_prefixes(b) \ {{}} : trie' = Removed(trie, owner_prefixes(b) \ left)
  /\ nat_owner_count' = nat_owner_count - Cardinality(owner_prefixes(b))
  /\ torn' = torn \ {b}

\* del_neighbor_nat tries every removal; the block stays if one fails.
DeleteFails(b) ==
  /\ \E left \in SUBSET owner_prefixes(b) \ {{}} : trie' = Removed(trie, owner_prefixes(b) \ left)
  /\ torn' = torn \cup {b}
  /\ UNCHANGED <<neigh_nats, nat_owner_count>>

-----------------------------------------------------------------------------
(***************************************************************************)
(* The calls.                                                              *)
(***************************************************************************)
NatIdle == natUp /\ stale = {} /\ fresh = {}

AddNeighborNat(b) ==
  /\ NatIdle
  /\ \/ \E old \in neigh_nats : old.at = b.at /\ (Rewritten(old, b) \/ RewriteFails(old, b))
     \/ /\ \A x \in neigh_nats : x.at # b.at
        /\ ~Overlaps(neigh_nats, b.at)
        /\ Stored(b) \/ StoreFails(b)
  /\ UNCHANGED <<replacing, orphaned, natUp>>

WithdrawNeighborNat(b) ==
  /\ NatIdle
  /\ \E x \in neigh_nats : /\ x.at = b.at /\ x.own.vni = b.own.vni
                           /\ Deleted(x) \/ DeleteFails(x)
  /\ UNCHANGED <<replacing, orphaned, natUp>>

\* replace_neighbor_nats: first the stale blocks go, in list order.
ReplaceNeighborNats(W) ==
  /\ NatIdle /\ Storable(W)
  /\ stale' = neigh_nats \ W /\ fresh' = W \ neigh_nats
  /\ UNCHANGED <<neigh_nats, trie, nat_owner_count, torn, orphaned, natUp>>

\* The first error ends the call.
RemoveStale ==
  /\ \E b \in stale :
       /\ \A x \in stale : ~Before(x, b)
       /\ \/ Deleted(b) /\ stale' = stale \ {b} /\ UNCHANGED fresh
          \/ DeleteFails(b) /\ stale' = {} /\ fresh' = {}
  /\ UNCHANGED <<orphaned, natUp>>

\* Then the new ones come, in the order of the request, unchecked.
StoreFresh ==
  /\ stale = {}
  /\ \E b \in fresh : \/ Stored(b) /\ fresh' = fresh \ {b}
                      \/ StoreFails(b) /\ fresh' = {}
  /\ UNCHANGED <<stale, orphaned, natUp>>

-----------------------------------------------------------------------------
(***************************************************************************)
(* Restart.                                                                *)
(***************************************************************************)
\* The process dies.  The pinned trie is all that is left: what a call had
\* done by then is what a failed one leaves.
NatCrash ==
  /\ natUp /\ natUp' = FALSE
  /\ neigh_nats' = {} /\ nat_owner_count' = 0 /\ stale' = {} /\ fresh' = {}
  /\ torn' = {} /\ orphaned' = FALSE
  /\ UNCHANGED trie

\* One block for each start among the walked entries: the last one read.
Rebuilt(walked) ==
  LET B == {e.of : e \in walked}
  IN {L \in SUBSET B : \A b \in B : Cardinality(At(L, b.at)) = 1}

\* k is the last block of L before b.
LastBefore(L, k, b) == k \in L /\ Before(k, b) /\ \A x \in L : Before(x, b) => ~Before(k, x)

\* v4.retain: in list order, a block that starts inside the last one kept goes.
\* The only member is the list that is left.
NoOverlap(R) ==
  {L \in SUBSET R : \A b \in R :
     b \in L <=> ~ \E k \in L : LastBefore(L, k, b) /\ k.at.ip = b.at.ip /\ b.at.lo < k.at.hi}

\* adopt_nat_owners: list what the walk read, complete every block, sweep
\* what belongs to none unless the walk was cut.  Map errors are ignored:
\* `lost' are the writes and `kept' the removals that failed.
AdoptNatOwners ==
  /\ ~natUp /\ natUp' = TRUE
  /\ \E walked \in SUBSET trie : \E R \in Rebuilt(walked) : \E L \in NoOverlap(R) :
       LET want == PrefixesOf(L)
           extra == {e \in walked : KeyOf(e) \notin KeysOf(want)}
       IN \E lost \in SUBSET want : \E kept \in SUBSET extra :
            /\ walked # trie => kept = extra
            /\ neigh_nats' = L
            /\ nat_owner_count' = Count(L)
            /\ trie' = Removed(Upserted(trie, want \ lost), extra \ kept)
            /\ torn' = {b \in L : owner_prefixes(b) \cap lost # {}}
            /\ orphaned' = (walked # trie \/ kept # {})
  /\ UNCHANGED replacing

-----------------------------------------------------------------------------
NatTypeOK ==
  /\ neigh_nats \in SUBSET Block
  /\ trie \in SUBSET PrefixesOf(Block)
  /\ nat_owner_count \in Nat
  /\ stale \in SUBSET neigh_nats /\ fresh \in SUBSET (Block \ neigh_nats)
  /\ torn \in SUBSET Block
  /\ orphaned \in BOOLEAN
  /\ natUp \in BOOLEAN

NatInit ==
  /\ neigh_nats = {} /\ trie = {} /\ nat_owner_count = 0
  /\ stale = {} /\ fresh = {}
  /\ torn = {} /\ orphaned = FALSE /\ natUp = TRUE

NatNext ==
  \/ \E b \in Block : AddNeighborNat(b) \/ WithdrawNeighborNat(b)
  \/ \E W \in SUBSET Block : Cardinality(W) <= MaxSet /\ ReplaceNeighborNats(W)
  \/ RemoveStale \/ StoreFresh
  \/ NatCrash \/ AdoptNatOwners

NatSpec == NatInit /\ [][NatNext]_natVars

-----------------------------------------------------------------------------
(***************************************************************************)
(* Every prefix in the trie belongs to a listed block, so that a withdraw  *)
(* or a replace reaches it, through failed writes, failed unwinding, failed*)
(* removals and crashes; the exception is a restart that could not read or *)
(* sweep the whole trie.  The count that guards the trie's capacity is     *)
(* that of the listed blocks.                                              *)
(***************************************************************************)
PrefixesAreListed ==
  /\ natUp /\ ~orphaned => KeysOf(trie) \subseteq KeysOf(PrefixesOf(neigh_nats))
  /\ nat_owner_count = Count(neigh_nats)

(***************************************************************************)
(* A packet to any port of a listed block is relayed to that block's owner,*)
(* unless the block's own last write, rewrite or removal failed: no other  *)
(* block's failure, move or withdrawal diverts it, and neither does the    *)
(* middle of a replace.                                                    *)
(***************************************************************************)
ReturnsReachOwner ==
  natUp /\ ~orphaned => \A b \in neigh_nats \ torn : \A p \in b.at.lo .. b.at.hi - 1 :
    Lookup(trie, b.at.ip, p) = {b.own}
=============================================================================
