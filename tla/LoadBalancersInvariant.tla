----------------------- MODULE LoadBalancersInvariant -----------------------
(***************************************************************************)
(* Proofs about LoadBalancers, for any number of addresses, ports, tables, *)
(* slots and failed map calls, and any maps an earlier version left: a     *)
(* load balancer forwards to its own backends only, and an adoption takes  *)
(* no port out of service.                                                 *)
(*                                                                         *)
(* ForwardsToOwn alone is not inductive: a call that rewrites a table must *)
(* find no row of another address on it (ApartInv), and one that takes a   *)
(* new table must find the id free (FreshInv).  A restart forgets both and *)
(* has to earn them back, address by address.  What it can rely on is the  *)
(* maps as it read them: the addresses still to adopt are on tables below  *)
(* the counter that are still as full or as empty as they were read        *)
(* (TodoInv), and the adopted ones are on tables their records name        *)
(* (AdoptInv).  A repair may write the main table of its address and the   *)
(* next free one, and no other (RepairIs): it neither gives an address a   *)
(* foreign backend (RepairGives), nor takes a port's last one              *)
(* (RepairServes), nor spoils what was read for the addresses to come      *)
(* (RepairSpares), and a death in the middle of it is no worse.            *)
(*                                                                         *)
(* Here are the inductive invariant, what the operators and the repairs    *)
(* come to, and the calls; the steps of a restart, and the theorems, are   *)
(* in LoadBalancersProofs.                                                 *)
(***************************************************************************)
EXTENDS LoadBalancers, FiniteSetTheorems, NaturalsInduction, TLAPS

\* A set of numbers that is not empty has a least one.
LEMMA LeastExists ==
  ASSUME NEW S \in SUBSET Nat, S # {}
  PROVE  \E m \in S : \A y \in S : m <= y
<1>1. PICK x \in S : \A y \in S : ~(<<y, x>> \in OpToRel(<, Nat))
  BY NatLessThanWellFounded, WFMin, Zenon
<1>2. \A y \in S : x <= y
  <2> SUFFICES ASSUME NEW y \in S, y < x PROVE FALSE
    OBVIOUS
  <2>1. <<y, x>> \in OpToRel(<, Nat)
    BY Zenon DEF OpToRel
  <2> QED
    BY <1>1, <2>1, Zenon
<1> QED
  BY <1>2, Zenon

\* One that is bounded has a greatest one.
LEMMA GreatestExists ==
  ASSUME NEW S \in SUBSET Nat, S # {}, NEW n \in Nat, \A y \in S : y <= n
  PROVE  \E m \in S : \A y \in S : y <= m
<1> DEFINE D == {n - y : y \in S}
<1>1. D \in SUBSET Nat /\ D # {}
  <2>1. \A y \in S : n - y \in Nat
    OBVIOUS
  <2> QED
    BY <2>1, Zenon
<1>2. PICK d \in D : \A y \in D : d <= y
  <2> HIDE DEF D
  <2> QED
    BY <1>1, LeastExists, Zenon
<1>3. PICK m \in S : d = n - m
  BY <1>2, Zenon
<1>4. \A y \in S : n - m <= n - y
  BY <1>2, <1>3, Zenon
<1>5. \A y \in S : y <= m
  BY <1>4
<1> QED
  BY <1>3, <1>5, Zenon

-----------------------------------------------------------------------------
(***************************************************************************)
(* The inductive invariant.                                                *)
(***************************************************************************)
\* What an address leads to, and what its record would have it lead to, was given to it.
GivenInv ==
  \A a \in Address \ stray :
    /\ Reached(rows, maglev, a, SvcPort) \subseteq given[a]
    /\ lbs[a].backends \subseteq given[a]

\* No row of an adopted address leads to the table that another one rewrites.
ApartInv ==
  \A a \in Address \ (stray \cup todo) : \A c \in Address \ {a} : lbs[c].table \notin TablesOf(rows, a)

\* While there are ids to give, those from the counter on are in no record, no row leads
\* there and their slots are empty, so far as the code can know.
FreshInv ==
  IdLeft =>
    /\ \A a \in Address : lbs[a].table < next_table_id
    /\ phase = "adopting" \/ (phase = "up" /\ ~unsure) =>
         \A a \in Address \ stray : \A t \in TablesOf(rows, a) : t < next_table_id
    /\ phase # "down" /\ ~unsure =>
         \A t \in TableId : t >= next_table_id => BackendsOf(maglev[t]) = {}

\* An address is listed with a table, and not while the process is down.
RecordInv ==
  /\ \A a \in Address : lbs[a].table = 0 => lbs[a] = NoRecord
  /\ phase = "down" => \A a \in Address : lbs[a] = NoRecord
  /\ phase # "adopting" => todo = {}

\* The addresses still to adopt: their tables are as the walk read them, as to whether they
\* have backends, and below the counter; one that a record is on already is marked as owned.
TodoInv ==
  \A a \in todo :
    /\ TablesOf(rows, a) # {}
    /\ \A t \in TablesOf(rows, a) :
         /\ BackendsOf(maglev[t]) = {} <=> BackendsOf(tablesRead[t]) = {}
         /\ IdLeft => t < next_table_id
         /\ \A c \in Address : lbs[c].table = t => t \in owned

\* The tables as read: they hold what an address on them was given, and nothing from the
\* counter on.  The rows of an adopted address are on tables its record names.
AdoptInv ==
  phase = "adopting" =>
    /\ \A a \in Address \ stray : \A t \in TablesOf(rows, a) : BackendsOf(tablesRead[t]) \subseteq given[a]
    /\ IdLeft => \A t \in TableId : t >= next_table_id => BackendsOf(tablesRead[t]) = {}
    /\ \A a \in Address \ (stray \cup todo) : TablesOf(rows, a) \subseteq {lbs[a].table} \cup lbs[a].others

LbInv == LbTypeOK /\ GivenInv /\ ApartInv /\ FreshInv /\ RecordInv /\ TodoInv /\ AdoptInv

Rows == [Address -> [SvcPort -> 0 .. MaxTable]]
Slots == [Slot -> Backend \cup {NoBackend}]

-----------------------------------------------------------------------------
(* Rows, tables and slots *)

\* The tables of an address, by its rows.
LEMMA TablesAre ==
  ASSUME NEW r \in Rows, NEW a \in Address
  PROVE  /\ TablesOf(r, a) \subseteq TableId
         /\ \A t : t \in TablesOf(r, a) <=> t # 0 /\ \E p \in SvcPort : r[a][p] = t
<1>1. \A t : t \in TablesOf(r, a) <=> t # 0 /\ \E p \in SvcPort : r[a][p] = t
  BY Zenon DEF TablesOf
<1>2. \A p \in SvcPort : r[a][p] \in 0 .. MaxTable
  BY Zenon DEF Rows
<1> QED
  BY <1>1, <1>2, LoadBalancersAssumption DEF TableId

\* What a row may lead to are backends.
LEMMA BackendsAre ==
  ASSUME NEW f \in Slots
  PROVE  /\ BackendsOf(f) \subseteq Backend
         /\ \A b : b \in BackendsOf(f) <=> b # NoBackend /\ \E s \in Slot : f[s] = b
BY Zenon DEF BackendsOf, Slots

\* A table is read by its id.
LEMMA TableIs ==
  ASSUME NEW m \in Maglev, NEW t \in TableId
  PROVE  m[t] \in Slots
BY Zenon DEF Maglev, Slots

\* Reached, by the tables.
LEMMA ReachedIs ==
  ASSUME NEW r \in Rows, NEW m, NEW a \in Address, NEW G
  PROVE  Reached(r, m, a, SvcPort) \subseteq G <=> \A t \in TablesOf(r, a) : BackendsOf(m[t]) \subseteq G
<1>1. \A p \in {x \in SvcPort : r[a][x] # 0} : r[a][p] \in TablesOf(r, a)
  BY TablesAre, Zenon
<1>2. \A t \in TablesOf(r, a) : \E p \in {x \in SvcPort : r[a][x] # 0} : r[a][p] = t
  BY TablesAre
<1>3. Reached(r, m, a, SvcPort) = UNION {BackendsOf(m[r[a][p]]) : p \in {x \in SvcPort : r[a][x] # 0}}
  BY Zenon DEF Reached
<1>4. ASSUME Reached(r, m, a, SvcPort) \subseteq G, NEW t \in TablesOf(r, a), NEW b \in BackendsOf(m[t])
      PROVE  b \in G
  BY <1>2, <1>3, <1>4, Zenon
<1>5. ASSUME \A t \in TablesOf(r, a) : BackendsOf(m[t]) \subseteq G, NEW b \in Reached(r, m, a, SvcPort)
      PROVE  b \in G
  BY <1>1, <1>3, <1>5, Zenon
<1> QED
  BY <1>4, <1>5, Zenon

\* What one port leads to.
LEMMA PortReaches ==
  ASSUME NEW r, NEW m, NEW a \in Address, NEW p \in SvcPort
  PROVE  Reached(r, m, a, {p}) # {} <=> r[a][p] # 0 /\ BackendsOf(m[r[a][p]]) # {}
<1>1. CASE r[a][p] = 0
  <2>1. {x \in {p} : r[a][x] # 0} = {}
    BY <1>1, Zenon
  <2> QED
    BY <1>1, <2>1, Zenon DEF Reached
<1>2. CASE r[a][p] # 0
  <2>1. {x \in {p} : r[a][x] # 0} = {p}
    BY <1>2, Zenon
  <2>2. Reached(r, m, a, {p}) = UNION {BackendsOf(m[r[a][q]]) : q \in {p}}
    BY <2>1, Zenon DEF Reached
  <2>3. Reached(r, m, a, {p}) = BackendsOf(m[r[a][p]])
    BY <2>2, Zenon
  <2> QED
    BY <1>2, <2>3, Zenon
<1> QED
  BY <1>1, <1>2, Zenon

\* point_rows moves the rows it is given and no other.
LEMMA PointedIs ==
  ASSUME NEW r \in Rows, NEW a \in Address, NEW P, NEW t \in 0 .. MaxTable
  PROVE  /\ Pointed(r, a, P, t) \in Rows
         /\ \A p \in SvcPort : Pointed(r, a, P, t)[a][p] = IF p \in P THEN t ELSE r[a][p]
         /\ \A c \in Address \ {a} : Pointed(r, a, P, t)[c] = r[c]
         /\ \A c \in Address \ {a} : TablesOf(Pointed(r, a, P, t), c) = TablesOf(r, c)
         /\ TablesOf(Pointed(r, a, P, t), a) \subseteq (TablesOf(r, a) \cup {t}) \ {0}
<1> DEFINE q == Pointed(r, a, P, t)
<1>1. q = [r EXCEPT ![a] = [p \in SvcPort |-> IF p \in P THEN t ELSE r[a][p]]]
  BY Zenon DEF Pointed
<1>2. \A p \in SvcPort : r[a][p] \in 0 .. MaxTable
  BY Zenon DEF Rows
<1>3. [p \in SvcPort |-> IF p \in P THEN t ELSE r[a][p]] \in [SvcPort -> 0 .. MaxTable]
  BY <1>2, Zenon
<1>4. q \in Rows
  BY <1>1, <1>3, Zenon DEF Rows
<1>5. \A p \in SvcPort : q[a][p] = IF p \in P THEN t ELSE r[a][p]
  BY <1>1, Zenon DEF Rows
<1>6. \A c \in Address \ {a} : q[c] = r[c]
  BY <1>1, Zenon DEF Rows
<1>7. \A c \in Address \ {a} : TablesOf(q, c) = TablesOf(r, c)
  BY <1>6, Zenon DEF TablesOf
<1>8. TablesOf(q, a) \subseteq (TablesOf(r, a) \cup {t}) \ {0}
  BY <1>5, Zenon DEF TablesOf
<1> QED
  BY <1>4, <1>5, <1>6, <1>7, <1>8, Zenon

\* write_table adds the new backends, leaves a table that had backends with some, and,
\* when it gets to the end, one with only the new ones.
LEMMA WrittenIs ==
  ASSUME NEW old \in Slots, NEW B \in SUBSET Backend, NEW f \in [Slot -> B],
         NEW c \in 1 .. TableSize + 1
  PROVE  /\ Written(old, f, c) \in Slots
         /\ BackendsOf(Written(old, f, c)) \subseteq BackendsOf(old) \cup B
         /\ BackendsOf(old) # {} => BackendsOf(Written(old, f, c)) # {}
         /\ c > TableSize => BackendsOf(Written(old, f, c)) # {}
<1> DEFINE w == Written(old, f, c)
<1>1. \A s \in Slot : w[s] = IF s < c THEN f[s] ELSE old[s]
  BY Zenon DEF Written
<1>2. w \in Slots
  BY Zenon DEF Written, Slots
<1>3. NoBackend \notin B
  BY LoadBalancersAssumption, Zenon
<1>4. ASSUME NEW s \in Slot PROVE w[s] = f[s] \/ w[s] = old[s]
  BY <1>1, Zenon
<1>5. BackendsOf(w) \subseteq BackendsOf(old) \cup B
  <2> HIDE DEF w
  <2> QED
    BY <1>2, <1>4, BackendsAre
<1>6. ASSUME BackendsOf(old) # {} PROVE BackendsOf(w) # {}
  <2> HIDE DEF w
  <2>1. PICK s \in Slot : old[s] # NoBackend
    BY <1>6, BackendsAre, Zenon
  <2>2. w[s] # NoBackend
    BY <1>3, <1>4, <2>1, Zenon
  <2> QED
    BY <1>2, <2>2, BackendsAre, Zenon
<1>7. ASSUME c > TableSize PROVE BackendsOf(w) # {}
  <2>1. 1 \in Slot
    BY LoadBalancersAssumption DEF Slot
  <2>2. w[1] = f[1]
    BY <1>1, <1>7, <2>1, LoadBalancersAssumption
  <2> HIDE DEF w
  <2>3. w[1] # NoBackend
    BY <1>3, <2>1, <2>2, Zenon
  <2> QED
    BY <1>2, <2>1, <2>3, BackendsAre, Zenon
<1> QED
  BY <1>2, <1>5, <1>6, <1>7, Zenon

\* Removing slots touches no other table and adds nothing.
LEMMA ClearedIs ==
  ASSUME NEW m \in Maglev, NEW T, NEW kept
  PROVE  /\ Cleared(m, T, kept) \in Maglev
         /\ \A t \in TableId : BackendsOf(Cleared(m, T, kept)[t]) \subseteq BackendsOf(m[t])
         /\ \A t \in TableId \ T : Cleared(m, T, kept)[t] = m[t]
<1> DEFINE q == Cleared(m, T, kept)
<1>1. \A t \in TableId : q[t] = IF t \in T THEN [s \in Slot |-> IF s \in kept THEN m[t][s] ELSE NoBackend] ELSE m[t]
  BY Zenon DEF Cleared
<1>2. \A t \in TableId : m[t] \in Slots
  BY TableIs, Zenon
<1>3. \A t \in TableId : q[t] \in Slots
  <2> SUFFICES ASSUME NEW t \in TableId PROVE q[t] \in Slots
    OBVIOUS
  <2>1. [s \in Slot |-> IF s \in kept THEN m[t][s] ELSE NoBackend] \in Slots
    BY <1>2, Zenon DEF Slots
  <2> QED
    BY <1>1, <1>2, <2>1, Zenon
<1>4. q \in Maglev
  BY <1>3, Zenon DEF Cleared, Maglev, Slots
<1>5. ASSUME NEW t \in TableId, NEW s \in Slot PROVE q[t][s] = NoBackend \/ q[t][s] = m[t][s]
  BY <1>1, Zenon
<1> HIDE DEF q
<1>6. \A t \in TableId : BackendsOf(q[t]) \subseteq BackendsOf(m[t])
  BY <1>2, <1>3, <1>5, BackendsAre
<1> QED
  BY <1>1, <1>4, <1>6, Zenon DEF q

\* The slots of a copy are the old ones and the copied ones.
LEMMA CopiedIs ==
  ASSUME NEW old \in Slots, NEW slots \in Slots, NEW R
  PROVE  /\ Copied(old, slots, R) \in Slots
         /\ BackendsOf(Copied(old, slots, R)) \subseteq BackendsOf(old) \cup BackendsOf(slots)
         /\ R = Slot /\ BackendsOf(slots) # {} => BackendsOf(Copied(old, slots, R)) # {}
<1> DEFINE q == Copied(old, slots, R)
<1>1. \A s \in Slot : q[s] = IF slots[s] = NoBackend THEN old[s] ELSE IF s \in R THEN slots[s] ELSE NoBackend
  BY Zenon DEF Copied
<1>2. q \in Slots
  BY Zenon DEF Copied, Slots
<1> HIDE DEF q
<1>3. BackendsOf(q) \subseteq BackendsOf(old) \cup BackendsOf(slots)
  BY <1>1, <1>2, BackendsAre
<1>4. ASSUME R = Slot, BackendsOf(slots) # {} PROVE BackendsOf(q) # {}
  <2>1. PICK s \in Slot : slots[s] # NoBackend
    BY <1>4, BackendsAre, Zenon
  <2>2. q[s] = slots[s]
    BY <1>1, <1>4, <2>1, Zenon
  <2> QED
    BY <1>2, <2>1, <2>2, BackendsAre, Zenon
<1> QED
  BY <1>2, <1>3, <1>4, Zenon DEF q

\* The lower of two numbers.
LEMMA LowerOf ==
  ASSUME NEW m \in Nat, NEW n \in Nat
  PROVE  Min({m, n}) = IF m <= n THEN m ELSE n
<1>1. \E x \in {m, n} : \A y \in {m, n} : x <= y
  OBVIOUS
<1>2. Min({m, n}) \in {m, n} /\ \A y \in {m, n} : Min({m, n}) <= y
  BY <1>1, Zenon DEF Min
<1> QED
  BY <1>2

\* The counter starts above every table in use, as long as there are ids.
LEMMA FirstFreeIs ==
  ASSUME NEW r \in Rows, NEW m \in Maglev
  PROVE  /\ FirstFree(r, m) \in TableId
         /\ FirstFree(r, m) < MaxTable =>
              \A t \in TableId : (\E a \in Address : t \in TablesOf(r, a)) \/ BackendsOf(m[t]) # {}
                                => t < FirstFree(r, m)
<1> DEFINE U == {t \in TableId : \/ \E a \in Address : t \in TablesOf(r, a)
                                \/ BackendsOf(m[t]) # {}}
           X == {0} \cup U
<1>1. X \in SUBSET Nat /\ X # {} /\ MaxTable \in Nat \ {0}
  BY LoadBalancersAssumption DEF TableId
<1>2. \A y \in X : y <= MaxTable
  BY <1>1, LoadBalancersAssumption DEF TableId
<1>3. FirstFree(r, m) = Min({MaxTable, 1 + Max(X)})
  BY Zenon DEF FirstFree
<1>4. \A t \in TableId : (\E a \in Address : t \in TablesOf(r, a)) \/ BackendsOf(m[t]) # {} => t \in X
  OBVIOUS
<1> HIDE DEF U, X
<1>5. Max(X) \in X /\ \A y \in X : y <= Max(X)
  <2>1. \E x \in X : \A y \in X : y <= x
    BY <1>1, <1>2, GreatestExists, Zenon
  <2>2. PICK x \in X : \A y \in X : x >= y
    BY <1>1, <2>1, Zenon
  <2>3. Max(X) \in X /\ \A y \in X : Max(X) >= y
    BY <2>2, Zenon DEF Max
  <2> QED
    BY <1>1, <2>3, Zenon
<1>6. PICK top \in Nat : top = Max(X)
  BY <1>1, <1>5, Zenon
<1>7. FirstFree(r, m) = IF MaxTable <= 1 + top THEN MaxTable ELSE 1 + top
  BY <1>1, <1>3, <1>6, LowerOf
<1>8. FirstFree(r, m) \in TableId
  BY <1>1, <1>7 DEF TableId
<1>9. ASSUME FirstFree(r, m) < MaxTable, NEW t \in X PROVE t < FirstFree(r, m)
  <2>1. t \in Nat /\ t <= top
    BY <1>1, <1>5, <1>6, Zenon
  <2> QED
    BY <1>1, <1>7, <1>9, <2>1
<1> QED
  BY <1>4, <1>8, <1>9, Zenon

\* The main table is one of the address's, and has backends if one of them has.
LEMMA MainTableIs ==
  ASSUME NEW r \in Rows, NEW m, NEW a \in Address, TablesOf(r, a) # {}
  PROVE  /\ MainTable(r, m, a) \in TablesOf(r, a)
         /\ BackendsOf(m[MainTable(r, m, a)]) = {} => \A t \in TablesOf(r, a) : BackendsOf(m[t]) = {}
<1> DEFINE full == {t \in TablesOf(r, a) : BackendsOf(m[t]) # {}}
           best == IF full # {} THEN full ELSE TablesOf(r, a)
           n(t) == Cardinality(OnTable(r, a, t))
           most == {t \in best : \A u \in best : n(t) >= n(u)}
<1>1. MainTable(r, m, a) = Min(most)
  BY Zenon DEF MainTable
<1>2. best # {} /\ best \subseteq TablesOf(r, a)
  OBVIOUS
<1>3. \A t : n(t) \in Nat /\ n(t) <= Cardinality(SvcPort)
  <2> SUFFICES ASSUME NEW t PROVE n(t) \in Nat /\ n(t) <= Cardinality(SvcPort)
    OBVIOUS
  <2>1. OnTable(r, a, t) \in SUBSET SvcPort
    BY Zenon DEF OnTable
  <2>2. IsFiniteSet(OnTable(r, a, t)) /\ Cardinality(OnTable(r, a, t)) <= Cardinality(SvcPort)
    BY <2>1, FS_Subset, LoadBalancersAssumption, Zenon
  <2> QED
    BY <2>2, FS_CardinalityType, Zenon
<1>4. Cardinality(SvcPort) \in Nat
  BY FS_CardinalityType, LoadBalancersAssumption, Zenon
<1>5. ASSUME BackendsOf(m[MainTable(r, m, a)]) = {}, MainTable(r, m, a) \in best
      PROVE  \A t \in TablesOf(r, a) : BackendsOf(m[t]) = {}
  BY <1>5, Zenon
<1> HIDE DEF best, n
<1>6. most # {}
  <2> DEFINE N == {n(t) : t \in best}
  <2>1. N \in SUBSET Nat /\ N # {} /\ \A y \in N : y <= Cardinality(SvcPort)
    BY <1>2, <1>3, Zenon
  <2>2. \E x \in N : \A y \in N : y <= x
    <3> HIDE DEF N
    <3> QED
      BY <1>4, <2>1, GreatestExists, Zenon
  <2>3. PICK t \in best : \A y \in N : y <= n(t)
    BY <2>2, Zenon
  <2>4. \A u \in best : n(u) <= n(t)
    BY <2>3, Zenon
  <2>5. \A u \in best : n(t) >= n(u)
    BY <1>3, <2>4, Zenon
  <2> QED
    BY <2>5, Zenon
<1>7. most \subseteq best
  OBVIOUS
<1> HIDE DEF most
<1>8. most \in SUBSET Nat
  BY <1>2, <1>7, TablesAre DEF TableId
<1>9. Min(most) \in most
  <2>1. \E x \in most : \A y \in most : x <= y
    BY <1>6, <1>8, LeastExists, Zenon
  <2> QED
    BY <2>1, Zenon DEF Min
<1> QED
  BY <1>1, <1>2, <1>5, <1>7, <1>9, Zenon
-----------------------------------------------------------------------------
(* The repairs of one address *)

\* The main table of an address to adopt, as the walk read the tables.
Main(a) == MainTable(rows, tablesRead, a)
\* The rows after the repairs of address a.
RowsAfter(a, home, refill, stuck) == Pointed(rows, a, Moved(a, Main(a), refill) \ stuck, home.table)

\* The main table of an address still to adopt.
LEMMA MainIs ==
  ASSUME LbTypeOK, TodoInv, NEW a \in todo
  PROVE  /\ a \in Address /\ Main(a) \in TablesOf(rows, a) /\ Main(a) \in TableId
         /\ tablesRead[Main(a)] \in Slots
         /\ IdLeft => Main(a) # next_table_id /\ Main(a) < next_table_id
         /\ BackendsOf(maglev[Main(a)]) = {} <=> BackendsOf(tablesRead[Main(a)]) = {}
         /\ BackendsOf(tablesRead[Main(a)]) = {} =>
              \A t \in TablesOf(rows, a) : BackendsOf(tablesRead[t]) = {}
<1>1. a \in Address /\ rows \in Rows /\ tablesRead \in Maglev /\ next_table_id \in Nat
  BY DEF LbTypeOK, Rows, TableId
<1>2. TablesOf(rows, a) # {}
  BY Zenon DEF TodoInv
<1>3. Main(a) \in TablesOf(rows, a)
  BY <1>1, <1>2, MainTableIs, Zenon DEF Main
<1>4. Main(a) \in TableId
  BY <1>1, <1>3, TablesAre, Zenon
<1>5. tablesRead[Main(a)] \in Slots
  BY <1>1, <1>4, TableIs, Zenon
<1>6. IdLeft => Main(a) # next_table_id /\ Main(a) < next_table_id
  BY <1>1, <1>3, <1>4 DEF TodoInv, TableId
<1>7. BackendsOf(maglev[Main(a)]) = {} <=> BackendsOf(tablesRead[Main(a)]) = {}
  BY <1>3, Zenon DEF TodoInv
<1>8. BackendsOf(tablesRead[Main(a)]) = {} => \A t \in TablesOf(rows, a) : BackendsOf(tablesRead[t]) = {}
  BY <1>1, <1>2, MainTableIs, Zenon DEF Main
<1> QED
  BY <1>1, <1>3, <1>4, <1>5, <1>6, <1>7, <1>8, Zenon

\* The table an address is adopted on: only the next table is written.
LEMMA HomesAre ==
  ASSUME LbTypeOK, NEW main \in TableId, NEW home \in Homes(main)
  PROVE  /\ home.maglev \in Maglev
         /\ \A t \in TableId \ {next_table_id} : home.maglev[t] = maglev[t]
         /\ ~IdLeft => home.maglev = maglev
         /\ \/ home.table = main /\ home.ok /\ main \notin owned /\ home.maglev = maglev
            \/ home.table = main /\ ~home.ok /\ main \in owned
            \/ /\ home.table = next_table_id /\ home.ok /\ main \in owned /\ IdLeft
               /\ BackendsOf(home.maglev[next_table_id]) \subseteq
                    BackendsOf(maglev[next_table_id]) \cup BackendsOf(tablesRead[main])
               /\ BackendsOf(tablesRead[main]) # {} => BackendsOf(home.maglev[next_table_id]) # {}
<1> DEFINE n == next_table_id
           on(t, R, ok) == [table |-> t, ok |-> ok,
                            maglev |-> [maglev EXCEPT ![n] = Copied(maglev[n], tablesRead[main], R)]]
<1>1. maglev \in Maglev /\ tablesRead \in Maglev /\ n \in TableId
  BY Zenon DEF LbTypeOK
<1>2. maglev[n] \in Slots /\ tablesRead[main] \in Slots
  BY <1>1, TableIs, Zenon
<1>3. CASE main \notin owned
  BY <1>1, <1>3 DEF Homes
<1>4. CASE main \in owned /\ ~IdLeft
  BY <1>1, <1>4 DEF Homes
<1>5. CASE main \in owned /\ IdLeft
  <2>1. home = on(n, Slot, TRUE) \/ \E R \in SUBSET Slot : home = on(main, R, FALSE)
    BY <1>5, Zenon DEF Homes
  <2>2. PICK R, t, ok : /\ home = on(t, R, ok)
                        /\ (t = n /\ ok = TRUE /\ R = Slot) \/ (t = main /\ ok = FALSE)
    BY <2>1, Zenon
  <2> DEFINE c == Copied(maglev[n], tablesRead[main], R)
  <2>3. /\ c \in Slots
        /\ BackendsOf(c) \subseteq BackendsOf(maglev[n]) \cup BackendsOf(tablesRead[main])
        /\ R = Slot /\ BackendsOf(tablesRead[main]) # {} => BackendsOf(c) # {}
    BY <1>2, CopiedIs, Zenon
  <2>4. home.maglev = [maglev EXCEPT ![n] = c] /\ home.table = t /\ home.ok = ok
    BY <2>2, Zenon
  <2> HIDE DEF c
  <2>5. home.maglev \in Maglev
    BY <1>1, <2>3, <2>4, Zenon DEF Maglev, Slots
  <2>6. home.maglev[n] = c /\ \A u \in TableId \ {n} : home.maglev[u] = maglev[u]
    BY <1>1, <2>4, Zenon DEF Maglev
  <2> QED
    BY <1>5, <2>2, <2>3, <2>4, <2>5, <2>6, Zenon
<1> QED
  BY <1>3, <1>4, <1>5, Zenon

\* The refill writes that table only, with the backends that were read, and does not
\* empty it.
LEMMA RefillsAre ==
  ASSUME NEW home, home.maglev \in Maglev, home.table \in TableId, NEW slots \in Slots,
         NEW refill \in Refills(home, slots)
  PROVE  /\ refill.maglev \in Maglev
         /\ \A t \in TableId \ {home.table} : refill.maglev[t] = home.maglev[t]
         /\ BackendsOf(refill.maglev[home.table]) \subseteq
              BackendsOf(home.maglev[home.table]) \cup BackendsOf(slots)
         /\ BackendsOf(home.maglev[home.table]) # {} => BackendsOf(refill.maglev[home.table]) # {}
         /\ BackendsOf(slots) = {} => refill.maglev = home.maglev
         /\ refill.ok => BackendsOf(slots) # {}
<1> DEFINE B == BackendsOf(slots)
           old == home.maglev[home.table]
<1>1. B \in SUBSET Backend
  BY BackendsAre, Zenon
<1>2. old \in Slots
  BY TableIs, Zenon
<1>3. CASE B # {} /\ \E s \in Slot : slots[s] = NoBackend
  <2>1. PICK f \in Builds(B), c \in 1 .. TableSize + 1 :
          refill = [maglev |-> [home.maglev EXCEPT ![home.table] = Written(old, f, c)], ok |-> c > TableSize]
    BY <1>3 DEF Refills
  <2>2. f \in [Slot -> B]
    BY Zenon DEF Builds
  <2> DEFINE w == Written(old, f, c)
  <2>3. /\ w \in Slots /\ BackendsOf(w) \subseteq BackendsOf(old) \cup B
        /\ BackendsOf(old) # {} => BackendsOf(w) # {}
    <3> HIDE DEF B, old
    <3> QED
      BY <1>1, <1>2, <2>2, WrittenIs, Zenon
  <2>4. refill.maglev = [home.maglev EXCEPT ![home.table] = w]
    BY <2>1, Zenon
  <2> HIDE DEF w
  <2>5. refill.maglev \in Maglev
    BY <2>3, <2>4, Zenon DEF Maglev, Slots
  <2>6. refill.maglev[home.table] = w /\ \A t \in TableId \ {home.table} : refill.maglev[t] = home.maglev[t]
    BY <2>4, Zenon DEF Maglev
  <2> QED
    BY <1>3, <2>3, <2>5, <2>6, Zenon
<1>4. CASE ~(B # {} /\ \E s \in Slot : slots[s] = NoBackend)
  <2>1. refill = [maglev |-> home.maglev, ok |-> B # {}]
    BY <1>4 DEF Refills
  <2> QED
    BY <2>1, Zenon
<1> QED
  BY <1>3, <1>4, Zenon

\* Who loses hold of a row by the copy an address is adopted on.
Lost(a, home) == stray \cup (IF home.table # Main(a) THEN Entangled(a, home.table) ELSE {})

\* What the repairs of one address do to the maps: rows of other addresses stay; a table
\* other than the main one and the next one is not written; the main one may gain the
\* backends that were read from it, and is not emptied.
LEMMA RepairIs ==
  ASSUME LbTypeOK, TodoInv, NEW a \in todo, NEW home \in Homes(Main(a)),
         NEW refill \in Refills(home, tablesRead[Main(a)]), NEW stuck
  PROVE  /\ home.table \in TableId
         /\ home.table = Main(a) \/ (home.table = next_table_id /\ IdLeft /\ Main(a) \in owned /\ home.ok)
         /\ home.table = Main(a) /\ home.ok => Main(a) \notin owned
         /\ refill.maglev \in Maglev
         /\ RowsAfter(a, home, refill, stuck) \in Rows
         /\ \A c \in Address \ {a} : TablesOf(RowsAfter(a, home, refill, stuck), c) = TablesOf(rows, c)
         /\ TablesOf(RowsAfter(a, home, refill, stuck), a) \subseteq TablesOf(rows, a) \cup {home.table}
         /\ \A t \in TableId : t # Main(a) /\ (t # next_table_id \/ ~IdLeft) => refill.maglev[t] = maglev[t]
         /\ BackendsOf(refill.maglev[Main(a)]) \subseteq
              BackendsOf(maglev[Main(a)]) \cup BackendsOf(tablesRead[Main(a)])
         /\ BackendsOf(maglev[Main(a)]) # {} => BackendsOf(refill.maglev[Main(a)]) # {}
         /\ BackendsOf(tablesRead[Main(a)]) = {} => refill.maglev[Main(a)] = maglev[Main(a)]
<1> DEFINE main == Main(a)
           n == next_table_id
<1>1. /\ a \in Address /\ main \in TableId /\ tablesRead[main] \in Slots
      /\ IdLeft => main # n
  BY MainIs, Zenon
<1>2. rows \in Rows /\ maglev \in Maglev /\ n \in TableId
  BY Zenon DEF LbTypeOK, Rows
<1> HIDE DEF main
<1>3. home \in Homes(main) /\ refill \in Refills(home, tablesRead[main])
  BY Zenon DEF main
<1>4. /\ home.maglev \in Maglev
      /\ \A t \in TableId \ {n} : home.maglev[t] = maglev[t]
      /\ ~IdLeft => home.maglev = maglev
      /\ home.table = main \/ (home.table = n /\ IdLeft /\ main \in owned /\ home.ok)
      /\ home.table = main /\ home.ok => main \notin owned
  BY <1>1, <1>2, <1>3, HomesAre, Zenon
<1>5. home.table \in TableId
  BY <1>1, <1>2, <1>4, Zenon
<1>6. /\ refill.maglev \in Maglev
      /\ \A t \in TableId \ {home.table} : refill.maglev[t] = home.maglev[t]
      /\ BackendsOf(refill.maglev[home.table]) \subseteq
           BackendsOf(home.maglev[home.table]) \cup BackendsOf(tablesRead[main])
      /\ BackendsOf(home.maglev[home.table]) # {} => BackendsOf(refill.maglev[home.table]) # {}
      /\ BackendsOf(tablesRead[main]) = {} => refill.maglev = home.maglev
  BY <1>1, <1>3, <1>4, <1>5, RefillsAre
<1>7. home.maglev[main] = maglev[main]
  BY <1>1, <1>2, <1>4, Zenon
<1>8. \A t \in TableId : t # main /\ (t # n \/ ~IdLeft) => refill.maglev[t] = maglev[t]
  BY <1>4, <1>6
<1>9. /\ BackendsOf(refill.maglev[main]) \subseteq BackendsOf(maglev[main]) \cup BackendsOf(tablesRead[main])
      /\ BackendsOf(maglev[main]) # {} => BackendsOf(refill.maglev[main]) # {}
      /\ BackendsOf(tablesRead[main]) = {} => refill.maglev[main] = maglev[main]
  <2>1. CASE home.table = main
    BY <1>6, <1>7, <2>1, Zenon
  <2>2. CASE home.table # main
    BY <1>1, <1>6, <1>7, <2>2, Zenon
  <2> QED
    BY <2>1, <2>2, Zenon
<1> DEFINE q == RowsAfter(a, home, refill, stuck)
<1>10. /\ q \in Rows
       /\ \A c \in Address \ {a} : TablesOf(q, c) = TablesOf(rows, c)
       /\ TablesOf(q, a) \subseteq TablesOf(rows, a) \cup {home.table}
  <2>1. home.table \in 0 .. MaxTable
    BY <1>5, LoadBalancersAssumption DEF TableId
  <2> QED
    BY <1>1, <1>2, <2>1, PointedIs DEF RowsAfter
<1> QED
  BY <1>4, <1>5, <1>6, <1>8, <1>9, <1>10, Zenon DEF main

\* The repairs leave every address with backends it was given.
LEMMA RepairGives ==
  ASSUME LbTypeOK, TodoInv, GivenInv, FreshInv, AdoptInv, phase = "adopting",
         NEW a \in todo, NEW home \in Homes(Main(a)),
         NEW refill \in Refills(home, tablesRead[Main(a)]), NEW stuck,
         NEW c \in Address \ Lost(a, home)
  PROVE  Reached(RowsAfter(a, home, refill, stuck), refill.maglev, c, SvcPort) \subseteq given[c]
<1> DEFINE main == Main(a)
           n == next_table_id
           q == RowsAfter(a, home, refill, stuck)
<1>1. /\ home.table = main \/ (home.table = n /\ IdLeft)
      /\ q \in Rows
      /\ \A d \in Address \ {a} : TablesOf(q, d) = TablesOf(rows, d)
      /\ TablesOf(q, a) \subseteq TablesOf(rows, a) \cup {home.table}
      /\ \A t \in TableId : t # main /\ (t # n \/ ~IdLeft) => refill.maglev[t] = maglev[t]
      /\ BackendsOf(refill.maglev[main]) \subseteq BackendsOf(maglev[main]) \cup BackendsOf(tablesRead[main])
  BY RepairIs
<1>2. /\ a \in Address /\ main \in TablesOf(rows, a) /\ main \in TableId
      /\ tablesRead[main] \in Slots
      /\ IdLeft => main # n
  BY MainIs, Zenon
<1>3. rows \in Rows /\ n \in TableId /\ n \in Nat
  BY DEF LbTypeOK, Rows, TableId
<1>4. c \in Address /\ c \notin stray
  BY Zenon DEF Lost
<1>5. ASSUME NEW t \in TablesOf(rows, c) PROVE BackendsOf(refill.maglev[t]) \subseteq given[c]
  <2>1. BackendsOf(maglev[t]) \subseteq given[c]
    BY <1>3, <1>4, <1>5, ReachedIs, Zenon DEF GivenInv
  <2>2. BackendsOf(tablesRead[t]) \subseteq given[c]
    BY <1>4, <1>5, Zenon DEF AdoptInv
  <2>3. t \in TableId /\ (t # n \/ ~IdLeft)
    BY <1>3, <1>4, <1>5, TablesAre DEF FreshInv, TableId
  <2> QED
    BY <1>1, <2>1, <2>2, <2>3, Zenon
<1>6. ASSUME c = a, home.table # main PROVE BackendsOf(refill.maglev[home.table]) \subseteq given[c]
  <2>1. home.table = n /\ IdLeft
    BY <1>1, <1>6, Zenon
  <2>2. BackendsOf(tablesRead[main]) \subseteq given[c]
    BY <1>2, <1>4, <1>6, Zenon DEF AdoptInv
  <2>3. BackendsOf(maglev[n]) = {}
    <3>1. CASE unsure
      <4>1. c \notin Entangled(a, n)
        BY <1>6, <2>1, Zenon DEF Lost
      <4> QED
        BY <1>6, <3>1, <4>1, Zenon DEF Entangled
    <3>2. CASE ~unsure
      BY <1>3, <2>1, <3>2 DEF FreshInv
    <3> QED
      BY <3>1, <3>2, Zenon
  <2>4. home.maglev \in Maglev /\ BackendsOf(home.maglev[n]) \subseteq BackendsOf(maglev[n]) \cup BackendsOf(tablesRead[main])
    <3> HIDE DEF main
    <3>1. home \in Homes(main)
      BY Zenon DEF main
    <3> QED
      BY <1>2, <1>6, <2>1, <3>1, HomesAre, Zenon
  <2>5. BackendsOf(refill.maglev[n]) \subseteq BackendsOf(home.maglev[n]) \cup BackendsOf(tablesRead[main])
    BY <1>2, <1>3, <2>1, <2>4, RefillsAre, Zenon
  <2> QED
    BY <2>1, <2>2, <2>3, <2>4, <2>5, Zenon
<1>7. \A t \in TablesOf(q, c) : BackendsOf(refill.maglev[t]) \subseteq given[c]
  <2> HIDE DEF q, main
  <2>1. CASE c # a
    BY <1>1, <1>4, <1>5, <2>1, Zenon
  <2>2. CASE c = a
    BY <1>1, <1>2, <1>5, <1>6, <2>2, Zenon
  <2> QED
    BY <2>1, <2>2, Zenon
<1> QED
  BY <1>1, <1>4, <1>7, ReachedIs, Zenon

\* The repairs leave no port without backends that had some.
LEMMA RepairServes ==
  ASSUME LbTypeOK, TodoInv, FreshInv, phase = "adopting",
         NEW a \in todo, NEW home \in Homes(Main(a)),
         NEW refill \in Refills(home, tablesRead[Main(a)]), NEW stuck,
         NEW c \in Address \ stray, NEW p \in SvcPort, Reached(rows, maglev, c, {p}) # {}
  PROVE  Reached(RowsAfter(a, home, refill, stuck), refill.maglev, c, {p}) # {}
<1> DEFINE main == Main(a)
           n == next_table_id
           q == RowsAfter(a, home, refill, stuck)
           t == rows[c][p]
<1>1. /\ home.table = main \/ (home.table = n /\ IdLeft)
      /\ home.table \in TableId
      /\ \A u \in TableId : u # main /\ (u # n \/ ~IdLeft) => refill.maglev[u] = maglev[u]
      /\ BackendsOf(maglev[main]) # {} => BackendsOf(refill.maglev[main]) # {}
  BY RepairIs
<1>2. /\ a \in Address /\ main \in TablesOf(rows, a) /\ main \in TableId
      /\ tablesRead[main] \in Slots
      /\ IdLeft => main # n
      /\ BackendsOf(maglev[main]) = {} <=> BackendsOf(tablesRead[main]) = {}
  BY MainIs, Zenon
<1>3. rows \in Rows /\ n \in TableId /\ n \in Nat
  BY DEF LbTypeOK, Rows, TableId
<1>4. t # 0 /\ BackendsOf(maglev[t]) # {}
  BY PortReaches, Zenon
<1>5. t \in TablesOf(rows, c) /\ t \in TableId
  BY <1>3, <1>4, TablesAre, Zenon
<1>6. BackendsOf(refill.maglev[t]) # {}
  <2>1. t # n \/ ~IdLeft
    BY <1>3, <1>5 DEF FreshInv, TableId
  <2> QED
    BY <1>1, <1>4, <1>5, <2>1, Zenon
<1>7. /\ \A x \in SvcPort : q[a][x] = IF x \in Moved(a, main, refill) \ stuck THEN home.table ELSE rows[a][x]
      /\ \A d \in Address \ {a} : q[d] = rows[d]
  <2>1. home.table \in 0 .. MaxTable
    BY <1>1, LoadBalancersAssumption DEF TableId
  <2> QED
    BY <1>2, <1>3, <2>1, PointedIs DEF RowsAfter
<1>8. CASE q[c][p] = t
  BY <1>4, <1>6, <1>8, PortReaches, Zenon
<1>9. CASE q[c][p] # t
  <2>1. c = a /\ p \in Moved(a, main, refill) /\ q[c][p] = home.table
    BY <1>7, <1>9, Zenon
  <2>2. BackendsOf(tablesRead[main]) # {}
    <3>1. CASE refill.ok
      <4>1. home.maglev \in Maglev
        <5> HIDE DEF main
        <5>1. home \in Homes(main)
          BY Zenon DEF main
        <5> QED
          BY <1>2, <5>1, HomesAre, Zenon
      <4> QED
        BY <1>1, <1>2, <3>1, <4>1, RefillsAre, Zenon
    <3>2. CASE ~refill.ok
      <4>1. t = main
        BY <2>1, <3>2, Zenon DEF Moved, OnTable
      <4> QED
        BY <1>2, <1>4, <4>1, Zenon
    <3> QED
      BY <3>1, <3>2, Zenon
  <2>3. BackendsOf(refill.maglev[home.table]) # {}
    <3>1. CASE home.table = main
      BY <1>1, <1>2, <2>2, <3>1, Zenon
    <3>2. CASE home.table # main
      <4>1. home.maglev \in Maglev /\ BackendsOf(home.maglev[n]) # {}
        <5> HIDE DEF main
        <5>1. home \in Homes(main)
          BY Zenon DEF main
        <5> QED
          BY <1>1, <1>2, <2>2, <3>2, <5>1, HomesAre, Zenon
      <4> QED
        BY <1>1, <1>2, <3>2, <4>1, RefillsAre, Zenon
    <3> QED
      BY <3>1, <3>2, Zenon
  <2>4. home.table # 0
    BY <1>1 DEF TableId
  <2> QED
    BY <2>1, <2>3, <2>4, PortReaches, Zenon
<1> QED
  BY <1>8, <1>9, Zenon

\* The repairs leave the tables of the other addresses to adopt as they were read.
LEMMA RepairSpares ==
  ASSUME LbTypeOK, TodoInv, NEW a \in todo, NEW home \in Homes(Main(a)),
         NEW refill \in Refills(home, tablesRead[Main(a)]),
         NEW x \in todo, NEW t \in TablesOf(rows, x)
  PROVE  BackendsOf(refill.maglev[t]) = {} <=> BackendsOf(tablesRead[t]) = {}
<1> DEFINE main == Main(a)
           n == next_table_id
<1>1. /\ \A u \in TableId : u # main /\ (u # n \/ ~IdLeft) => refill.maglev[u] = maglev[u]
      /\ BackendsOf(maglev[main]) # {} => BackendsOf(refill.maglev[main]) # {}
      /\ BackendsOf(tablesRead[main]) = {} => refill.maglev[main] = maglev[main]
  BY RepairIs, Zenon
<1>2. BackendsOf(maglev[main]) = {} <=> BackendsOf(tablesRead[main]) = {}
  BY MainIs, Zenon
<1>3. rows \in Rows /\ x \in Address /\ n \in Nat
  BY DEF LbTypeOK, Rows, TableId
<1>4. t \in TableId /\ (t # n \/ ~IdLeft)
  BY <1>3, TablesAre DEF TodoInv, TableId
<1>5. BackendsOf(maglev[t]) = {} <=> BackendsOf(tablesRead[t]) = {}
  BY Zenon DEF TodoInv
<1>6. CASE t = main
  BY <1>1, <1>2, <1>6, Zenon
<1>7. CASE t # main
  BY <1>1, <1>4, <1>5, <1>7, Zenon
<1> QED
  BY <1>6, <1>7, Zenon

-----------------------------------------------------------------------------
(* The invariant, action by action *)

\* Rows that go, and slots that go, lead nowhere new.
LEMMA LessReached ==
  ASSUME NEW r \in Rows, NEW q \in Rows, NEW m, NEW w, NEW a \in Address, NEW G,
         Reached(r, m, a, SvcPort) \subseteq G,
         TablesOf(q, a) \subseteq TablesOf(r, a),
         \A t \in TablesOf(r, a) : BackendsOf(w[t]) \subseteq BackendsOf(m[t])
  PROVE  Reached(q, w, a, SvcPort) \subseteq G
<1>1. \A t \in TablesOf(r, a) : BackendsOf(m[t]) \subseteq G
  BY ReachedIs, Zenon
<1>2. \A t \in TablesOf(q, a) : BackendsOf(w[t]) \subseteq G
  BY <1>1, Zenon
<1> QED
  BY <1>2, ReachedIs, Zenon

\* A counted fault is within the bound.
LEMMA FaultType ==
  ASSUME lbFaults \in 0 .. MaxFaults, NEW bad, LbFault(bad)
  PROVE  lbFaults' \in 0 .. MaxFaults
BY LoadBalancersAssumption DEF LbFault

\* The rows of an address that was repaired are on the tables that its record names.
LEMMA RepairNames ==
  ASSUME LbTypeOK, TodoInv, NEW a \in todo, NEW home \in Homes(Main(a)),
         NEW refill \in Refills(home, tablesRead[Main(a)])
  PROVE  TablesOf(RowsAfter(a, home, refill, {}), a) \subseteq
           {home.table} \cup (IF refill.ok THEN {} ELSE TablesOf(rows, a) \ {Main(a)})
<1> DEFINE main == Main(a)
           q == RowsAfter(a, home, refill, {})
<1>1. a \in Address /\ rows \in Rows /\ home.table \in 0 .. MaxTable /\ q \in Rows
  <2>1. home.table \in TableId /\ q \in Rows
    BY RepairIs, Zenon
  <2>2. a \in Address /\ rows \in Rows
    BY MainIs, Zenon DEF LbTypeOK, Rows
  <2>3. home.table \in 0 .. MaxTable
    BY <2>1, LoadBalancersAssumption DEF TableId
  <2> QED
    BY <2>1, <2>2, <2>3, Zenon
<1>2. \A p \in SvcPort : q[a][p] = IF p \in Moved(a, main, refill) THEN home.table ELSE rows[a][p]
  BY <1>1, PointedIs DEF RowsAfter
<1> HIDE DEF q
<1>3. ASSUME NEW t \in TablesOf(q, a), t # home.table PROVE ~refill.ok /\ t \in TablesOf(rows, a) /\ t # main
  <2>1. PICK p \in SvcPort : q[a][p] = t /\ t # 0
    BY <1>1, <1>3, TablesAre
  <2>2. p \notin Moved(a, main, refill) /\ rows[a][p] = t
    BY <1>2, <1>3, <2>1, Zenon
  <2>3. t \in TablesOf(rows, a)
    BY <1>1, <2>1, <2>2, TablesAre, Zenon
  <2>4. ~refill.ok
    BY <2>1, <2>2, Zenon DEF Moved, OnTable
  <2>5. t # main
    BY <2>2, <2>4, Zenon DEF Moved, OnTable
  <2> QED
    BY <2>3, <2>4, <2>5, Zenon
<1> QED
  BY <1>3, Zenon DEF q

\* The invariant holds at the start, on whatever maps were left.
LEMMA LbInvInit ==
  ASSUME LbInit
  PROVE  LbInv
<1>1. PICK old \in OldMaps : rows = old.rows /\ maglev = old.maglev
  BY Zenon DEF LbInit
<1>2. rows \in Rows /\ maglev \in Maglev
  BY <1>1, LoadBalancersAssumption, Zenon DEF Rows
<1>3. \A a \in Address : Reached(rows, maglev, a, SvcPort) \subseteq Backend
  <2> SUFFICES ASSUME NEW a \in Address PROVE Reached(rows, maglev, a, SvcPort) \subseteq Backend
    OBVIOUS
  <2>1. \A t \in TablesOf(rows, a) : maglev[t] \in Slots
    BY <1>2, TablesAre, TableIs, Zenon
  <2>2. \A t \in TablesOf(rows, a) : BackendsOf(maglev[t]) \subseteq Backend
    BY <2>1, BackendsAre, Zenon
  <2> QED
    BY <1>2, <2>2, ReachedIs, Zenon
<1>4. LbTypeOK
  <2>1. NoTables \in Maglev
    BY Zenon DEF NoTables, Maglev
  <2>2. next_table_id \in TableId /\ unread_tables_below \in 0 .. MaxTable /\ lbFaults \in 0 .. MaxFaults
    BY LoadBalancersAssumption DEF LbInit, TableId
  <2>3. NoRecord \in [table : 0 .. MaxTable, others : SUBSET TableId, ports : SUBSET SvcPort, backends : SUBSET Backend]
    BY LoadBalancersAssumption DEF NoRecord
  <2>4. given \in [Address -> SUBSET Backend]
    BY <1>3, Zenon DEF LbInit
  <2> QED
    BY <1>2, <2>1, <2>2, <2>3, <2>4, Zenon DEF LbTypeOK, LbInit, Rows
<1>5. GivenInv
  BY <1>3, Zenon DEF GivenInv, LbInit, NoRecord
<1>6. \A a \in Address : lbs[a] = NoRecord
  BY Zenon DEF LbInit
<1>7. ApartInv /\ RecordInv
  BY <1>6, Zenon DEF ApartInv, RecordInv, LbInit, NoRecord, TablesOf
<1>8. FreshInv
  BY <1>6 DEF FreshInv, LbInit, NoRecord
<1>9. TodoInv /\ AdoptInv
  BY Zenon DEF TodoInv, AdoptInv, LbInit
<1> QED
  BY <1>4, <1>5, <1>7, <1>8, <1>9, Zenon DEF LbInv

\* A write to the table of one record, while the process is up: no other address is on
\* that table.
LEMMA OwnTable ==
  ASSUME LbInv, phase = "up", NEW a \in Address, lbs[a] # NoRecord,
         NEW w \in Maglev, NEW B,
         \A t \in TableId \ {lbs[a].table} : w[t] = maglev[t],
         BackendsOf(w[lbs[a].table]) \subseteq BackendsOf(maglev[lbs[a].table]) \cup B
  PROVE  /\ \A c \in Address \ stray : c # a => Reached(rows, w, c, SvcPort) \subseteq given[c]
         /\ a \notin stray => Reached(rows, w, a, SvcPort) \subseteq given[a] \cup B
         /\ IdLeft /\ ~unsure => \A t \in TableId : t >= next_table_id => BackendsOf(w[t]) = {}
<1> DEFINE t0 == lbs[a].table
<1>1. rows \in Rows /\ maglev \in Maglev /\ next_table_id \in Nat /\ todo = {}
  BY DEF LbInv, LbTypeOK, Rows, TableId, RecordInv
<1>2. t0 \in 0 .. MaxTable /\ t0 # 0
  BY Zenon DEF LbInv, LbTypeOK, RecordInv
<1>3. t0 \in TableId
  BY <1>2, LoadBalancersAssumption DEF TableId
<1>4. \A c \in Address \ stray : \A t \in TablesOf(rows, c) : t \in TableId /\ BackendsOf(maglev[t]) \subseteq given[c]
  BY <1>1, ReachedIs, TablesAre, Zenon DEF LbInv, GivenInv
<1>5. ASSUME NEW c \in Address \ stray, c # a PROVE Reached(rows, w, c, SvcPort) \subseteq given[c]
  <2>1. t0 \notin TablesOf(rows, c)
    BY <1>1, <1>5, Zenon DEF LbInv, ApartInv
  <2>2. \A t \in TablesOf(rows, c) : BackendsOf(w[t]) \subseteq given[c]
    BY <1>4, <2>1, Zenon
  <2> QED
    BY <1>1, <2>2, ReachedIs, Zenon
<1>6. ASSUME a \notin stray PROVE Reached(rows, w, a, SvcPort) \subseteq given[a] \cup B
  <2>1. \A t \in TablesOf(rows, a) : BackendsOf(w[t]) \subseteq given[a] \cup B
    BY <1>4, <1>6, Zenon
  <2> QED
    BY <1>1, <2>1, ReachedIs, Zenon
<1>7. ASSUME IdLeft, ~unsure, NEW t \in TableId, t >= next_table_id PROVE BackendsOf(w[t]) = {}
  <2>1. t0 < next_table_id
    BY <1>7, Zenon DEF LbInv, FreshInv
  <2>2. t # t0
    BY <1>1, <1>2, <1>7, <2>1 DEF TableId
  <2>3. BackendsOf(maglev[t]) = {}
    BY <1>7, Zenon DEF LbInv, FreshInv
  <2> QED
    BY <2>2, <2>3, Zenon
<1> QED
  BY <1>5, <1>6, <1>7, Zenon

\* The types of the records.
Records == [table : 0 .. MaxTable, others : SUBSET TableId, ports : SUBSET SvcPort, backends : SUBSET Backend]

\* add_lb_target.
LEMMA AddKeeps ==
  ASSUME LbInv, NEW a \in Address, NEW b \in Backend, AddLbTarget(a, b)
  PROVE  LbInv'
<1> DEFINE B == lbs[a].backends \cup {b}
           t0 == lbs[a].table
<1>1. /\ phase = "up" /\ lbs[a] # NoRecord
      /\ lbs' = [lbs EXCEPT ![a].backends = B]
      /\ given' = [given EXCEPT ![a] = given[a] \cup {b}]
      /\ UNCHANGED <<rows, next_table_id, unread_tables_below, phase, todo, tablesRead, owned, left, stray, unsure>>
  BY Zenon DEF AddLbTarget, adoption
<1>2. PICK f \in Builds(B), c \in 1 .. TableSize + 1 :
        /\ LbFault(c <= TableSize)
        /\ maglev' = [maglev EXCEPT ![t0] = Written(maglev[t0], f, c)]
  BY Zenon DEF AddLbTarget
<1>3. /\ rows \in Rows /\ maglev \in Maglev /\ lbs \in [Address -> Records] /\ given \in [Address -> SUBSET Backend]
      /\ B \in SUBSET Backend /\ f \in [Slot -> B]
  BY Zenon DEF LbInv, LbTypeOK, Rows, Records, Builds
<1>4. t0 \in TableId
  BY <1>1, LoadBalancersAssumption DEF LbInv, LbTypeOK, RecordInv, TableId
<1>5. /\ Written(maglev[t0], f, c) \in Slots
      /\ BackendsOf(Written(maglev[t0], f, c)) \subseteq BackendsOf(maglev[t0]) \cup B
  <2>1. maglev[t0] \in Slots
    BY <1>3, <1>4, TableIs, Zenon
  <2> HIDE DEF B
  <2> QED
    BY <1>3, <2>1, WrittenIs, Zenon
<1>6. /\ maglev' \in Maglev
      /\ \A t \in TableId \ {t0} : maglev'[t] = maglev[t]
      /\ BackendsOf(maglev'[t0]) \subseteq BackendsOf(maglev[t0]) \cup B
  BY <1>2, <1>3, <1>4, <1>5, Zenon DEF Maglev, Slots
<1>7. /\ \A d \in Address \ stray : d # a => Reached(rows, maglev', d, SvcPort) \subseteq given[d]
      /\ a \notin stray => Reached(rows, maglev', a, SvcPort) \subseteq given[a] \cup B
      /\ IdLeft /\ ~unsure => \A t \in TableId : t >= next_table_id => BackendsOf(maglev'[t]) = {}
  <2> HIDE DEF B
  <2> QED
    BY <1>1, <1>6, OwnTable, Zenon
<1>8. /\ \A d \in Address : lbs'[d].table = lbs[d].table /\ lbs'[d].others = lbs[d].others
      /\ \A d \in Address : lbs'[d].table = 0 => lbs'[d] = NoRecord
      /\ lbs' \in [Address -> Records]
  <2>1. \A d \in Address : d # a => lbs'[d] = lbs[d]
    BY <1>1, <1>3, Zenon
  <2>2. lbs'[a] = [lbs[a] EXCEPT !.backends = B]
    BY <1>1, <1>3, Zenon
  <2>3. lbs'[a].table = lbs[a].table /\ lbs'[a].others = lbs[a].others /\ lbs'[a] \in Records
    BY <1>3, <2>2, Zenon DEF Records
  <2>4. \A d \in Address : lbs[d].table = 0 => lbs[d] = NoRecord
    BY Zenon DEF LbInv, RecordInv
  <2> QED
    BY <1>1, <1>3, <1>4, <2>1, <2>3, <2>4, Zenon DEF TableId
<1>9. LbTypeOK'
  <2>1. lbFaults' \in 0 .. MaxFaults
    BY <1>2, FaultType, Zenon DEF LbInv, LbTypeOK
  <2>2. given' \in [Address -> SUBSET Backend]
    BY <1>1, <1>3, Zenon
  <2> QED
    BY <1>1, <1>6, <1>8, <2>1, <2>2, Zenon DEF LbInv, LbTypeOK, Records
<1>10. GivenInv'
  <2> SUFFICES ASSUME NEW d \in Address \ stray
               PROVE  Reached(rows, maglev', d, SvcPort) \subseteq given'[d] /\ lbs'[d].backends \subseteq given'[d]
    BY <1>1, Zenon DEF GivenInv
  <2>1. lbs[d].backends \subseteq given[d]
    BY Zenon DEF LbInv, GivenInv
  <2>2. CASE d = a
    <3>1. given'[a] = given[a] \cup {b} /\ lbs'[a].backends = B
      BY <1>1, <1>3, Zenon DEF Records
    <3> QED
      BY <1>7, <2>1, <2>2, <3>1, Zenon
  <2>3. CASE d # a
    <3>1. given'[d] = given[d] /\ lbs'[d] = lbs[d]
      BY <1>1, <1>3, <2>3, Zenon
    <3> QED
      BY <1>7, <2>1, <2>3, <3>1, Zenon
  <2> QED
    BY <2>2, <2>3, Zenon
<1>11. ApartInv'
  BY <1>1, <1>8, Zenon DEF LbInv, ApartInv
<1>12. FreshInv'
  BY <1>1, <1>7, <1>8, Zenon DEF LbInv, FreshInv, IdLeft
<1>13. RecordInv' /\ TodoInv' /\ AdoptInv'
  BY <1>1, <1>8, Zenon DEF LbInv, RecordInv, TodoInv, AdoptInv
<1> QED
  BY <1>9, <1>10, <1>11, <1>12, <1>13, Zenon DEF LbInv

\* del_lb_target.
LEMMA DelKeeps ==
  ASSUME LbInv, NEW a \in Address, NEW b \in Backend, DelLbTarget(a, b)
  PROVE  LbInv'
<1> DEFINE B == lbs[a].backends \ {b}
           t0 == lbs[a].table
<1>1. /\ phase = "up" /\ lbs[a] # NoRecord
      /\ lbs' = [lbs EXCEPT ![a].backends = B]
      /\ UNCHANGED <<rows, next_table_id, unread_tables_below, phase, todo, tablesRead, owned, left, given, stray, unsure>>
  BY Zenon DEF DelLbTarget, adoption
<1>2. /\ rows \in Rows /\ maglev \in Maglev /\ lbs \in [Address -> Records] /\ given \in [Address -> SUBSET Backend]
      /\ B \in SUBSET Backend
  BY Zenon DEF LbInv, LbTypeOK, Rows, Records
<1>3. t0 \in TableId /\ maglev[t0] \in Slots
  <2>1. t0 \in TableId
    BY <1>1, LoadBalancersAssumption DEF LbInv, LbTypeOK, RecordInv, TableId
  <2> QED
    BY <1>2, <2>1, TableIs, Zenon
<1>4. /\ maglev' \in Maglev
      /\ \A t \in TableId \ {t0} : maglev'[t] = maglev[t]
      /\ BackendsOf(maglev'[t0]) \subseteq BackendsOf(maglev[t0]) \cup B
      /\ lbFaults' \in 0 .. MaxFaults
  <2>1. ASSUME NEW f \in Builds(B), NEW c \in 1 .. TableSize + 1, LbFault(c <= TableSize),
               maglev' = [maglev EXCEPT ![t0] = Written(maglev[t0], f, c)]
        PROVE  <1>4
    <3>1. f \in [Slot -> B]
      BY Zenon DEF Builds
    <3>2. /\ Written(maglev[t0], f, c) \in Slots
          /\ BackendsOf(Written(maglev[t0], f, c)) \subseteq BackendsOf(maglev[t0]) \cup B
      <4> HIDE DEF B
      <4> QED
        BY <1>2, <1>3, <3>1, WrittenIs, Zenon
    <3>3. /\ maglev' \in Maglev
          /\ \A t \in TableId \ {t0} : maglev'[t] = maglev[t]
          /\ BackendsOf(maglev'[t0]) \subseteq BackendsOf(maglev[t0]) \cup B
      <4> HIDE DEF B
      <4>1. maglev' = [maglev EXCEPT ![t0] = Written(maglev[t0], f, c)]
        BY <2>1, Zenon
      <4> QED
        BY <1>2, <1>3, <3>2, <4>1, Zenon DEF Maglev, Slots
    <3> QED
      BY <2>1, <3>3, FaultType, Zenon DEF LbInv, LbTypeOK
  <2>2. ASSUME NEW kept \in SUBSET Slot, LbFault(kept # {}), maglev' = Cleared(maglev, {t0}, kept)
        PROVE  <1>4
    <3>1. /\ maglev' \in Maglev
          /\ \A t \in TableId \ {t0} : maglev'[t] = maglev[t]
          /\ BackendsOf(maglev'[t0]) \subseteq BackendsOf(maglev[t0])
      <4> DEFINE T == {t0}
                 w == Cleared(maglev, T, kept)
      <4>1. /\ w \in Maglev
            /\ \A t \in TableId : BackendsOf(w[t]) \subseteq BackendsOf(maglev[t])
            /\ \A t \in TableId \ T : w[t] = maglev[t]
        <5> HIDE DEF T
        <5> QED
          BY <1>2, ClearedIs
      <4>2. maglev' = w
        BY <2>2, Zenon
      <4> HIDE DEF w
      <4> QED
        BY <1>3, <4>1, <4>2, Zenon
    <3> QED
      BY <2>2, <3>1, FaultType, Zenon DEF LbInv, LbTypeOK
  <2> QED
    BY <2>1, <2>2, Zenon DEF DelLbTarget
<1>5. /\ \A d \in Address \ stray : d # a => Reached(rows, maglev', d, SvcPort) \subseteq given[d]
      /\ a \notin stray => Reached(rows, maglev', a, SvcPort) \subseteq given[a] \cup B
      /\ IdLeft /\ ~unsure => \A t \in TableId : t >= next_table_id => BackendsOf(maglev'[t]) = {}
  <2> HIDE DEF B
  <2> QED
    BY <1>1, <1>4, OwnTable, Zenon
<1>6. /\ \A d \in Address : lbs'[d].table = lbs[d].table /\ lbs'[d].others = lbs[d].others
      /\ \A d \in Address : lbs'[d].backends \subseteq lbs[d].backends
      /\ \A d \in Address : lbs'[d].table = 0 => lbs'[d] = NoRecord
      /\ lbs' \in [Address -> Records]
  <2>1. \A d \in Address : d # a => lbs'[d] = lbs[d]
    BY <1>1, <1>2, Zenon
  <2>2. lbs'[a] = [lbs[a] EXCEPT !.backends = B]
    BY <1>1, <1>2, Zenon
  <2>3. /\ lbs'[a].table = lbs[a].table /\ lbs'[a].others = lbs[a].others /\ lbs'[a] \in Records
        /\ lbs'[a].backends \subseteq lbs[a].backends
    BY <1>2, <2>2, Zenon DEF Records
  <2>4. \A d \in Address : lbs[d].table = 0 => lbs[d] = NoRecord
    BY Zenon DEF LbInv, RecordInv
  <2> QED
    BY <1>1, <1>2, <1>3, <2>1, <2>3, <2>4, Zenon DEF TableId
<1>7. LbTypeOK'
  BY <1>1, <1>4, <1>6, Zenon DEF LbInv, LbTypeOK, Records
<1>8. GivenInv'
  <2>1. \A d \in Address \ stray : lbs[d].backends \subseteq given[d]
    BY Zenon DEF LbInv, GivenInv
  <2>2. a \notin stray => B \subseteq given[a]
    BY <2>1, Zenon
  <2> QED
    BY <1>1, <1>5, <1>6, <2>1, <2>2, Zenon DEF GivenInv
<1>9. ApartInv'
  BY <1>1, <1>6, Zenon DEF LbInv, ApartInv
<1>10. FreshInv'
  BY <1>1, <1>5, <1>6, Zenon DEF LbInv, FreshInv, IdLeft
<1>11. RecordInv' /\ TodoInv' /\ AdoptInv'
  BY <1>1, <1>6, Zenon DEF LbInv, RecordInv, TodoInv, AdoptInv
<1> QED
  BY <1>7, <1>8, <1>9, <1>10, <1>11, Zenon DEF LbInv

\* delete_lb: rows and slots go.
LEMMA DeleteLbKeeps ==
  ASSUME LbInv, NEW a \in Address, DeleteLb(a)
  PROVE  LbInv'
<1>1. /\ phase = "up" /\ lbs' = [lbs EXCEPT ![a] = NoRecord]
      /\ UNCHANGED <<next_table_id, unread_tables_below, phase, todo, tablesRead, owned, left, given, stray, unsure>>
  BY Zenon DEF DeleteLb, adoption
<1>2. PICK strand \in SUBSET lbs[a].ports, kept \in SUBSET Slot :
        /\ LbFault(strand # {} \/ kept # {})
        /\ rows' = Pointed(rows, a, lbs[a].ports \ strand, 0)
        /\ maglev' = Cleared(maglev, Freed(lbs', lbs[a]), kept)
  BY Zenon DEF DeleteLb
<1>3. /\ rows \in Rows /\ maglev \in Maglev /\ lbs \in [Address -> Records]
      /\ 0 \in 0 .. MaxTable
  BY LoadBalancersAssumption DEF LbInv, LbTypeOK, Rows, Records
<1>4. rows' \in Rows /\ \A c \in Address : TablesOf(rows', c) \subseteq TablesOf(rows, c)
  BY <1>2, <1>3, PointedIs
<1>5. maglev' \in Maglev /\ \A t \in TableId : BackendsOf(maglev'[t]) \subseteq BackendsOf(maglev[t])
  BY <1>2, <1>3, ClearedIs, Zenon
<1>6. /\ lbs' \in [Address -> Records]
      /\ \A c \in Address : lbs'[c] = NoRecord \/ lbs'[c] = lbs[c]
      /\ NoRecord.table = 0 /\ NoRecord.backends = {}
  <2>1. NoRecord \in Records /\ NoRecord.table = 0 /\ NoRecord.backends = {}
    BY <1>3, Zenon DEF NoRecord, Records
  <2> QED
    BY <1>1, <1>3, <2>1, Zenon
<1>7. LbTypeOK'
  <2>1. lbFaults' \in 0 .. MaxFaults
    BY <1>2, FaultType, Zenon DEF LbInv, LbTypeOK
  <2> QED
    BY <1>1, <1>4, <1>5, <1>6, <2>1, Zenon DEF LbInv, LbTypeOK, Records, Rows
<1>8. GivenInv'
  <2> SUFFICES ASSUME NEW c \in Address \ stray
               PROVE  Reached(rows', maglev', c, SvcPort) \subseteq given[c] /\ lbs'[c].backends \subseteq given[c]
    BY <1>1, Zenon DEF GivenInv
  <2>1. Reached(rows, maglev, c, SvcPort) \subseteq given[c] /\ lbs[c].backends \subseteq given[c]
    BY Zenon DEF LbInv, GivenInv
  <2>2. \A t \in TablesOf(rows, c) : BackendsOf(maglev'[t]) \subseteq BackendsOf(maglev[t])
    BY <1>3, <1>5, TablesAre, Zenon
  <2>3. Reached(rows', maglev', c, SvcPort) \subseteq given[c]
    BY <1>3, <1>4, <2>1, <2>2, LessReached, SMTT(30)
  <2> QED
    BY <1>6, <2>1, <2>3, Zenon
<1>9. ApartInv'
  <2> SUFFICES ASSUME NEW c \in Address \ (stray \cup todo), NEW d \in Address \ {c},
                      lbs'[d].table \in TablesOf(rows', c)
               PROVE  FALSE
    BY <1>1, Zenon DEF ApartInv
  <2>1. lbs'[d].table # 0
    BY <1>4, TablesAre, Zenon
  <2> QED
    BY <1>4, <1>6, <2>1, Zenon DEF LbInv, ApartInv
<1>10. FreshInv'
  <2> SUFFICES ASSUME IdLeft PROVE FreshInv'
    BY <1>1, Zenon DEF FreshInv, IdLeft
  <2>1. \A c \in Address : lbs'[c].table < next_table_id
    <3>1. 0 < next_table_id /\ \A c \in Address : lbs[c].table < next_table_id
      BY DEF LbInv, LbTypeOK, TableId, FreshInv
    <3> QED
      BY <1>6, <3>1, Zenon
  <2>2. ~unsure => \A c \in Address \ stray : \A t \in TablesOf(rows', c) : t < next_table_id
    BY <1>1, <1>4, Zenon DEF LbInv, FreshInv
  <2>3. ~unsure => \A t \in TableId : t >= next_table_id => BackendsOf(maglev'[t]) = {}
    BY <1>1, <1>5, Zenon DEF LbInv, FreshInv
  <2> QED
    BY <1>1, <2>1, <2>2, <2>3, Zenon DEF FreshInv
<1>11. RecordInv' /\ TodoInv' /\ AdoptInv'
  BY <1>1, <1>6, Zenon DEF LbInv, RecordInv, TodoInv, AdoptInv
<1> QED
  BY <1>7, <1>8, <1>9, <1>10, <1>11, Zenon DEF LbInv

\* create_lb, when every write succeeds: the table it takes is free.
LEMMA CreatedKeeps ==
  ASSUME LbInv, phase = "up", IdLeft, NEW a \in Address, NEW P \in SUBSET SvcPort,
         rows' = Pointed(rows, a, P, next_table_id),
         lbs' = [lbs EXCEPT ![a] = [table |-> next_table_id, others |-> {}, ports |-> P, backends |-> {}]],
         next_table_id' = next_table_id + 1,
         given' = [given EXCEPT ![a] = Reached(rows, maglev, a, SvcPort \ P)],
         stray' = stray \cup Entangled(a, next_table_id),
         lbFaults' \in 0 .. MaxFaults,
         UNCHANGED <<maglev, unread_tables_below, phase, todo, tablesRead, owned, left, unsure>>
  PROVE  LbInv'
<1> DEFINE n == next_table_id
<1>1. /\ rows \in Rows /\ maglev \in Maglev /\ lbs \in [Address -> Records] /\ given \in [Address -> SUBSET Backend]
      /\ n \in TableId /\ n \in 0 .. MaxTable /\ n \in Nat /\ n # 0 /\ n < MaxTable /\ stray \in SUBSET Address
      /\ todo = {}
  BY LoadBalancersAssumption DEF LbInv, LbTypeOK, Rows, Records, TableId, IdLeft, RecordInv
<1>2. /\ rows' \in Rows
      /\ \A p \in SvcPort : rows'[a][p] = IF p \in P THEN n ELSE rows[a][p]
      /\ \A c \in Address \ {a} : TablesOf(rows', c) = TablesOf(rows, c)
      /\ TablesOf(rows', a) \subseteq TablesOf(rows, a) \cup {n}
      /\ \A c \in Address \ {a} : rows'[c] = rows[c]
  BY <1>1, PointedIs
<1>3. /\ lbs' \in [Address -> Records]
      /\ lbs'[a].table = n /\ lbs'[a].backends = {}
      /\ \A c \in Address \ {a} : lbs'[c] = lbs[c]
  <2> DEFINE new == [table |-> n, others |-> {}, ports |-> P, backends |-> {}]
  <2>1. new \in Records /\ new.table = n /\ new.backends = {}
    BY <1>1, Zenon DEF Records
  <2>2. lbs' = [lbs EXCEPT ![a] = new]
    OBVIOUS
  <2> HIDE DEF new
  <2> QED
    BY <1>1, <2>1, <2>2, Zenon
<1>4. \A c \in Address \ stray : Reached(rows, maglev, c, SvcPort) \subseteq given[c] /\ lbs[c].backends \subseteq given[c]
  BY Zenon DEF LbInv, GivenInv
<1>5. stray \subseteq stray' /\ stray' \in SUBSET Address
  BY <1>1, Zenon DEF Entangled
<1>6. ASSUME a \notin stray' PROVE BackendsOf(maglev[n]) = {}
  <2>1. CASE unsure
    BY <1>6, <2>1, Zenon DEF Entangled
  <2>2. CASE ~unsure
    BY <1>1, <2>2, SMTT(30) DEF LbInv, FreshInv
  <2> QED
    BY <2>1, <2>2, Zenon
<1>7. \A c \in Address \ stray' : n \notin TablesOf(rows, c)
  <2> SUFFICES ASSUME NEW c \in Address \ stray', n \in TablesOf(rows, c) PROVE FALSE
    OBVIOUS
  <2>1. CASE unsure
    BY <2>1, Zenon DEF Entangled
  <2>2. CASE ~unsure
    BY <1>1, <1>5, <2>2 DEF LbInv, FreshInv
  <2> QED
    BY <2>1, <2>2, Zenon
<1>8. Reached(rows, maglev, a, SvcPort \ P) \subseteq Reached(rows, maglev, a, SvcPort)
  BY Zenon DEF Reached
<1>9. given' \in [Address -> SUBSET Backend]
  <2>1. \A t \in TablesOf(rows, a) : BackendsOf(maglev[t]) \subseteq Backend
    BY <1>1, TablesAre, TableIs, BackendsAre, Zenon
  <2>2. Reached(rows, maglev, a, SvcPort) \subseteq Backend
    BY <1>1, <2>1, ReachedIs, Zenon
  <2> QED
    BY <1>1, <1>8, <2>2, Zenon
<1>10. LbTypeOK'
  <2>1. n + 1 \in TableId
    BY <1>1, LoadBalancersAssumption DEF TableId
  <2> QED
    BY <1>2, <1>3, <1>5, <1>9, <2>1, ZenonT(30) DEF LbInv, LbTypeOK, Records, Rows
<1>11. ASSUME a \notin stray' PROVE Reached(rows', maglev, a, SvcPort) \subseteq given'[a]
  <2>1. given'[a] = UNION {BackendsOf(maglev[rows[a][p]]) : p \in {x \in SvcPort \ P : rows[a][x] # 0}}
    BY <1>1, Zenon DEF Reached
  <2>2. ASSUME NEW t \in TablesOf(rows', a), NEW b \in BackendsOf(maglev[t]) PROVE b \in given'[a]
    <3>1. PICK p \in SvcPort : rows'[a][p] = t /\ t # 0
      BY <1>2, <2>2, TablesAre
    <3>2. p \notin P
      BY <1>2, <1>6, <1>11, <2>2, <3>1, Zenon
    <3>3. rows[a][p] = t
      BY <1>2, <3>1, <3>2, Zenon
    <3> QED
      BY <2>1, <2>2, <3>1, <3>2, <3>3, ZenonT(30)
  <2> QED
    BY <1>2, <2>2, ReachedIs, Zenon
<1>12. GivenInv'
  <2> SUFFICES ASSUME NEW c \in Address \ stray'
               PROVE  Reached(rows', maglev, c, SvcPort) \subseteq given'[c] /\ lbs'[c].backends \subseteq given'[c]
    BY Zenon DEF GivenInv
  <2>1. CASE c = a
    BY <1>3, <1>11, <2>1, Zenon
  <2>2. CASE c # a
    <3>1. given'[c] = given[c] /\ Reached(rows', maglev, c, SvcPort) = Reached(rows, maglev, c, SvcPort)
      BY <1>1, <1>2, <2>2 DEF Reached
    <3> QED
      BY <1>3, <1>4, <1>5, <2>2, <3>1, Zenon
  <2> QED
    BY <2>1, <2>2, Zenon
<1>13. ApartInv'
  <2> SUFFICES ASSUME NEW c \in Address \ stray', NEW d \in Address \ {c} PROVE lbs'[d].table \notin TablesOf(rows', c)
    BY Zenon DEF ApartInv
  <2>1. lbs[d].table \notin TablesOf(rows, c)
    BY <1>1, <1>5, Zenon DEF LbInv, ApartInv
  <2>2. lbs[d].table # n
    BY <1>1 DEF LbInv, FreshInv
  <2>3. CASE d = a
    BY <1>2, <1>3, <1>7, <2>3, Zenon
  <2>4. CASE d # a
    BY <1>2, <1>3, <2>1, <2>2, <2>4, Zenon
  <2> QED
    BY <2>3, <2>4, Zenon
<1>14. FreshInv'
  <2>1. \A c \in Address : lbs'[c].table < n + 1
    <3>1. \A c \in Address : lbs[c].table < n /\ lbs[c].table \in Nat
      BY <1>1, LoadBalancersAssumption DEF LbInv, FreshInv, Records
    <3> QED
      BY <1>1, <1>3, <3>1
  <2>2. ~unsure => \A c \in Address \ stray' : \A t \in TablesOf(rows', c) : t < n + 1
    <3> SUFFICES ASSUME ~unsure, NEW c \in Address \ stray', NEW t \in TablesOf(rows', c) PROVE t < n + 1
      OBVIOUS
    <3>1. t \in TablesOf(rows, c) \/ t = n
      BY <1>2, Zenon
    <3>2. t \in TablesOf(rows, c) => t < n /\ t \in Nat
      BY <1>1, <1>5, TablesAre DEF LbInv, FreshInv, TableId
    <3> QED
      BY <1>1, <3>1, <3>2
  <2>3. ~unsure => \A t \in TableId : t >= n + 1 => BackendsOf(maglev[t]) = {}
    <3>1. \A t \in TableId : t >= n + 1 => t >= n
      BY <1>1 DEF TableId
    <3> QED
      BY <3>1, Zenon DEF LbInv, FreshInv
  <2> QED
    BY <2>1, <2>2, <2>3, Zenon DEF FreshInv
<1>15. RecordInv' /\ TodoInv' /\ AdoptInv'
  BY <1>1, <1>3, Zenon DEF LbInv, RecordInv, TodoInv, AdoptInv
<1> QED
  BY <1>10, <1>12, <1>13, <1>14, <1>15, Zenon DEF LbInv

\* create_lb: a failed one leaves no row of an address that is still in hand.
LEMMA CreateKeeps ==
  ASSUME LbInv, NEW a \in Address, NEW P \in PortSets, CreateLb(a, P)
  PROVE  LbInv'
<1> DEFINE n == next_table_id
<1>1. /\ phase = "up" /\ IdLeft /\ P \in SUBSET SvcPort
      /\ UNCHANGED <<maglev, unread_tables_below, phase, todo, tablesRead, owned, left, unsure>>
  BY LoadBalancersAssumption, Zenon DEF CreateLb, adoption
<1>2. CASE /\ rows' = Pointed(rows, a, P, n)
           /\ lbs' = [lbs EXCEPT ![a] = [table |-> n, others |-> {}, ports |-> P, backends |-> {}]]
           /\ n' = n + 1
           /\ given' = [given EXCEPT ![a] = Reached(rows, maglev, a, SvcPort \ P)]
           /\ stray' = stray \cup Entangled(a, n)
           /\ LbFault(FALSE)
  <2>1. lbFaults' \in 0 .. MaxFaults
    BY <1>2, FaultType, Zenon DEF LbInv, LbTypeOK
  <2> QED
    BY <1>1, <1>2, <2>1, CreatedKeeps, Zenon
<1>3. ASSUME NEW done, NEW strand \in SUBSET done, LbFault(TRUE),
             rows' = Pointed(Pointed(rows, a, done, 0), a, strand, n),
             stray' = stray \cup (IF strand = {} THEN {} ELSE {a}),
             UNCHANGED <<lbs, next_table_id, given>>
      PROVE  LbInv'
  <2>1. /\ rows \in Rows /\ n \in 0 .. MaxTable /\ 0 \in 0 .. MaxTable /\ stray \in SUBSET Address
        /\ todo = {}
    BY <1>1, LoadBalancersAssumption DEF LbInv, LbTypeOK, Rows, TableId, RecordInv
  <2> DEFINE q == Pointed(rows, a, done, 0)
  <2>2. /\ q \in Rows
        /\ \A c \in Address \ {a} : TablesOf(q, c) = TablesOf(rows, c)
        /\ TablesOf(q, a) \subseteq TablesOf(rows, a)
    BY <2>1, PointedIs
  <2>3. rows' = Pointed(q, a, strand, n)
    BY <1>3, Zenon
  <2> HIDE DEF q
  <2>4. rows' \in Rows /\ \A c \in Address \ {a} : TablesOf(rows', c) = TablesOf(q, c)
    BY <2>1, <2>2, <2>3, PointedIs
  <2>5. ASSUME strand = {} PROVE TablesOf(rows', a) \subseteq TablesOf(rows, a)
    <3>1. \A p \in SvcPort : rows'[a][p] = q[a][p]
      BY <2>1, <2>2, <2>3, <2>5, PointedIs
    <3>2. TablesOf(rows', a) = TablesOf(q, a)
      BY <3>1, Zenon DEF TablesOf
    <3> QED
      BY <2>2, <3>2, Zenon
  <2>6. stray \subseteq stray' /\ stray' \in SUBSET Address
    BY <1>3, <2>1, Zenon
  <2>7. \A c \in Address \ stray' : TablesOf(rows', c) \subseteq TablesOf(rows, c)
    BY <1>3, <2>2, <2>4, <2>5, Zenon
  <2>8. LbTypeOK'
    <3>1. lbFaults' \in 0 .. MaxFaults
      BY <1>3, FaultType, Zenon DEF LbInv, LbTypeOK
    <3> QED
      BY <1>1, <1>3, <2>4, <2>6, <3>1, Zenon DEF LbInv, LbTypeOK, Rows
  <2>9. GivenInv'
    <3> SUFFICES ASSUME NEW c \in Address \ stray'
                 PROVE  Reached(rows', maglev, c, SvcPort) \subseteq given[c] /\ lbs[c].backends \subseteq given[c]
      BY <1>1, <1>3, Zenon DEF GivenInv
    <3>1. Reached(rows, maglev, c, SvcPort) \subseteq given[c] /\ lbs[c].backends \subseteq given[c]
      BY <2>6, Zenon DEF LbInv, GivenInv
    <3> QED
      BY <2>1, <2>4, <2>7, <3>1, LessReached, Zenon
  <2>10. ApartInv'
    BY <1>1, <1>3, <2>6, <2>7, Zenon DEF LbInv, ApartInv
  <2>11. FreshInv'
    BY <1>1, <1>3, <2>6, <2>7, Zenon DEF LbInv, FreshInv, IdLeft
  <2>12. RecordInv' /\ TodoInv' /\ AdoptInv'
    BY <1>1, <1>3, <2>1, Zenon DEF LbInv, RecordInv, TodoInv, AdoptInv
  <2> QED
    BY <2>8, <2>9, <2>10, <2>11, <2>12, ZenonT(30) DEF LbInv
<1> QED
  BY <1>2, <1>3, Zenon DEF CreateLb

=============================================================================
