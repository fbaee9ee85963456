--------------------------- MODULE LoadBalancers ---------------------------
(***************************************************************************)
(* The load balancers of the dataplane (flowplane-control, lb.rs).  A      *)
(* service row (address, port) in the pinned map LB names a Maglev table,  *)
(* whose slots in the pinned map MAGLEV each hold a backend.  The records  *)
(* in memory, and the counter that hands out table ids, do not survive a   *)
(* restart and are rebuilt from the two maps, one address at a time: the   *)
(* process may die between two of them, or while it repairs one.           *)
(*                                                                         *)
(* An address stands for a load balancer: the agent, the one caller in     *)
(* production, names it by its address, so an adopted one is claimed by    *)
(* the first call that names it and claiming it is not a step of its own.  *)
(* Which slot a backend gets is left open (maglev::build, a hash); the     *)
(* own underlay address of an overlay load balancer is left out.           *)
(***************************************************************************)
EXTENDS Integers, FiniteSets, FiniteSetsExt

CONSTANTS
  Address,    \* load balancer addresses, integers: adopt goes through them in order
  SvcPort,    \* service ports, integers
  PortSets,   \* the sets of ports a load balancer may be created with
  Backend,    \* backends
  NoBackend,  \* an empty slot
  TableSize,  \* TABLE_SIZE, the slots of a table
  MaxTable,   \* the last table id (u32::MAX in the code)
  Jump,       \* how far the counter moves past a cut walk (2^24 in the code)
  MaxFaults,  \* bound: steps in which a map call fails
  OldMaps     \* the maps an earlier version may have left: records [rows, maglev]

VARIABLES
  rows,                \* LB: rows[a][p] is a table id, 0 for no row
  maglev,              \* MAGLEV: maglev[t][slot]
  lbs,                 \* the records, NoRecord where there is none
  next_table_id,
  unread_tables_below,
  phase,               \* the process is "down", "adopting" or "up"
  todo,                \* adopt_lbs: the addresses it has still to adopt,
  tablesRead,          \*   the tables as it read them,
  owned,               \*   the main tables of the addresses so far,
  left,                \*   and the tables that rows were moved off
  lbFaults,            \* the steps so far in which a map call failed
  given,               \* history: the backends address a was given
  stray,               \* history: addresses with a row the code lost hold of
  unsure               \* history: the next table ids may not be free

adoption == <<todo, tablesRead, owned, left>>
lbVars == <<rows, maglev, lbs, next_table_id, unread_tables_below, phase, adoption,
            lbFaults, given, stray, unsure>>

Slot == 1 .. TableSize
TableId == 1 .. MaxTable
Maglev == [TableId -> [Slot -> Backend \cup {NoBackend}]]
NoRecord == [table |-> 0, others |-> {}, ports |-> {}, backends |-> {}]
NoTables == [t \in TableId |-> [s \in Slot |-> NoBackend]]

ASSUME LoadBalancersAssumption ==
  /\ Address \subseteq Int /\ SvcPort \subseteq Int /\ IsFiniteSet(SvcPort)
  /\ PortSets \subseteq SUBSET SvcPort
  /\ NoBackend \notin Backend
  /\ TableSize \in Nat \ {0} /\ MaxTable \in Nat \ {0} /\ Jump \in Nat /\ MaxFaults \in Nat
  /\ \A old \in OldMaps : old.rows \in [Address -> [SvcPort -> 0 .. MaxTable]] /\ old.maglev \in Maglev

BackendsOf(table) == {table[s] : s \in Slot} \ {NoBackend}
OnTable(r, a, t) == {p \in SvcPort : r[a][p] = t}
TablesOf(r, a) == {r[a][p] : p \in SvcPort} \ {0}
\* What a's rows for the ports P lead to.
Reached(r, m, a, P) == UNION {BackendsOf(m[r[a][p]]) : p \in {x \in P : r[a][x] # 0}}

\* Mutant: the main tables are forgotten.
table_in_use_Others(L, t) == \E a \in Address : t \in L[a].others

table_in_use(L, t) == \E a \in Address : L[a].table = t \/ t \in L[a].others

\* maglev::build: every slot is filled, and no backend is left out while
\* there are slots enough.
Builds(B) ==
  {f \in [Slot -> B] : Cardinality(BackendsOf(f)) = Min({Cardinality(B), TableSize})}

\* A map call fails in this step, or none does.
LbFault(bad) ==
  IF bad THEN lbFaults < MaxFaults /\ lbFaults' = lbFaults + 1 ELSE UNCHANGED lbFaults

\* write_table that got as far as the slots below c.
Written(old, new, c) == [s \in Slot |-> IF s < c THEN new[s] ELSE old[s]]
\* The slots of the tables T removed, all but those whose removal failed.
Cleared(m, T, kept) ==
  [t \in TableId |-> IF t \in T THEN [s \in Slot |-> IF s \in kept THEN m[t][s] ELSE NoBackend]
                     ELSE m[t]]
Pointed(r, a, P, t) == [r EXCEPT ![a] = [p \in SvcPort |-> IF p \in P THEN t ELSE r[a][p]]]

-----------------------------------------------------------------------------
(***************************************************************************)
(* The calls.  A call the code refuses changes nothing and is left out.    *)
(***************************************************************************)
IdLeft == next_table_id < MaxTable

\* History: who loses hold of a row when a takes the id t, which the code could
\* not know to be free.
Entangled(a, t) ==
  IF unsure /\ (BackendsOf(maglev[t]) # {} \/ \E c \in Address : t \in TablesOf(rows, c))
  THEN {a} \cup {c \in Address : t \in TablesOf(rows, c)}
  ELSE {}

\* create_lb.  A failed write takes back the rows written, all but those in
\* `strand'; the table id is not used up then.
CreateLb(a, P) ==
  /\ phase = "up" /\ lbs[a] = NoRecord /\ IdLeft
  /\ \/ /\ rows' = Pointed(rows, a, P, next_table_id)
        /\ lbs' = [lbs EXCEPT ![a] = [table |-> next_table_id, others |-> {}, ports |-> P, backends |-> {}]]
        /\ next_table_id' = next_table_id + 1
        /\ given' = [given EXCEPT ![a] = Reached(rows, maglev, a, SvcPort \ P)]
        /\ stray' = stray \cup Entangled(a, next_table_id)
        /\ LbFault(FALSE)
     \/ \E bad \in P : LET done == {p \in P : p < bad}
                       IN \E strand \in SUBSET done :
          /\ LbFault(TRUE)
          /\ rows' = Pointed(Pointed(rows, a, done, 0), a, strand, next_table_id)
          /\ stray' = stray \cup (IF strand = {} THEN {} ELSE {a})
          /\ UNCHANGED <<lbs, next_table_id, given>>
  /\ UNCHANGED <<maglev, unread_tables_below, phase, adoption, unsure>>

\* add_lb_target and the rebuild, which may end at any slot.
AddLbTarget(a, b) ==
  /\ phase = "up" /\ lbs[a] # NoRecord /\ b \notin lbs[a].backends
  /\ lbs' = [lbs EXCEPT ![a].backends = @ \cup {b}]
  /\ \E f \in Builds(lbs[a].backends \cup {b}), c \in 1 .. TableSize + 1 :
       /\ LbFault(c <= TableSize)
       /\ maglev' = [maglev EXCEPT ![lbs[a].table] = Written(@, f, c)]
  /\ given' = [given EXCEPT ![a] = @ \cup {b}]
  /\ UNCHANGED <<rows, next_table_id, unread_tables_below, phase, adoption, stray, unsure>>

\* del_lb_target.  With no backend left the slots are removed, all but those
\* whose removal fails.
DelLbTarget(a, b) ==
  /\ phase = "up" /\ lbs[a] # NoRecord /\ b \in lbs[a].backends
  /\ lbs' = [lbs EXCEPT ![a].backends = @ \ {b}]
  /\ \/ \E f \in Builds(lbs[a].backends \ {b}), c \in 1 .. TableSize + 1 :
          /\ LbFault(c <= TableSize)
          /\ maglev' = [maglev EXCEPT ![lbs[a].table] = Written(@, f, c)]
     \/ \E kept \in SUBSET Slot :
          /\ lbs[a].backends \ {b} = {} /\ LbFault(kept # {})
          /\ maglev' = Cleared(maglev, {lbs[a].table}, kept)
  /\ UNCHANGED <<rows, next_table_id, unread_tables_below, phase, adoption, given, stray, unsure>>

\* The tables clear_lb removes: those no other load balancer is on, unless a
\* row that was never read may point there.
Freed(L, lb) ==
  {t \in {lb.table} \cup lb.others : t >= unread_tables_below /\ ~table_in_use(L, t)}

DeleteLb(a) ==
  /\ phase = "up" /\ lbs[a] # NoRecord
  /\ lbs' = [lbs EXCEPT ![a] = NoRecord]
  /\ \E strand \in SUBSET lbs[a].ports, kept \in SUBSET Slot :
       /\ LbFault(strand # {} \/ kept # {})
       /\ rows' = Pointed(rows, a, lbs[a].ports \ strand, 0)
       /\ maglev' = Cleared(maglev, Freed(lbs', lbs[a]), kept)
  /\ UNCHANGED <<next_table_id, unread_tables_below, phase, adoption, given, stray, unsure>>

-----------------------------------------------------------------------------
(***************************************************************************)
(* Restart: adopt_lbs.                                                     *)
(***************************************************************************)
\* The main table: one with backends first, then the most rows, then the
\* lowest id.
MainTable(r, m, a) ==
  LET full == {t \in TablesOf(r, a) : BackendsOf(m[t]) # {}}
      best == IF full # {} THEN full ELSE TablesOf(r, a)
      most == {t \in best : \A u \in best : Cardinality(OnTable(r, a, t)) >= Cardinality(OnTable(r, a, u))}
  IN Min(most)

\* Mutant: the counter starts over.
FirstFree_Reset(r, m) == IF r = r /\ m = m THEN 1 ELSE 0

\* The id above every one in use.
FirstFree(r, m) ==
  Min({MaxTable, 1 + Max({0} \cup {t \in TableId : \/ \E a \in Address : t \in TablesOf(r, a)
                                                   \/ BackendsOf(m[t]) # {}})})

\* A whole walk.  The tables that no row names are removed.
AdoptReads ==
  /\ phase = "down" /\ phase' = "adopting"
  /\ next_table_id' = FirstFree(rows, maglev) /\ unread_tables_below' = 0 /\ unsure' = FALSE
  /\ todo' = {a \in Address : TablesOf(rows, a) # {}}
  /\ tablesRead' = maglev /\ owned' = {} /\ left' = {}
  /\ \E kept \in SUBSET Slot :
       /\ LbFault(kept # {})
       /\ maglev' = Cleared(maglev, TableId \ UNION {TablesOf(rows, a) : a \in Address}, kept)
  /\ UNCHANGED <<rows, lbs, given, stray>>

\* A walk that stays cut: what was read is listed, nothing is repaired.  The
\* walk of MAGLEV, or the reads of some slots, may have failed as well.
AdoptCut ==
  /\ phase = "down" /\ phase' = "up" /\ LbFault(TRUE)
  /\ \E seen \in SUBSET {x \in Address \X SvcPort : rows[x[1]][x[2]] # 0},
        m \in {maglev, NoTables}, got \in SUBSET Slot :
       LET read == [a \in Address |-> [p \in SvcPort |-> IF <<a, p>> \in seen THEN rows[a][p] ELSE 0]]
           slots == Cleared(maglev, TableId, got)
           main(a) == MainTable(read, slots, a)
           next == Min({FirstFree(read, m) + Jump, MaxTable})
       IN /\ lbs' = [a \in Address |->
               IF TablesOf(read, a) = {} THEN NoRecord
               ELSE [table |-> main(a), others |-> TablesOf(read, a) \ {main(a)},
                     ports |-> SvcPort \ OnTable(read, a, 0), backends |-> BackendsOf(slots[main(a)])]]
          /\ next_table_id' = next /\ unread_tables_below' = next
  /\ unsure' = TRUE
  /\ stray' = stray \cup {a \in Address : \E c \in Address \ {a} : lbs'[c].table \in TablesOf(rows, a)}
  /\ UNCHANGED <<rows, maglev, adoption, given>>

\* The slots of a copy; all but R are removed again.
Copied(old, slots, R) ==
  [s \in Slot |-> IF slots[s] = NoBackend THEN old[s] ELSE IF s \in R THEN slots[s] ELSE NoBackend]

\* The table an address is adopted on, with the maps then: its main one, or a
\* copy when that one has an owner already (copy_table), unless it fails.
Homes(main) ==
  LET on(t, R, ok) == [table |-> t, ok |-> ok,
                       maglev |-> [maglev EXCEPT ![next_table_id] = Copied(@, tablesRead[main], R)]]
  IN IF main \notin owned THEN {[table |-> main, ok |-> TRUE, maglev |-> maglev]}
     ELSE IF ~IdLeft THEN {[table |-> main, ok |-> FALSE, maglev |-> maglev]}
     ELSE {on(next_table_id, Slot, TRUE)} \cup {on(main, R, FALSE) : R \in SUBSET Slot}

\* A table with slots missing is written whole, unless it fails.
Refills(home, slots) ==
  IF BackendsOf(slots) # {} /\ \E s \in Slot : slots[s] = NoBackend
  THEN {[maglev |-> [home.maglev EXCEPT ![home.table] = Written(@, f, c)], ok |-> c > TableSize] :
          f \in Builds(BackendsOf(slots)), c \in 1 .. TableSize + 1}
  ELSE {[maglev |-> home.maglev, ok |-> BackendsOf(slots) # {}]}

\* The rows that move to the table of address a: all of them, if it is whole and
\* has backends, and otherwise those on the main table.
Moved(a, main, refill) == IF refill.ok THEN SvcPort \ OnTable(rows, a, 0) ELSE OnTable(rows, a, main)

\* The repairs of one address: a row in `stuck' does not move.
Repaired(a, main, home, refill, stuck) ==
  /\ maglev' = refill.maglev
  /\ rows' = Pointed(rows, a, Moved(a, main, refill) \ stuck, home.table)

\* Adopting the next address.  Map errors are ignored.
AdoptLb(a) ==
  /\ phase = "adopting" /\ a \in todo /\ \A x \in todo : a <= x
  /\ LET main == MainTable(rows, tablesRead, a)
         slots == tablesRead[main]
         rest == TablesOf(rows, a) \ {main}
         copies(home) == home.table # main
     IN \E home \in Homes(main) : \E refill \in Refills(home, slots) :
        \E stuck \in SUBSET (IF copies(home) \/ rest # {} THEN Moved(a, main, refill) ELSE {}) :
          LET failed == \/ ~home.ok /\ IdLeft
                        \/ ~refill.ok /\ BackendsOf(slots) # {}
                        \/ stuck # {}
          IN /\ LbFault(failed)
             /\ Repaired(a, main, home, refill, stuck)
             /\ lbs' = [lbs EXCEPT ![a] = [table |-> home.table,
                                           others |-> IF refill.ok THEN {} ELSE rest,
                                           ports |-> SvcPort \ OnTable(rows, a, 0),
                                           backends |-> BackendsOf(slots)]]
             /\ next_table_id' = IF copies(home) THEN next_table_id + 1 ELSE next_table_id
             /\ unsure' = (unsure \/ (~home.ok /\ IdLeft))
             /\ owned' = owned \cup {main}
             /\ left' = IF refill.ok THEN left \cup rest ELSE left
             /\ stray' = stray
                  \cup (IF failed THEN {a} ELSE {})
                  \cup (IF home.ok THEN {} ELSE {a} \cup {c \in Address : lbs[c].table = main})
                  \cup (IF copies(home) THEN Entangled(a, home.table) ELSE {})
                  \cup {c \in Address : \E x \in Address \ {c} : lbs'[x].table \in lbs'[c].others}
  /\ todo' = todo \ {a}
  /\ UNCHANGED <<unread_tables_below, phase, tablesRead, given>>

\* A table an LB's rows moved off goes, unless another LB is on it.
AdoptEnds ==
  /\ phase = "adopting" /\ todo = {} /\ phase' = "up"
  /\ \E kept \in SUBSET Slot :
       /\ LbFault(kept # {})
       /\ maglev' = Cleared(maglev, {t \in left : ~table_in_use(lbs, t)}, kept)
  /\ tablesRead' = NoTables /\ owned' = {} /\ left' = {}
  /\ UNCHANGED <<rows, lbs, next_table_id, unread_tables_below, todo, given, stray, unsure>>

\* The process dies, maybe in the middle of an address's repairs.
LbCrash ==
  /\ phase # "down" /\ phase' = "down"
  /\ \/ UNCHANGED <<rows, maglev, stray>>
     \/ /\ phase = "adopting"
        /\ \E a \in todo :
             /\ \A x \in todo : a <= x
             /\ LET main == MainTable(rows, tablesRead, a)
                IN \E home \in Homes(main) : \E refill \in Refills(home, tablesRead[main]) :
                   \E stuck \in SUBSET Moved(a, main, refill) :
                     /\ Repaired(a, main, home, refill, stuck)
                     /\ stray' = stray \cup (IF home.table # main THEN Entangled(a, home.table) ELSE {})
  /\ lbs' = [a \in Address |-> NoRecord]
  /\ next_table_id' = 1 /\ unread_tables_below' = 0 /\ unsure' = FALSE
  /\ todo' = {} /\ tablesRead' = NoTables /\ owned' = {} /\ left' = {}
  /\ UNCHANGED <<lbFaults, given>>

-----------------------------------------------------------------------------
LbTypeOK ==
  /\ rows \in [Address -> [SvcPort -> 0 .. MaxTable]]
  /\ maglev \in Maglev
  /\ lbs \in [Address -> [table : 0 .. MaxTable, others : SUBSET TableId,
                          ports : SUBSET SvcPort, backends : SUBSET Backend]]
  /\ next_table_id \in TableId /\ unread_tables_below \in 0 .. MaxTable
  /\ phase \in {"down", "adopting", "up"}
  /\ todo \in SUBSET Address /\ tablesRead \in Maglev
  /\ owned \in SUBSET TableId /\ left \in SUBSET TableId
  /\ lbFaults \in 0 .. MaxFaults
  /\ given \in [Address -> SUBSET Backend]
  /\ stray \in SUBSET Address
  /\ unsure \in BOOLEAN

\* The process starts on the maps an earlier version left: an address may be
\* on two tables and two addresses on one, from a counter that started over.
LbInit ==
  /\ phase = "down" /\ lbs = [a \in Address |-> NoRecord]
  /\ next_table_id = 1 /\ unread_tables_below = 0
  /\ todo = {} /\ tablesRead = NoTables /\ owned = {} /\ left = {}
  /\ \E old \in OldMaps : rows = old.rows /\ maglev = old.maglev
  /\ given = [a \in Address |-> Reached(rows, maglev, a, SvcPort)]
  /\ lbFaults = 0 /\ stray = {} /\ unsure = FALSE

LbNext ==
  \/ \E a \in Address, P \in PortSets : CreateLb(a, P)
  \/ \E a \in Address, b \in Backend : AddLbTarget(a, b) \/ DelLbTarget(a, b)
  \/ \E a \in Address : DeleteLb(a) \/ AdoptLb(a)
  \/ AdoptReads \/ AdoptCut \/ AdoptEnds \/ LbCrash

LbSpec == LbInit /\ [][LbNext]_lbVars

-----------------------------------------------------------------------------
(***************************************************************************)
(* A packet for a load balancer is only ever sent to a backend that this   *)
(* load balancer was given: no table id is handed out twice, no table is   *)
(* freed or rewritten under another load balancer, through any sequence of *)
(* partial rebuilds, partial deletes, restarts and deaths in the middle of *)
(* an adoption.  Excepted are addresses with a row the code lost hold of:  *)
(* one whose removal failed after a failed create; one that an adoption    *)
(* could not read, repair or copy, or left on another's table; and one on  *)
(* an id that a cut walk did not know to be in use.                        *)
(***************************************************************************)
ForwardsToOwn ==
  \A a \in Address \ stray : Reached(rows, maglev, a, SvcPort) \subseteq given[a]

(***************************************************************************)
(* Adopting the maps after a restart never turns a port that reached a     *)
(* backend into one that reaches none, whatever tables were shared, split, *)
(* half written or left over, not even between two repairs.                *)
(***************************************************************************)
AdoptKeepsService ==
  [][phase # "up" => \A a \in Address \ stray', p \in SvcPort :
       Reached(rows, maglev, a, {p}) # {} => Reached(rows', maglev', a, {p}) # {}]_lbVars
=============================================================================
