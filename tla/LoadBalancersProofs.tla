------------------------ MODULE LoadBalancersProofs -------------------------
(***************************************************************************)
(* The theorems about the load balancers, from the invariant and the calls *)
(* in LoadBalancersInvariant: a restart reads the maps, adopts one address *)
(* after the other and may die at any point, and the invariant stands.     *)
(***************************************************************************)
EXTENDS LoadBalancersInvariant

-----------------------------------------------------------------------------
(* Restart *)

\* adopt_lbs, a whole walk: the tables are in no record yet, and the counter is past them.
LEMMA ReadsKeeps ==
  ASSUME LbInv, AdoptReads
  PROVE  LbInv'
<1> DEFINE T == TableId \ UNION {TablesOf(rows, a) : a \in Address}
           n == FirstFree(rows, maglev)
<1>1. /\ phase = "down" /\ phase' = "adopting"
      /\ next_table_id' = n /\ unread_tables_below' = 0 /\ unsure' = FALSE
      /\ todo' = {a \in Address : TablesOf(rows, a) # {}}
      /\ tablesRead' = maglev /\ owned' = {} /\ left' = {}
      /\ UNCHANGED <<rows, lbs, given, stray>>
  BY Zenon DEF AdoptReads
<1>2. PICK kept \in SUBSET Slot : LbFault(kept # {}) /\ maglev' = Cleared(maglev, T, kept)
  BY Zenon DEF AdoptReads
<1>3. rows \in Rows /\ maglev \in Maglev
  BY Zenon DEF LbInv, LbTypeOK, Rows
<1>4. \A a \in Address : lbs[a] = NoRecord /\ lbs[a].table = 0 /\ lbs[a].backends = {}
  BY <1>1 DEF LbInv, RecordInv, NoRecord
<1>5. \A a \in Address : \A t \in TablesOf(rows, a) : t \in TableId \ T /\ t # 0
  BY <1>3, TablesAre
<1>6. /\ n \in TableId
      /\ n < MaxTable => \A t \in TableId : (\E a \in Address : t \in TablesOf(rows, a)) \/ BackendsOf(maglev[t]) # {}
                                            => t < n
  BY <1>3, FirstFreeIs, Zenon
<1> HIDE DEF T, n
<1>7. /\ maglev' \in Maglev
      /\ \A t \in TableId : BackendsOf(maglev'[t]) \subseteq BackendsOf(maglev[t])
      /\ \A t \in TableId \ T : maglev'[t] = maglev[t]
  BY <1>2, <1>3, ClearedIs
<1>8. \A a \in Address : \A t \in TablesOf(rows, a) : maglev'[t] = maglev[t]
  BY <1>5, <1>7, Zenon
<1>9. \A a \in Address \ stray : \A t \in TablesOf(rows, a) : BackendsOf(maglev[t]) \subseteq given[a]
  BY <1>3, ReachedIs, Zenon DEF LbInv, GivenInv
<1>10. LbTypeOK'
  <2>1. lbFaults' \in 0 .. MaxFaults
    BY <1>2, FaultType, Zenon DEF LbInv, LbTypeOK
  <2>2. 0 \in 0 .. MaxTable
    BY LoadBalancersAssumption
  <2> QED
    BY <1>1, <1>3, <1>6, <1>7, <2>1, <2>2, Zenon DEF LbInv, LbTypeOK
<1>11. GivenInv'
  <2> SUFFICES ASSUME NEW a \in Address \ stray PROVE Reached(rows, maglev', a, SvcPort) \subseteq given[a]
    BY <1>1, <1>4, Zenon DEF GivenInv
  <2> QED
    BY <1>3, <1>8, <1>9, ReachedIs, Zenon
<1>12. ApartInv'
  BY <1>1, <1>4, <1>5, Zenon DEF ApartInv
<1>13. n \in Nat /\ n > 0
  BY <1>6 DEF TableId
<1>14. \A t \in TableId : n < MaxTable /\ t >= n => BackendsOf(maglev[t]) = {}
  BY <1>6, <1>13 DEF TableId
<1>15. FreshInv'
  BY <1>1, <1>4, <1>5, <1>6, <1>7, <1>13, <1>14, Zenon DEF FreshInv, IdLeft
<1>16. RecordInv'
  BY <1>1, <1>4, Zenon DEF RecordInv
<1>17. TodoInv'
  BY <1>1, <1>4, <1>5, <1>6, <1>8 DEF TodoInv, IdLeft
<1>18. AdoptInv'
  <2>1. \A a \in Address \ (stray \cup todo') : TablesOf(rows, a) = {}
    BY <1>1, Zenon
  <2> QED
    BY <1>1, <1>9, <1>14, <2>1, Zenon DEF AdoptInv, IdLeft
<1> QED
  BY <1>10, <1>11, <1>12, <1>15, <1>16, <1>17, <1>18, Zenon DEF LbInv

\* adopt_lbs, a walk that stays cut: what is listed was read from the maps.
LEMMA CutKeeps ==
  ASSUME LbInv, AdoptCut
  PROVE  LbInv'
<1>1. /\ phase = "down" /\ phase' = "up" /\ LbFault(TRUE) /\ unsure' = TRUE
      /\ stray' = stray \cup {a \in Address : \E c \in Address \ {a} : lbs'[c].table \in TablesOf(rows, a)}
      /\ UNCHANGED <<rows, maglev, todo, tablesRead, owned, left, given>>
  BY Zenon DEF AdoptCut, adoption
<1>2. PICK seen \in SUBSET {x \in Address \X SvcPort : rows[x[1]][x[2]] # 0},
           m \in {maglev, NoTables}, got \in SUBSET Slot :
        LET read == [a \in Address |-> [p \in SvcPort |-> IF <<a, p>> \in seen THEN rows[a][p] ELSE 0]]
            slots == Cleared(maglev, TableId, got)
            main(a) == MainTable(read, slots, a)
            next == Min({FirstFree(read, m) + Jump, MaxTable})
        IN /\ lbs' = [a \in Address |->
                IF TablesOf(read, a) = {} THEN NoRecord
                ELSE [table |-> main(a), others |-> TablesOf(read, a) \ {main(a)},
                      ports |-> SvcPort \ OnTable(read, a, 0), backends |-> BackendsOf(slots[main(a)])]]
           /\ next_table_id' = next /\ unread_tables_below' = next
  BY Zenon DEF AdoptCut
<1> DEFINE read == [a \in Address |-> [p \in SvcPort |-> IF <<a, p>> \in seen THEN rows[a][p] ELSE 0]]
           slots == Cleared(maglev, TableId, got)
           main(a) == MainTable(read, slots, a)
           first == FirstFree(read, m)
           next == Min({first + Jump, MaxTable})
           rec(a) == [table |-> main(a), others |-> TablesOf(read, a) \ {main(a)},
                      ports |-> SvcPort \ OnTable(read, a, 0), backends |-> BackendsOf(slots[main(a)])]
<1>3. /\ lbs' = [a \in Address |-> IF TablesOf(read, a) = {} THEN NoRecord ELSE rec(a)]
      /\ next_table_id' = next /\ unread_tables_below' = next
  BY <1>2, Zenon
<1>4. /\ rows \in Rows /\ maglev \in Maglev /\ m \in Maglev /\ todo = {} /\ MaxTable \in Nat \ {0}
      /\ 0 \in 0 .. MaxTable
  <2>1. NoTables \in Maglev
    BY Zenon DEF NoTables, Maglev
  <2> QED
    BY <1>1, <2>1, LoadBalancersAssumption DEF LbInv, LbTypeOK, Rows, RecordInv
<1>5. read \in Rows /\ \A a \in Address, p \in SvcPort : read[a][p] = 0 \/ read[a][p] = rows[a][p]
  <2>1. \A a \in Address, p \in SvcPort : rows[a][p] \in 0 .. MaxTable
    BY <1>4, Zenon DEF Rows
  <2> QED
    BY <1>4, <2>1, Zenon DEF Rows
<1>6. slots \in Maglev /\ \A t \in TableId : BackendsOf(slots[t]) \subseteq BackendsOf(maglev[t])
  BY <1>4, ClearedIs, Zenon
<1> HIDE DEF read, slots
<1>7. \A a \in Address : TablesOf(read, a) \subseteq TablesOf(rows, a) /\ TablesOf(read, a) \subseteq TableId
  BY <1>4, <1>5, TablesAre
<1>8. \A a \in Address : TablesOf(read, a) # {} => main(a) \in TablesOf(read, a)
  BY <1>5, MainTableIs, Zenon
<1> HIDE DEF main
<1>9. \A a \in Address : TablesOf(read, a) # {} =>
        /\ rec(a) \in Records /\ rec(a).table = main(a) /\ rec(a).backends \subseteq BackendsOf(maglev[main(a)])
        /\ main(a) \in TablesOf(rows, a) /\ main(a) \in TableId
  <2> SUFFICES ASSUME NEW a \in Address, TablesOf(read, a) # {}
               PROVE  /\ rec(a) \in Records /\ rec(a).table = main(a)
                      /\ rec(a).backends \subseteq BackendsOf(maglev[main(a)])
                      /\ main(a) \in TablesOf(rows, a) /\ main(a) \in TableId
    OBVIOUS
  <2>1. main(a) \in TablesOf(rows, a) /\ main(a) \in TableId
    BY <1>7, <1>8, Zenon
  <2>2. BackendsOf(slots[main(a)]) \subseteq Backend
    BY <1>6, <2>1, TableIs, BackendsAre, Zenon
  <2>3. main(a) \in 0 .. MaxTable
    BY <1>4, <2>1 DEF TableId
  <2>4. rec(a) \in Records
    BY <1>7, <2>2, <2>3, Zenon DEF Records
  <2> QED
    BY <1>6, <2>1, <2>4, Zenon
<1> HIDE DEF rec
<1>10. /\ lbs' \in [Address -> Records]
       /\ \A a \in Address : \/ lbs'[a] = NoRecord
                             \/ /\ lbs'[a].table = main(a) /\ TablesOf(read, a) # {}
                                /\ lbs'[a].table # 0
                                /\ lbs'[a].backends \subseteq BackendsOf(maglev[main(a)])
  <2>1. NoRecord \in Records
    BY <1>4, Zenon DEF NoRecord, Records
  <2>2. \A t \in TableId : t # 0
    BY DEF TableId
  <2> QED
    BY <1>3, <1>9, <2>1, <2>2, Zenon
<1>11. /\ first \in TableId /\ first \in Nat
       /\ first < MaxTable => \A a \in Address : \A t \in TablesOf(read, a) : t < first
  BY <1>4, <1>5, <1>7, FirstFreeIs DEF TableId
<1> HIDE DEF first
<1>12. /\ next \in TableId /\ next \in 0 .. MaxTable
       /\ next < MaxTable => first < MaxTable /\ first <= next
  <2>1. first + Jump \in Nat /\ first + Jump >= first /\ first >= 1 /\ first <= MaxTable
    BY <1>4, <1>11, LoadBalancersAssumption DEF TableId
  <2>2. next = IF first + Jump <= MaxTable THEN first + Jump ELSE MaxTable
    BY <1>4, <2>1, LowerOf, Zenon
  <2> HIDE DEF next
  <2> QED
    BY <1>4, <1>11, <2>1, <2>2, LoadBalancersAssumption DEF TableId
<1> HIDE DEF next
<1>13. LbTypeOK'
  <2>1. lbFaults' \in 0 .. MaxFaults
    BY <1>1, FaultType, Zenon DEF LbInv, LbTypeOK
  <2> QED
    BY <1>1, <1>3, <1>10, <1>12, <2>1, Zenon DEF LbInv, LbTypeOK, Records
<1>14. GivenInv'
  <2> SUFFICES ASSUME NEW a \in Address \ stray
               PROVE  Reached(rows, maglev, a, SvcPort) \subseteq given[a] /\ lbs'[a].backends \subseteq given[a]
    BY <1>1, Zenon DEF GivenInv
  <2>1. Reached(rows, maglev, a, SvcPort) \subseteq given[a]
    BY Zenon DEF LbInv, GivenInv
  <2>2. \A t \in TablesOf(rows, a) : BackendsOf(maglev[t]) \subseteq given[a]
    BY <1>4, <2>1, ReachedIs, Zenon
  <2>3. NoRecord.backends = {}
    BY Zenon DEF NoRecord
  <2> QED
    BY <1>9, <1>10, <2>1, <2>2, <2>3, Zenon
<1>15. ApartInv'
  BY <1>1, Zenon DEF ApartInv
<1>16. FreshInv'
  <2>1. ASSUME next < MaxTable, NEW a \in Address PROVE lbs'[a].table < next
    <3>1. CASE lbs'[a] = NoRecord
      BY <1>12, <3>1 DEF NoRecord, TableId
    <3>2. CASE lbs'[a] # NoRecord
      <4>1. lbs'[a].table \in TablesOf(read, a) /\ lbs'[a].table \in TableId
        BY <1>7, <1>8, <1>10, <3>2, Zenon
      <4>2. lbs'[a].table < first /\ first <= next
        BY <1>11, <1>12, <2>1, <4>1, Zenon
      <4> QED
        BY <1>11, <1>12, <4>1, <4>2 DEF TableId
    <3> QED
      BY <3>1, <3>2, Zenon
  <2> QED
    BY <1>1, <1>3, <2>1, Zenon DEF FreshInv, IdLeft
<1>17. RecordInv' /\ TodoInv' /\ AdoptInv'
  BY <1>1, <1>4, <1>10, Zenon DEF RecordInv, TodoInv, AdoptInv
<1> QED
  BY <1>13, <1>14, <1>15, <1>16, <1>17, Zenon DEF LbInv

\* The end of adopt_lbs: tables that rows moved off go.
LEMMA EndsKeeps ==
  ASSUME LbInv, AdoptEnds
  PROVE  LbInv'
<1>1. /\ phase = "adopting" /\ todo = {} /\ phase' = "up"
      /\ tablesRead' = NoTables /\ owned' = {} /\ left' = {}
      /\ UNCHANGED <<rows, lbs, next_table_id, unread_tables_below, todo, given, stray, unsure>>
  BY Zenon DEF AdoptEnds
<1>2. PICK kept \in SUBSET Slot :
        LbFault(kept # {}) /\ maglev' = Cleared(maglev, {t \in left : ~table_in_use(lbs, t)}, kept)
  BY Zenon DEF AdoptEnds
<1>3. rows \in Rows /\ maglev \in Maglev /\ NoTables \in Maglev
  BY Zenon DEF LbInv, LbTypeOK, Rows, NoTables, Maglev
<1>4. maglev' \in Maglev /\ \A t \in TableId : BackendsOf(maglev'[t]) \subseteq BackendsOf(maglev[t])
  BY <1>2, <1>3, ClearedIs, Zenon
<1>5. LbTypeOK'
  <2>1. lbFaults' \in 0 .. MaxFaults
    BY <1>2, FaultType, Zenon DEF LbInv, LbTypeOK
  <2> QED
    BY <1>1, <1>3, <1>4, <2>1, Zenon DEF LbInv, LbTypeOK
<1>6. GivenInv'
  <2> SUFFICES ASSUME NEW c \in Address \ stray
               PROVE  Reached(rows, maglev', c, SvcPort) \subseteq given[c] /\ lbs[c].backends \subseteq given[c]
    BY <1>1, Zenon DEF GivenInv
  <2>1. Reached(rows, maglev, c, SvcPort) \subseteq given[c] /\ lbs[c].backends \subseteq given[c]
    BY Zenon DEF LbInv, GivenInv
  <2>2. \A t \in TablesOf(rows, c) : BackendsOf(maglev'[t]) \subseteq BackendsOf(maglev[t])
    BY <1>3, <1>4, TablesAre, Zenon
  <2> QED
    BY <1>3, <2>1, <2>2, LessReached, Zenon
<1>7. ApartInv' /\ RecordInv' /\ TodoInv' /\ AdoptInv'
  BY <1>1, Zenon DEF LbInv, ApartInv, RecordInv, TodoInv, AdoptInv
<1>8. FreshInv'
  BY <1>1, <1>4, Zenon DEF LbInv, FreshInv, IdLeft
<1> QED
  BY <1>5, <1>6, <1>7, <1>8, Zenon DEF LbInv

\* The maps are left as they are, or in the middle of the repairs of one address.
CrashMaps ==
  \/ UNCHANGED <<rows, maglev, stray>>
  \/ /\ phase = "adopting"
     /\ \E a \in todo : \E home \in Homes(Main(a)) : \E refill \in Refills(home, tablesRead[Main(a)]) : \E stuck :
          /\ rows' = RowsAfter(a, home, refill, stuck) /\ maglev' = refill.maglev
          /\ stray' = Lost(a, home)

\* What a death does to the maps.
LEMMA CrashIs ==
  ASSUME LbCrash
  PROVE  CrashMaps
<1>1. CASE UNCHANGED <<rows, maglev, stray>>
  BY <1>1, Zenon DEF CrashMaps
<1>2. CASE ~UNCHANGED <<rows, maglev, stray>>
  <2>1. PICK a \in todo : \E home \in Homes(Main(a)) : \E refill \in Refills(home, tablesRead[Main(a)]) :
          \E stuck \in SUBSET Moved(a, Main(a), refill) :
            /\ Repaired(a, Main(a), home, refill, stuck)
            /\ stray' = stray \cup (IF home.table # Main(a) THEN Entangled(a, home.table) ELSE {})
    BY <1>2, Zenon DEF LbCrash, Main
  <2>2. phase = "adopting"
    BY <1>2, Zenon DEF LbCrash
  <2> QED
    BY <2>1, <2>2, Zenon DEF CrashMaps, RowsAfter, Repaired, Lost
<1> QED
  BY <1>1, <1>2, Zenon

\* A death of the process.
LEMMA LbCrashKeeps ==
  ASSUME LbInv, LbCrash
  PROVE  LbInv'
<1>1. /\ phase' = "down" /\ lbs' = [a \in Address |-> NoRecord]
      /\ next_table_id' = 1 /\ unread_tables_below' = 0 /\ unsure' = FALSE
      /\ todo' = {} /\ tablesRead' = NoTables /\ owned' = {} /\ left' = {}
      /\ UNCHANGED <<lbFaults, given>>
  BY Zenon DEF LbCrash
<1>2. /\ rows' \in Rows /\ maglev' \in Maglev /\ stray' \in SUBSET Address
      /\ \A c \in Address \ stray' : Reached(rows', maglev', c, SvcPort) \subseteq given[c]
  <2>1. rows \in Rows /\ maglev \in Maglev /\ stray \in SUBSET Address /\ todo \in SUBSET Address
    BY Zenon DEF LbInv, LbTypeOK, Rows
  <2>2. CASE UNCHANGED <<rows, maglev, stray>>
    BY <2>1, <2>2, Zenon DEF LbInv, GivenInv
  <2>3. ASSUME phase = "adopting", NEW a \in todo, NEW home \in Homes(Main(a)),
               NEW refill \in Refills(home, tablesRead[Main(a)]), NEW stuck,
               rows' = RowsAfter(a, home, refill, stuck), maglev' = refill.maglev, stray' = Lost(a, home)
        PROVE  <1>2
    <3>1. rows' \in Rows /\ maglev' \in Maglev
      BY <2>3, RepairIs, Zenon DEF LbInv
    <3>2. stray' \in SUBSET Address
      BY <2>1, <2>3, Zenon DEF Lost, Entangled
    <3>3. \A c \in Address \ stray' : Reached(rows', maglev', c, SvcPort) \subseteq given[c]
      BY <2>3, RepairGives, Zenon DEF LbInv
    <3> QED
      BY <3>1, <3>2, <3>3, Zenon
  <2> QED
    BY <2>2, <2>3, CrashIs, Zenon DEF CrashMaps
<1>3. \A a \in Address : lbs'[a] = NoRecord /\ lbs'[a].table = 0 /\ lbs'[a].backends = {}
  BY <1>1, Zenon DEF NoRecord
<1>4. LbTypeOK'
  <2>1. NoTables \in Maglev /\ 1 \in TableId /\ 0 \in 0 .. MaxTable
    BY LoadBalancersAssumption DEF NoTables, Maglev, TableId
  <2>2. lbs' \in [Address -> Records]
    BY <1>1, <2>1, Zenon DEF NoRecord, Records
  <2> QED
    BY <1>1, <1>2, <2>1, <2>2, Zenon DEF LbInv, LbTypeOK, Rows, Records
<1>5. GivenInv'
  BY <1>1, <1>2, <1>3, Zenon DEF GivenInv
<1>6. ApartInv'
  BY <1>3, Zenon DEF ApartInv, TablesOf
<1>7. FreshInv'
  BY <1>1, <1>3 DEF FreshInv
<1>8. RecordInv' /\ TodoInv' /\ AdoptInv'
  BY <1>1, <1>3, Zenon DEF RecordInv, TodoInv, AdoptInv
<1> QED
  BY <1>4, <1>5, <1>6, <1>7, <1>8, Zenon DEF LbInv

\* Adopting one address, with the repairs that were done and who lost hold of a row.
AdoptedBy(a, home, refill, stuck) ==
  LET rest == TablesOf(rows, a) \ {Main(a)}
  IN /\ rows' = RowsAfter(a, home, refill, stuck) /\ maglev' = refill.maglev
     /\ lbs' = [lbs EXCEPT ![a] = [table |-> home.table,
                                   others |-> IF refill.ok THEN {} ELSE rest,
                                   ports |-> SvcPort \ OnTable(rows, a, 0),
                                   backends |-> BackendsOf(tablesRead[Main(a)])]]
     /\ next_table_id' = IF home.table # Main(a) THEN next_table_id + 1 ELSE next_table_id
     /\ unsure' = (unsure \/ (~home.ok /\ IdLeft))
     /\ owned' = owned \cup {Main(a)}
     /\ left' = IF refill.ok THEN left \cup rest ELSE left
     /\ stray' \in SUBSET (stray \cup Address) /\ Lost(a, home) \subseteq stray'
     /\ stuck # {} => a \in stray'
     /\ ~home.ok => a \in stray' /\ \A c \in Address : lbs[c].table = Main(a) => c \in stray'
     /\ \A c \in Address : \A x \in Address \ {c} : lbs'[x].table \in lbs'[c].others => c \in stray'
     /\ \E bad : LbFault(bad)

\* The action, in these terms.
LEMMA AdoptIs ==
  ASSUME NEW a \in Address, AdoptLb(a)
  PROVE  /\ phase = "adopting" /\ a \in todo /\ todo' = todo \ {a}
         /\ UNCHANGED <<unread_tables_below, phase, tablesRead, given>>
         /\ \E home \in Homes(Main(a)) : \E refill \in Refills(home, tablesRead[Main(a)]) : \E stuck :
              AdoptedBy(a, home, refill, stuck)
<1>1. /\ phase = "adopting" /\ a \in todo /\ todo' = todo \ {a}
      /\ UNCHANGED <<unread_tables_below, phase, tablesRead, given>>
  BY Zenon DEF AdoptLb
<1> DEFINE rest == TablesOf(rows, a) \ {Main(a)}
           slots == tablesRead[Main(a)]
           failed(home, refill, stuck) == \/ ~home.ok /\ IdLeft
                                          \/ ~refill.ok /\ BackendsOf(slots) # {}
                                          \/ stuck # {}
           step(home, refill, stuck) ==
             /\ LbFault(failed(home, refill, stuck))
             /\ Repaired(a, Main(a), home, refill, stuck)
             /\ lbs' = [lbs EXCEPT ![a] = [table |-> home.table, others |-> IF refill.ok THEN {} ELSE rest,
                                           ports |-> SvcPort \ OnTable(rows, a, 0), backends |-> BackendsOf(slots)]]
             /\ next_table_id' = IF home.table # Main(a) THEN next_table_id + 1 ELSE next_table_id
             /\ unsure' = (unsure \/ (~home.ok /\ IdLeft))
             /\ owned' = owned \cup {Main(a)}
             /\ left' = IF refill.ok THEN left \cup rest ELSE left
             /\ stray' = stray
                  \cup (IF failed(home, refill, stuck) THEN {a} ELSE {})
                  \cup (IF home.ok THEN {} ELSE {a} \cup {c \in Address : lbs[c].table = Main(a)})
                  \cup (IF home.table # Main(a) THEN Entangled(a, home.table) ELSE {})
                  \cup {c \in Address : \E x \in Address \ {c} : lbs'[x].table \in lbs'[c].others}
<1>2. \E home \in Homes(Main(a)) : \E refill \in Refills(home, slots) : \E stuck : step(home, refill, stuck)
  BY ZenonT(30) DEF AdoptLb, Main
<1>3. ASSUME NEW home, NEW refill, NEW stuck, step(home, refill, stuck)
      PROVE  AdoptedBy(a, home, refill, stuck)
  <2>1. stray' \in SUBSET (stray \cup Address) /\ Lost(a, home) \subseteq stray'
    BY <1>3, Zenon DEF Lost, Entangled
  <2>2. stuck # {} => a \in stray'
    BY <1>3, Zenon
  <2>3. ~home.ok => a \in stray' /\ \A c \in Address : lbs[c].table = Main(a) => c \in stray'
    BY <1>3, Zenon
  <2>4. \A c \in Address : \A x \in Address \ {c} : lbs'[x].table \in lbs'[c].others => c \in stray'
    BY <1>3, Zenon
  <2>5. rows' = RowsAfter(a, home, refill, stuck) /\ maglev' = refill.maglev
    BY <1>3, Zenon DEF Repaired, RowsAfter
  <2> HIDE DEF failed
  <2>6. \E bad : LbFault(bad)
    BY <1>3, Zenon
  <2> QED
    BY <1>3, <2>1, <2>2, <2>3, <2>4, <2>5, <2>6, Zenon DEF AdoptedBy
<1> HIDE DEF step
<1> QED
  BY <1>1, <1>2, <1>3, Zenon

\* What adopting an address comes to: its main table, the table it is adopted on, which is
\* that one or the next, and what else its record names.
Adopted(a, main, table, others) ==
  /\ a \in todo /\ a \in Address /\ todo' = todo \ {a}
  /\ main \in TablesOf(rows, a) /\ main \in TableId /\ (IdLeft => main < next_table_id)
  /\ table \in TableId
  /\ table = main \/ (table = next_table_id /\ IdLeft /\ main \in owned)
  /\ table = main /\ main \in owned =>
       a \in stray' /\ \A c \in Address : lbs[c].table = main => c \in stray'
  /\ next_table_id' = IF table # main THEN next_table_id + 1 ELSE next_table_id
  /\ lbs'[a].table = table /\ lbs'[a].others = others
  /\ lbs'[a].backends = BackendsOf(tablesRead[main])
  /\ \A c \in Address \ {a} : lbs'[c] = lbs[c]
  /\ \A c \in Address : \A x \in Address \ {c} : lbs'[x].table \in lbs'[c].others => c \in stray'
  /\ stray \subseteq stray' /\ (unsure => unsure')
  /\ owned' = owned \cup {main}
  /\ \A c \in Address \ {a} : TablesOf(rows', c) = TablesOf(rows, c)
  /\ TablesOf(rows', a) \subseteq TablesOf(rows, a) \cup {table}
  /\ a \notin stray' => TablesOf(rows', a) \subseteq {table} \cup others
  /\ \A t \in TableId : t # main /\ t # next_table_id => maglev'[t] = maglev[t]
  /\ IdLeft /\ ~unsure' /\ table = main =>
       \A t \in TableId : t # main => maglev'[t] = maglev[t]

\* Adopting one address, by the facts on the repairs.
LEMMA AdoptedIs ==
  ASSUME LbInv, phase = "adopting", NEW a \in todo, NEW home \in Homes(Main(a)),
         NEW refill \in Refills(home, tablesRead[Main(a)]), NEW stuck,
         AdoptedBy(a, home, refill, stuck), todo' = todo \ {a}
  PROVE  /\ Adopted(a, Main(a), home.table, IF refill.ok THEN {} ELSE TablesOf(rows, a) \ {Main(a)})
         /\ lbs' \in [Address -> Records]
         /\ rows' \in Rows /\ maglev' \in Maglev /\ stray' \in SUBSET Address
         /\ left' \in SUBSET TableId /\ owned' \in SUBSET TableId
<1> DEFINE main == Main(a)
           n == next_table_id
           others == IF refill.ok THEN {} ELSE TablesOf(rows, a) \ {main}
           new == [table |-> home.table, others |-> others, ports |-> SvcPort \ OnTable(rows, a, 0),
                   backends |-> BackendsOf(tablesRead[main])]
<1> USE DEF LbInv
<1>1. /\ rows' = RowsAfter(a, home, refill, stuck) /\ maglev' = refill.maglev
      /\ lbs' = [lbs EXCEPT ![a] = new]
      /\ n' = IF home.table # main THEN n + 1 ELSE n
      /\ unsure' = (unsure \/ (~home.ok /\ IdLeft))
      /\ owned' = owned \cup {main}
      /\ left' = IF refill.ok THEN left \cup (TablesOf(rows, a) \ {main}) ELSE left
  BY Zenon DEF AdoptedBy
<1>2. /\ stray' \in SUBSET (stray \cup Address) /\ Lost(a, home) \subseteq stray'
      /\ stuck # {} => a \in stray'
      /\ ~home.ok => a \in stray' /\ \A c \in Address : lbs[c].table = main => c \in stray'
      /\ \A c \in Address : \A x \in Address \ {c} : lbs'[x].table \in lbs'[c].others => c \in stray'
  BY Zenon DEF AdoptedBy
<1>3. /\ a \in Address /\ main \in TablesOf(rows, a) /\ main \in TableId
      /\ tablesRead[main] \in Slots
      /\ IdLeft => main # n /\ main < n
  BY MainIs, Zenon
<1>4. /\ home.table \in TableId
      /\ home.table = main \/ (home.table = n /\ IdLeft /\ main \in owned /\ home.ok)
      /\ home.table = main /\ home.ok => main \notin owned
      /\ maglev' \in Maglev /\ rows' \in Rows
      /\ \A c \in Address \ {a} : TablesOf(rows', c) = TablesOf(rows, c)
      /\ TablesOf(rows', a) \subseteq TablesOf(rows, a) \cup {home.table}
      /\ \A t \in TableId : t # main /\ (t # n \/ ~IdLeft) => maglev'[t] = maglev[t]
  BY <1>1, RepairIs
<1>5. /\ rows \in Rows /\ lbs \in [Address -> Records] /\ stray \in SUBSET Address
      /\ left \in SUBSET TableId /\ owned \in SUBSET TableId
  BY Zenon DEF LbTypeOK, Rows, Records
<1>6. a \notin stray' => TablesOf(rows', a) \subseteq {home.table} \cup others
  <2> SUFFICES ASSUME a \notin stray' PROVE TablesOf(rows', a) \subseteq {home.table} \cup others
    OBVIOUS
  <2>1. rows' = RowsAfter(a, home, refill, {})
    BY <1>1, <1>2, Zenon
  <2> QED
    BY <2>1, RepairNames, Zenon
<1>7. stray \subseteq stray' /\ stray' \in SUBSET Address
  BY <1>2, <1>5, Zenon DEF Lost
<1>8. /\ lbs'[a].table = home.table /\ lbs'[a].others = others
      /\ lbs'[a].backends = BackendsOf(tablesRead[main])
      /\ \A c \in Address \ {a} : lbs'[c] = lbs[c]
      /\ lbs' \in [Address -> Records]
  <2>1. others \in SUBSET TableId
    BY <1>3, <1>5, TablesAre
  <2>2. BackendsOf(tablesRead[main]) \in SUBSET Backend
    BY <1>3, BackendsAre, Zenon
  <2>3. home.table \in 0 .. MaxTable
    BY <1>4 DEF TableId
  <2> HIDE DEF others, main
  <2>4. /\ new \in Records /\ new.table = home.table /\ new.others = others
        /\ new.backends = BackendsOf(tablesRead[main])
    BY <2>1, <2>2, <2>3, Zenon DEF Records
  <2> HIDE DEF new
  <2> QED
    BY <1>1, <1>3, <1>5, <2>4, Zenon
<1>9. ASSUME IdLeft, ~unsure', home.table = main, NEW t \in TableId, t # main PROVE maglev'[t] = maglev[t]
  <2>1. home.ok /\ main \notin owned
    BY <1>1, <1>4, <1>9, Zenon
  <2>2. home.maglev = maglev /\ home.maglev \in Maglev
    BY <1>3, <2>1, HomesAre, Zenon
  <2>3. \A u \in TableId \ {home.table} : refill.maglev[u] = home.maglev[u]
    BY <1>3, <1>4, <2>2, RefillsAre, Zenon
  <2>4. maglev'[t] = home.maglev[t]
    BY <1>1, <1>9, <2>3, Zenon
  <2> QED
    BY <2>2, <2>4, Zenon
<1> HIDE DEF main, new, others
<1>10. left' \in SUBSET TableId /\ owned' \in SUBSET TableId
  BY <1>1, <1>3, <1>5, TablesAre, Zenon
<1>11. Adopted(a, main, home.table, others)
  BY <1>1, <1>2, <1>3, <1>4, <1>6, <1>7, <1>8, <1>9, Zenon DEF Adopted
<1> QED
  BY <1>4, <1>7, <1>8, <1>10, <1>11, Zenon DEF main, others

\* The adopted address is given nothing of another's.
LEMMA AdoptedApart ==
  ASSUME LbInv, phase = "adopting", NEW a, NEW main, NEW table, NEW others, Adopted(a, main, table, others)
  PROVE  ApartInv'
<1> USE DEF LbInv
\* No other address is on the table it is adopted on.
<1>1. ASSUME NEW c \in Address, NEW d \in Address, lbs[d].table = table, c \in {a, d} PROVE c \in stray'
  <2>1. CASE table = main
    <3>1. main \in owned
      BY <1>1, <2>1, Zenon DEF Adopted, TodoInv
    <3> QED
      BY <1>1, <2>1, <3>1, Zenon DEF Adopted
  <2>2. CASE table # main
    <3>1. IdLeft /\ lbs[d].table = next_table_id /\ next_table_id \in Nat
      BY <1>1, <2>2, LoadBalancersAssumption DEF Adopted, LbTypeOK, TableId
    <3> QED
      BY <3>1 DEF FreshInv
  <2> QED
    BY <2>1, <2>2, Zenon
<1> SUFFICES ASSUME NEW c \in Address \ (stray' \cup todo'), NEW d \in Address \ {c},
                    lbs'[d].table \in TablesOf(rows', c)
             PROVE  FALSE
  BY Zenon DEF ApartInv
<1>2. CASE c = a
  <2>1. lbs'[d].table = lbs[d].table /\ lbs'[d].table \notin others
    BY <1>2, Zenon DEF Adopted
  <2>2. lbs[d].table = table
    BY <1>2, <2>1, Zenon DEF Adopted
  <2> QED
    BY <1>1, <1>2, <2>2, Zenon
<1>3. CASE c # a
  <2>1. /\ c \in Address \ (stray \cup todo) /\ a \in Address
        /\ TablesOf(rows', c) = TablesOf(rows, c) /\ lbs'[c] = lbs[c]
    BY <1>3, Zenon DEF Adopted
  <2>2. CASE d # a
    <3>1. lbs'[d] = lbs[d]
      BY <2>2, Zenon DEF Adopted
    <3> QED
      BY <2>1, <3>1, Zenon DEF ApartInv
  <2>3. CASE d = a
    <3>1. TablesOf(rows, c) \subseteq {lbs[c].table} \cup lbs[c].others
      BY <2>1, Zenon DEF AdoptInv
    <3>2. lbs'[a].table = table /\ lbs'[a].table \notin lbs[c].others
      BY <1>3, <2>1, Zenon DEF Adopted
    <3>3. lbs[c].table = table
      BY <2>1, <2>3, <3>1, <3>2, Zenon
    <3> QED
      BY <1>1, <2>1, <3>3, Zenon
  <2> QED
    BY <2>2, <2>3, Zenon
<1> QED
  BY <1>2, <1>3, Zenon

\* The counter after an adoption.
LEMMA AdoptedCounter ==
  ASSUME LbInv, NEW a, NEW main, NEW table, NEW others, Adopted(a, main, table, others)
  PROVE  /\ next_table_id \in Nat /\ next_table_id' \in Nat /\ next_table_id <= next_table_id'
         /\ next_table_id' < MaxTable => IdLeft
         /\ next_table_id' \in TableId
         /\ table # main => next_table_id' = next_table_id + 1
         /\ table = main => next_table_id' = next_table_id
         /\ table \in Nat /\ main \in Nat
         /\ next_table_id' < MaxTable => table < next_table_id'
<1>1. /\ next_table_id \in Nat /\ next_table_id >= 1 /\ next_table_id <= MaxTable /\ MaxTable \in Nat
      /\ table \in Nat /\ main \in Nat
  BY LoadBalancersAssumption DEF LbInv, LbTypeOK, TableId, Adopted
<1>2. /\ next_table_id' = IF table # main THEN next_table_id + 1 ELSE next_table_id
      /\ table = main \/ (table = next_table_id /\ IdLeft)
      /\ IdLeft => main < next_table_id
  BY Zenon DEF Adopted
<1> QED
  BY <1>1, <1>2 DEF IdLeft, TableId

\* Ids from the counter on stay free.
LEMMA AdoptedFresh ==
  ASSUME LbInv, NEW a, NEW main, NEW table, NEW others, Adopted(a, main, table, others),
         phase = "adopting"
  PROVE  FreshInv'
<1> USE DEF LbInv
<1>1. /\ next_table_id \in Nat /\ next_table_id' \in Nat /\ next_table_id <= next_table_id'
      /\ next_table_id' < MaxTable => IdLeft
      /\ table # main => next_table_id' = next_table_id + 1
      /\ table \in Nat /\ main \in Nat
      /\ next_table_id' < MaxTable => table < next_table_id'
  BY AdoptedCounter, Zenon
<1> SUFFICES ASSUME next_table_id' < MaxTable
             PROVE  /\ \A c \in Address : lbs'[c].table < next_table_id'
                    /\ \A c \in Address \ stray' : \A t \in TablesOf(rows', c) : t < next_table_id'
                    /\ ~unsure' => \A t \in TableId : t >= next_table_id' => BackendsOf(maglev'[t]) = {}
  BY Zenon DEF FreshInv, IdLeft
<1>2. IdLeft /\ main < next_table_id /\ table < next_table_id'
  BY <1>1, Zenon DEF Adopted
<1>3. ASSUME NEW c \in Address PROVE lbs'[c].table < next_table_id'
  <2>1. CASE c = a
    BY <1>2, <2>1, Zenon DEF Adopted
  <2>2. CASE c # a
    <3>1. lbs'[c].table = lbs[c].table /\ lbs[c].table < next_table_id /\ lbs[c].table \in Nat
      BY <1>2, <2>2 DEF Adopted, FreshInv, LbTypeOK
    <3> QED
      BY <1>1, <3>1
  <2> QED
    BY <2>1, <2>2, Zenon
<1>4. ASSUME NEW c \in Address \ stray', NEW t \in TablesOf(rows', c) PROVE t < next_table_id'
  <2>1. t \in TablesOf(rows, c) \/ t = table
    BY Zenon DEF Adopted
  <2>2. ASSUME t \in TablesOf(rows, c) PROVE t < next_table_id /\ t \in Nat
    <3>1. c \in Address \ stray
      BY Zenon DEF Adopted
    <3>2. t \in TableId
      BY <2>2, TablesAre, Zenon DEF LbTypeOK, Rows
    <3> QED
      BY <1>2, <2>2, <3>1, <3>2 DEF FreshInv, TableId
  <2> QED
    BY <1>1, <1>2, <2>1, <2>2
<1>5. ASSUME ~unsure', NEW t \in TableId, t >= next_table_id' PROVE BackendsOf(maglev'[t]) = {}
  <2>1. t \in Nat
    BY DEF TableId
  <2>2. t >= next_table_id /\ t # main /\ (t = next_table_id => table = main)
    BY <1>1, <1>2, <1>5, <2>1
  <2>3. maglev'[t] = maglev[t]
    BY <1>2, <1>5, <2>2, Zenon DEF Adopted
  <2>4. ~unsure
    BY <1>5, Zenon DEF Adopted
  <2> QED
    BY <1>2, <2>2, <2>3, <2>4, Zenon DEF FreshInv
<1> QED
  BY <1>3, <1>4, <1>5, Zenon

\* The addresses still to adopt.
LEMMA AdoptedTodo ==
  ASSUME LbInv, NEW a, NEW main, NEW table, NEW others, Adopted(a, main, table, others),
         tablesRead' = tablesRead,
         \A x \in todo : \A t \in TablesOf(rows, x) :
           BackendsOf(maglev'[t]) = {} <=> BackendsOf(tablesRead[t]) = {}
  PROVE  TodoInv'
<1> USE DEF LbInv
<1> SUFFICES ASSUME NEW x \in todo, x # a
             PROVE  /\ TablesOf(rows', x) # {}
                    /\ \A t \in TablesOf(rows', x) :
                         /\ BackendsOf(maglev'[t]) = {} <=> BackendsOf(tablesRead[t]) = {}
                         /\ next_table_id' < MaxTable => t < next_table_id'
                         /\ \A c \in Address : lbs'[c].table = t => t \in owned'
  BY Zenon DEF TodoInv, IdLeft, Adopted
<1>1. x \in Address /\ TablesOf(rows', x) = TablesOf(rows, x)
  BY Zenon DEF LbTypeOK, Adopted
<1>2. ASSUME NEW t \in TablesOf(rows, x)
      PROVE  /\ next_table_id' < MaxTable => t < next_table_id'
             /\ \A c \in Address : lbs'[c].table = t => t \in owned'
  <2>1. t \in TableId
    BY <1>1, TablesAre, Zenon DEF LbTypeOK, Rows
  <2>2. t \in Nat /\ (IdLeft => t < next_table_id)
    BY <2>1 DEF TodoInv, TableId
  <2>3. next_table_id' < MaxTable => t < next_table_id'
    BY <2>2, AdoptedCounter
  <2>4. \A c \in Address : lbs[c].table = t => t \in owned
    BY Zenon DEF TodoInv
  <2>5. table = t => t \in owned'
    <3>1. table = t => table = main
      BY <2>2, AdoptedCounter DEF Adopted
    <3> QED
      BY <3>1, Zenon DEF Adopted
  <2>6. /\ lbs'[a].table = table /\ owned \subseteq owned'
        /\ \A c \in Address \ {a} : lbs'[c] = lbs[c]
    BY Zenon DEF Adopted
  <2> QED
    BY <2>3, <2>4, <2>5, <2>6, Zenon
<1> QED
  BY <1>1, <1>2, Zenon DEF TodoInv

\* The tables as read.
LEMMA AdoptedRead ==
  ASSUME LbInv, phase = "adopting", NEW a, NEW main, NEW table, NEW others, Adopted(a, main, table, others),
         UNCHANGED <<tablesRead, given>>
  PROVE  AdoptInv'
<1> USE DEF LbInv
<1>1. ASSUME NEW c \in Address \ stray', NEW t \in TablesOf(rows', c)
      PROVE  BackendsOf(tablesRead[t]) \subseteq given[c]
  <2>1. CASE t \in TablesOf(rows, c)
    <3>1. c \in Address \ stray
      BY Zenon DEF Adopted
    <3> QED
      BY <2>1, <3>1, Zenon DEF AdoptInv
  <2>2. CASE t \notin TablesOf(rows, c)
    <3>1. t = table /\ t # main
      BY <2>2, Zenon DEF Adopted
    <3>2. IdLeft /\ t = next_table_id /\ t \in TableId
      BY <3>1, Zenon DEF Adopted
    <3>3. t >= next_table_id
      BY <3>2 DEF TableId
    <3> QED
      BY <3>2, <3>3, Zenon DEF AdoptInv
  <2> QED
    BY <2>1, <2>2, Zenon
<1>2. ASSUME next_table_id' < MaxTable, NEW t \in TableId, t >= next_table_id'
      PROVE  BackendsOf(tablesRead[t]) = {}
  <2>1. IdLeft /\ t >= next_table_id
    BY <1>2, AdoptedCounter DEF TableId
  <2> QED
    BY <2>1, Zenon DEF AdoptInv
<1>3. ASSUME NEW c \in Address \ (stray' \cup todo') PROVE TablesOf(rows', c) \subseteq {lbs'[c].table} \cup lbs'[c].others
  <2>1. CASE c = a
    BY <2>1, Zenon DEF Adopted
  <2>2. CASE c # a
    <3>1. /\ c \in Address \ (stray \cup todo)
          /\ TablesOf(rows', c) = TablesOf(rows, c) /\ lbs'[c] = lbs[c]
      BY <2>2, Zenon DEF Adopted
    <3> QED
      BY <3>1, Zenon DEF AdoptInv
  <2> QED
    BY <2>1, <2>2, Zenon
<1> QED
  BY <1>1, <1>2, <1>3, Zenon DEF AdoptInv, IdLeft

\* Adopting one address keeps the invariant.
LEMMA AdoptedKeeps ==
  ASSUME LbInv, phase = "adopting", NEW a \in todo, NEW home \in Homes(Main(a)),
         NEW refill \in Refills(home, tablesRead[Main(a)]), NEW stuck,
         AdoptedBy(a, home, refill, stuck), todo' = todo \ {a},
         UNCHANGED <<unread_tables_below, phase, tablesRead, given>>
  PROVE  LbInv'
<1> DEFINE main == Main(a)
           others == IF refill.ok THEN {} ELSE TablesOf(rows, a) \ {Main(a)}
<1> USE DEF LbInv
<1>1. /\ Adopted(a, main, home.table, others)
      /\ lbs' \in [Address -> Records]
      /\ rows' \in Rows /\ maglev' \in Maglev /\ stray' \in SUBSET Address
      /\ left' \in SUBSET TableId /\ owned' \in SUBSET TableId
  BY AdoptedIs, Zenon
<1>2. /\ rows' = RowsAfter(a, home, refill, stuck) /\ maglev' = refill.maglev
      /\ Lost(a, home) \subseteq stray' /\ unsure' \in BOOLEAN
      /\ \E bad : LbFault(bad)
  BY Zenon DEF AdoptedBy
<1>3. GivenInv'
  <2> SUFFICES ASSUME NEW c \in Address \ stray'
               PROVE  Reached(rows', maglev', c, SvcPort) \subseteq given[c] /\ lbs'[c].backends \subseteq given[c]
    BY Zenon DEF GivenInv
  <2>1. c \in Address \ Lost(a, home)
    BY <1>2, Zenon
  <2>2. Reached(rows', maglev', c, SvcPort) \subseteq given[c]
    BY <1>2, <2>1, RepairGives, Zenon
  <2> HIDE DEF main, others
  <2>3. CASE c = a
    <3>1. a \in Address \ stray /\ main \in TablesOf(rows, a) /\ lbs'[a].backends = BackendsOf(tablesRead[main])
      BY <1>1, <2>3, Zenon DEF Adopted
    <3>2. BackendsOf(tablesRead[main]) \subseteq given[a]
      BY <3>1, Zenon DEF AdoptInv
    <3> QED
      BY <2>2, <2>3, <3>1, <3>2, Zenon
  <2>4. CASE c # a
    <3>1. c \in Address \ stray /\ lbs'[c] = lbs[c]
      BY <1>1, <2>4, Zenon DEF Adopted
    <3> QED
      BY <2>2, <3>1, Zenon DEF GivenInv
  <2> QED
    BY <2>3, <2>4, Zenon
<1>4. \A x \in todo : \A t \in TablesOf(rows, x) : BackendsOf(maglev'[t]) = {} <=> BackendsOf(tablesRead[t]) = {}
  BY <1>2, RepairSpares
<1> HIDE DEF main, others
<1>5. LbTypeOK'
  <2>1. lbFaults' \in 0 .. MaxFaults
    BY <1>2, FaultType, Zenon DEF LbTypeOK
  <2>2. todo' \in SUBSET Address
    BY Zenon DEF LbTypeOK
  <2>3. next_table_id' \in TableId
    BY <1>1, AdoptedCounter, Zenon
  <2> QED
    BY <1>1, <1>2, <2>1, <2>2, <2>3, Zenon DEF LbTypeOK, Rows, Records
<1>6. ApartInv'
  BY <1>1, AdoptedApart, Zenon
<1>7. FreshInv'
  BY <1>1, AdoptedFresh, Zenon
<1>8. RecordInv'
  <2>1. home.table # 0
    BY <1>1 DEF Adopted, TableId
  <2> QED
    BY <1>1, <2>1, Zenon DEF Adopted, RecordInv
<1>9. TodoInv'
  BY <1>1, <1>4, AdoptedTodo, Zenon
<1>10. AdoptInv'
  BY <1>1, AdoptedRead, Zenon
<1> QED
  BY <1>3, <1>5, <1>6, <1>7, <1>8, <1>9, <1>10, Zenon

LEMMA AdoptLbKeeps ==
  ASSUME LbInv, NEW a \in Address, AdoptLb(a)
  PROVE  LbInv'
<1>1. /\ phase = "adopting" /\ a \in todo /\ todo' = todo \ {a}
      /\ UNCHANGED <<unread_tables_below, phase, tablesRead, given>>
      /\ \E home \in Homes(Main(a)) : \E refill \in Refills(home, tablesRead[Main(a)]) : \E stuck :
           AdoptedBy(a, home, refill, stuck)
  BY AdoptIs, Zenon
<1>2. PICK home \in Homes(Main(a)) : \E refill \in Refills(home, tablesRead[Main(a)]) : \E stuck :
        AdoptedBy(a, home, refill, stuck)
  BY <1>1, Zenon
<1>3. PICK refill \in Refills(home, tablesRead[Main(a)]) : \E stuck : AdoptedBy(a, home, refill, stuck)
  BY <1>2, Zenon
<1>4. PICK stuck : AdoptedBy(a, home, refill, stuck)
  BY <1>3, Zenon
<1> QED
  BY <1>1, <1>4, AdoptedKeeps, Zenon

-----------------------------------------------------------------------------
(* The theorems *)

\* The invariant is inductive: one case per call and per step of the adoption.
LEMMA LbInvStep ==
  ASSUME LbInv, [LbNext]_lbVars
  PROVE  LbInv'
<1>1. CASE UNCHANGED lbVars
  BY <1>1, Zenon DEF lbVars, adoption, LbInv, LbTypeOK, GivenInv, ApartInv, FreshInv, RecordInv, TodoInv, AdoptInv,
              IdLeft
<1>2. ASSUME NEW a \in Address, NEW P \in PortSets, CreateLb(a, P) PROVE LbInv'
  BY <1>2, CreateKeeps, Zenon
<1>3. ASSUME NEW a \in Address, NEW b \in Backend, AddLbTarget(a, b) PROVE LbInv'
  BY <1>3, AddKeeps, Zenon
<1>4. ASSUME NEW a \in Address, NEW b \in Backend, DelLbTarget(a, b) PROVE LbInv'
  BY <1>4, DelKeeps, Zenon
<1>5. ASSUME NEW a \in Address, DeleteLb(a) PROVE LbInv'
  BY <1>5, DeleteLbKeeps, Zenon
<1>6. ASSUME NEW a \in Address, AdoptLb(a) PROVE LbInv'
  BY <1>6, AdoptLbKeeps, Zenon
<1>7. CASE AdoptReads
  BY <1>7, ReadsKeeps, Zenon
<1>8. CASE AdoptCut
  BY <1>8, CutKeeps
<1>9. CASE AdoptEnds
  BY <1>9, EndsKeeps, Zenon
<1>10. CASE LbCrash
  BY <1>10, LbCrashKeeps, Zenon
<1> QED
  BY <1>1, <1>2, <1>3, <1>4, <1>5, <1>6, <1>7, <1>8, <1>9, <1>10 DEF LbNext

\* Every state the load balancers reach satisfies the invariant: the records, the two maps and
\* what the adoption has read so far agree, whatever fails and whenever the process dies.
THEOREM LbInvariant == LbSpec => []LbInv
<1>1. LbInv /\ [LbNext]_lbVars => LbInv'
  BY LbInvStep, Zenon
<1> QED
  BY <1>1, LbInvInit, PTL DEF LbSpec

\* A packet for an address reaches no backend but the ones that address was given, for any
\* number of addresses, ports, tables and slots: no table id is used twice and no table is
\* rewritten or freed under another load balancer.
THEOREM LbForwardsToOwn == LbSpec => []ForwardsToOwn
<1>1. LbInv => ForwardsToOwn
  BY DEF LbInv, GivenInv, ForwardsToOwn
<1> QED
  BY <1>1, LbInvariant, PTL

\* A step of the adoption, or a death of the process, leaves a port that reaches a backend
\* with one.
LEMMA ServiceStep ==
  ASSUME LbInv, [LbNext]_lbVars, phase # "up",
         NEW c \in Address \ stray', NEW p \in SvcPort, Reached(rows, maglev, c, {p}) # {}
  PROVE  Reached(rows', maglev', c, {p}) # {}
<1> DEFINE t == rows[c][p]
<1>1. rows \in Rows /\ maglev \in Maglev /\ LbTypeOK /\ TodoInv /\ FreshInv
  BY Zenon DEF LbInv, LbTypeOK, Rows
<1>2. t # 0 /\ BackendsOf(maglev[t]) # {}
  BY PortReaches, Zenon
<1>3. t \in TablesOf(rows, c) /\ t \in TableId
  BY <1>1, <1>2, TablesAre, Zenon
<1> HIDE DEF t
<1>4. ASSUME rows' = rows, maglev'[t] = maglev[t] PROVE Reached(rows', maglev', c, {p}) # {}
  <2>1. rows'[c][p] # 0 /\ BackendsOf(maglev'[rows'[c][p]]) # {}
    BY <1>2, <1>4, Zenon DEF t
  <2> QED
    BY <2>1, PortReaches, Zenon
<1>5. CASE UNCHANGED <<rows, maglev>>
  BY <1>4, <1>5, Zenon
<1>6. CASE AdoptReads
  <2> DEFINE T == TableId \ UNION {TablesOf(rows, a) : a \in Address}
  <2>1. PICK kept : maglev' = Cleared(maglev, T, kept)
    BY <1>6, Zenon DEF AdoptReads
  <2>2. t \in TableId \ T
    BY <1>3, Zenon
  <2> HIDE DEF T
  <2>3. maglev'[t] = maglev[t]
    BY <1>1, <2>1, <2>2, ClearedIs
  <2> QED
    BY <1>4, <1>6, <2>3, Zenon DEF AdoptReads
<1>7. CASE AdoptEnds
  <2> DEFINE T == {x \in left : ~table_in_use(lbs, x)}
  <2>1. /\ todo = {} /\ phase = "adopting" /\ stray' = stray /\ rows' = rows
        /\ \E kept : maglev' = Cleared(maglev, T, kept)
    BY <1>7, Zenon DEF AdoptEnds
  <2>2. PICK kept : maglev' = Cleared(maglev, T, kept)
    BY <2>1, Zenon
  <2>3. t = lbs[c].table \/ t \in lbs[c].others
    BY <1>3, <2>1, Zenon DEF LbInv, AdoptInv
  <2>4. t \in TableId \ T
    BY <1>3, <2>3, Zenon DEF table_in_use
  <2> HIDE DEF T
  <2>5. maglev'[t] = maglev[t]
    BY <1>1, <2>2, <2>4, ClearedIs
  <2> QED
    BY <1>4, <2>1, <2>5, Zenon
<1>8. ASSUME NEW a \in Address, AdoptLb(a) PROVE Reached(rows', maglev', c, {p}) # {}
  <2>1. /\ phase = "adopting" /\ a \in todo
        /\ \E home \in Homes(Main(a)) : \E refill \in Refills(home, tablesRead[Main(a)]) : \E stuck :
             AdoptedBy(a, home, refill, stuck)
    BY <1>8, AdoptIs, Zenon
  <2>2. PICK home \in Homes(Main(a)) : \E refill \in Refills(home, tablesRead[Main(a)]) : \E stuck :
          AdoptedBy(a, home, refill, stuck)
    BY <2>1, Zenon
  <2>3. PICK refill \in Refills(home, tablesRead[Main(a)]) : \E stuck : AdoptedBy(a, home, refill, stuck)
    BY <2>2, Zenon
  <2>4. PICK stuck : AdoptedBy(a, home, refill, stuck)
    BY <2>3, Zenon
  <2>5. /\ rows' = RowsAfter(a, home, refill, stuck) /\ maglev' = refill.maglev
        /\ c \in Address \ stray
    BY <2>4, Zenon DEF AdoptedBy, Lost
  <2>6. Reached(RowsAfter(a, home, refill, stuck), refill.maglev, c, {p}) # {}
    BY <1>1, <2>1, <2>5, RepairServes, Zenon
  <2> QED
    BY <2>5, <2>6, Zenon
<1>9. CASE LbCrash /\ ~UNCHANGED <<rows, maglev, stray>>
  <2>1. CrashMaps /\ phase = "adopting"
    BY <1>9, CrashIs, Zenon DEF CrashMaps
  <2>2. PICK a \in todo : \E home \in Homes(Main(a)) : \E refill \in Refills(home, tablesRead[Main(a)]) : \E stuck :
          /\ rows' = RowsAfter(a, home, refill, stuck) /\ maglev' = refill.maglev
          /\ stray' = Lost(a, home)
    BY <1>9, <2>1, Zenon DEF CrashMaps
  <2>3. PICK home \in Homes(Main(a)) : \E refill \in Refills(home, tablesRead[Main(a)]) : \E stuck :
          /\ rows' = RowsAfter(a, home, refill, stuck) /\ maglev' = refill.maglev
          /\ stray' = Lost(a, home)
    BY <2>2, Zenon
  <2>4. PICK refill \in Refills(home, tablesRead[Main(a)]) : \E stuck :
          /\ rows' = RowsAfter(a, home, refill, stuck) /\ maglev' = refill.maglev
          /\ stray' = Lost(a, home)
    BY <2>3, Zenon
  <2>5. PICK stuck : /\ rows' = RowsAfter(a, home, refill, stuck) /\ maglev' = refill.maglev
                     /\ stray' = Lost(a, home)
    BY <2>4, Zenon
  <2>6. c \in Address \ stray
    BY <2>5, Zenon DEF Lost
  <2>7. Reached(RowsAfter(a, home, refill, stuck), refill.maglev, c, {p}) # {}
    BY <1>1, <2>1, <2>6, RepairServes, Zenon
  <2> QED
    BY <2>5, <2>7, Zenon
<1>10. ASSUME NEW a \in Address, NEW P \in PortSets, CreateLb(a, P) PROVE FALSE
  BY <1>10, Zenon DEF CreateLb
<1>11. ASSUME NEW a \in Address, NEW b \in Backend, AddLbTarget(a, b) \/ DelLbTarget(a, b) PROVE FALSE
  BY <1>11, Zenon DEF AddLbTarget, DelLbTarget
<1>12. ASSUME NEW a \in Address, DeleteLb(a) PROVE FALSE
  BY <1>12, Zenon DEF DeleteLb
<1>13. AdoptCut \/ UNCHANGED lbVars => UNCHANGED <<rows, maglev>>
  BY Zenon DEF AdoptCut, lbVars
<1> QED
  BY <1>5, <1>6, <1>7, <1>8, <1>9, <1>10, <1>11, <1>12, <1>13 DEF LbNext

\* Adopting the maps keeps every port that reached a backend on one, at every step and at
\* every death in between, for any number of addresses, ports, tables and slots.
THEOREM LbAdoptKeepsService == LbSpec => AdoptKeepsService
<1>1. LbInv /\ [LbNext]_lbVars =>
        [phase # "up" => \A a \in Address \ stray', p \in SvcPort :
           Reached(rows, maglev, a, {p}) # {} => Reached(rows', maglev', a, {p}) # {}]_lbVars
  BY ServiceStep, Zenon
<1> QED
  BY <1>1, LbInvariant, PTL DEF LbSpec, AdoptKeepsService

=============================================================================
