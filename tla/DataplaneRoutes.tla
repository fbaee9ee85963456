-------------------------- MODULE DataplaneRoutes --------------------------
(***************************************************************************)
(* The overlay routes of one flowplane (flowplane-control/src/routes.rs,   *)
(* the interface half of interface.rs and flowplane/src/control): the      *)
(* pinned kernel trie ROUTES, which survives a restart; the list of mesh   *)
(* routes (routes_shadow), which does not; and the local interfaces, whose *)
(* self-routes hold their keys against the mesh.  Every action runs under  *)
(* the one lock of Control.                                                *)
(*                                                                         *)
(* An interface is named by the host key (vni, address) it owns; the IPv4  *)
(* and IPv6 siblings of the code are one table here.  A map write that can *)
(* fail takes a flag or a set that says which writes did.                  *)
(***************************************************************************)
CONSTANTS
  Key,          \* route keys (vni, prefix)
  HostKey,      \* the host prefixes among them: what an interface can own
  VniOf,        \* VniOf[k]: the table a key is in
  Route,        \* mesh routes: what an AddRoute carries
  SelfRoute,    \* the route to the node's own underlay that an interface writes
  NoRoute,      \* no entry
  Anchored      \* the VNIs with a load balancer: never purged (keeps_vni)

ASSUME DataplaneRoutesAssumption ==
  /\ HostKey \subseteq Key
  /\ SelfRoute \notin Route
  /\ NoRoute \notin Route
  /\ SelfRoute # NoRoute

VARIABLES
  kernel,        \* ROUTES: kernel[k] is what the datapath forwards k by
  shadow,        \* routes_shadow: the mesh route listed for k, NoRoute for none
  by_id,         \* the interfaces Control knows (by_id, mirrored in ifaces_meta)
  journal,       \* IFACE_META: the interfaces a restart finds
  ifaces,        \* INTERFACES: keys with a local delivery entry
  self_routes,   \* keys whose kernel entry is held by a self-route
  ifaces_partial,\* the last adopt read the journal only in part
  live,          \* history: interfaces attached, not detached, whose device exists
  unlisted,      \* history: keys the last adopt could not list
  unheld         \* history: keys a failed write or a cut walk of an adopt left unheld

tables == <<kernel, shadow>>
held == <<self_routes, unheld>>
dvars == <<kernel, shadow, by_id, journal, ifaces, self_routes, ifaces_partial,
           live, unlisted, unheld>>

Entry == Route \cup {SelfRoute, NoRoute}

TypeOK ==
  /\ kernel \in [Key -> Entry]
  /\ shadow \in [Key -> Entry]
  /\ by_id \in SUBSET HostKey
  /\ journal \in SUBSET HostKey
  /\ ifaces \in SUBSET HostKey
  /\ self_routes \in SUBSET HostKey
  /\ ifaces_partial \in BOOLEAN
  /\ live \in SUBSET HostKey
  /\ unlisted \in SUBSET Key
  /\ unheld \in SUBSET HostKey

Init ==
  /\ kernel = [k \in Key |-> NoRoute]
  /\ shadow = [k \in Key |-> NoRoute]
  /\ by_id = {} /\ journal = {} /\ ifaces = {} /\ self_routes = {}
  /\ ifaces_partial = FALSE
  /\ live = {} /\ unlisted = {} /\ unheld = {}

(***************************************************************************)
(* AddRoute and WithdrawRoute.                                             *)
(***************************************************************************)
\* A write to a held key stops at the shadow, so it cannot fail.
Fails(k, written) == ~written /\ k \notin self_routes

\* Mutant: a mesh route is written over a self-route.
ReplaceRoute_Unheld(k, r, written) ==
  /\ written
  /\ kernel' = [kernel EXCEPT ![k] = r]
  /\ shadow' = [shadow EXCEPT ![k] = r]
  /\ unlisted' = unlisted \ {k}
  /\ UNCHANGED <<by_id, journal, ifaces, ifaces_partial, live, held>>

ReplaceRoute(k, r, written) ==
  /\ ~Fails(k, written)
  /\ kernel' = IF k \in self_routes THEN kernel ELSE [kernel EXCEPT ![k] = r]
  /\ shadow' = [shadow EXCEPT ![k] = r]
  /\ unlisted' = IF k \in self_routes THEN unlisted ELSE unlisted \ {k}
  /\ UNCHANGED <<by_id, journal, ifaces, ifaces_partial, live, held>>

\* A withdraw of a key that is not listed returns Ok(false).
DeleteRoute(k, written) ==
  /\ shadow[k] # NoRoute => ~Fails(k, written)
  /\ kernel' = IF k \in self_routes \/ shadow[k] = NoRoute THEN kernel
               ELSE [kernel EXCEPT ![k] = NoRoute]
  /\ shadow' = [shadow EXCEPT ![k] = NoRoute]
  /\ UNCHANGED <<by_id, journal, ifaces, ifaces_partial, live, unlisted, held>>

(***************************************************************************)
(* Interfaces.                                                             *)
(***************************************************************************)
\* Mutant: the key goes, whatever the mesh has for it.
Restored_Gone(k, written) == IF written THEN [kernel EXCEPT ![k] = NoRoute] ELSE kernel

\* remove_self_routes: the key stops being held and gets back the listed mesh
\* route, or goes; a failed write leaves the kernel as it was.
Restored(k, written) == IF written THEN [kernel EXCEPT ![k] = shadow[k]] ELSE kernel

CreateInterface(k) ==
  /\ k \notin by_id
  /\ kernel' = [kernel EXCEPT ![k] = SelfRoute]
  /\ by_id' = by_id \cup {k}
  /\ journal' = journal \cup {k}
  /\ ifaces' = ifaces \cup {k}
  /\ self_routes' = self_routes \cup {k}
  /\ live' = live \cup {k}
  /\ unheld' = unheld \ {k}
  /\ unlisted' = unlisted \ {k}
  /\ UNCHANGED <<shadow, ifaces_partial>>

\* A map write of program_interface failed, before or after the INTERFACES entry
\* (`entry') and the self-route (`route'): the attach is rolled back and its device
\* deleted.  The INTERFACES entry, if written, stays.
CreateInterfaceFails(k, entry, route, written) ==
  /\ k \notin by_id
  /\ route => entry
  /\ ifaces' = IF entry THEN ifaces \cup {k} ELSE ifaces
  /\ kernel' = IF written THEN [kernel EXCEPT ![k] = shadow[k]]
               ELSE IF route THEN [kernel EXCEPT ![k] = SelfRoute] ELSE kernel
  /\ self_routes' = self_routes \ {k}
  /\ live' = live \ {k}
  /\ unlisted' = IF written THEN unlisted \ {k} ELSE unlisted
  /\ UNCHANGED <<shadow, by_id, journal, ifaces_partial, unheld>>

\* The listed routes purge_vni deletes: all of the table, once its last interface
\* has gone, but those whose kernel delete failed.
Purged(k, failed) ==
  IF ifaces_partial \/ VniOf[k] \in Anchored \/ \E i \in by_id \ {k} : VniOf[i] = VniOf[k]
  THEN {} ELSE {q \in Key \ failed : VniOf[q] = VniOf[k] /\ shadow[q] # NoRoute}

DetachInterface(k, written, failed) ==
  /\ k \in by_id
  /\ by_id' = by_id \ {k}
  /\ journal' = journal \ {k}
  /\ ifaces' = ifaces \ {k}
  /\ self_routes' = self_routes \ {k}
  /\ kernel' = [q \in Key |-> IF q \in Purged(k, failed) \ self_routes' THEN NoRoute
                              ELSE Restored(k, written)[q]]
  /\ shadow' = [q \in Key |-> IF q \in Purged(k, failed) THEN NoRoute ELSE shadow[q]]
  /\ live' = live \ {k}
  /\ unlisted' = IF written THEN unlisted \ {k} ELSE unlisted
  /\ UNCHANGED <<ifaces_partial, unheld>>

\* The guest's device goes with no DetachInterface: its pod was deleted meanwhile.
DeviceGone(k) ==
  /\ live' = live \ {k}
  /\ UNCHANGED <<tables, by_id, journal, ifaces, self_routes, ifaces_partial, unlisted, unheld>>

(***************************************************************************)
(* A restart: the pinned maps are adopted.  The walk of the journal misses *)
(* `unread', the walk of the trie misses `cut', and the self-routes of     *)
(* `failed' cannot be written.                                             *)
(***************************************************************************)
\* A self-route whose interface did not come back, recognised by its INTERFACES entry.
Orphan(k, own) == k \in ifaces \ own /\ kernel[k] = SelfRoute

\* Mutant: a key whose interface has gone is not listed, self-route or not.
Adopted_Skips(own, cut) ==
  [k \in Key |-> IF k \in cut \/ k \in ifaces THEN NoRoute ELSE kernel[k]]

Adopted(own, cut) ==
  [k \in Key |-> IF k \in cut \/ Orphan(k, own) \/ (k \in own /\ kernel[k] = SelfRoute)
                 THEN NoRoute ELSE kernel[k]]

Restart(partial, unread, cut, failed) ==
  LET own == (journal \ unread) \cap live
      doubtful == {k \in HostKey \ cut : Orphan(k, own) /\ partial /\ k \notin journal \ unread}
  IN /\ unread # {} => partial
     /\ by_id' = own
     /\ ifaces_partial' = partial
     /\ shadow' = Adopted(own, cut)
     /\ self_routes' = doubtful \cup (own \ failed)
     /\ kernel' = [k \in Key |-> IF k \in own \ failed THEN SelfRoute ELSE kernel[k]]
     /\ unlisted' = cut
     /\ unheld' = (failed \cap own) \cup (unread \cap (cut \cup unheld))
     /\ UNCHANGED <<journal, ifaces, live>>

Next ==
  \/ \E k \in Key, written \in BOOLEAN :
       \/ \E r \in Route : ReplaceRoute(k, r, written)
       \/ DeleteRoute(k, written)
  \/ \E k \in HostKey : CreateInterface(k) \/ DeviceGone(k)
  \/ \E k \in HostKey, entry, route, written \in BOOLEAN :
       CreateInterfaceFails(k, entry, route, written)
  \/ \E k \in HostKey, written \in BOOLEAN, failed \in SUBSET Key :
       DetachInterface(k, written, failed)
  \/ \E partial \in BOOLEAN, unread, failed \in SUBSET HostKey, cut \in SUBSET Key :
       Restart(partial, unread, cut, failed)

Spec == Init /\ [][Next]_dvars

(***************************************************************************)
(* Properties.                                                             *)
(***************************************************************************)
\* A key a self-route holds is delivered locally, whatever the mesh adds or withdraws
\* on it (replace_route, delete_route and purge_vni stop at the shadow), and a live
\* guest's key is held unless the last adopt failed to write it, across restarts that
\* could read the interface journal only in part.
LocalDelivery ==
  /\ \A k \in self_routes : kernel[k] = SelfRoute
  /\ live \ unheld \subseteq self_routes

\* Every mesh route the datapath forwards by is listed with that value, so a withdraw
\* finds and removes it: across failed writes, purges, attaches rolled back and
\* restarts, for every key the last adopt could walk to.
MeshRouteIsListed ==
  \A k \in Key \ unlisted : kernel[k] \in Route => shadow[k] = kernel[k]

\* A listed route is never unrouted: its key has a kernel entry, its own or one that
\* holds it back.
ListedIsRouted ==
  \A k \in Key : shadow[k] # NoRoute => kernel[k] # NoRoute
=============================================================================
