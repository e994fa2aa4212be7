------------------------- MODULE GatewaySyncProofs -------------------------
(***************************************************************************)
(* Proofs about GatewaySync, for any services on any Kongs and any number   *)
(* of syncs, overlapping or not, with any number of publications and        *)
(* faults.                                                                 *)
(***************************************************************************)
EXTENDS GatewaySync, FiniteSetTheorems, TLAPS

(* A put and a deletion of a service, step by step.                         *)
Putting == {"name", "refer", "key", "children", "child", "update"}
Deleting == {"find", "empty", "remove"}

Stages == {"idle", "feeding", "services", "cleaning", "done"}

KongServices == [id : Ids \cup {None}, plugins : SUBSET Ids]
Records == [rid : Nat, fk : Nat, plugins : SUBSET Nat]
Progress == [stage : Stages, cleans : BOOLEAN, todo : SUBSET Kongs, at : SUBSET Names,
             seen : [Names -> KongServices], whole : BOOLEAN, gone : [Names -> Nat],
             alone : BOOLEAN, still : BOOLEAN]
Items == [pc : {"idle"} \cup Putting \cup Deleting, tries : 0..Attempts, rid : Nat,
          was : SUBSET Nat, todo : SUBSET Ids, ids : SUBSET Nat, child : Ids \cup {None}]

Typed ==
    /\ kong \in [Names -> KongServices]
    /\ given \in [Names -> Ids \cup {None}]
    /\ services \in [Names -> Records]
    /\ plugins \in [Names -> [Ids -> Nat]]
    /\ sync \in [Syncs -> Progress]
    /\ item \in [Syncs -> [Names -> Items]]

(* What is recorded of one service, k in Kong with g ids given: the record s *)
(* and those of the plugins, ps.                                           *)
Whole(k, g, s, ps) ==
    /\ k.id <= g
    /\ k.id = None => k.plugins = {}
    /\ s.fk <= g
    /\ s.rid = None <=> s = NoRecord
    /\ s.fk = None <=> s = NoRecord
    /\ s.plugins \subseteq {ps[p] : p \in Ids} \ {None}
    /\ \A p, q \in Ids : ps[p] = ps[q] => p = q \/ ps[p] = None

(* How far an item is, in a sync that has come to stage and has seen the     *)
(* service under the id key.                                               *)
Staged(i, stage, key, g) ==
    /\ key <= g
    /\ i.pc = "idle" => i = IdleItem
    /\ i.pc \in Putting => stage = "feeding" /\ key # None
    /\ i.pc \in Deleting => stage = "cleaning"
    /\ i.pc \in {"refer", "empty", "remove"} => i.rid # None
    /\ None \notin i.ids /\ IsFiniteSet(i.ids) /\ IsFiniteSet(i.was)

Sound ==
    /\ Typed
    /\ \A n \in Names : Whole(kong[n], given[n], services[n], plugins[n])
    /\ \A w \in Syncs, n \in Names :
          Staged(item[w][n], sync[w].stage, sync[w].seen[n].id, given[n])

-----------------------------------------------------------------------------
(***************************************************************************)
(* The operators.                                                          *)
(***************************************************************************)

(* The records of a service's plugins are finitely many.                    *)
LEMMA PluginsFinite ==
    ASSUME NEW ps
    PROVE  IsFiniteSet({ps[p] : p \in Ids})
<1> DEFINE T == {ps[p] : p \in Ids}
           f == [p \in Ids |-> ps[p]]
<1>1. IsFiniteSet(Ids)
  BY SyncAssumption, FS_Interval DEF Ids
<1>2. f \in Surjection(Ids, T)
  BY DEF Surjection
<1>3. QED
  BY <1>1, <1>2, FS_Surjection

(* A new record is told from every one in use.                              *)
LEMMA UnusedIsNew ==
    ASSUME NEW used, IsFiniteSet(used)
    PROVE  Unused(used) \in Nat \ {None} /\ Unused(used) \notin used
<1> DEFINE c == Cardinality(used)
<1>1. c \in Nat
  BY FS_CardinalityType
<1>2. \E r \in 1..c + 1 : r \notin used
  <2>1. SUFFICES ASSUME 1..c + 1 \subseteq used PROVE FALSE
    OBVIOUS
  <2>2. Cardinality(1..c + 1) = c + 1
    BY <1>1, FS_Interval
  <2>3. Cardinality(1..c + 1) <= c
    BY <2>1, FS_Subset
  <2>4. QED
    BY <1>1, <2>2, <2>3
<1>3. Unused(used) \in 1..c + 1 /\ Unused(used) \notin used
  BY <1>2 DEF Unused
<1>4. QED
  BY <1>1, <1>3 DEF None

(* What a put holds of a service's plugins is counted among those in use.    *)
LEMMA InUseFinite ==
    ASSUME Sound, NEW n \in Names
    PROVE  /\ IsFiniteSet(PluginsInUse(n)) /\ IsFiniteSet(RecordsInUse(n))
           /\ {plugins[n][p] : p \in Ids} \subseteq PluginsInUse(n)
           /\ \A w \in Syncs : item[w][n].was \subseteq PluginsInUse(n)
<1>1. IsFiniteSet({plugins[n][p] : p \in Ids})
  BY PluginsFinite
<1> DEFINE held == {item[w][n].ids \cup item[w][n].was : w \in Syncs}
           f == [w \in Syncs |-> item[w][n].ids \cup item[w][n].was]
           rids == {item[w][n].rid : w \in Syncs}
           g == [w \in Syncs |-> item[w][n].rid]
<1>2. IsFiniteSet(held) /\ IsFiniteSet(rids)
  <2>1. f \in Surjection(Syncs, held) /\ g \in Surjection(Syncs, rids)
    BY DEF Surjection
  <2>2. QED
    BY <2>1, SyncAssumption, FS_Surjection
<1>3. \A w \in Syncs : IsFiniteSet(item[w][n].ids \cup item[w][n].was)
  BY FS_Union DEF Sound, Staged
<1>4. IsFiniteSet(UNION held)
  BY <1>2, <1>3, FS_UNION
<1>5. IsFiniteSet(PluginsInUse(n))
  BY <1>1, <1>4, FS_Union DEF PluginsInUse
<1>6. IsFiniteSet(RecordsInUse(n))
  BY <1>2, FS_Singleton, FS_Union DEF RecordsInUse
<1>7. QED
  BY <1>5, <1>6 DEF PluginsInUse

(* A put that is refused begins again or is given up.                       *)
LEMMA RefusedShape ==
    ASSUME NEW i \in Items
    PROVE  /\ Refused(i) \in Items
           /\ Refused(i).pc = "name" \/ Refused(i) = IdleItem
           /\ Refused(i).pc \in {"idle", "name"}
           /\ Refused(i).ids = {} /\ Refused(i).was = {} /\ Refused(i).rid = None
<1>1. CASE i.tries > 1
  <2>1. i.tries - 1 \in 0..Attempts
    BY <1>1, SyncAssumption DEF Items
  <2>2. QED
    BY <1>1, <2>1 DEF Refused, Item, IdleItem, Items, Putting, None
<1>2. CASE ~(i.tries > 1)
  BY <1>2, SyncAssumption DEF Refused, IdleItem, Items, None
<1>3. QED
  BY <1>1, <1>2

-----------------------------------------------------------------------------
(***************************************************************************)
(* Types and records.  A step of a put or a deletion changes one item, and   *)
(* at most what is recorded of its service.                                *)
(***************************************************************************)

(* A step that changes one item and what is recorded of its service keeps  *)
(* types and records, if the new item and records are in order.            *)
LEMMA ItemKeepsSound ==
    ASSUME Sound, NEW w \in Syncs, NEW n \in Names,
           NEW i \in Items, NEW s \in Records, NEW ps \in [Ids -> Nat],
           item' = [item EXCEPT ![w][n] = i],
           services' = [services EXCEPT ![n] = s],
           plugins' = [plugins EXCEPT ![n] = ps],
           UNCHANGED <<kong, given>>,
           sync' \in [Syncs -> Progress],
           \A v \in Syncs : sync'[v].stage = sync[v].stage /\ sync'[v].seen = sync[v].seen,
           Whole(kong[n], given[n], s, ps),
           Staged(i, sync[w].stage, sync[w].seen[n].id, given[n])
    PROVE  Sound'
<1>1. Typed'
  BY DEF Sound, Typed
<1>2. \A m \in Names : Whole(kong'[m], given'[m], services'[m], plugins'[m])
  <2> TAKE m \in Names
  <2>1. services'[m] = (IF m = n THEN s ELSE services[m])
        /\ plugins'[m] = (IF m = n THEN ps ELSE plugins[m])
    BY DEF Sound, Typed
  <2>2. CASE m = n
    BY <2>1, <2>2
  <2>3. CASE m # n
    BY <2>1, <2>3 DEF Sound
  <2>4. QED
    BY <2>2, <2>3
<1>3. \A v \in Syncs, m \in Names :
          Staged(item'[v][m], sync'[v].stage, sync'[v].seen[m].id, given'[m])
  <2> TAKE v \in Syncs, m \in Names
  <2>1. item'[v][m] = IF v = w /\ m = n THEN i ELSE item[v][m]
    BY DEF Sound, Typed
  <2>2. CASE v = w /\ m = n
    BY <2>1, <2>2
  <2>3. CASE ~(v = w /\ m = n)
    BY <2>1, <2>3 DEF Sound
  <2>4. QED
    BY <2>2, <2>3
<1>4. QED
  BY <1>1, <1>2, <1>3 DEF Sound

(* The same for a step that only changes the item.                         *)
LEMMA StepKeepsSound ==
    ASSUME Sound, NEW w \in Syncs, NEW n \in Names, NEW i \in Items,
           item' = [item EXCEPT ![w][n] = i],
           UNCHANGED <<kong, given, services, plugins>>,
           sync' \in [Syncs -> Progress],
           \A v \in Syncs : sync'[v].stage = sync[v].stage /\ sync'[v].seen = sync[v].seen,
           Staged(i, sync[w].stage, sync[w].seen[n].id, given[n])
    PROVE  Sound'
<1>s. PICK s : s = services[n]
  OBVIOUS
<1>p. PICK ps : ps = plugins[n]
  OBVIOUS
<1>1. s \in Records /\ ps \in [Ids -> Nat] /\ Whole(kong[n], given[n], s, ps)
  BY <1>s, <1>p DEF Sound, Typed
<1>2. services' = [services EXCEPT ![n] = s] /\ plugins' = [plugins EXCEPT ![n] = ps]
  BY <1>s, <1>p DEF Sound, Typed
<1>3. UNCHANGED <<kong, given>>
  OBVIOUS
<1>4. QED
  BY <1>1, <1>2, <1>3, ItemKeepsSound

(* An item that begins again, or ends.                                      *)
LEMMA RefusedStaged ==
    ASSUME NEW i \in Items, NEW stage, NEW key, NEW g, Staged(i, stage, key, g),
           i.pc \in Putting
    PROVE  Staged(Refused(i), stage, key, g) /\ Staged(IdleItem, stage, key, g)
<1>1. IsFiniteSet({})
  BY FS_EmptySet
<1>2. IdleItem.pc = "idle" /\ IdleItem.ids = {} /\ IdleItem.was = {}
  BY DEF IdleItem
<1>3. Staged(IdleItem, stage, key, g)
  BY <1>1, <1>2 DEF Staged, Putting, Deleting
<1>4. CASE Refused(i) = IdleItem
  BY <1>3, <1>4
<1>5. CASE Refused(i).pc = "name"
  <2>1. PICK r : r = Refused(i)
    OBVIOUS
  <2>2. r.pc = "name" /\ r.ids = {} /\ r.was = {}
    BY <1>5, <2>1, RefusedShape
  <2>3. key <= g /\ stage = "feeding" /\ key # None
    BY DEF Staged
  <2>4. Staged(r, stage, key, g)
    BY <1>1, <2>2, <2>3 DEF Staged, Putting, Deleting
  <2>5. QED
    BY <1>3, <2>1, <2>4
<1>6. QED
  BY <1>3, <1>4, <1>5, RefusedShape

(* What is known of an item, its sync and its service.                      *)
LEMMA ItemKnown ==
    ASSUME Sound, NEW w \in Syncs, NEW n \in Names
    PROVE  /\ item[w][n] \in Items /\ services[n] \in Records /\ plugins[n] \in [Ids -> Nat]
           /\ sync[w] \in Progress /\ sync[w].seen[n] \in KongServices
           /\ sync \in [Syncs -> Progress]
           /\ kong[n] \in KongServices /\ given[n] \in Nat
           /\ Whole(kong[n], given[n], services[n], plugins[n])
           /\ Staged(item[w][n], sync[w].stage, sync[w].seen[n].id, given[n])
           /\ IdleItem \in Items
<1>1. IdleItem \in Items
  BY SyncAssumption DEF IdleItem, Items, None
<1>2. given[n] \in Nat
  BY DEF Sound, Typed, Ids, None
<1>3. sync[w] \in Progress /\ sync[w].seen[n] \in KongServices
  BY DEF Sound, Typed, Progress
<1>4. QED
  BY <1>1, <1>2, <1>3 DEF Sound, Typed

(* FindByName, Refer and FindByKey: the record found is one that is there, *)
(* and an id that is written is one Kong has given.                        *)
LEMMA FindsKeepSound ==
    ASSUME Sound, NEW w \in Syncs, NEW n \in Names,
           FindByName(w, n) \/ Refer(w, n) \/ FindByKey(w, n)
    PROVE  Sound'
<1>i. PICK i : i = item[w][n]
  OBVIOUS
<1>s. PICK s : s = services[n]
  OBVIOUS
<1>k. PICK key : key = sync[w].seen[n].id
  OBVIOUS
<1>0. /\ i \in Items /\ s \in Records /\ plugins[n] \in [Ids -> Nat]
      /\ sync[w].seen[n] \in KongServices
      /\ Whole(kong[n], given[n], s, plugins[n])
      /\ Staged(i, sync[w].stage, key, given[n])
      /\ UNCHANGED <<kong, given, plugins, sync>> /\ sync' \in [Syncs -> Progress]
  BY <1>i, <1>s, <1>k, ItemKnown DEF FindByName, Refer, FindByKey
<1>1. CASE FindByName(w, n)
  <2>1. CASE s.fk \in {None, key}
    <3>1. item' = [item EXCEPT ![w][n] = [i EXCEPT !.pc = "key"]]
      BY <1>1, <1>i, <1>s, <1>k, <2>1 DEF FindByName, Step, KeyOf
    <3>2. [i EXCEPT !.pc = "key"] \in Items
      BY <1>0 DEF Items, Putting
    <3>3. Staged([i EXCEPT !.pc = "key"], sync[w].stage, key, given[n])
      BY <1>0, <1>1, <1>i DEF Staged, FindByName, Doing, Items, Putting, Deleting
    <3>4. QED
      BY <1>0, <1>1, <1>k, <3>1, <3>2, <3>3, StepKeepsSound DEF FindByName
  <2>2. CASE s.fk \notin {None, key}
    <3> DEFINE next == [i EXCEPT !.pc = "refer", !.rid = s.rid]
    <3>1. item' = [item EXCEPT ![w][n] = next]
      BY <1>1, <1>i, <1>s, <1>k, <2>2 DEF FindByName, Step, KeyOf
    <3>2. next \in Items
      BY <1>0 DEF Items, Putting, Records
    <3>3. s.rid # None
      BY <1>0, <2>2 DEF Whole, NoRecord
    <3>4. Staged(next, sync[w].stage, key, given[n])
      BY <1>0, <1>1, <1>i, <3>3 DEF Staged, FindByName, Doing, Items, Putting, Deleting
    <3> HIDE DEF next
    <3>5. QED
      BY <1>0, <1>1, <1>k, <3>1, <3>2, <3>4, StepKeepsSound DEF FindByName
  <2>3. QED
    BY <2>1, <2>2
<1>2. CASE Refer(w, n)
  <2> DEFINE next == [i EXCEPT !.pc = "key", !.rid = None]
             s1 == IF s.rid = i.rid THEN [s EXCEPT !.fk = key] ELSE s
  <2>1. item' = [item EXCEPT ![w][n] = next]
    BY <1>2, <1>i DEF Refer, Step
  <2>2. next \in Items
    BY <1>0 DEF Items, Putting, None
  <2>3. Staged(next, sync[w].stage, key, given[n])
    BY <1>0, <1>2, <1>i DEF Staged, Refer, Doing, Items, Putting, Deleting
  <2>4. services' = [services EXCEPT ![n] = s1]
    BY <1>2, <1>i, <1>s, <1>k DEF Refer, KeyOf, Sound, Typed
  <2>5. i.rid # None /\ key # None /\ key \in Nat /\ key <= given[n]
    BY <1>0, <1>2, <1>i, <1>k DEF Staged, Refer, Doing, Putting, KongServices, Ids, None
  <2>6. s1 \in Records
    BY <1>0, <2>5 DEF Records
  <2>7. Whole(kong[n], given[n], s1, plugins[n])
    <3>1. CASE s.rid = i.rid
      <4>1. s1 = [s EXCEPT !.fk = key]
        BY <3>1
      <4>2. s1.rid = s.rid /\ s1.fk = key /\ s1.plugins = s.plugins
        BY <1>0, <4>1 DEF Records
      <4>3. s1 # NoRecord
        BY <2>5, <3>1, <4>2 DEF NoRecord
      <4>4. QED
        BY <1>0, <2>5, <3>1, <4>2, <4>3 DEF Whole
    <3>2. CASE s.rid # i.rid
      BY <1>0, <3>2
    <3>3. QED
      BY <3>1, <3>2
  <2>8. plugins' = [plugins EXCEPT ![n] = plugins[n]]
    BY <1>0 DEF Sound, Typed
  <2> HIDE DEF next, s1
  <2>9. QED
    BY <1>0, <1>k, <2>1, <2>2, <2>3, <2>4, <2>6, <2>7, <2>8, ItemKeepsSound
<1>3. CASE FindByKey(w, n)
  <2> DEFINE next == [i EXCEPT !.pc = "children", !.todo = sync[w].seen[n].plugins,
                               !.rid = IF s.fk = key THEN s.rid ELSE None,
                               !.was = IF s.fk = key THEN s.plugins ELSE {}]
  <2>1. item' = [item EXCEPT ![w][n] = next]
    BY <1>3, <1>i, <1>s, <1>k DEF FindByKey, Step, KeyOf
  <2>2. next \in Items
    BY <1>0 DEF Items, Putting, None, Records, KongServices
  <2>3. IsFiniteSet(s.plugins) /\ IsFiniteSet({})
    <3>1. s.plugins \subseteq {plugins[n][p] : p \in Ids}
      BY <1>0 DEF Whole
    <3>2. PICK ps : ps = plugins[n]
      OBVIOUS
    <3>3. IsFiniteSet({ps[p] : p \in Ids})
      BY PluginsFinite
    <3>4. IsFiniteSet(s.plugins)
      BY <3>1, <3>2, <3>3, FS_Subset
    <3>5. QED
      BY <3>4, FS_EmptySet
  <2>4. Staged(next, sync[w].stage, key, given[n])
    BY <1>0, <1>3, <1>i, <2>3 DEF Staged, FindByKey, Doing, Items, Putting, Deleting
  <2> HIDE DEF next
  <2>5. QED
    BY <1>0, <1>3, <1>k, <2>1, <2>2, <2>4, StepKeepsSound DEF FindByKey
<1>4. QED
  BY <1>1, <1>2, <1>3

(* A put that is refused, or that ends without a write.                     *)
LEMMA RefusalKeepsSound ==
    ASSUME Sound, NEW w \in Syncs, NEW n \in Names, item[w][n].pc \in Putting,
           Step(w, n, Refused(item[w][n])) \/ Step(w, n, IdleItem),
           UNCHANGED <<kong, given, services, plugins>>,
           sync' \in [Syncs -> Progress],
           \A v \in Syncs : sync'[v].stage = sync[v].stage /\ sync'[v].seen = sync[v].seen
    PROVE  Sound'
<1>i. PICK i : i = item[w][n]
  OBVIOUS
<1>k. PICK key : key = sync[w].seen[n].id
  OBVIOUS
<1>t. PICK stage : stage = sync[w].stage
  OBVIOUS
<1>1. i \in Items /\ IdleItem \in Items /\ Staged(i, stage, key, given[n]) /\ i.pc \in Putting
  BY <1>i, <1>k, <1>t, ItemKnown
<1>g. PICK g : g = given[n]
  OBVIOUS
<1>2. Staged(Refused(i), stage, key, g) /\ Staged(IdleItem, stage, key, g)
  BY <1>1, <1>g, RefusedStaged
<1>3. Refused(i) \in Items
  BY <1>1, RefusedShape
<1>4. PICK j \in {Refused(i), IdleItem} : item' = [item EXCEPT ![w][n] = j]
  BY <1>i DEF Step
<1>5. j \in Items /\ Staged(j, stage, key, g)
  BY <1>1, <1>2, <1>3, <1>4
<1>6. Staged(j, sync[w].stage, sync[w].seen[n].id, given[n])
  BY <1>5, <1>k, <1>t, <1>g
<1>7. UNCHANGED <<kong, given, services, plugins>>
  OBVIOUS
<1>8. QED
  BY <1>4, <1>5, <1>6, <1>7, StepKeepsSound

(* Putting the plugins: a new record of a plugin is none that another      *)
(* plugin has.                                                             *)
LEMMA ChildrenKeepSound ==
    ASSUME Sound, NEW w \in Syncs, NEW n \in Names,
           FindChild(w, n) \/ CreateChild(w, n) \/ Unchanged(w, n)
    PROVE  Sound'
<1>i. PICK i : i = item[w][n]
  OBVIOUS
<1>s. PICK s : s = services[n]
  OBVIOUS
<1>p. PICK ps : ps = plugins[n]
  OBVIOUS
<1>k. PICK key : key = sync[w].seen[n].id
  OBVIOUS
<1>0. /\ i \in Items /\ s \in Records /\ ps \in [Ids -> Nat]
      /\ Whole(kong[n], given[n], s, ps)
      /\ Staged(i, sync[w].stage, key, given[n])
      /\ UNCHANGED <<kong, given, services, sync>> /\ sync' \in [Syncs -> Progress]
  BY <1>i, <1>s, <1>p, <1>k, ItemKnown DEF FindChild, CreateChild, Unchanged
<1>1. CASE FindChild(w, n)
  <2>1. i.pc = "children" /\ UNCHANGED plugins
    BY <1>1, <1>i DEF FindChild, Doing
  <2>2. PICK p \in i.todo :
          Step(w, n, IF ps[p] = None
                     THEN [i EXCEPT !.pc = "child", !.child = p]
                     ELSE [i EXCEPT !.todo = @ \ {p}, !.ids = @ \cup {ps[p]}])
    BY <1>1, <1>i, <1>p DEF FindChild
  <2>3. p \in Ids /\ ps[p] \in Nat
    BY <1>0, <2>2 DEF Items
  <2>4. CASE ps[p] = None
    <3> DEFINE next == [i EXCEPT !.pc = "child", !.child = p]
    <3>1. item' = [item EXCEPT ![w][n] = next]
      BY <2>2, <2>4 DEF Step
    <3>2. next \in Items
      BY <1>0, <2>3 DEF Items, Putting
    <3>3. Staged(next, sync[w].stage, key, given[n])
      BY <1>0, <2>1 DEF Staged, Items, Putting, Deleting
    <3> HIDE DEF next
    <3>4. QED
      BY <1>0, <1>k, <2>1, <3>1, <3>2, <3>3, StepKeepsSound
  <2>5. CASE ps[p] # None
    <3> DEFINE next == [i EXCEPT !.todo = @ \ {p}, !.ids = @ \cup {ps[p]}]
    <3>1. item' = [item EXCEPT ![w][n] = next]
      BY <2>2, <2>5 DEF Step
    <3>2. next \in Items
      BY <1>0, <2>3 DEF Items, Putting
    <3>3. IsFiniteSet(i.ids \cup {ps[p]})
      BY <1>0, FS_Singleton, FS_Union DEF Staged
    <3>4. Staged(next, sync[w].stage, key, given[n])
      BY <1>0, <2>1, <2>5, <3>3 DEF Staged, Items, Putting, Deleting
    <3> HIDE DEF next
    <3>5. QED
      BY <1>0, <1>k, <2>1, <3>1, <3>2, <3>4, StepKeepsSound
  <2>6. QED
    BY <2>4, <2>5
<1>2. CASE CreateChild(w, n)
  <2>1. i.pc = "child" /\ i.pc \in Putting
    BY <1>2, <1>i DEF CreateChild, Doing, Putting
  <2>2. PICK p : p = i.child
    OBVIOUS
  <2>3. PICK new : new = Unused(PluginsInUse(n))
    OBVIOUS
  <2>4. new \in Nat /\ new # None /\ \A q \in Ids : ps[q] # new
    <3>1. IsFiniteSet(PluginsInUse(n)) /\ {plugins[n][q] : q \in Ids} \subseteq PluginsInUse(n)
      BY InUseFinite
    <3>2. new \in Nat \ {None} /\ new \notin PluginsInUse(n)
      BY <2>3, <3>1, UnusedIsNew
    <3>3. QED
      BY <1>p, <3>1, <3>2
  <2>5. CASE ps[p] = None
    <3> DEFINE next == [i EXCEPT !.pc = "children", !.todo = @ \ {p},
                                 !.ids = @ \cup {new}, !.child = None]
               qs == [ps EXCEPT ![p] = new]
    <3>1. item' = [item EXCEPT ![w][n] = next]
      BY <1>2, <1>i, <1>p, <2>2, <2>3, <2>5 DEF CreateChild, Step
    <3>2. plugins' = [plugins EXCEPT ![n] = qs]
      BY <1>2, <1>i, <1>p, <2>2, <2>3, <2>5 DEF CreateChild, Sound, Typed
    <3>3. next \in Items
      BY <1>0, <2>4 DEF Items, Putting
    <3>4. IsFiniteSet(i.ids \cup {new})
      BY <1>0, FS_Singleton, FS_Union DEF Staged
    <3>5. Staged(next, sync[w].stage, key, given[n])
      BY <1>0, <2>1, <2>4, <3>4 DEF Staged, Items, Putting, Deleting
    <3>6. qs \in [Ids -> Nat]
      BY <1>0, <2>4
    <3>7. \A q \in Ids : qs[q] = (IF q = p THEN new ELSE ps[q])
      BY <1>0
    <3>8. Whole(kong[n], given[n], s, qs)
      <4>1. s.plugins \subseteq {qs[q] : q \in Ids} \ {None}
        <5> SUFFICES ASSUME NEW x \in s.plugins PROVE x \in {qs[q] : q \in Ids} \ {None}
          OBVIOUS
        <5>1. PICK q \in Ids : ps[q] = x /\ x # None
          BY <1>0 DEF Whole
        <5>2. q # p
          BY <2>5, <5>1
        <5>3. QED
          BY <3>7, <5>1, <5>2
      <4>2. \A q, r \in Ids : qs[q] = qs[r] => q = r \/ qs[q] = None
        BY <1>0, <2>4, <3>7 DEF Whole
      <4> HIDE DEF qs
      <4>3. QED
        BY <1>0, <4>1, <4>2 DEF Whole
    <3>9. services' = [services EXCEPT ![n] = s]
      BY <1>0, <1>s DEF Sound, Typed
    <3> HIDE DEF next, qs
    <3>10. QED
      BY <1>0, <1>k, <3>1, <3>2, <3>3, <3>5, <3>6, <3>8, <3>9, ItemKeepsSound
  <2>6. CASE ps[p] # None
    <3>1. Step(w, n, Refused(item[w][n])) /\ UNCHANGED plugins
      BY <1>2, <1>i, <1>p, <2>2, <2>6 DEF CreateChild
    <3>2. QED
      BY <1>0, <1>i, <2>1, <3>1, RefusalKeepsSound
  <2>7. QED
    BY <2>5, <2>6
<1>3. CASE Unchanged(w, n)
  <2>1. i.pc \in Putting
    BY <1>3, <1>i DEF Unchanged, ChildrenPut, Doing, Putting
  <2>2. Step(w, n, Refused(item[w][n])) \/ Step(w, n, IdleItem)
    BY <1>3 DEF Unchanged
  <2>3. UNCHANGED plugins
    BY <1>3 DEF Unchanged
  <2>4. QED
    BY <1>0, <1>i, <2>1, <2>2, <2>3, RefusalKeepsSound
<1>4. QED
  BY <1>1, <1>2, <1>3

(* Plugins are removed, and with them the record's references to them.       *)
Stripped(ps, ids) == [p \in Ids |-> IF ps[p] \in ids THEN None ELSE ps[p]]
Relieved(s, ids) == [s EXCEPT !.plugins = s.plugins \ ids]

(* The records of plugins are removed together with the references to      *)
(* them.                                                                   *)
LEMMA WithoutWhole ==
    ASSUME NEW ps \in [Ids -> Nat], NEW k, NEW g, NEW s \in Records, Whole(k, g, s, ps),
           NEW ids
    PROVE  /\ Stripped(ps, ids) \in [Ids -> Nat] /\ Relieved(s, ids) \in Records
           /\ Whole(k, g, Relieved(s, ids), Stripped(ps, ids))
<1>q. PICK qs : qs = Stripped(ps, ids) /\ qs = [p \in Ids |-> IF ps[p] \in ids THEN None ELSE ps[p]]
  BY DEF Stripped
<1>t. PICK t : t = Relieved(s, ids) /\ t = [s EXCEPT !.plugins = s.plugins \ ids]
  BY DEF Relieved
<1>1. qs \in [Ids -> Nat]
  BY <1>q DEF None
<1>2. t \in Records /\ t.rid = s.rid /\ t.fk = s.fk /\ t.plugins = s.plugins \ ids
  BY <1>t DEF Records
<1>3. t.plugins \subseteq {qs[p] : p \in Ids} \ {None}
  <2> SUFFICES ASSUME NEW x \in s.plugins \ ids PROVE x \in {qs[p] : p \in Ids} \ {None}
    BY <1>2
  <2>1. PICK p \in Ids : ps[p] = x /\ x # None
    BY DEF Whole
  <2>2. QED
    BY <1>q, <2>1
<1>4. \A p, q \in Ids : qs[p] = qs[q] => p = q \/ qs[p] = None
  BY <1>q DEF Whole
<1>5. s = NoRecord => t = NoRecord
  <2> SUFFICES ASSUME s = NoRecord PROVE t = NoRecord
    OBVIOUS
  <2>1. s.plugins \ ids = {}
    BY DEF NoRecord
  <2>2. QED
    BY <1>t, <2>1 DEF NoRecord
<1>6. t = NoRecord => s.rid = None /\ s.fk = None
  BY <1>2 DEF NoRecord
<1>7. QED
  BY <1>q, <1>t, <1>1, <1>2, <1>3, <1>4, <1>5, <1>6 DEF Whole

(* What is written to a record refers to plugins that are there.           *)
LEMMA WritesKeepSound ==
    ASSUME Sound, NEW w \in Syncs, NEW n \in Names,
           RemoveChildren(w, n) \/ Update(w, n) \/ Create(w, n)
    PROVE  Sound'
<1>i. PICK i : i = item[w][n]
  OBVIOUS
<1>s. PICK s : s = services[n]
  OBVIOUS
<1>p. PICK ps : ps = plugins[n]
  OBVIOUS
<1>k. PICK key : key = sync[w].seen[n].id
  OBVIOUS
<1>0. /\ i \in Items /\ s \in Records /\ ps \in [Ids -> Nat]
      /\ Whole(kong[n], given[n], s, ps)
      /\ Staged(i, sync[w].stage, key, given[n])
      /\ UNCHANGED <<kong, given, sync>> /\ sync' \in [Syncs -> Progress]
      /\ IdleItem \in Items
  BY <1>i, <1>s, <1>p, <1>k, ItemKnown DEF RemoveChildren, Update, Create
<1>pc. i.pc \in {"children", "update"} /\ i.pc \in Putting
  BY <1>i DEF RemoveChildren, Update, Create, ChildrenPut, Doing, Putting
<1>key. key # None /\ key \in Nat /\ key <= given[n]
  BY <1>0, <1>k, <1>pc, ItemKnown DEF Staged, KongServices, Ids, None
<1>idle. Staged(IdleItem, sync[w].stage, key, given[n])
  <2>1. PICK stage, g : stage = sync[w].stage /\ g = given[n]
    OBVIOUS
  <2>2. Staged(IdleItem, stage, key, g)
    BY <1>0, <1>pc, <2>1, RefusedStaged
  <2>3. QED
    BY <2>1, <2>2
<1>1. CASE RemoveChildren(w, n)
  <2> DEFINE next == [i EXCEPT !.pc = "update"]
  <2>1. PICK ids : ids = Vanished(i)
    OBVIOUS
  <2>2. PICK qs : qs = Stripped(ps, ids)
    OBVIOUS
  <2>3. PICK t : t = Relieved(s, ids)
    OBVIOUS
  <2>4. item' = [item EXCEPT ![w][n] = next]
    BY <1>1, <1>i DEF RemoveChildren, Step
  <2>5. plugins' = [plugins EXCEPT ![n] = qs]
    BY <1>1, <1>i, <1>p, <2>1, <2>2 DEF RemoveChildren, Without, Stripped
  <2>6. services' = [services EXCEPT ![n] = t]
    BY <1>1, <1>i, <1>s, <2>1, <2>3 DEF RemoveChildren, Relieved, Sound, Typed
  <2>7. next \in Items
    BY <1>0 DEF Items, Putting
  <2>8. Staged(next, sync[w].stage, key, given[n])
    BY <1>0, <1>pc DEF Staged, Items, Putting, Deleting
  <2>9. PICK k, g : k = kong[n] /\ g = given[n]
    OBVIOUS
  <2> HIDE DEF next
  <2>10. qs \in [Ids -> Nat] /\ t \in Records /\ Whole(k, g, t, qs)
    <3>1. ps \in [Ids -> Nat] /\ s \in Records /\ Whole(k, g, s, ps)
      BY <1>0, <2>9
    <3>2. QED
      BY <2>2, <2>3, <3>1, WithoutWhole
  <2>11. QED
    BY <1>0, <1>k, <2>4, <2>5, <2>6, <2>7, <2>8, <2>9, <2>10, ItemKeepsSound
<1>2. CASE Update(w, n)
  <2>1. UNCHANGED plugins
    BY <1>2 DEF Update
  <2>2. CASE s.rid = i.rid /\ Connects(w, n)
    <3> DEFINE t == [s EXCEPT !.plugins = i.ids]
    <3>1. item' = [item EXCEPT ![w][n] = IdleItem] /\ services' = [services EXCEPT ![n] = t]
      BY <1>2, <1>i, <1>s, <2>2 DEF Update, Step, Sound, Typed
    <3>2. t \in Records /\ t.rid = s.rid /\ t.fk = s.fk /\ t.plugins = i.ids
      BY <1>0 DEF Records, Items
    <3>3. i.ids \subseteq {ps[p] : p \in Ids} \ {None}
      BY <1>0, <1>i, <1>p, <2>2 DEF Connects, Staged
    <3>4. i.rid # None
      BY <1>2, <1>i DEF Update
    <3>5. t # NoRecord
      BY <2>2, <3>2, <3>4 DEF NoRecord
    <3>6. plugins' = [plugins EXCEPT ![n] = ps]
      BY <1>p, <2>1 DEF Sound, Typed
    <3> HIDE DEF t
    <3>7. Whole(kong[n], given[n], t, ps)
      BY <1>0, <2>2, <3>2, <3>3, <3>4, <3>5 DEF Whole
    <3>8. QED
      BY <1>0, <1>k, <1>idle, <3>1, <3>2, <3>6, <3>7, ItemKeepsSound
  <2>3. CASE ~(s.rid = i.rid /\ Connects(w, n))
    <3>1. Step(w, n, Refused(item[w][n])) /\ UNCHANGED services
      BY <1>2, <1>i, <1>s, <2>3 DEF Update
    <3>2. QED
      BY <1>0, <1>i, <1>pc, <2>1, <3>1, RefusalKeepsSound
  <2>4. QED
    BY <2>2, <2>3
<1>3. CASE Create(w, n)
  <2>1. UNCHANGED plugins
    BY <1>3 DEF Create
  <2>2. CASE s = NoRecord /\ Connects(w, n)
    <3>1. PICK new : new = Unused(RecordsInUse(n))
      OBVIOUS
    <3>2. new \in Nat /\ new # None
      BY <3>1, InUseFinite, UnusedIsNew
    <3> DEFINE t == [rid |-> new, fk |-> key, plugins |-> i.ids]
    <3>3. item' = [item EXCEPT ![w][n] = IdleItem] /\ services' = [services EXCEPT ![n] = t]
      BY <1>3, <1>i, <1>s, <1>k, <2>2, <3>1 DEF Create, Step, KeyOf
    <3>4. t \in Records /\ t.rid = new /\ t.fk = key /\ t.plugins = i.ids
      BY <1>0, <1>key, <3>2 DEF Records, Items
    <3>5. i.ids \subseteq {ps[p] : p \in Ids} \ {None}
      BY <1>0, <1>i, <1>p, <2>2 DEF Connects, Staged
    <3>6. t # NoRecord
      BY <3>2, <3>4 DEF NoRecord
    <3>7. plugins' = [plugins EXCEPT ![n] = ps]
      BY <1>p, <2>1 DEF Sound, Typed
    <3> HIDE DEF t
    <3>8. Whole(kong[n], given[n], t, ps)
      BY <1>0, <1>key, <3>2, <3>4, <3>5, <3>6 DEF Whole
    <3>9. QED
      BY <1>0, <1>k, <1>idle, <3>3, <3>4, <3>7, <3>8, ItemKeepsSound
  <2>3. CASE ~(s = NoRecord /\ Connects(w, n))
    <3>1. Step(w, n, Refused(item[w][n])) /\ UNCHANGED services
      BY <1>3, <1>s, <2>3 DEF Create
    <3>2. QED
      BY <1>0, <1>i, <1>pc, <2>1, <3>1, RefusalKeepsSound
  <2>4. QED
    BY <2>2, <2>3
<1>4. QED
  BY <1>1, <1>2, <1>3

(* What a sync of the namespace remembers of its deletions.                 *)
LEMMA ForgottenShape ==
    ASSUME Sound, NEW w \in Syncs, NEW n \in Names, NEW next,
           next \in {sync, [sync EXCEPT ![w].gone[n] = None], [sync EXCEPT ![w].still = FALSE],
                     [sync EXCEPT ![w].still = FALSE, ![w].gone[n] = None]}
    PROVE  /\ next \in [Syncs -> Progress]
           /\ \A v \in Syncs : next[v].stage = sync[v].stage /\ next[v].seen = sync[v].seen
<1> PICK s : s = sync
  OBVIOUS
<1>1. s \in [Syncs -> Progress] /\ s[w] \in Progress
  BY DEF Sound, Typed
<1>2. [s[w].gone EXCEPT ![n] = None] \in [Names -> Nat]
  BY <1>1 DEF Progress, None
<1>3. PICK p : p \in {s[w], [s[w] EXCEPT !.gone = [s[w].gone EXCEPT ![n] = None]],
                      [s[w] EXCEPT !.still = FALSE],
                      [s[w] EXCEPT !.still = FALSE, !.gone = [s[w].gone EXCEPT ![n] = None]]}
               /\ next = [s EXCEPT ![w] = p]
  BY <1>1 DEF Progress
<1>4. p \in Progress /\ p.stage = s[w].stage /\ p.seen = s[w].seen
  BY <1>1, <1>2, <1>3 DEF Progress
<1>5. QED
  BY <1>1, <1>3, <1>4

(* A deletion that begins, begins again, or ends.                           *)
LEMMA DeletionStaged ==
    ASSUME NEW key, NEW g, NEW stage, key <= g, NEW tries \in 0..Attempts
    PROVE  /\ Staged(IdleItem, stage, key, g) /\ Staged(Deletion(tries), "cleaning", key, g)
           /\ IdleItem \in Items /\ Deletion(tries) \in Items
<1>1. IsFiniteSet({})
  BY FS_EmptySet
<1>2. PICK i : i = IdleItem
  OBVIOUS
<1>i. i.pc = "idle" /\ i.ids = {} /\ i.was = {}
  BY <1>2 DEF IdleItem
<1>3. Staged(i, stage, key, g)
  BY <1>1, <1>2, <1>i DEF Staged, Putting, Deleting
<1>4. PICK d : d = Deletion(tries)
  OBVIOUS
<1>d. d.pc = "find" /\ d.ids = {} /\ d.was = {}
  BY <1>4 DEF Deletion, IdleItem
<1>5. Staged(d, "cleaning", key, g)
  BY <1>1, <1>d DEF Staged, Putting, Deleting
<1>6. IdleItem \in Items
  BY SyncAssumption DEF IdleItem, Items, None
<1>7. Deletion(tries) \in Items
  BY SyncAssumption DEF Deletion, IdleItem, Items, None, Deleting
<1>8. QED
  BY <1>2, <1>3, <1>4, <1>5, <1>6, <1>7

(* A deletion that begins, goes on, is tried again or given up.            *)
LEMMA DeletionKeepsSound ==
    ASSUME Sound, NEW w \in Syncs, NEW n \in Names, sync[w].stage = "cleaning",
           NEW tries \in 0..Attempts, DeleteAgain(w, n, tries),
           UNCHANGED <<kong, given, services, plugins>>
    PROVE  Sound'
<1>k. PICK key, g : key = sync[w].seen[n].id /\ g = given[n]
  OBVIOUS
<1>1. key <= g
  BY <1>k, ItemKnown DEF Staged
<1>2. CASE tries > 1
  <2>1. tries - 1 \in 0..Attempts
    BY <1>2, SyncAssumption
  <2>2. PICK t : t = tries - 1
    OBVIOUS
  <2>3. Staged(Deletion(t), "cleaning", key, g) /\ Deletion(t) \in Items
    BY <1>1, <2>1, <2>2, DeletionStaged
  <2>4. PICK i : i = Deletion(t)
    OBVIOUS
  <2>5. item' = [item EXCEPT ![w][n] = i] /\ sync' = sync
    BY <1>2, <2>2, <2>4 DEF DeleteAgain
  <2>6. i \in Items /\ Staged(i, sync[w].stage, sync[w].seen[n].id, given[n])
    BY <1>k, <2>3, <2>4
  <2>7. sync' \in [Syncs -> Progress]
    BY <2>5, ItemKnown
  <2>8. QED
    BY <2>5, <2>6, <2>7, StepKeepsSound
<1>3. CASE ~(tries > 1)
  <2>1. PICK i, stage : i = IdleItem /\ stage = sync[w].stage
    OBVIOUS
  <2>2. item' = [item EXCEPT ![w][n] = i] /\ sync' = [sync EXCEPT ![w].gone[n] = None]
    BY <1>3, <2>1 DEF DeleteAgain, Forget
  <2>3. Staged(IdleItem, stage, key, g) /\ IdleItem \in Items
    BY <1>1, DeletionStaged
  <2>4. i \in Items /\ Staged(i, sync[w].stage, sync[w].seen[n].id, given[n])
    BY <1>k, <2>1, <2>3
  <2>5. PICK next : next = sync'
    OBVIOUS
  <2>6. next \in [Syncs -> Progress]
        /\ \A v \in Syncs : next[v].stage = sync[v].stage /\ next[v].seen = sync[v].seen
    <3>1. next \in {sync, [sync EXCEPT ![w].gone[n] = None], [sync EXCEPT ![w].still = FALSE],
                    [sync EXCEPT ![w].still = FALSE, ![w].gone[n] = None]}
      BY <2>2, <2>5
    <3>2. QED
      BY <3>1, ForgottenShape
  <2>7. QED
    BY <2>2, <2>4, <2>5, <2>6, StepKeepsSound
<1>4. QED
  BY <1>2, <1>3

(* A call that fails changes the item alone.                               *)
LEMMA FailuresKeepSound ==
    ASSUME Sound, NEW w \in Syncs, NEW n \in Names, PutFails(w, n) \/ DeleteFails(w, n)
    PROVE  Sound'
<1>s. PICK next : next = sync'
  OBVIOUS
<1>i. PICK i : i = item[w][n]
  OBVIOUS
<1>k. PICK key, g : key = sync[w].seen[n].id /\ g = given[n]
  OBVIOUS
<1>0. i \in Items /\ Staged(i, sync[w].stage, key, g) /\ key <= g
  BY <1>i, <1>k, ItemKnown DEF Staged
<1>1. next \in [Syncs -> Progress]
      /\ \A v \in Syncs : next[v].stage = sync[v].stage /\ next[v].seen = sync[v].seen
  BY <1>s, ForgottenShape DEF PutFails, DeleteFails
<1>2. UNCHANGED <<kong, given, services, plugins>>
  BY DEF PutFails, DeleteFails
<1>3. CASE PutFails(w, n)
  <2>1. i.pc \in Putting
    BY <1>0, <1>3, <1>i DEF PutFails, Staged, Items
  <2>2. Step(w, n, Refused(item[w][n]))
    BY <1>3 DEF PutFails
  <2>3. QED
    BY <1>1, <1>2, <1>i, <1>s, <2>1, <2>2, RefusalKeepsSound
<1>4. CASE DeleteFails(w, n)
  <2>1. PICK t : t = i.tries - 1
    OBVIOUS
  <2>2. i.tries > 1 => t \in 0..Attempts
    BY <1>0, <2>1, SyncAssumption DEF Items
  <2>3. PICK j : j = (IF i.tries > 1 THEN Deletion(t) ELSE IdleItem)
    OBVIOUS
  <2>4. j \in Items /\ Staged(j, "cleaning", key, g)
    <3>1. CASE i.tries > 1
      BY <1>0, <2>2, <2>3, <3>1, DeletionStaged
    <3>2. CASE ~(i.tries > 1)
      <4>1. 0 \in 0..Attempts
        BY SyncAssumption
      <4>2. Staged(IdleItem, "cleaning", key, g) /\ IdleItem \in Items
        BY <1>0, <4>1, DeletionStaged
      <4>3. QED
        BY <2>3, <3>2, <4>2
    <3>3. QED
      BY <3>1, <3>2
  <2>5. item' = [item EXCEPT ![w][n] = j]
    <3>1. CASE i.tries > 1
      BY <1>4, <1>i, <2>1, <2>3, <3>1 DEF DeleteFails, Sound, Typed
    <3>2. CASE ~(i.tries > 1)
      BY <1>4, <1>i, <2>3, <3>2 DEF DeleteFails
    <3>3. QED
      BY <3>1, <3>2
  <2>6. Staged(j, sync[w].stage, sync[w].seen[n].id, given[n])
    BY <1>4, <1>k, <2>4 DEF DeleteFails
  <2>7. QED
    BY <1>1, <1>2, <1>s, <2>4, <2>5, <2>6, StepKeepsSound
<1>5. QED
  BY <1>3, <1>4

(* The removal of plugins and of the record itself.                        *)
LEMMA RemovalsKeepSound ==
    ASSUME Sound, NEW w \in Syncs, NEW n \in Names,
           FindGone(w, n) \/ RemovePlugins(w, n) \/ RemoveService(w, n)
    PROVE  Sound'
<1>i. PICK i : i = item[w][n]
  OBVIOUS
<1>s. PICK s : s = services[n]
  OBVIOUS
<1>p. PICK ps : ps = plugins[n]
  OBVIOUS
<1>k. PICK key, g : key = sync[w].seen[n].id /\ g = given[n]
  OBVIOUS
<1>0. /\ i \in Items /\ s \in Records /\ ps \in [Ids -> Nat]
      /\ Whole(kong[n], g, s, ps)
      /\ Staged(i, sync[w].stage, key, g)
      /\ UNCHANGED <<kong, given>>
  BY <1>i, <1>s, <1>p, <1>k, ItemKnown DEF FindGone, RemovePlugins, RemoveService
<1>key. key <= g
  BY <1>0 DEF Staged
<1>c. sync[w].stage = "cleaning"
  BY <1>0, <1>i DEF FindGone, RemovePlugins, RemoveService, Staged, Deleting
<1>t. i.tries \in 0..Attempts /\ Attempts \in 0..Attempts
  BY <1>0, SyncAssumption DEF Items
<1>1. CASE FindGone(w, n)
  <2>1. PICK tries : tries = IF Resting(w) THEN Attempts ELSE i.tries
    OBVIOUS
  <2>2. tries \in 0..Attempts
    BY <1>t, <2>1
  <2>3. UNCHANGED <<kong, given, services, plugins>>
    BY <1>1 DEF FindGone
  <2>4. CASE s.fk = sync[w].gone[n]
    <3>1. PICK next : next = [IdleItem EXCEPT !.pc = "empty", !.tries = tries, !.rid = s.rid]
      OBVIOUS
    <3>2. item' = [item EXCEPT ![w][n] = next] /\ UNCHANGED sync
      BY <1>1, <1>i, <1>s, <2>1, <2>4, <3>1 DEF FindGone
    <3>3. s.rid # None
      BY <1>0, <1>1, <2>4 DEF FindGone, Whole, NoRecord
    <3>4. next.pc = "empty" /\ next.rid = s.rid /\ next.ids = {} /\ next.was = {}
      BY <3>1 DEF IdleItem
    <3>5. IsFiniteSet({})
      BY FS_EmptySet
    <3>6. Staged(next, sync[w].stage, key, g)
      BY <1>key, <1>c, <3>3, <3>4, <3>5 DEF Staged, Putting, Deleting
    <3>7. next \in Items
      BY <1>0, <2>2, <3>1 DEF IdleItem, Items, Records, None, Deleting
    <3>8. sync' \in [Syncs -> Progress]
      BY <3>2, ItemKnown
    <3>9. QED
      BY <1>k, <2>3, <3>2, <3>6, <3>7, <3>8, StepKeepsSound
  <2>5. CASE s.fk # sync[w].gone[n]
    <3>1. DeleteAgain(w, n, tries)
      BY <1>1, <1>i, <1>s, <2>1, <2>5 DEF FindGone
    <3>2. QED
      BY <1>c, <2>2, <2>3, <3>1, DeletionKeepsSound
  <2>6. QED
    BY <2>4, <2>5
<1>2. CASE RemovePlugins(w, n)
  <2>1. CASE s.rid = i.rid
    <3>1. PICK ids : ids = s.plugins
      OBVIOUS
    <3>2. PICK qs : qs = Stripped(ps, ids)
      OBVIOUS
    <3>3. PICK t : t = Relieved(s, ids)
      OBVIOUS
    <3>4. PICK next : next = [i EXCEPT !.pc = "remove"]
      OBVIOUS
    <3>5. item' = [item EXCEPT ![w][n] = next]
      BY <1>2, <1>i, <1>s, <2>1, <3>4 DEF RemovePlugins, Sound, Typed
    <3>6. plugins' = [plugins EXCEPT ![n] = qs]
      BY <1>2, <1>i, <1>s, <1>p, <2>1, <3>1, <3>2 DEF RemovePlugins, Without, Stripped
    <3>7. t = [s EXCEPT !.plugins = {}]
      <4>1. ids \ ids = {}
        OBVIOUS
      <4>2. QED
        BY <3>1, <3>3, <4>1 DEF Relieved
    <3>8. services' = [services EXCEPT ![n] = t]
      BY <1>2, <1>i, <1>s, <2>1, <3>7 DEF RemovePlugins, Sound, Typed
    <3>9. next \in Items
      BY <1>0, <3>4 DEF Items, Deleting
    <3>10. Staged(next, sync[w].stage, key, g)
      <4>1. i.pc = "empty" /\ next.pc = "remove" /\ next.rid = i.rid /\ next.ids = i.ids
            /\ next.was = i.was
        BY <1>0, <1>2, <1>i, <3>4 DEF RemovePlugins, Items
      <4>2. QED
        BY <1>0, <1>c, <4>1 DEF Staged, Putting, Deleting
    <3>11. PICK k : k = kong[n]
      OBVIOUS
    <3>12. ps \in [Ids -> Nat] /\ s \in Records /\ Whole(k, g, s, ps)
      BY <1>0, <3>11
    <3>13. qs \in [Ids -> Nat] /\ t \in Records /\ Whole(k, g, t, qs)
      BY <3>2, <3>3, <3>12, WithoutWhole
    <3>14. sync' \in [Syncs -> Progress] /\ sync' = sync
      BY <1>2, <1>i, <1>s, <2>1, ItemKnown DEF RemovePlugins
    <3>15. QED
      BY <1>0, <1>k, <3>5, <3>6, <3>8, <3>9, <3>10, <3>11, <3>13, <3>14, ItemKeepsSound
  <2>2. CASE s.rid # i.rid
    <3>1. DeleteAgain(w, n, i.tries) /\ UNCHANGED <<kong, given, services, plugins>>
      BY <1>2, <1>i, <1>s, <2>2 DEF RemovePlugins
    <3>2. QED
      BY <1>c, <1>t, <3>1, DeletionKeepsSound
  <2>3. QED
    BY <2>1, <2>2
<1>3. CASE RemoveService(w, n)
  <2>1. CASE s.rid = i.rid
    <3>1. PICK t : t = NoRecord
      OBVIOUS
    <3>2. PICK idle : idle = IdleItem
      OBVIOUS
    <3>3. /\ services' = [services EXCEPT ![n] = t] /\ item' = [item EXCEPT ![w][n] = idle]
          /\ sync' = [sync EXCEPT ![w].gone[n] = None] /\ UNCHANGED plugins
      BY <1>3, <1>i, <1>s, <2>1, <3>1, <3>2 DEF RemoveService, Forget
    <3>4. PICK next : next = sync'
      OBVIOUS
    <3>5. next \in [Syncs -> Progress]
          /\ \A v \in Syncs : next[v].stage = sync[v].stage /\ next[v].seen = sync[v].seen
      <4>1. next \in {sync, [sync EXCEPT ![w].gone[n] = None], [sync EXCEPT ![w].still = FALSE],
                      [sync EXCEPT ![w].still = FALSE, ![w].gone[n] = None]}
        BY <3>3, <3>4
      <4>2. QED
        BY <4>1, ForgottenShape
    <3>6. t \in Records /\ t.rid = None /\ t.fk = None /\ t.plugins = {}
      BY <3>1 DEF NoRecord, Records, None
    <3>7. g \in Nat
      BY <1>k, ItemKnown
    <3>8. Whole(kong[n], g, t, ps)
      BY <1>0, <3>1, <3>6, <3>7 DEF Whole, None
    <3>9. plugins' = [plugins EXCEPT ![n] = ps]
      BY <1>p, <3>3 DEF Sound, Typed
    <3>10. PICK stage : stage = sync[w].stage
      OBVIOUS
    <3>11. Staged(idle, stage, key, g) /\ idle \in Items
      BY <1>key, <1>t, <3>2, DeletionStaged
    <3>12. QED
      BY <1>0, <1>k, <3>3, <3>4, <3>5, <3>6, <3>8, <3>9, <3>10, <3>11, ItemKeepsSound
  <2>2. CASE s.rid # i.rid
    <3>1. DeleteAgain(w, n, i.tries) /\ UNCHANGED <<kong, given, services, plugins>>
      BY <1>3, <1>i, <1>s, <2>2 DEF RemoveService
    <3>2. QED
      BY <1>c, <1>t, <3>1, DeletionKeepsSound
  <2>3. QED
    BY <2>1, <2>2
<1>4. QED
  BY <1>1, <1>2, <1>3

(* A step of a sync as a whole: its items begin, or there are none.          *)
LEMMA TurnKeepsSound ==
    ASSUME Sound, UNCHANGED <<kong, given, services, plugins>>,
           sync' \in [Syncs -> Progress], item' \in [Syncs -> [Names -> Items]],
           \A v \in Syncs, m \in Names :
              /\ sync'[v].seen[m].id <= given[m]
              /\ \/ item'[v][m] = IdleItem
                 \/ /\ item'[v][m] = Item(Attempts) /\ sync'[v].stage = "feeding"
                    /\ sync'[v].seen[m].id # None
                 \/ /\ item'[v][m] = item[v][m]
                    /\ sync'[v].stage = sync[v].stage /\ sync'[v].seen = sync[v].seen
    PROVE  Sound'
<1>1. Typed'
  BY DEF Sound, Typed
<1>2. \A m \in Names : Whole(kong'[m], given'[m], services'[m], plugins'[m])
  BY DEF Sound
<1>3. \A v \in Syncs, m \in Names :
          Staged(item'[v][m], sync'[v].stage, sync'[v].seen[m].id, given'[m])
  <2> TAKE v \in Syncs, m \in Names
  <2>1. PICK i, stage, key, g : /\ i = item'[v][m] /\ stage = sync'[v].stage
                                /\ key = sync'[v].seen[m].id /\ g = given[m]
    OBVIOUS
  <2>2. key <= g
    BY <2>1
  <2>3. IsFiniteSet({})
    BY FS_EmptySet
  <2>4. CASE i = IdleItem
    <3>1. i.pc = "idle" /\ i.ids = {} /\ i.was = {}
      BY <2>4 DEF IdleItem
    <3>2. Staged(i, stage, key, g)
      BY <2>2, <2>3, <2>4, <3>1 DEF Staged, Putting, Deleting
    <3>3. QED
      BY <2>1, <3>2
  <2>5. CASE i = Item(Attempts) /\ stage = "feeding" /\ key # None
    <3>1. i.pc = "name" /\ i.ids = {} /\ i.was = {}
      BY <2>5 DEF Item, IdleItem
    <3>2. Staged(i, stage, key, g)
      BY <2>2, <2>3, <2>5, <3>1 DEF Staged, Putting, Deleting
    <3>3. QED
      BY <2>1, <3>2
  <2>6. CASE i = item[v][m] /\ sync'[v].stage = sync[v].stage /\ sync'[v].seen = sync[v].seen
    BY <2>1, <2>6 DEF Sound
  <2>7. QED
    BY <2>1, <2>4, <2>5, <2>6
<1>4. QED
  BY <1>1, <1>2, <1>3 DEF Sound

(* A sync that puts nothing has no items.                                   *)
LEMMA NoItems ==
    ASSUME Sound, NEW w \in Syncs, NEW n \in Names,
           sync[w].stage \notin {"feeding", "cleaning"}
    PROVE  item[w][n] = IdleItem
<1>1. item[w][n] \in Items /\ Staged(item[w][n], sync[w].stage, sync[w].seen[n].id, given[n])
  BY ItemKnown
<1>2. PICK i, stage : i = item[w][n] /\ stage = sync[w].stage
  OBVIOUS
<1>3. i.pc \notin Putting \cup Deleting
  BY <1>1, <1>2 DEF Staged
<1>4. i.pc = "idle"
  BY <1>1, <1>2, <1>3 DEF Items
<1>5. QED
  BY <1>1, <1>2, <1>4 DEF Staged

(* A sync that has not begun has seen nothing and has nothing to remove.   *)
LEMMA IdleTyped ==
    /\ IdleSync \in Progress /\ IdleSync.stage = "idle"
    /\ \A n \in Names : IdleSync.seen[n].id = None
    /\ NoneGone \in [Names -> Nat] /\ NoService \in KongServices
    /\ \A n \in Names : NoneGone[n] = None
<1>1. NoService \in KongServices /\ NoService.id = None
  BY DEF NoService, KongServices, None
<1>2. NoneGone \in [Names -> Nat] /\ \A n \in Names : NoneGone[n] = None
  BY DEF NoneGone, None
<1>3. [n \in Names |-> NoService] \in [Names -> KongServices]
  BY <1>1
<1>4. IdleSync \in Progress /\ IdleSync.stage = "idle"
  BY <1>2, <1>3 DEF IdleSync, Progress, Stages
<1>5. IdleSync.seen = [n \in Names |-> NoService]
  BY DEF IdleSync
<1>6. QED
  BY <1>1, <1>2, <1>4, <1>5

(* A sync that ends has seen nothing either, and is not active.            *)
LEMMA EndedTyped ==
    ASSUME NEW s \in Progress
    PROVE  /\ Ended(s) \in Progress /\ Ended(s).seen = IdleSync.seen
           /\ Ended(s).stage \in {"idle", "done"}
<1>1. CASE s.still
  <2>1. PICK i : i = IdleSync
    OBVIOUS
  <2>2. i \in Progress
    BY <2>1, IdleTyped
  <2>3. Ended(s) = [i EXCEPT !.stage = "done", !.cleans = s.cleans]
    BY <1>1, <2>1 DEF Ended
  <2>4. [i EXCEPT !.stage = "done", !.cleans = s.cleans] \in Progress
    BY <2>2 DEF Progress, Stages
  <2>5. Ended(s).seen = i.seen /\ Ended(s).stage = "done"
    BY <2>2, <2>3 DEF Progress
  <2>6. QED
    BY <2>1, <2>3, <2>4, <2>5
<1>2. CASE ~s.still
  BY <1>2, IdleTyped DEF Ended
<1>3. QED
  BY <1>1, <1>2

(* A sync that is told of others, or disturbed, goes on as before.           *)
LEMMA DisturbedTyped ==
    ASSUME NEW s \in Progress
    PROVE  /\ [s EXCEPT !.still = FALSE] \in Progress
           /\ [s EXCEPT !.still = FALSE].stage = s.stage
           /\ [s EXCEPT !.still = FALSE].seen = s.seen
           /\ [s EXCEPT !.alone = FALSE, !.still = FALSE] \in Progress
           /\ [s EXCEPT !.alone = FALSE, !.still = FALSE].stage = s.stage
           /\ [s EXCEPT !.alone = FALSE, !.still = FALSE].seen = s.seen
  BY DEF Progress

(* A sync that begins finds the items of its own at rest.                  *)
LEMMA BeginKeepsSound ==
    ASSUME Sound, NEW w \in Syncs, NEW cleans \in BOOLEAN, Begin(w, cleans)
    PROVE  Sound'
<1> DEFINE others == {v \in Syncs \ {w} : Active(v)}
<1>1. PICK begun : begun = [IdleSync EXCEPT !.stage = "feeding", !.cleans = cleans, !.todo = Kongs,
                                            !.alone = others = {}, !.still = others = {}]
  OBVIOUS
<1>2. begun \in Progress /\ begun.seen = IdleSync.seen
  <2>1. PICK i : i = IdleSync
    OBVIOUS
  <2>2. i \in Progress
    BY <2>1, IdleTyped
  <2>3. QED
    BY <1>1, <2>1, <2>2 DEF Progress, Stages
<1>3. \A v \in Syncs : sync'[v] = IF v = w THEN begun
                                  ELSE IF v \in others
                                  THEN [sync[v] EXCEPT !.alone = FALSE, !.still = FALSE]
                                  ELSE IdleSync
  BY <1>1 DEF Begin
<1>4. \A v \in Syncs : [sync[v] EXCEPT !.alone = FALSE, !.still = FALSE] \in Progress
         /\ [sync[v] EXCEPT !.alone = FALSE, !.still = FALSE].stage = sync[v].stage
         /\ [sync[v] EXCEPT !.alone = FALSE, !.still = FALSE].seen = sync[v].seen
  <2> TAKE v \in Syncs
  <2>1. PICK s : s = sync[v]
    OBVIOUS
  <2>2. s \in Progress
    BY <2>1 DEF Sound, Typed
  <2>3. QED
    BY <2>1, <2>2, DisturbedTyped
<1>5. sync' \in [Syncs -> Progress]
  <2>1. \A v \in Syncs : sync'[v] \in Progress
    BY <1>2, <1>3, <1>4, IdleTyped
  <2>2. PICK F : sync' = [v \in Syncs |-> F[v]]
    <3> WITNESS sync'
    <3> QED
      BY DEF Begin
  <2>3. QED
    BY <2>1, <2>2
<1>6. \A v \in Syncs \ others, m \in Names : item[v][m] = IdleItem
  BY NoItems DEF Begin, Active
<1>7. \A v \in Syncs, m \in Names : sync[v].seen[m].id <= given[m] /\ None <= given[m]
  BY ItemKnown DEF Staged, None
<1> HIDE DEF others
<1>8. \A v \in Syncs, m \in Names :
              /\ sync'[v].seen[m].id <= given[m]
              /\ \/ item'[v][m] = IdleItem
                 \/ /\ item'[v][m] = item[v][m]
                    /\ sync'[v].stage = sync[v].stage /\ sync'[v].seen = sync[v].seen
  <2> TAKE v \in Syncs, m \in Names
  <2>1. item' = item
    BY DEF Begin
  <2>2. CASE v \in others /\ v # w
    BY <1>3, <1>4, <1>7, <2>1, <2>2
  <2>3. CASE v = w \/ v \notin others
    <3>1. item'[v][m] = IdleItem
      BY <1>6, <2>1, <2>3 DEF others
    <3>2. sync'[v].seen = IdleSync.seen
      BY <1>2, <1>3, <2>3
    <3>3. QED
      BY <1>7, <3>1, <3>2, IdleTyped
  <2>4. QED
    BY <2>2, <2>3
<1>9. item' \in [Syncs -> [Names -> Items]] /\ UNCHANGED <<kong, given, services, plugins>>
  BY DEF Begin, Sound, Typed
<1>10. QED
  BY <1>5, <1>8, <1>9, TurnKeepsSound

(* A sync of which only the progress changes, and whose items are at rest.   *)
LEMMA RestKeepsSound ==
    ASSUME Sound, NEW w \in Syncs, Resting(w), NEW p \in Progress,
           sync' = [sync EXCEPT ![w] = p],
           UNCHANGED <<kong, given, services, plugins, item>>,
           \A m \in Names : p.seen[m].id <= given[m]
    PROVE  Sound'
<1>1. sync' \in [Syncs -> Progress] /\ item' \in [Syncs -> [Names -> Items]]
  BY DEF Sound, Typed
<1>2. \A v \in Syncs, m \in Names :
         /\ sync'[v].seen[m].id <= given[m]
         /\ \/ item'[v][m] = IdleItem
            \/ /\ item'[v][m] = item[v][m]
               /\ sync'[v].stage = sync[v].stage /\ sync'[v].seen = sync[v].seen
  <2> TAKE v \in Syncs, m \in Names
  <2>1. sync'[v] = IF v = w THEN p ELSE sync[v]
    BY DEF Sound, Typed
  <2>2. sync[v].seen[m].id <= given[m]
    BY ItemKnown DEF Staged
  <2>3. CASE v = w
    BY <2>1, <2>3 DEF Resting
  <2>4. CASE v # w
    BY <2>1, <2>2, <2>4
  <2>5. QED
    BY <2>3, <2>4
<1>3. UNCHANGED <<kong, given, services, plugins>>
  OBVIOUS
<1>4. QED
  BY <1>1, <1>2, <1>3, TurnKeepsSound

(* So do the ends of a sync, which forget what it has seen.                *)
LEMMA EndKeepsSound ==
    ASSUME Sound, NEW w \in Syncs, Resting(w), sync' = [sync EXCEPT ![w] = Ended(@)],
           UNCHANGED <<kong, given, services, plugins, item>>
    PROVE  Sound'
<1>s. PICK s : s = sync[w]
  OBVIOUS
<1>1. s \in Progress
  BY <1>s, ItemKnown DEF Sound, Typed
<1>2. PICK p : p = Ended(s)
  OBVIOUS
<1>3. p \in Progress /\ p.seen = IdleSync.seen
  BY <1>1, <1>2, EndedTyped
<1>4. sync' = [sync EXCEPT ![w] = p]
  BY <1>s, <1>2 DEF Sound, Typed
<1>5. \A m \in Names : p.seen[m].id <= given[m]
  BY <1>3, IdleTyped, ItemKnown DEF None
<1>6. QED
  BY <1>3, <1>4, <1>5, RestKeepsSound

(* What is fetched is what Kong has, and so an id it has given.            *)
LEMMA FetchesKeepSound ==
    ASSUME Sound, NEW w \in Syncs, FetchServices(w) \/ FetchPlugins(w) \/ FetchFails(w)
    PROVE  Sound'
<1>s. PICK s : s = sync[w]
  OBVIOUS
<1>0. s \in Progress /\ \A m \in Names : s.seen[m] \in KongServices /\ kong[m] \in KongServices
  BY <1>s DEF Sound, Typed, Progress
<1>i. \A m \in Names : s.seen[m].id <= given[m] /\ kong[m].id <= given[m] /\ given[m] \in Nat
  BY <1>s, ItemKnown DEF Staged, Whole
<1>1. CASE FetchServices(w)
  <2>1. PICK k \in s.todo :
          LET here == {n \in Names : Site[n] = k} IN
          sync' = [sync EXCEPT
                     ![w].stage = "services", ![w].todo = @ \ {k}, ![w].at = here,
                     ![w].seen = [n \in Names |->
                         IF n \in here THEN [id |-> kong[n].id, plugins |-> {}] ELSE @[n]]]
    BY <1>1, <1>s DEF FetchServices
  <2>2. PICK here : here = {n \in Names : Site[n] = k}
    OBVIOUS
  <2>3. PICK seen : seen = [n \in Names |-> IF n \in here THEN [id |-> kong[n].id, plugins |-> {}]
                                                          ELSE s.seen[n]]
    OBVIOUS
  <2>4. PICK p : p = [s EXCEPT !.stage = "services", !.todo = s.todo \ {k}, !.at = here, !.seen = seen]
    OBVIOUS
  <2>5. sync' = [sync EXCEPT ![w] = p]
    BY <1>s, <2>1, <2>2, <2>3, <2>4 DEF Sound, Typed
  <2>6. seen \in [Names -> KongServices]
    <3>1. \A m \in Names : [id |-> kong[m].id, plugins |-> {}] \in KongServices
      BY <1>0 DEF KongServices
    <3>2. QED
      BY <1>0, <2>3, <3>1
  <2>7. p \in Progress /\ p.seen = seen
    BY <1>0, <2>2, <2>4, <2>6 DEF Progress, Stages
  <2>8. \A m \in Names : p.seen[m].id <= given[m]
    BY <1>i, <2>3, <2>7
  <2>9. Resting(w) /\ UNCHANGED <<kong, given, services, plugins, item>>
    BY <1>1 DEF FetchServices, Between
  <2>10. QED
    BY <2>5, <2>7, <2>8, <2>9, RestKeepsSound
<1>2. CASE FetchFails(w)
  <2>1. PICK seen : seen = [n \in Names |-> IF n \in s.at THEN NoService ELSE s.seen[n]]
    OBVIOUS
  <2>2. PICK p : p = [s EXCEPT !.stage = "feeding", !.whole = FALSE, !.still = FALSE, !.seen = seen]
    OBVIOUS
  <2>3. sync' = [sync EXCEPT ![w] = p]
    BY <1>2, <1>s, <2>1, <2>2 DEF FetchFails, Sound, Typed
  <2>4. seen \in [Names -> KongServices]
    BY <1>0, <2>1, IdleTyped
  <2>5. p \in Progress /\ p.seen = seen
    BY <1>0, <2>2, <2>4 DEF Progress, Stages
  <2>6. NoService.id = 0
    BY DEF NoService, None
  <2>7. \A m \in Names : p.seen[m].id <= given[m]
    BY <1>i, <2>1, <2>5, <2>6
  <2>8. UNCHANGED <<kong, given, services, plugins, item>>
    BY <1>2 DEF FetchFails
  <2>9. Resting(w)
    <3>1. sync[w].stage \notin {"feeding", "cleaning"}
      BY <1>2 DEF FetchFails
    <3>2. QED
      BY <3>1, NoItems DEF Resting
  <2>10. QED
    BY <2>3, <2>5, <2>7, <2>8, <2>9, RestKeepsSound
<1>3. CASE FetchPlugins(w)
  <2>1. PICK found : found = {n \in s.at : s.seen[n].id # None}
    OBVIOUS
  <2>2. PICK seen : seen = [n \in Names |-> IF n \in found /\ s.seen[n].id = kong[n].id THEN kong[n]
                                                                                       ELSE s.seen[n]]
    OBVIOUS
  <2>3. PICK p : p = [s EXCEPT !.stage = "feeding", !.seen = seen]
    OBVIOUS
  <2>4. sync' = [sync EXCEPT ![w] = p]
    BY <1>3, <1>s, <2>1, <2>2, <2>3 DEF FetchPlugins, Sound, Typed
  <2>5. seen \in [Names -> KongServices] /\ \A m \in Names : seen[m].id = s.seen[m].id
    BY <1>0, <2>2
  <2>6. p \in Progress /\ p.seen = seen /\ p.stage = "feeding"
    BY <1>0, <2>3, <2>5 DEF Progress, Stages
  <2>7. PICK its : its = [n \in Names |-> IF n \in found THEN Item(Attempts) ELSE IdleItem]
    OBVIOUS
  <2>8. item' = [item EXCEPT ![w] = its] /\ UNCHANGED <<kong, given, services, plugins>>
    BY <1>3, <1>s, <2>1, <2>7 DEF FetchPlugins
  <2>9. Item(Attempts) \in Items /\ IdleItem \in Items
    <3>1. Attempts \in 0..Attempts /\ 0 \in 0..Attempts
      BY SyncAssumption
    <3>2. IdleItem \in Items
      BY <3>1 DEF IdleItem, Items, None
    <3>3. PICK i : i = IdleItem
      OBVIOUS
    <3>4. [i EXCEPT !.pc = "name", !.tries = Attempts] \in Items
      BY <3>1, <3>2, <3>3 DEF Items, Putting
    <3>5. QED
      BY <3>2, <3>3, <3>4 DEF Item
  <2>10. its \in [Names -> Items]
    BY <2>7, <2>9
  <2>11. sync' \in [Syncs -> Progress] /\ item' \in [Syncs -> [Names -> Items]]
    <3>1. sync \in [Syncs -> Progress] /\ item \in [Syncs -> [Names -> Items]]
      BY DEF Sound, Typed
    <3>2. sync' \in [Syncs -> Progress]
      BY <2>4, <2>6, <3>1
    <3>3. item' \in [Syncs -> [Names -> Items]]
      BY <2>8, <2>10, <3>1
    <3>4. QED
      BY <3>2, <3>3
  <2>12. \A v \in Syncs, m \in Names :
           /\ sync'[v].seen[m].id <= given[m]
           /\ \/ item'[v][m] = IdleItem
              \/ /\ item'[v][m] = Item(Attempts) /\ sync'[v].stage = "feeding"
                 /\ sync'[v].seen[m].id # None
              \/ /\ item'[v][m] = item[v][m]
                 /\ sync'[v].stage = sync[v].stage /\ sync'[v].seen = sync[v].seen
    <3> TAKE v \in Syncs, m \in Names
    <3>1. CASE v = w
      <4>1. sync'[v] = p /\ item'[v] = its
        BY <2>4, <2>8, <3>1 DEF Sound, Typed
      <4>2. sync'[v].seen[m].id = s.seen[m].id
        BY <2>5, <2>6, <4>1
      <4>3. m \in found => s.seen[m].id # None
        BY <2>1
      <4>4. QED
        BY <1>i, <2>6, <2>7, <4>1, <4>2, <4>3
    <3>2. CASE v # w
      <4>1. sync'[v] = sync[v] /\ item'[v] = item[v]
        BY <2>4, <2>8, <3>2 DEF Sound, Typed
      <4>2. sync[v].seen[m].id <= given[m]
        BY ItemKnown DEF Staged
      <4>3. QED
        BY <4>1, <4>2
    <3>3. QED
      BY <3>1, <3>2
  <2>13. QED
    BY <2>8, <2>11, <2>12, TurnKeepsSound
<1>4. QED
  BY <1>1, <1>2, <1>3

(* A sync that lists the records that are gone; one whose list failed        *)
(* restarts.                                                                *)
LEMMA TurnsKeepSound ==
    ASSUME Sound, NEW w \in Syncs, Finish(w) \/ ListGone(w)
    PROVE  Sound'
<1>1. Resting(w) /\ UNCHANGED <<kong, given, services, plugins, item>>
  BY DEF Finish, ListGone, Between
<1>2. CASE Finish(w)
  BY <1>1, <1>2, EndKeepsSound DEF Finish
<1>3. CASE ListGone(w)
  <2>s. PICK s : s = sync[w]
    OBVIOUS
  <2>1. s \in Progress /\ \A m \in Names : s.seen[m].id <= given[m]
    BY <2>s, ItemKnown DEF Staged, Sound, Typed
  <2>2. PICK gone : gone = [n \in Names |-> IF services[n].fk = s.seen[n].id THEN None
                                                                           ELSE services[n].fk]
    OBVIOUS
  <2>3. gone \in [Names -> Nat]
    BY <2>2 DEF Sound, Typed, Records, None
  <2>4. PICK p : p = [s EXCEPT !.stage = "cleaning", !.gone = gone]
    OBVIOUS
  <2>5. sync' = [sync EXCEPT ![w] = p]
    BY <1>3, <2>s, <2>2, <2>4 DEF ListGone, Sound, Typed
  <2>6. p \in Progress /\ p.seen = s.seen
    BY <2>1, <2>3, <2>4 DEF Progress, Stages
  <2>7. \A m \in Names : p.seen[m].id <= given[m]
    BY <2>1, <2>6
  <2>8. QED
    BY <1>1, <2>5, <2>6, <2>7, RestKeepsSound
<1>4. QED
  BY <1>2, <1>3

(* A restart leaves the records as they are, and no items.                 *)
LEMMA RestartKeepsSound ==
    ASSUME Sound, Restart
    PROVE  Sound'
<1>1. UNCHANGED <<kong, given, services, plugins>>
  BY DEF Restart
<1>2. sync' \in [Syncs -> Progress] /\ \A v \in Syncs : sync'[v] = IdleSync
  BY IdleTyped DEF Restart
<1>3. IdleItem \in Items
  <2>1. 0 \in 0..Attempts
    BY SyncAssumption
  <2>2. QED
    BY <2>1 DEF IdleItem, Items, None
<1>4. item' \in [Syncs -> [Names -> Items]]
      /\ \A v \in Syncs, m \in Names : item'[v][m] = IdleItem
  BY <1>3 DEF Restart
<1>5. \A m \in Names : None <= given[m]
  BY ItemKnown DEF None, Sound, Typed, Ids
<1>6. \A v \in Syncs, m \in Names : sync'[v].seen[m].id <= given[m]
  BY <1>2, <1>5, IdleTyped
<1>7. QED
  BY <1>1, <1>2, <1>4, <1>6, TurnKeepsSound

-----------------------------------------------------------------------------
(* Publications: Kong gives new ids, and the records stay what they are.     *)
LEMMA PublicationKeepsSound ==
    ASSUME Sound, NEW n \in Names, NEW k \in KongServices, NEW g \in Ids \cup {None},
           given[n] <= g, k.id <= g, k.id = None => k.plugins = {},
           kong' = [kong EXCEPT ![n] = k], given' = [given EXCEPT ![n] = g],
           Disturb, UNCHANGED <<services, plugins, item>>
    PROVE  Sound'
<1>1. \A v \in Syncs : sync'[v] = IF Active(v) THEN [sync[v] EXCEPT !.still = FALSE] ELSE IdleSync
  BY DEF Disturb
<1>2. \A v \in Syncs : /\ [sync[v] EXCEPT !.still = FALSE] \in Progress
                       /\ [sync[v] EXCEPT !.still = FALSE].stage = sync[v].stage
                       /\ [sync[v] EXCEPT !.still = FALSE].seen = sync[v].seen
  <2> TAKE v \in Syncs
  <2>1. PICK s : s = sync[v]
    OBVIOUS
  <2>2. s \in Progress
    BY <2>1 DEF Sound, Typed
  <2>3. QED
    BY <2>1, <2>2, DisturbedTyped
<1>3. sync' \in [Syncs -> Progress]
  <2>1. \A v \in Syncs : sync'[v] \in Progress
    BY <1>1, <1>2, IdleTyped
  <2>2. QED
    BY <2>1 DEF Disturb
<1>4. Typed'
  BY <1>3 DEF Sound, Typed
<1>5. \A m \in Names : /\ given[m] \in Nat /\ given'[m] \in Nat /\ given[m] <= given'[m]
                       /\ kong'[m] = (IF m = n THEN k ELSE kong[m])
                       /\ given'[m] = (IF m = n THEN g ELSE given[m])
  <2> TAKE m \in Names
  <2>1. given \in [Names -> Ids \cup {None}] /\ kong \in [Names -> KongServices]
    BY DEF Sound, Typed
  <2>2. Ids \cup {None} \subseteq Nat
    BY DEF Ids, None
  <2>3. QED
    BY <2>1, <2>2
<1>6. \A m \in Names : Whole(kong'[m], given'[m], services'[m], plugins'[m])
  <2> TAKE m \in Names
  <2>1. Whole(kong[m], given[m], services[m], plugins[m]) /\ services[m].fk \in Nat
        /\ kong[m].id \in Nat /\ UNCHANGED <<services, plugins>>
    BY DEF Sound, Typed, Records, KongServices, Ids, None
  <2>2. services[m].fk <= given'[m]
    BY <1>5, <2>1 DEF Whole
  <2>3. kong'[m].id <= given'[m] /\ (kong'[m].id = None => kong'[m].plugins = {})
    BY <1>5, <2>1 DEF Whole
  <2>4. QED
    BY <2>1, <2>2, <2>3 DEF Whole
<1>7. \A v \in Syncs, m \in Names :
          Staged(item'[v][m], sync'[v].stage, sync'[v].seen[m].id, given'[m])
  <2> TAKE v \in Syncs, m \in Names
  <2>1. Staged(item[v][m], sync[v].stage, sync[v].seen[m].id, given[m]) /\ item' = item
    BY DEF Sound
  <2>2. CASE Active(v)
    <3>1. sync'[v].stage = sync[v].stage /\ sync'[v].seen = sync[v].seen
      BY <1>1, <1>2, <2>2
    <3>2. sync[v].seen[m].id \in Nat
      BY ItemKnown DEF KongServices, Ids, None
    <3>3. sync[v].seen[m].id <= given'[m]
      BY <1>5, <2>1, <3>2 DEF Staged
    <3>4. QED
      BY <2>1, <3>1, <3>3 DEF Staged
  <2>3. CASE ~Active(v)
    <3>1. PICK i : i = IdleItem
      OBVIOUS
    <3>2. item'[v][m] = i
      BY <2>1, <2>3, <3>1, NoItems DEF Active
    <3>3. sync'[v].stage = "idle" /\ sync'[v].seen[m].id = None
      BY <1>1, <2>3, IdleTyped
    <3>4. None <= given'[m]
      BY <1>5 DEF None
    <3>5. i.pc = "idle" /\ i.ids = {} /\ i.was = {}
      BY <3>1 DEF IdleItem
    <3>6. IsFiniteSet({})
      BY FS_EmptySet
    <3>7. QED
      BY <3>1, <3>2, <3>3, <3>4, <3>5, <3>6 DEF Staged, Putting, Deleting
  <2>4. QED
    BY <2>2, <2>3
<1>8. QED
  BY <1>4, <1>6, <1>7 DEF Sound

(* Every publication is one that Kong can carry out with the ids it has    *)
(* left.                                                                   *)
LEMMA PublicationsKeepSound ==
    ASSUME Sound, NEW n \in Names,
           PublishNew(n) \/ PublishGone(n) \/ PublishPlugin(n) \/ UnpublishPlugin(n)
    PROVE  Sound'
<1>0. /\ kong[n] \in KongServices /\ given[n] \in Nat /\ kong[n].id <= given[n]
      /\ kong[n].id = None => kong[n].plugins = {}
  BY DEF Sound, Typed, Whole, Ids, None
<1>m. MaxIds \in Nat
  BY SyncAssumption
<1>g. PICK old, was : old = given[n] /\ was = kong[n]
  OBVIOUS
<1>p. ASSUME NEW k \in KongServices, NEW ids \in Nat, Publish(n, k, ids), k.id <= old + ids,
             k.id = None => k.plugins = {}
      PROVE  Sound'
  <2>1. PICK g : g = old + ids
    OBVIOUS
  <2>2. g \in Ids \cup {None} /\ old <= g /\ k.id <= g
    BY <1>0, <1>g, <1>m, <1>p, <2>1 DEF Publish, Ids, None
  <2>3. kong' = [kong EXCEPT ![n] = k] /\ given' = [given EXCEPT ![n] = g]
    BY <1>g, <1>p, <2>1 DEF Publish, Sound, Typed
  <2>4. Disturb /\ UNCHANGED <<services, plugins, item>>
    BY <1>p DEF Publish
  <2>5. given[n] <= g
    BY <1>g, <2>2
  <2>6. QED
    BY <1>p, <2>2, <2>3, <2>4, <2>5, PublicationKeepsSound
<1>1. CASE PublishNew(n)
  <2>1. PICK some \in BOOLEAN :
          Publish(n, [id |-> old + 1, plugins |-> IF some THEN {old + 2} ELSE {}],
                  IF some THEN 2 ELSE 1)
    BY <1>1, <1>g DEF PublishNew
  <2>2. PICK ids : ids = IF some THEN 2 ELSE 1
    OBVIOUS
  <2>3. PICK k : k = [id |-> old + 1, plugins |-> IF some THEN {old + 2} ELSE {}]
    OBVIOUS
  <2>4. Publish(n, k, ids) /\ ids \in Nat
    BY <2>1, <2>2, <2>3
  <2>5. old \in Nat /\ old + ids <= MaxIds
    BY <1>0, <1>g, <2>4 DEF Publish
  <2>6. old + 1 \in Ids /\ (some => old + 2 \in Ids)
    BY <1>m, <2>2, <2>5 DEF Ids
  <2>7. k \in KongServices /\ k.id # None /\ k.id <= old + ids
    BY <2>2, <2>3, <2>5, <2>6 DEF KongServices, None
  <2>8. QED
    BY <1>p, <2>4, <2>7
<1>2. CASE PublishGone(n)
  <2>1. PICK k : k = NoService
    OBVIOUS
  <2>2. k \in KongServices /\ k.id = None /\ k.plugins = {}
    BY <2>1, IdleTyped DEF NoService
  <2>3. Publish(n, k, 0) /\ k.id <= old + 0
    BY <1>0, <1>2, <1>g, <2>1, <2>2 DEF PublishGone, None
  <2>4. QED
    BY <1>p, <2>2, <2>3
<1>3. CASE PublishPlugin(n)
  <2>1. PICK k : k = [was EXCEPT !.plugins = @ \cup {old + 1}]
    OBVIOUS
  <2>2. Publish(n, k, 1) /\ was.id # None
    BY <1>3, <1>g, <2>1 DEF PublishPlugin
  <2>3. old \in Nat /\ old + 1 \in Ids
    BY <1>0, <1>g, <1>m, <2>2 DEF Publish, Ids
  <2>4. k \in KongServices /\ k.id = was.id
    BY <1>0, <1>g, <2>1, <2>3 DEF KongServices
  <2>5. k.id \in Nat
    BY <2>4 DEF KongServices, Ids, None
  <2>6. k.id <= old + 1
    BY <1>0, <1>g, <2>3, <2>4, <2>5
  <2>7. QED
    BY <1>p, <2>2, <2>4, <2>6
<1>4. CASE UnpublishPlugin(n)
  <2>1. PICK p \in was.plugins : Publish(n, [was EXCEPT !.plugins = @ \ {p}], 0)
    BY <1>4, <1>g DEF UnpublishPlugin
  <2>2. PICK k : k = [was EXCEPT !.plugins = @ \ {p}]
    OBVIOUS
  <2>3. k \in KongServices /\ k.id = was.id /\ was.plugins # {}
    BY <1>0, <1>g, <2>1, <2>2 DEF KongServices
  <2>4. k.id \in Nat /\ k.id # None
    BY <1>0, <1>g, <2>3 DEF KongServices, Ids, None
  <2>5. k.id <= old + 0 /\ Publish(n, k, 0)
    BY <1>0, <1>g, <2>1, <2>2, <2>3, <2>4
  <2>6. QED
    BY <1>p, <2>3, <2>4, <2>5
<1>5. QED
  BY <1>1, <1>2, <1>3, <1>4

-----------------------------------------------------------------------------
(***************************************************************************)
(* What a step may change.                                                 *)
(***************************************************************************)

Turns(w) ==
    \/ FetchServices(w) \/ FetchPlugins(w) \/ FetchFails(w)
    \/ Finish(w) \/ ListGone(w) \/ Cleaned(w)

Puts(w, n) ==
    \/ FindByName(w, n) \/ Refer(w, n) \/ FindByKey(w, n)
    \/ FindChild(w, n) \/ CreateChild(w, n) \/ Unchanged(w, n)
    \/ RemoveChildren(w, n) \/ Update(w, n) \/ Create(w, n) \/ PutFails(w, n)

Deletes(w, n) ==
    FindGone(w, n) \/ RemovePlugins(w, n) \/ RemoveService(w, n) \/ DeleteFails(w, n)

Publishes(n) == PublishNew(n) \/ PublishGone(n) \/ PublishPlugin(n) \/ UnpublishPlugin(n)

(* The steps, by what they change.                                         *)
LEMMA StepKinds ==
    ASSUME [Next]_vars
    PROVE  \/ \E w \in Syncs, cleans \in BOOLEAN : Begin(w, cleans)
           \/ \E w \in Syncs : Turns(w)
           \/ \E w \in Syncs, n \in Names : Puts(w, n) \/ Deletes(w, n)
           \/ \E n \in Names : Publishes(n)
           \/ Restart
           \/ UNCHANGED vars
BY DEF Next, SyncStep, Fails, BeginNamespace, BeginPeriodic, Turns, Puts, Deletes, Publishes

(* A step of a sync leaves the others alone.                                *)
LEMMA OthersKept ==
    ASSUME Sound, NEW w \in Syncs, NEW v \in Syncs, v # w,
           Turns(w) \/ \E n \in Names : Puts(w, n) \/ Deletes(w, n)
    PROVE  sync'[v] = sync[v] /\ item'[v] = item[v]
<1>0. sync \in [Syncs -> Progress] /\ item \in [Syncs -> [Names -> Items]]
  BY DEF Sound, Typed
<1>1. CASE Turns(w)
  BY <1>0, <1>1
     DEF Turns, FetchServices, FetchPlugins, FetchFails, Finish, ListGone, Cleaned
<1>2. ASSUME NEW n \in Names, Puts(w, n) PROVE sync'[v] = sync[v] /\ item'[v] = item[v]
  BY <1>0, <1>2
     DEF Puts, FindByName, Refer, FindByKey, FindChild, CreateChild, Unchanged, RemoveChildren,
         Update, Create, PutFails, Step
<1>3. ASSUME NEW n \in Names, Deletes(w, n) PROVE sync'[v] = sync[v] /\ item'[v] = item[v]
  BY <1>0, <1>3
     DEF Deletes, FindGone, RemovePlugins, RemoveService, DeleteFails, DeleteAgain, Forget
<1>4. QED
  BY <1>1, <1>2, <1>3

(* A put is of a sync that feeds, and may only give the record its id.       *)
LEMMA PutShape ==
    ASSUME Sound, NEW w \in Syncs, NEW n \in Names, Puts(w, n)
    PROVE  /\ sync[w].stage = "feeding"
           /\ sync'[w] = sync[w] \/ sync'[w] = [sync[w] EXCEPT !.still = FALSE]
           /\ \A m \in Names \ {n} : item'[w][m] = item[w][m] /\ services'[m] = services[m]
           /\ UNCHANGED kong
           /\ services'[n].fk \in {services[n].fk, sync[w].seen[n].id}
           /\ services[n].rid # None => services'[n].rid = services[n].rid
<1>0. sync \in [Syncs -> Progress] /\ item \in [Syncs -> [Names -> Items]]
      /\ services \in [Names -> Records]
  BY DEF Sound, Typed
<1>1. sync[w].stage = "feeding"
  <2>1. PICK i, stage : i = item[w][n] /\ stage = sync[w].stage
    OBVIOUS
  <2>2. Staged(i, stage, sync[w].seen[n].id, given[n]) /\ i \in Items
    BY <2>1, ItemKnown
  <2>3. stage = "feeding" \/ i.pc \in Putting
    BY <2>1 DEF Puts, FindByName, Refer, FindByKey, FindChild, CreateChild, Unchanged,
                RemoveChildren, Update, Create, PutFails, ChildrenPut, Doing, Putting
  <2>4. QED
    BY <2>1, <2>2, <2>3 DEF Staged
<1>2. sync'[w] = sync[w] \/ sync'[w] = [sync[w] EXCEPT !.still = FALSE]
  BY <1>0 DEF Puts, FindByName, Refer, FindByKey, FindChild, CreateChild, Unchanged,
              RemoveChildren, Update, Create, PutFails
<1>3. PICK i : item' = [item EXCEPT ![w][n] = i]
  BY DEF Puts, FindByName, Refer, FindByKey, FindChild, CreateChild, Unchanged,
         RemoveChildren, Update, Create, PutFails, Step
<1>4. \A m \in Names \ {n} : item'[w][m] = item[w][m]
  BY <1>0, <1>3
<1>5. services' = services \/ \E s : services' = [services EXCEPT ![n] = s]
  BY <1>0 DEF Puts, FindByName, Refer, FindByKey, FindChild, CreateChild, Unchanged,
              RemoveChildren, Update, Create, PutFails
<1>6. \A m \in Names \ {n} : services'[m] = services[m]
  BY <1>0, <1>5
<1>7. UNCHANGED kong
  BY DEF Puts, FindByName, Refer, FindByKey, FindChild, CreateChild, Unchanged,
         RemoveChildren, Update, Create, PutFails
<1>8. /\ services'[n].fk \in {services[n].fk, sync[w].seen[n].id}
      /\ services[n].rid # None => services'[n].rid = services[n].rid
  <2>1. CASE services' = services
    BY <2>1
  <2>2. CASE Refer(w, n)
    BY <1>0, <2>2 DEF Refer, KeyOf, Records
  <2>3. CASE RemoveChildren(w, n)
    BY <1>0, <2>3 DEF RemoveChildren, Records
  <2>4. CASE Update(w, n)
    BY <1>0, <2>4 DEF Update, Records
  <2>5. CASE Create(w, n)
    <3>1. CASE services[n] = NoRecord
      BY <1>0, <2>5, <3>1 DEF Create, KeyOf, NoRecord
    <3>2. CASE services[n] # NoRecord
      BY <2>5, <3>2 DEF Create
    <3>3. QED
      BY <3>1, <3>2
  <2>6. QED
    BY <2>1, <2>2, <2>3, <2>4, <2>5
       DEF Puts, FindByName, FindByKey, FindChild, CreateChild, Unchanged, PutFails
<1>9. QED
  BY <1>1, <1>2, <1>4, <1>6, <1>7, <1>8

(* A deletion leaves Kong and the other services alone.                     *)
LEMMA DeleteFrame ==
    ASSUME Sound, NEW w \in Syncs, NEW n \in Names, Deletes(w, n)
    PROVE  /\ \A m \in Names \ {n} : item'[w][m] = item[w][m] /\ services'[m] = services[m]
           /\ UNCHANGED kong
<1>1. item \in [Syncs -> [Names -> Items]] /\ services \in [Names -> Records]
  BY DEF Sound, Typed
<1>2. \A m \in Names \ {n} : item'[w][m] = item[w][m] /\ services'[m] = services[m]
  BY <1>1 DEF Deletes, FindGone, RemovePlugins, RemoveService, DeleteFails, DeleteAgain, Forget
<1>3. UNCHANGED kong
  BY DEF Deletes, FindGone, RemovePlugins, RemoveService, DeleteFails
<1>4. QED
  BY <1>2, <1>3

(* What a deletion does to its record, s, item, i, and the id to be deleted, *)
(* gone; t, j and left are what they become.                                *)
Finds(s, i, gone, t, j, after) ==
    s.fk = gone /\ gone # None /\ t = s /\ j.pc = "empty" /\ j.rid = s.rid /\ after = gone

Empties(s, i, gone, t, j, after) ==
    /\ i.pc = "empty" /\ s.rid = i.rid /\ after = gone
    /\ t.fk = s.fk /\ t.rid = s.rid /\ j.pc = "remove" /\ j.rid = i.rid

Removes(s, i, gone, t, j, after) ==
    i.pc = "remove" /\ s.rid = i.rid /\ t = NoRecord /\ j = IdleItem /\ after = None

Again(s, i, gone, t, j, after) ==
    /\ t = s
    /\ \/ j.pc = "find" /\ after = gone
       \/ j = IdleItem /\ after = None

Acts(s, i, gone, t, j, after) ==
    \/ Finds(s, i, gone, t, j, after) \/ Empties(s, i, gone, t, j, after)
    \/ Removes(s, i, gone, t, j, after) \/ Again(s, i, gone, t, j, after)

(* A step of a deletion does one of these things, in a sync that is        *)
(* cleaning.                                                               *)
LEMMA DeleteShape ==
    ASSUME Sound, NEW w \in Syncs, NEW n \in Names, Deletes(w, n)
    PROVE  /\ sync[w].stage = "cleaning"
           /\ \E gone \in Nat, still \in BOOLEAN :
                 /\ sync'[w] = [sync[w] EXCEPT !.gone[n] = gone, !.still = still]
                 /\ Acts(services[n], item[w][n], sync[w].gone[n], services'[n], item'[w][n], gone)
                 /\ \/ sync[w].gone[n] # None
                    \/ item[w][n].pc \in Deleting
<1>0. sync \in [Syncs -> Progress] /\ item \in [Syncs -> [Names -> Items]]
      /\ services \in [Names -> Records]
  BY DEF Sound, Typed
<1>p. PICK p : p = sync[w]
  OBVIOUS
<1>i. PICK i : i = item[w][n]
  OBVIOUS
<1>s. PICK s : s = services[n]
  OBVIOUS
<1>1. p \in Progress /\ i \in Items /\ s \in Records
      /\ Staged(i, p.stage, p.seen[n].id, given[n])
  BY <1>p, <1>i, <1>s, ItemKnown DEF Sound, Typed
<1>2. p.gone \in [Names -> Nat] /\ p.still \in BOOLEAN
  BY <1>1 DEF Progress
<1>staged. /\ i.pc = "idle" => i = IdleItem
           /\ i.pc \in Putting => p.stage = "feeding"
           /\ i.pc \in Deleting => p.stage = "cleaning"
  BY <1>1 DEF Staged
<1>3. p.stage = "cleaning" /\ (i.pc \in Deleting \/ (FindGone(w, n) /\ p.gone[n] # None))
  <2>1. CASE DeleteFails(w, n)
    <3>1. p.stage = "cleaning" /\ i # IdleItem
      BY <1>p, <1>i, <2>1 DEF DeleteFails
    <3>2. i.pc \notin Putting /\ i.pc # "idle"
      BY <1>staged, <3>1
    <3>3. i.pc \in {"idle"} \cup Putting \cup Deleting
      BY <1>1 DEF Items
    <3>4. QED
      BY <3>1, <3>2, <3>3
  <2>2. CASE FindGone(w, n)
    <3>1. p.stage = "cleaning" \/ i.pc \in Deleting
      BY <1>p, <1>i, <2>2 DEF FindGone, Deleting
    <3>2. p.gone[n] # None
      BY <1>p, <2>2 DEF FindGone
    <3>3. QED
      BY <1>staged, <2>2, <3>1, <3>2
  <2>3. CASE RemovePlugins(w, n) \/ RemoveService(w, n)
    <3>1. i.pc \in Deleting
      BY <1>i, <2>3 DEF RemovePlugins, RemoveService, Deleting
    <3>2. QED
      BY <1>staged, <3>1
  <2>4. QED
    BY <2>1, <2>2, <2>3 DEF Deletes
<1> DEFINE Becomes(gone, still) == [p EXCEPT !.gone[n] = gone, !.still = still]
<1>same. Becomes(p.gone[n], p.still) = p
  <2>1. [p.gone EXCEPT ![n] = p.gone[n]] = p.gone
    BY <1>2
  <2>2. QED
    BY <1>1, <2>1 DEF Progress
<1>forget. [p EXCEPT !.gone[n] = None] = Becomes(None, p.still)
  BY <1>1 DEF Progress
<1>fails. [p EXCEPT !.still = FALSE] = Becomes(p.gone[n], FALSE)
  <2>1. [p.gone EXCEPT ![n] = p.gone[n]] = p.gone
    BY <1>2
  <2>2. QED
    BY <1>1, <2>1 DEF Progress
<1> PICK t, j : t = services'[n] /\ j = item'[w][n]
  OBVIOUS
<1> HIDE DEF Becomes
<1>again. ASSUME NEW tries, DeleteAgain(w, n, tries)
          PROVE  \/ sync'[w] = p /\ j.pc = "find"
                 \/ sync'[w] = Becomes(None, p.still) /\ j = IdleItem
  <2>1. CASE tries > 1
    <3>1. item' = [item EXCEPT ![w][n] = Deletion(tries - 1)] /\ sync' = sync
      BY <1>again, <2>1 DEF DeleteAgain
    <3>2. Deletion(tries - 1).pc = "find"
      BY DEF Deletion, IdleItem
    <3>3. j = Deletion(tries - 1)
      BY <1>0, <3>1
    <3>4. QED
      BY <1>p, <3>1, <3>2, <3>3
  <2>2. CASE ~(tries > 1)
    <3>1. j = IdleItem /\ sync'[w] = [p EXCEPT !.gone[n] = None]
      BY <1>0, <1>p, <1>again, <2>2 DEF DeleteAgain, Forget
    <3>2. QED
      BY <1>forget, <3>1
  <2>3. QED
    BY <2>1, <2>2
<1> DEFINE Did(gone, still) ==
              /\ sync'[w] = Becomes(gone, still)
              /\ Acts(s, i, p.gone[n], t, j, gone)
<1>did. ASSUME NEW tries, DeleteAgain(w, n, tries), t = s
        PROVE  Did(p.gone[n], p.still) \/ Did(None, p.still)
  BY <1>again, <1>did, <1>same DEF Again, Acts
<1>6. \/ Did(p.gone[n], p.still) \/ Did(None, p.still)
      \/ Did(p.gone[n], FALSE) \/ Did(None, FALSE)
  <2>1. CASE FindGone(w, n)
    <3>1. t = s
      BY <1>s, <2>1 DEF FindGone
    <3>2. CASE s.fk = p.gone[n]
      <4>1. item' = [item EXCEPT ![w][n] = [IdleItem EXCEPT
                        !.pc = "empty", !.tries = IF Resting(w) THEN Attempts ELSE item[w][n].tries,
                        !.rid = s.rid]] /\ sync' = sync
        BY <1>p, <1>s, <2>1, <3>2 DEF FindGone
      <4>2. j.pc = "empty" /\ j.rid = s.rid
        BY <1>0, <4>1 DEF IdleItem
      <4>3. p.gone[n] # None
        BY <1>p, <2>1 DEF FindGone
      <4>4. Finds(s, i, p.gone[n], t, j, p.gone[n])
        BY <3>1, <3>2, <4>2, <4>3 DEF Finds
      <4>5. QED
        BY <1>p, <1>same, <4>1, <4>4 DEF Acts
    <3>3. CASE s.fk # p.gone[n]
      <4>1. \E tries : DeleteAgain(w, n, tries)
        BY <1>p, <1>s, <2>1, <3>3 DEF FindGone
      <4>2. QED
        BY <1>did, <3>1, <4>1
    <3>4. QED
      BY <3>2, <3>3
  <2>2. CASE RemovePlugins(w, n)
    <3>1. CASE s.rid = i.rid
      <4>1. /\ i.pc = "empty" /\ sync' = sync
            /\ services' = [services EXCEPT ![n].plugins = {}]
            /\ item' = [item EXCEPT ![w][n].pc = "remove"]
        BY <1>i, <1>s, <2>2, <3>1 DEF RemovePlugins
      <4>2. t.fk = s.fk /\ t.rid = s.rid
        BY <1>0, <1>1, <1>s, <4>1 DEF Records
      <4>3. j.pc = "remove" /\ j.rid = i.rid
        BY <1>0, <1>1, <1>i, <4>1 DEF Items
      <4>4. Empties(s, i, p.gone[n], t, j, p.gone[n])
        BY <3>1, <4>1, <4>2, <4>3 DEF Empties
      <4>5. QED
        BY <1>p, <1>same, <4>1, <4>4 DEF Acts
    <3>2. CASE s.rid # i.rid
      <4>1. DeleteAgain(w, n, item[w][n].tries) /\ t = s
        BY <1>i, <1>s, <2>2, <3>2 DEF RemovePlugins
      <4>2. QED
        BY <1>did, <4>1
    <3>3. QED
      BY <3>1, <3>2
  <2>3. CASE RemoveService(w, n)
    <3>1. CASE s.rid = i.rid
      <4>1. /\ i.pc = "remove" /\ sync' = [sync EXCEPT ![w].gone[n] = None]
            /\ services' = [services EXCEPT ![n] = NoRecord]
            /\ item' = [item EXCEPT ![w][n] = IdleItem]
        BY <1>i, <1>s, <2>3, <3>1 DEF RemoveService, Forget
      <4>2. Removes(s, i, p.gone[n], t, j, None)
        BY <1>0, <3>1, <4>1 DEF Removes
      <4>3. sync'[w] = Becomes(None, p.still)
        BY <1>0, <1>p, <1>forget, <4>1
      <4>4. QED
        BY <4>2, <4>3 DEF Acts
    <3>2. CASE s.rid # i.rid
      <4>1. DeleteAgain(w, n, item[w][n].tries) /\ t = s
        BY <1>i, <1>s, <2>3, <3>2 DEF RemoveService
      <4>2. QED
        BY <1>did, <4>1
    <3>3. QED
      BY <3>1, <3>2
  <2>4. CASE DeleteFails(w, n)
    <3>1. t = s
      BY <1>s, <2>4 DEF DeleteFails
    <3>2. CASE i.tries > 1
      <4>1. /\ item' = [item EXCEPT ![w][n] = Deletion(@.tries - 1)]
            /\ sync' = [sync EXCEPT ![w].still = FALSE]
        BY <1>i, <2>4, <3>2 DEF DeleteFails
      <4>2. j.pc = "find"
        BY <1>0, <4>1 DEF Deletion, IdleItem
      <4>3. sync'[w] = Becomes(p.gone[n], FALSE)
        BY <1>0, <1>p, <1>fails, <4>1
      <4>4. QED
        BY <3>1, <4>2, <4>3 DEF Again, Acts
    <3>3. CASE ~(i.tries > 1)
      <4>1. /\ item' = [item EXCEPT ![w][n] = IdleItem]
            /\ sync' = [sync EXCEPT ![w].still = FALSE, ![w].gone[n] = None]
        BY <1>i, <2>4, <3>3 DEF DeleteFails
      <4>2. j = IdleItem
        BY <1>0, <4>1
      <4>3. sync'[w] = Becomes(None, FALSE)
        BY <1>0, <1>1, <1>p, <4>1 DEF Becomes, Progress
      <4>4. QED
        BY <3>1, <4>2, <4>3 DEF Again, Acts
    <3>4. QED
      BY <3>2, <3>3
  <2>5. QED
    BY <2>1, <2>2, <2>3, <2>4 DEF Deletes
<1>7. \E gone \in Nat, still \in BOOLEAN : Did(gone, still)
  <2>1. p.gone[n] \in Nat /\ None \in Nat
    BY <1>2 DEF None
  <2>2. QED
    BY <1>2, <1>6, <2>1
<1>8. p.gone[n] # None \/ i.pc \in Deleting
  BY <1>3
<1>9. QED
  BY <1>p, <1>i, <1>s, <1>3, <1>7, <1>8 DEF Becomes

-----------------------------------------------------------------------------
(***************************************************************************)
(* Type correctness.                                                       *)
(***************************************************************************)

(* A deletion that goes on is of an id that is still listed.                *)
Pending == \A w \in Syncs, n \in Names : item[w][n].pc \in Deleting => sync[w].gone[n] # None

Orderly == Sound /\ Pending

(* Nothing has begun, and what is in Kong is recorded.                     *)
LEMMA InitOrderly == Init => Orderly
<1> SUFFICES ASSUME Init PROVE Orderly
  OBVIOUS
<1>m. MaxIds \in Nat /\ MaxIds > 1 /\ Attempts \in Nat
  BY SyncAssumption
<1>ids. 1 \in Ids /\ 2 \in Ids
  BY <1>m DEF Ids
<1>1. \A n \in Names : /\ kong[n].id = 1 /\ kong[n].plugins = {2} /\ given[n] = 2
                       /\ services[n].rid = 1 /\ services[n].fk = 1 /\ services[n].plugins = {1}
                       /\ \A p \in Ids : plugins[n][p] = IF p = 2 THEN 1 ELSE None
  BY DEF Init
<1>2. \A w \in Syncs : sync[w] = IdleSync /\ \A n \in Names : item[w][n] = IdleItem
  BY DEF Init
<1>3. IdleItem \in Items
  BY <1>m DEF IdleItem, Items, None
<1>4. Typed
  <2>1. kong \in [Names -> KongServices] /\ given \in [Names -> Ids \cup {None}]
    BY <1>ids DEF Init, KongServices
  <2>2. services \in [Names -> Records]
    BY DEF Init, Records
  <2>3. plugins \in [Names -> [Ids -> Nat]]
    BY DEF Init, None
  <2>4. sync \in [Syncs -> Progress]
    BY IdleTyped DEF Init
  <2>5. item \in [Syncs -> [Names -> Items]]
    BY <1>3 DEF Init
  <2>6. QED
    BY <2>1, <2>2, <2>3, <2>4, <2>5 DEF Typed
<1>5. \A n \in Names : Whole(kong[n], given[n], services[n], plugins[n])
  <2> TAKE n \in Names
  <2>1. services[n] # NoRecord
    BY <1>1 DEF NoRecord, None
  <2>2. services[n].plugins \subseteq {plugins[n][p] : p \in Ids} \ {None}
    BY <1>1, <1>ids DEF None
  <2>3. \A p, q \in Ids : plugins[n][p] = plugins[n][q] => p = q \/ plugins[n][p] = None
    BY <1>1 DEF None
  <2>4. QED
    BY <1>1, <2>1, <2>2, <2>3 DEF Whole, None
<1>i. PICK i, d : i = IdleItem /\ d = IdleSync
  OBVIOUS
<1>6. i.pc = "idle" /\ i.ids = {} /\ i.was = {}
  BY <1>i DEF IdleItem
<1>7. \A w \in Syncs, n \in Names :
          Staged(item[w][n], sync[w].stage, sync[w].seen[n].id, given[n])
  <2> TAKE w \in Syncs, n \in Names
  <2>1. sync[w].seen[n].id <= given[n]
    BY <1>1, <1>2, IdleTyped DEF None
  <2>2. item[w][n] = i
    BY <1>2, <1>i
  <2>3. IsFiniteSet({})
    BY FS_EmptySet
  <2>4. QED
    BY <1>i, <1>6, <2>1, <2>2, <2>3 DEF Staged, Putting, Deleting
<1>8. Pending
  BY <1>2, <1>i, <1>6 DEF Pending, Deleting
<1>9. QED
  BY <1>4, <1>5, <1>7, <1>8 DEF Orderly, Sound

(* Every step keeps types and records in order.                            *)
LEMMA SoundKept ==
    ASSUME Orderly, [Next]_vars
    PROVE  Sound'
<1>0. Sound /\ Pending
  BY DEF Orderly
<1>1. ASSUME NEW w \in Syncs, NEW cleans \in BOOLEAN, Begin(w, cleans) PROVE Sound'
  BY <1>0, <1>1, BeginKeepsSound
<1>2. ASSUME NEW w \in Syncs, Turns(w) PROVE Sound'
  <2>1. CASE Cleaned(w)
    <3>1. Resting(w)
      <4> SUFFICES ASSUME NEW n \in Names PROVE item[w][n] = IdleItem
        BY DEF Resting
      <4>1. PICK i, stage : i = item[w][n] /\ stage = sync[w].stage
        OBVIOUS
      <4>2. Staged(i, stage, sync[w].seen[n].id, given[n]) /\ i \in Items
        BY <1>0, <4>1, ItemKnown
      <4>3. i.pc \notin Deleting
        BY <1>0, <2>1, <4>1, IdleTyped DEF Pending, Cleaned
      <4>4. i.pc \notin Putting
        BY <2>1, <4>1, <4>2 DEF Cleaned, Staged
      <4>5. i.pc \in {"idle"} \cup Putting \cup Deleting
        BY <4>2 DEF Items
      <4>6. i.pc = "idle"
        BY <4>3, <4>4, <4>5
      <4>7. QED
        BY <4>1, <4>2, <4>6 DEF Staged
    <3>2. sync' = [sync EXCEPT ![w] = Ended(@)]
          /\ UNCHANGED <<kong, given, services, plugins, item>>
      BY <2>1 DEF Cleaned
    <3>3. QED
      BY <1>0, <3>1, <3>2, EndKeepsSound
  <2>2. QED
    BY <1>0, <1>2, <2>1, FetchesKeepSound, TurnsKeepSound DEF Turns
<1>3. ASSUME NEW w \in Syncs, NEW n \in Names, Puts(w, n) PROVE Sound'
  BY <1>0, <1>3, FindsKeepSound, ChildrenKeepSound, WritesKeepSound, FailuresKeepSound DEF Puts
<1>4. ASSUME NEW w \in Syncs, NEW n \in Names, Deletes(w, n) PROVE Sound'
  BY <1>0, <1>4, RemovalsKeepSound, FailuresKeepSound DEF Deletes
<1>5. ASSUME NEW n \in Names, Publishes(n) PROVE Sound'
  BY <1>0, <1>5, PublicationsKeepSound DEF Publishes
<1>6. CASE Restart
  BY <1>0, <1>6, RestartKeepsSound
<1>7. CASE UNCHANGED vars
  BY <1>0, <1>7 DEF vars, Sound, Typed
<1>8. QED
  BY <1>1, <1>2, <1>3, <1>4, <1>5, <1>6, <1>7, StepKinds

(* An id that is being deleted stays listed until the deletion ends.       *)
LEMMA PendingKept ==
    ASSUME Orderly, [Next]_vars, Sound'
    PROVE  Pending'
<1>0. Sound /\ Pending
  BY DEF Orderly
<1> SUFFICES ASSUME NEW v \in Syncs, NEW m \in Names, item'[v][m].pc \in Deleting
             PROVE  sync'[v].gone[m] # None
  BY DEF Pending
<1>1. sync'[v].stage = "cleaning"
  BY DEF Sound, Staged
<1>types. sync \in [Syncs -> Progress] /\ item \in [Syncs -> [Names -> Items]]
  BY <1>0 DEF Sound, Typed
<1>same. item'[v][m] = item[v][m] /\ sync'[v].gone = sync[v].gone => sync'[v].gone[m] # None
  BY <1>0 DEF Pending
<1>idle. IdleSync.stage = "idle" /\ IdleItem.pc \notin Deleting
  BY DEF IdleItem, IdleSync, Deleting
<1>2. ASSUME NEW w \in Syncs, NEW cleans \in BOOLEAN, Begin(w, cleans)
      PROVE  sync'[v].gone[m] # None
  <2>1. v # w
    BY <1>1, <1>2 DEF Begin, IdleSync
  <2>2. \/ sync'[v] = IdleSync
        \/ sync'[v] = [sync[v] EXCEPT !.alone = FALSE, !.still = FALSE]
    BY <1>2, <2>1 DEF Begin
  <2>3. sync'[v].gone = sync[v].gone
    BY <1>1, <1>types, <1>idle, <2>2 DEF Progress
  <2>4. QED
    BY <1>2, <1>same, <2>3 DEF Begin
<1>3. ASSUME NEW w \in Syncs, Turns(w) PROVE sync'[v].gone[m] # None
  <2>1. CASE v # w
    BY <1>0, <1>3, <1>same, <2>1, OthersKept
  <2>2. CASE v = w
    <3>1. CASE ListGone(w)
      BY <1>idle, <2>2, <3>1 DEF ListGone, Between, Resting
    <3>2. CASE Finish(w) \/ Cleaned(w)
      <4>1. sync'[w] = Ended(sync[w])
        BY <1>types, <3>2 DEF Finish, Cleaned
      <4>2. QED
        BY <1>1, <1>types, <2>2, <4>1, EndedTyped
    <3>3. CASE FetchServices(w) \/ FetchPlugins(w) \/ FetchFails(w)
      <4>1. CASE FetchServices(w)
        <5>1. PICK k, here, seen :
                 sync' = [sync EXCEPT ![w].stage = "services", ![w].todo = @ \ {k}, ![w].at = here,
                                      ![w].seen = seen]
          BY <4>1 DEF FetchServices
        <5>2. sync'[w].stage = "services"
          BY <1>types, <5>1 DEF Progress
        <5>3. QED
          BY <1>1, <2>2, <5>2
      <4>2. CASE FetchPlugins(w)
        BY <1>1, <1>types, <2>2, <4>2 DEF FetchPlugins, Progress
      <4>3. CASE FetchFails(w)
        BY <1>1, <1>types, <2>2, <4>3 DEF FetchFails, Progress
      <4>4. QED
        BY <3>3, <4>1, <4>2, <4>3
    <3>4. QED
      BY <1>3, <3>1, <3>2, <3>3 DEF Turns
  <2>3. QED
    BY <2>1, <2>2
<1>4. ASSUME NEW w \in Syncs, NEW n \in Names, Puts(w, n) PROVE sync'[v].gone[m] # None
  <2>1. CASE v # w
    BY <1>0, <1>4, <1>same, <2>1, OthersKept
  <2>2. CASE v = w
    <3>1. sync[w].stage = "feeding"
          /\ (sync'[w] = sync[w] \/ sync'[w] = [sync[w] EXCEPT !.still = FALSE])
      BY <1>0, <1>4, PutShape
    <3>2. QED
      BY <1>1, <1>types, <2>2, <3>1 DEF Progress
  <2>3. QED
    BY <2>1, <2>2
<1>5. ASSUME NEW w \in Syncs, NEW n \in Names, Deletes(w, n) PROVE sync'[v].gone[m] # None
  <2>1. CASE v # w
    BY <1>0, <1>5, <1>same, <2>1, OthersKept
  <2>2. CASE v = w
    <3>1. PICK gone \in Nat, still \in BOOLEAN :
                 /\ sync'[w] = [sync[w] EXCEPT !.gone[n] = gone, !.still = still]
                 /\ Acts(services[n], item[w][n], sync[w].gone[n], services'[n], item'[w][n], gone)
                 /\ \/ sync[w].gone[n] # None
                    \/ item[w][n].pc \in Deleting
      BY <1>0, <1>5, DeleteShape
    <3>2. sync[w].gone[n] # None
      BY <1>0, <3>1 DEF Pending
    <3>3. sync'[w].gone = [sync[w].gone EXCEPT ![n] = gone]
      BY <1>types, <3>1 DEF Progress
    <3>4. CASE m = n
      <4>1. gone = sync[w].gone[n]
        BY <1>idle, <2>2, <3>1, <3>4 DEF Finds, Empties, Removes, Again, Acts
      <4>2. QED
        BY <1>types, <2>2, <3>2, <3>3, <3>4, <4>1 DEF Progress
    <3>5. CASE m # n
      <4>0. \A k \in Names \ {n} : item'[w][k] = item[w][k]
        BY <1>0, <1>5, DeleteFrame
      <4>1. item'[w][m] = item[w][m]
        BY <3>5, <4>0
      <4>2. sync'[w].gone[m] = sync[w].gone[m]
        BY <3>3, <3>5
      <4>3. QED
        BY <1>0, <2>2, <4>1, <4>2 DEF Pending
    <3>6. QED
      BY <3>4, <3>5
  <2>3. QED
    BY <2>1, <2>2
<1>6. ASSUME NEW n \in Names, Publishes(n) PROVE sync'[v].gone[m] # None
  <2>1. Disturb /\ UNCHANGED item
    BY <1>6 DEF Publishes, PublishNew, PublishGone, PublishPlugin, UnpublishPlugin, Publish
  <2>2. sync'[v] = IdleSync \/ sync'[v] = [sync[v] EXCEPT !.still = FALSE]
    BY <2>1 DEF Disturb
  <2>3. sync'[v].gone = sync[v].gone
    BY <1>1, <1>types, <1>idle, <2>2 DEF Progress
  <2>4. QED
    BY <1>same, <2>1, <2>3
<1>7. CASE Restart
  BY <1>1, <1>7, <1>idle DEF Restart
<1>8. CASE UNCHANGED vars
  BY <1>8, <1>same DEF vars
<1>9. QED
  BY <1>2, <1>3, <1>4, <1>5, <1>6, <1>7, <1>8, StepKinds

(* Types and records are in order in every state.                          *)
LEMMA AlwaysOrderly == Spec => []Orderly
<1>1. Orderly /\ [Next]_vars => Orderly'
  BY SoundKept, PendingKept DEF Orderly
<1>2. QED
  BY <1>1, InitOrderly, PTL DEF Spec

(* However syncs overlap, fail and race with publications, a record has both *)
(* its reference and its id or neither, never an id that Kong has not given *)
(* for its name, lists only plugins that are recorded, no record of a plugin *)
(* is of two, and nothing is tried more often than the feeder allows.       *)
THEOREM TypeCorrect == Spec => []TypeOK
<1>1. Orderly => TypeOK
  <2> SUFFICES ASSUME Orderly PROVE TypeOK
    OBVIOUS
  <2>1. Typed /\ \A n \in Names : Whole(kong[n], given[n], services[n], plugins[n])
    BY DEF Orderly, Sound
  <2>2. \A n \in Names : given[n] \in Nat /\ services[n].fk \in Nat
    BY <2>1 DEF Typed, Ids, None, Records
  <2>3. \A w \in Syncs, n \in Names : item[w][n].tries \in 0..Attempts
    BY <2>1 DEF Typed, Items
  <2>4. \A n \in Names : services[n].fk \in 0..given[n]
    BY <2>1, <2>2 DEF Whole
  <2>5. QED
    BY <2>1, <2>3, <2>4 DEF TypeOK, Typed, KongServices, Whole
<1>2. QED
  BY <1>1, AlwaysOrderly, PTL

-----------------------------------------------------------------------------
(***************************************************************************)
(* Only what is gone is removed.                                           *)
(***************************************************************************)

(* A sync that is alone is the only one that runs.                          *)
Lone(w) == sync[w].alone => \A v \in Syncs : Active(v) => v = w

(* What a sync p with the item i knows of service n, whose record is s and   *)
(* whose id in Kong is now id: once its Kong was fetched, a record that the *)
(* sync will find to be gone is of another id than Kong's, and cleaning has *)
(* found only such ids.  A publication keeps this, for Kong does not give an *)
(* id again; a sync that overlaps does not, for it may give a record the id *)
(* that this one has not seen.                                              *)
Compared(p, i, s, id, n) ==
    /\ p.alone /\ p.whole /\ Site[n] \notin p.todo =>
          s.fk \in {None, p.seen[n].id} \/ id # s.fk
    /\ p.stage = "cleaning" =>
          p.whole /\ p.todo = {} /\ (p.gone[n] # None => p.gone[n] # p.seen[n].id)
    /\ p.alone /\ i.pc \in {"empty", "remove"} /\ s.rid = i.rid => s.fk # p.seen[n].id

Careful ==
    \A w \in Syncs : Active(w) =>
        Lone(w) /\ \A n \in Names : Compared(sync[w], item[w][n], services[n], kong[n].id, n)

(* A sync that takes a step is active, and is as alone as before.           *)
LEMMA ActsActive ==
    ASSUME Sound, NEW w \in Syncs, Turns(w) \/ \E n \in Names : Puts(w, n) \/ Deletes(w, n)
    PROVE  Active(w) /\ (Active(w)' => sync'[w].alone = sync[w].alone)
<1>0. sync \in [Syncs -> Progress]
  BY DEF Sound, Typed
<1>1. CASE FetchServices(w)
  <2>1. PICK k, here, seen :
           sync' = [sync EXCEPT ![w].stage = "services", ![w].todo = @ \ {k}, ![w].at = here,
                                ![w].seen = seen]
    BY <1>1 DEF FetchServices
  <2>2. QED
    <3>1. sync[w].stage = "feeding" /\ sync[w] \in Progress
      BY <1>0, <1>1 DEF FetchServices, Between
    <3>2. sync'[w].stage = "services" /\ sync'[w].alone = sync[w].alone
      BY <1>0, <2>1 DEF Progress
    <3>3. QED
      BY <3>1, <3>2 DEF Active
<1>2. CASE FetchPlugins(w)
  <2>1. PICK seen : sync' = [sync EXCEPT ![w].stage = "feeding", ![w].seen = seen]
    BY <1>2 DEF FetchPlugins
  <2>2. QED
    BY <1>0, <1>2, <2>1 DEF FetchPlugins, Active, Progress
<1>3. CASE FetchFails(w)
  BY <1>0, <1>3 DEF FetchFails, Active, Progress
<1>4. CASE Finish(w) \/ Cleaned(w)
  <2>1. sync'[w] = Ended(sync[w]) /\ Active(w)
    BY <1>0, <1>4 DEF Finish, Cleaned, Between, Active
  <2>2. QED
    BY <1>0, <2>1, EndedTyped DEF Active
<1>5. CASE ListGone(w)
  <2>1. PICK gone : sync' = [sync EXCEPT ![w].stage = "cleaning", ![w].gone = gone]
    BY <1>5 DEF ListGone
  <2>2. QED
    BY <1>0, <1>5, <2>1 DEF ListGone, Between, Active, Progress
<1>6. ASSUME NEW n \in Names, Puts(w, n)
      PROVE  Active(w) /\ (Active(w)' => sync'[w].alone = sync[w].alone)
  <2>1. sync[w].stage = "feeding"
        /\ (sync'[w] = sync[w] \/ sync'[w] = [sync[w] EXCEPT !.still = FALSE])
    BY <1>6, PutShape
  <2>2. QED
    BY <1>0, <2>1 DEF Active, Progress
<1>7. ASSUME NEW n \in Names, Deletes(w, n)
      PROVE  Active(w) /\ (Active(w)' => sync'[w].alone = sync[w].alone)
  <2>1. PICK gone \in Nat, still \in BOOLEAN :
                 /\ sync'[w] = [sync[w] EXCEPT !.gone[n] = gone, !.still = still]
                 /\ Acts(services[n], item[w][n], sync[w].gone[n], services'[n], item'[w][n], gone)
                 /\ \/ sync[w].gone[n] # None
                    \/ item[w][n].pc \in Deleting
    BY <1>7, DeleteShape
  <2>2. sync[w].stage = "cleaning"
    BY <1>7, DeleteShape
  <2>3. QED
    BY <1>0, <2>1, <2>2 DEF Active, Progress
<1>8. QED
  BY <1>1, <1>2, <1>3, <1>4, <1>5, <1>6, <1>7 DEF Turns

(* Unless a sync begins, only those that were active are, and as alone as    *)
(* they were.                                                               *)
LEMMA StaysActive ==
    ASSUME Sound, [Next]_vars, NEW v \in Syncs, Active(v)',
           \A w \in Syncs, cleans \in BOOLEAN : ~Begin(w, cleans)
    PROVE  Active(v) /\ sync'[v].alone = sync[v].alone
<1>0. sync \in [Syncs -> Progress]
  BY DEF Sound, Typed
<1>1. ASSUME NEW w \in Syncs, Turns(w) \/ \E n \in Names : Puts(w, n) \/ Deletes(w, n)
      PROVE  Active(v) /\ sync'[v].alone = sync[v].alone
  <2>1. CASE v = w
    BY <1>1, <2>1, ActsActive
  <2>2. CASE v # w
    <3>1. sync'[v] = sync[v]
      BY <1>1, <2>2, OthersKept
    <3>2. QED
      BY <3>1 DEF Active
  <2>3. QED
    BY <2>1, <2>2
<1>2. ASSUME NEW n \in Names, Publishes(n) PROVE Active(v) /\ sync'[v].alone = sync[v].alone
  <2>1. sync'[v] = IF Active(v) THEN [sync[v] EXCEPT !.still = FALSE] ELSE IdleSync
    BY <1>2 DEF Publishes, PublishNew, PublishGone, PublishPlugin, UnpublishPlugin, Publish, Disturb
  <2>2. Active(v)
    BY <2>1, IdleTyped DEF Active
  <2>3. QED
    BY <1>0, <2>1, <2>2 DEF Progress
<1>3. CASE Restart
  BY <1>3, IdleTyped DEF Restart, Active
<1>4. CASE UNCHANGED vars
  BY <1>4 DEF vars, Active
<1>5. QED
  BY <1>1, <1>2, <1>3, <1>4, StepKinds

(* Whoever begins to overlap a sync tells it so, and is told.              *)
LEMMA LoneKept ==
    ASSUME Orderly, [Next]_vars, \A w \in Syncs : Active(w) => Lone(w), NEW v \in Syncs, Active(v)'
    PROVE  Lone(v)'
<1>0. Sound /\ sync \in [Syncs -> Progress]
  BY DEF Orderly, Sound, Typed
<1>1. CASE \E w \in Syncs, cleans \in BOOLEAN : Begin(w, cleans)
  <2>1. PICK w \in Syncs, cleans \in BOOLEAN : Begin(w, cleans)
    BY <1>1
  <2> DEFINE others == {u \in Syncs \ {w} : Active(u)}
  <2>2. sync'[w].alone => others = {}
    BY <2>1, IdleTyped DEF Begin, Progress
  <2>3. \A u \in others : sync'[u].alone = FALSE
    BY <1>0, <2>1 DEF Begin, Progress
  <2>4. \A u \in Syncs : u # w /\ u \notin others => sync'[u].stage = "idle"
    BY <2>1, IdleTyped DEF Begin
  <2> HIDE DEF others
  <2>5. \A u \in Syncs : Active(u)' => u = w \/ u \in others
    BY <2>4 DEF Active
  <2>6. QED
    BY <2>2, <2>3, <2>5 DEF Lone
<1>2. CASE \A w \in Syncs, cleans \in BOOLEAN : ~Begin(w, cleans)
  <2>1. \A u \in Syncs : Active(u)' => Active(u) /\ sync'[u].alone = sync[u].alone
    BY <1>0, <1>2, StaysActive
  <2>2. QED
    BY <2>1 DEF Lone
<1>3. QED
  BY <1>1, <1>2

(* A sync that begins has compared nothing; one that it overlaps is no     *)
(* longer alone.                                                           *)
LEMMA BeginKeepsCompared ==
    ASSUME Orderly, Sound', NEW w \in Syncs, NEW cleans \in BOOLEAN, Begin(w, cleans),
           NEW v \in Syncs, Active(v)', NEW m \in Names,
           Active(v) => Compared(sync[v], item[v][m], services[m], kong[m].id, m)
    PROVE  Compared(sync'[v], item'[v][m], services'[m], kong'[m].id, m)
<1>0. sync \in [Syncs -> Progress] /\ UNCHANGED <<kong, services, item>>
  BY DEF Orderly, Sound, Typed, Begin
<1>1. CASE v = w
  <2>1. sync'[w].todo = Kongs /\ sync'[w].stage = "feeding"
    BY IdleTyped DEF Begin, Progress
  <2>2. Site[m] \in Kongs
    BY SyncAssumption
  <2>3. item'[v][m].pc \notin Deleting
    BY <1>1, <2>1 DEF Sound, Staged
  <2>4. QED
    BY <1>1, <2>1, <2>2, <2>3 DEF Compared, Deleting
<1>2. CASE v # w
  <2>1. sync'[v] = IF Active(v) THEN [sync[v] EXCEPT !.alone = FALSE, !.still = FALSE] ELSE IdleSync
    BY <1>2 DEF Begin
  <2>2. Active(v)
    BY <2>1, IdleTyped DEF Active
  <2>3. PICK p, q : p = sync[v] /\ q = sync'[v]
    OBVIOUS
  <2>4. q = [p EXCEPT !.alone = FALSE, !.still = FALSE] /\ p \in Progress
    BY <1>0, <2>1, <2>2, <2>3
  <2>5. /\ ~q.alone /\ q.stage = p.stage /\ q.whole = p.whole /\ q.todo = p.todo
        /\ q.gone = p.gone /\ q.seen = p.seen
    BY <2>4 DEF Progress
  <2>6. Compared(p, item[v][m], services[m], kong[m].id, m)
    BY <2>2, <2>3
  <2>7. Compared(q, item'[v][m], services'[m], kong'[m].id, m)
    BY <2>5, <2>6 DEF Compared
  <2>8. QED
    BY <2>3, <2>7
<1>3. QED
  BY <1>1, <1>2

(* A fetch compares the record with what Kong has now; the cleanup lists   *)
(* ids that were compared.                                                 *)
LEMMA TurnKeepsCompared ==
    ASSUME Orderly, Sound', NEW w \in Syncs, Turns(w),
           NEW v \in Syncs, Active(v)', NEW m \in Names,
           Compared(sync[v], item[v][m], services[m], kong[m].id, m)
    PROVE  Compared(sync'[v], item'[v][m], services'[m], kong'[m].id, m)
<1>0. Sound /\ sync \in [Syncs -> Progress] /\ sync[v] \in Progress
  BY DEF Orderly, Sound, Typed
<1>p. PICK p, q : p = sync[v] /\ q = sync'[v]
  OBVIOUS
<1>i. PICK i, j : i = item[v][m] /\ j = item'[v][m]
  OBVIOUS
<1>s. PICK s, id : s = services[m] /\ id = kong[m].id
  OBVIOUS
<1>1. services' = services /\ kong' = kong
  BY DEF Turns, FetchServices, FetchPlugins, FetchFails, Finish, ListGone, Cleaned
<1>2. Compared(p, i, s, id, m) /\ p \in Progress
  BY <1>0, <1>p, <1>i, <1>s
<1>3. q.stage # "cleaning" => j.pc \notin Deleting
  BY <1>p, <1>i DEF Sound, Staged
<1>4. Compared(q, j, s, id, m)
  <2>1. CASE v # w
    BY <1>0, <1>p, <1>i, <1>2, <2>1, OthersKept
  <2>2. CASE v = w /\ FetchServices(w)
    <3>1. PICK k \in p.todo :
          LET here == {n \in Names : Site[n] = k} IN
          sync' = [sync EXCEPT
                     ![w].stage = "services", ![w].todo = @ \ {k}, ![w].at = here,
                     ![w].seen = [n \in Names |->
                         IF n \in here THEN [id |-> kong[n].id, plugins |-> {}] ELSE @[n]]]
      BY <1>p, <2>2 DEF FetchServices
    <3>2. PICK here : here = {n \in Names : Site[n] = k}
      OBVIOUS
    <3>3. PICK seen : seen = [n \in Names |-> IF n \in here THEN [id |-> kong[n].id, plugins |-> {}]
                                                            ELSE p.seen[n]]
      OBVIOUS
    <3>4. q = [p EXCEPT !.stage = "services", !.todo = p.todo \ {k}, !.at = here, !.seen = seen]
      BY <1>0, <1>p, <2>2, <3>1, <3>2, <3>3
    <3>5. /\ q.stage = "services" /\ q.todo = p.todo \ {k} /\ q.seen = seen
          /\ q.alone = p.alone /\ q.whole = p.whole
      BY <1>2, <3>4 DEF Progress
    <3>6. Site[m] = k => q.seen[m].id = id
      BY <1>s, <3>2, <3>3, <3>5
    <3>7. Site[m] # k => q.seen[m] = p.seen[m]
      BY <3>2, <3>3, <3>5
    <3>8. j.pc \notin {"empty", "remove"}
      BY <1>3, <3>5 DEF Deleting
    <3>9. QED
      BY <1>2, <3>5, <3>6, <3>7, <3>8 DEF Compared
  <2>3. CASE v = w /\ FetchPlugins(w)
    <3>1. PICK seen : /\ seen = [n \in Names |->
                            IF n \in {u \in p.at : p.seen[u].id # None} /\ p.seen[n].id = kong[n].id
                            THEN kong[n] ELSE p.seen[n]]
                      /\ sync' = [sync EXCEPT ![w].stage = "feeding", ![w].seen = seen]
      BY <1>0, <1>p, <2>3 DEF FetchPlugins
    <3>2. /\ q.stage = "feeding" /\ q.todo = p.todo /\ q.seen = seen
          /\ q.alone = p.alone /\ q.whole = p.whole
      BY <1>0, <1>p, <2>3, <3>1 DEF Progress
    <3>3. q.seen[m].id = p.seen[m].id
      BY <3>1, <3>2
    <3>4. j.pc \notin {"empty", "remove"}
      BY <1>3, <3>2 DEF Deleting
    <3>5. QED
      BY <1>2, <3>2, <3>3, <3>4 DEF Compared
  <2>4. CASE v = w /\ FetchFails(w)
    <3>1. ~q.whole /\ q.stage = "feeding"
      BY <1>0, <1>p, <2>4 DEF FetchFails, Progress
    <3>2. j.pc \notin {"empty", "remove"}
      BY <1>3, <3>1 DEF Deleting
    <3>3. QED
      BY <3>1, <3>2 DEF Compared
  <2>5. CASE v = w /\ (Finish(w) \/ Cleaned(w))
    <3>1. sync'[w] = Ended(sync[w])
      BY <1>0, <2>5 DEF Finish, Cleaned
    <3>2. QED
      BY <1>0, <2>5, <3>1, EndedTyped DEF Active
  <2>6. CASE v = w /\ ListGone(w)
    <3>1. PICK gone : /\ gone = [n \in Names |-> IF services[n].fk = p.seen[n].id
                                                THEN None ELSE services[n].fk]
                      /\ sync' = [sync EXCEPT ![w].stage = "cleaning", ![w].gone = gone]
      BY <1>0, <1>p, <2>6 DEF ListGone
    <3>2. /\ q.todo = p.todo /\ q.seen = p.seen /\ q.gone = gone
          /\ q.alone = p.alone /\ q.whole = p.whole
      BY <1>0, <1>p, <2>6, <3>1 DEF Progress
    <3>3. p.whole /\ p.todo = {} /\ j = IdleItem
      BY <1>p, <1>i, <2>6 DEF ListGone, Cleans, Between, Resting
    <3>4. gone[m] # None => gone[m] # p.seen[m].id
      BY <3>1
    <3>5. j.pc \notin {"empty", "remove"}
      BY <3>3 DEF IdleItem
    <3>6. QED
      BY <1>2, <3>2, <3>3, <3>4, <3>5 DEF Compared
  <2>7. QED
    BY <2>1, <2>2, <2>3, <2>4, <2>5, <2>6 DEF Turns
<1>5. QED
  BY <1>p, <1>i, <1>s, <1>1, <1>4

(* A lone sync puts the ids that it has itself seen.                       *)
LEMMA PutKeepsCompared ==
    ASSUME Orderly, Sound', NEW w \in Syncs, NEW n \in Names, Puts(w, n),
           NEW v \in Syncs, Active(v), Lone(v), NEW m \in Names,
           Compared(sync[v], item[v][m], services[m], kong[m].id, m)
    PROVE  Compared(sync'[v], item'[v][m], services'[m], kong'[m].id, m)
<1>0. Sound /\ sync \in [Syncs -> Progress] /\ sync[v] \in Progress
  BY DEF Orderly, Sound, Typed
<1>1. /\ sync[w].stage = "feeding"
      /\ sync'[w] = sync[w] \/ sync'[w] = [sync[w] EXCEPT !.still = FALSE]
      /\ \A u \in Names \ {n} : item'[w][u] = item[w][u] /\ services'[u] = services[u]
      /\ UNCHANGED kong
      /\ services'[n].fk \in {services[n].fk, sync[w].seen[n].id}
  BY <1>0, PutShape
<1>p. PICK p, q : p = sync[v] /\ q = sync'[v]
  OBVIOUS
<1>s. PICK s, t, id : s = services[m] /\ t = services'[m] /\ id = kong[m].id
  OBVIOUS
<1>i. PICK i, j : i = item[v][m] /\ j = item'[v][m]
  OBVIOUS
<1>2. Compared(p, i, s, id, m) /\ p \in Progress
  BY <1>0, <1>p, <1>i, <1>s
<1>3. Compared(q, j, t, id, m)
  <2>1. CASE v # w
    <3>1. q = p
      BY <1>0, <1>p, <2>1, OthersKept
    <3>2. ~p.alone
      BY <1>1, <1>p, <2>1 DEF Lone, Active
    <3>3. QED
      BY <1>2, <3>1, <3>2 DEF Compared
  <2>2. CASE v = w
    <3>1. /\ q.stage = "feeding" /\ q.todo = p.todo /\ q.seen = p.seen
          /\ q.alone = p.alone /\ q.whole = p.whole
      BY <1>1, <1>2, <1>p, <2>2 DEF Progress
    <3>2. t.fk \in {s.fk, p.seen[m].id}
      BY <1>1, <1>p, <1>s, <2>2
    <3>3. j.pc \notin Deleting
      BY <1>p, <1>i, <3>1 DEF Sound, Staged
    <3>4. QED
      BY <1>2, <3>1, <3>2, <3>3 DEF Compared, Deleting
  <2>3. QED
    BY <2>1, <2>2
<1>4. QED
  BY <1>1, <1>p, <1>i, <1>s, <1>3

(* A deletion goes on with the record it has found under a listed id.      *)
LEMMA DeleteKeepsCompared ==
    ASSUME Orderly, NEW w \in Syncs, NEW n \in Names, Deletes(w, n),
           NEW v \in Syncs, Active(v), Lone(v), NEW m \in Names,
           Compared(sync[v], item[v][m], services[m], kong[m].id, m)
    PROVE  Compared(sync'[v], item'[v][m], services'[m], kong'[m].id, m)
<1>0. Sound /\ sync \in [Syncs -> Progress] /\ sync[v] \in Progress
  BY DEF Orderly, Sound, Typed
<1>1. \A u \in Names \ {n} : item'[w][u] = item[w][u] /\ services'[u] = services[u]
  BY <1>0, DeleteFrame
<1>k. UNCHANGED kong
  BY <1>0, DeleteFrame
<1>c. sync[w].stage = "cleaning"
  BY <1>0, DeleteShape
<1>2. PICK gone \in Nat, still \in BOOLEAN :
         /\ sync'[w] = [sync[w] EXCEPT !.gone[n] = gone, !.still = still]
         /\ Acts(services[n], item[w][n], sync[w].gone[n], services'[n], item'[w][n], gone)
         /\ \/ sync[w].gone[n] # None
            \/ item[w][n].pc \in Deleting
  BY <1>0, DeleteShape
<1>p. PICK p, q : p = sync[v] /\ q = sync'[v]
  OBVIOUS
<1>s. PICK s, t, id : s = services[m] /\ t = services'[m] /\ id = kong[m].id
  OBVIOUS
<1>i. PICK i, j : i = item[v][m] /\ j = item'[v][m]
  OBVIOUS
<1>3. Compared(p, i, s, id, m) /\ p \in Progress
  BY <1>0, <1>p, <1>i, <1>s
<1>4. Compared(q, j, t, id, m)
  <2>1. CASE v # w
    <3>1. q = p
      BY <1>0, <1>p, <2>1, OthersKept
    <3>2. ~p.alone
      BY <1>c, <1>p, <2>1 DEF Lone, Active
    <3>3. QED
      BY <1>3, <3>1, <3>2 DEF Compared
  <2>2. CASE v = w
    <3>1. /\ q.stage = "cleaning" /\ q.todo = p.todo /\ q.seen = p.seen
          /\ q.alone = p.alone /\ q.whole = p.whole /\ q.gone = [p.gone EXCEPT ![n] = gone]
          /\ p.stage = "cleaning"
      BY <1>2, <1>3, <1>c, <1>p, <2>2 DEF Progress
    <3>2. p.gone \in [Names -> Nat]
      BY <1>3 DEF Progress
    <3>3. CASE m # n
      <4>1. j = i /\ t = s /\ q.gone[m] = p.gone[m]
        BY <1>1, <1>i, <1>s, <2>2, <3>1, <3>2, <3>3
      <4>2. QED
        BY <1>3, <3>1, <4>1 DEF Compared
    <3>4. CASE m = n
      <4>1. Acts(s, i, p.gone[n], t, j, gone) /\ q.gone[n] = gone
        BY <1>2, <1>p, <1>s, <1>i, <2>2, <3>1, <3>2, <3>4
      <4>2. CASE Finds(s, i, p.gone[n], t, j, gone)
        BY <1>3, <3>1, <3>4, <4>1, <4>2 DEF Finds, Compared
      <4>3. CASE Empties(s, i, p.gone[n], t, j, gone)
        BY <1>3, <3>1, <3>4, <4>1, <4>3 DEF Empties, Compared
      <4>4. CASE Removes(s, i, p.gone[n], t, j, gone)
        BY <1>3, <3>1, <3>4, <4>1, <4>4 DEF Removes, Compared, NoRecord, IdleItem
      <4>5. CASE Again(s, i, p.gone[n], t, j, gone)
        BY <1>3, <3>1, <3>4, <4>1, <4>5 DEF Again, Compared, IdleItem
      <4>6. QED
        BY <4>1, <4>2, <4>3, <4>4, <4>5 DEF Acts
    <3>5. QED
      BY <3>3, <3>4
  <2>3. QED
    BY <2>1, <2>2
<1>5. QED
  BY <1>k, <1>p, <1>i, <1>s, <1>4

(* Kong's new id is one that no record has.                                 *)
LEMMA PublicationKeepsCompared ==
    ASSUME Orderly, NEW n \in Names, Publishes(n),
           NEW v \in Syncs, Active(v), NEW m \in Names,
           Compared(sync[v], item[v][m], services[m], kong[m].id, m)
    PROVE  Compared(sync'[v], item'[v][m], services'[m], kong'[m].id, m)
<1>0. /\ sync[v] \in Progress /\ kong \in [Names -> KongServices] /\ kong[n] \in KongServices
      /\ services[m].fk \in Nat /\ given[m] \in Nat /\ services[m].fk <= given[m]
  BY DEF Orderly, Sound, Typed, Records, Ids, None, Whole
<1>1. PICK new, ids : Publish(n, new, ids) /\ new.id \in {given[n] + 1, None, kong[n].id}
  <2>1. CASE PublishNew(n)
    <3>1. PICK some \in BOOLEAN :
            Publish(n, [id |-> given[n] + 1, plugins |-> IF some THEN {given[n] + 2} ELSE {}],
                    IF some THEN 2 ELSE 1)
      BY <2>1 DEF PublishNew
    <3>2. QED
      BY <3>1
  <2>2. CASE PublishGone(n)
    BY <2>2 DEF PublishGone, NoService
  <2>3. CASE PublishPlugin(n)
    <3>1. [kong[n] EXCEPT !.plugins = @ \cup {given[n] + 1}].id = kong[n].id
      BY <1>0 DEF KongServices
    <3>2. QED
      BY <2>3, <3>1 DEF PublishPlugin
  <2>4. CASE UnpublishPlugin(n)
    <3>1. PICK p \in kong[n].plugins : Publish(n, [kong[n] EXCEPT !.plugins = @ \ {p}], 0)
      BY <2>4 DEF UnpublishPlugin
    <3>2. [kong[n] EXCEPT !.plugins = @ \ {p}].id = kong[n].id
      BY <1>0 DEF KongServices
    <3>3. QED
      BY <3>1, <3>2
  <2>5. QED
    BY <2>1, <2>2, <2>3, <2>4 DEF Publishes
<1>2. /\ UNCHANGED <<services, item>> /\ kong' = [kong EXCEPT ![n] = new]
      /\ sync'[v] = [sync[v] EXCEPT !.still = FALSE]
  BY <1>1 DEF Publish, Disturb
<1>p. PICK p, q : p = sync[v] /\ q = sync'[v]
  OBVIOUS
<1>s. PICK s, i, id, next : s = services[m] /\ i = item[v][m] /\ id = kong[m].id /\ next = kong'[m].id
  OBVIOUS
<1>3. /\ q.stage = p.stage /\ q.todo = p.todo /\ q.seen = p.seen
      /\ q.alone = p.alone /\ q.whole = p.whole /\ q.gone = p.gone
  BY <1>0, <1>2, <1>p DEF Progress
<1>4. s.fk = None \/ next # s.fk \/ next = id
  <2>1. CASE m = n
    <3>1. next = new.id
      BY <1>0, <1>2, <1>s, <2>1
    <3>2. given[m] + 1 # s.fk
      BY <1>0, <1>s
    <3>3. QED
      BY <1>1, <1>s, <2>1, <3>1, <3>2
  <2>2. CASE m # n
    BY <1>0, <1>2, <1>s, <2>2
  <2>3. QED
    BY <2>1, <2>2
<1>5. Compared(p, i, s, id, m)
  BY <1>p, <1>s
<1>6. Compared(q, i, s, next, m)
  BY <1>3, <1>4, <1>5 DEF Compared
<1>7. QED
  BY <1>2, <1>p, <1>s, <1>6

(* No step lets a lone sync come upon a record of Kong's that it would     *)
(* remove.                                                                 *)
LEMMA CarefulKept ==
    ASSUME Orderly, Careful, [Next]_vars, Sound'
    PROVE  Careful'
<1> SUFFICES ASSUME NEW v \in Syncs, Active(v)'
             PROVE  /\ Lone(v)'
                    /\ \A m \in Names : Compared(sync'[v], item'[v][m], services'[m], kong'[m].id, m)
  BY DEF Careful
<1>0. Sound /\ \A w \in Syncs : Active(w) => Lone(w)
  BY DEF Orderly, Careful
<1>1. Lone(v)'
  BY <1>0, LoneKept
<1>2. ASSUME NEW m \in Names
      PROVE  Compared(sync'[v], item'[v][m], services'[m], kong'[m].id, m)
  <2>1. Active(v) => Compared(sync[v], item[v][m], services[m], kong[m].id, m)
    BY DEF Careful
  <2>2. CASE \E w \in Syncs, cleans \in BOOLEAN : Begin(w, cleans)
    BY <2>1, <2>2, BeginKeepsCompared
  <2>3. CASE \A w \in Syncs, cleans \in BOOLEAN : ~Begin(w, cleans)
    <3>1. Active(v) /\ Lone(v) /\ Compared(sync[v], item[v][m], services[m], kong[m].id, m)
      BY <1>0, <2>1, <2>3, StaysActive
    <3>2. ASSUME NEW w \in Syncs, Turns(w)
          PROVE  Compared(sync'[v], item'[v][m], services'[m], kong'[m].id, m)
      BY <3>1, <3>2, TurnKeepsCompared
    <3>3. ASSUME NEW w \in Syncs, NEW n \in Names, Puts(w, n)
          PROVE  Compared(sync'[v], item'[v][m], services'[m], kong'[m].id, m)
      BY <3>1, <3>3, PutKeepsCompared
    <3>4. ASSUME NEW w \in Syncs, NEW n \in Names, Deletes(w, n)
          PROVE  Compared(sync'[v], item'[v][m], services'[m], kong'[m].id, m)
      BY <3>1, <3>4, DeleteKeepsCompared
    <3>5. ASSUME NEW n \in Names, Publishes(n)
          PROVE  Compared(sync'[v], item'[v][m], services'[m], kong'[m].id, m)
      BY <3>1, <3>5, PublicationKeepsCompared
    <3>6. CASE Restart
      BY <3>6, IdleTyped DEF Restart, Active
    <3>7. CASE UNCHANGED vars
      BY <3>1, <3>7 DEF vars
    <3>8. QED
      BY <2>3, <3>2, <3>3, <3>4, <3>5, <3>6, <3>7, StepKinds
  <2>4. QED
    BY <2>2, <2>3
<1>3. QED
  BY <1>1, <1>2

(* Every state is careful.                                                 *)
LEMMA AlwaysCareful == Spec => [](Orderly /\ Careful)
<1>1. Init => Orderly /\ Careful
  <2>1. Init => Careful
    BY IdleTyped DEF Init, Careful, Active
  <2>2. QED
    BY <2>1, InitOrderly
<1>2. Orderly /\ Careful /\ [Next]_vars => (Orderly /\ Careful)'
  BY SoundKept, PendingKept, CarefulKept DEF Orderly
<1>3. QED
  BY <1>1, <1>2, PTL DEF Spec

(* A record is removed only by the deletion that has found it.               *)
LEMMA RemovedByDeletion ==
    ASSUME Orderly, [Next]_vars, NEW n \in Names, Removed(n)
    PROVE  \E w \in Syncs :
              /\ sync[w].stage = "cleaning" /\ sync[w].gone[n] # None
              /\ item[w][n].pc = "remove" /\ services[n].rid = item[w][n].rid
              /\ services[n].fk # None
<1>0. Sound
  BY DEF Orderly
<1>s. PICK s, t : s = services[n] /\ t = services'[n]
  OBVIOUS
<1>1. s # NoRecord /\ t = NoRecord /\ s.rid # None /\ s.fk # None /\ t.rid = None
  <2>1. s # NoRecord /\ t = NoRecord
    BY <1>s DEF Removed
  <2>2. Whole(kong[n], given[n], s, plugins[n])
    BY <1>0, <1>s DEF Sound
  <2>3. s.rid # None /\ s.fk # None
    BY <2>1, <2>2 DEF Whole
  <2>4. t.rid = None
    BY <2>1 DEF NoRecord
  <2>5. QED
    BY <2>1, <2>3, <2>4
<1>2. ASSUME NEW w \in Syncs, NEW m \in Names, Puts(w, m) PROVE FALSE
  <2>1. m = n => (s.rid # None => t.rid = s.rid)
    BY <1>0, <1>2, <1>s, PutShape
  <2>2. \A u \in Names \ {m} : item'[w][u] = item[w][u] /\ services'[u] = services[u]
    BY <1>0, <1>2, PutShape
  <2>3. m # n => t = s
    BY <1>s, <2>2
  <2>4. QED
    BY <1>1, <2>1, <2>3
<1>3. ASSUME NEW w \in Syncs, NEW m \in Names, Deletes(w, m)
      PROVE  /\ sync[w].stage = "cleaning" /\ sync[w].gone[n] # None
             /\ item[w][n].pc = "remove" /\ services[n].rid = item[w][n].rid
  <2>1. m = n
    BY <1>0, <1>1, <1>3, <1>s, DeleteFrame
  <2>2. PICK gone \in Nat, still \in BOOLEAN :
           /\ sync'[w] = [sync[w] EXCEPT !.gone[m] = gone, !.still = still]
           /\ Acts(services[m], item[w][m], sync[w].gone[m], services'[m], item'[w][m], gone)
           /\ \/ sync[w].gone[m] # None
              \/ item[w][m].pc \in Deleting
    BY <1>0, <1>3, DeleteShape
  <2>3. sync[w].stage = "cleaning"
    BY <1>0, <1>3, DeleteShape
  <2>i. PICK i : i = item[w][n]
    OBVIOUS
  <2>4. i.pc = "remove" /\ s.rid = i.rid
    BY <1>1, <1>s, <2>1, <2>2, <2>i DEF Acts, Finds, Empties, Removes, Again
  <2>5. sync[w].gone[n] # None
    BY <2>1, <2>2 DEF Orderly, Pending
  <2>6. QED
    BY <1>s, <2>3, <2>4, <2>5, <2>i
<1>4. ASSUME \/ \E w \in Syncs, cleans \in BOOLEAN : Begin(w, cleans)
             \/ \E w \in Syncs : Turns(w)
             \/ \E m \in Names : Publishes(m)
             \/ Restart
             \/ UNCHANGED vars
      PROVE  FALSE
  <2>1. services' = services
    BY <1>4 DEF Begin, Turns, FetchServices, FetchPlugins, FetchFails, Finish, ListGone, Cleaned,
                Publishes, PublishNew, PublishGone, PublishPlugin, UnpublishPlugin, Publish,
                Restart, vars
  <2>2. QED
    BY <1>1, <1>s, <2>1
<1>5. QED
  BY <1>1, <1>2, <1>3, <1>4, <1>s, StepKinds

(* However much is published between a sync's fetch and its deletion, and    *)
(* whatever of it fails and is tried again: as long as syncs do not overlap, *)
(* only the record of a service that Kong does not have any more is removed. *)
THEOREM OnlyGone == Spec => OnlyGoneAreRemoved
<1>1. ASSUME Orderly, Careful, [Next]_vars, NEW n \in Names,
             Removed(n), \A w \in Syncs : Active(w) => sync[w].alone
      PROVE  kong[n].id # services[n].fk
  <2>1. PICK w \in Syncs :
           /\ sync[w].stage = "cleaning" /\ sync[w].gone[n] # None
           /\ item[w][n].pc = "remove" /\ services[n].rid = item[w][n].rid
           /\ services[n].fk # None
    BY <1>1, RemovedByDeletion
  <2>i. PICK i, p, s, id : i = item[w][n] /\ p = sync[w] /\ s = services[n] /\ id = kong[n].id
    OBVIOUS
  <2>2. Active(w)
    BY <2>1 DEF Active
  <2>3. Compared(p, i, s, id, n) /\ p.alone
    BY <1>1, <2>2, <2>i DEF Careful
  <2>4. id # s.fk
    BY <2>1, <2>3, <2>i DEF Compared
  <2>5. QED
    BY <2>4, <2>i
<1>2. Orderly /\ Careful /\ [Next]_vars =>
          [\A n \in Names : Removed(n) /\ (\A w \in Syncs : Active(w) => sync[w].alone)
               => kong[n].id # services[n].fk]_vars
  BY <1>1
<1>3. QED
  BY <1>2, AlwaysCareful, PTL DEF Spec, OnlyGoneAreRemoved

-----------------------------------------------------------------------------
(***************************************************************************)
(* A sync that nothing disturbs puts the Portal right.                     *)
(***************************************************************************)

(* The Kong of service n was fetched, its services and its plugins.          *)
Fetched(p, n) == Site[n] \notin p.todo /\ ~(p.stage = "services" /\ n \in p.at)

(* The record s, with the plugins ps, is that of k, the service in Kong.     *)
RecordOf(k, s, ps) ==
    s.fk = k.id /\ s.plugins = {ps[p] : p \in k.plugins} /\ None \notin s.plugins

(* What a put of a service with this id and these plugins, wanted, has found *)
(* in the record s and done so far.                                         *)
Matches(i, key, wanted, s, ps) ==
    /\ i.pc \in {"name", "refer", "key"} => i.ids = {}
    /\ i.pc = "refer" => i.rid = s.rid
    /\ i.pc = "key" => s.fk \in {None, key}
    /\ i.pc \in {"children", "child", "update"} =>
          /\ i.rid = s.rid
          /\ i.rid # None => s.fk = key
          /\ i.ids = {ps[p] : p \in wanted \ i.todo}
          /\ i.todo \subseteq wanted
    /\ i.pc \in {"children", "child"} => i.was = s.plugins
    /\ i.pc = "child" => i.child \in i.todo /\ ps[i.child] = None
    /\ i.pc = "update" => i.todo = {} /\ i.rid # None

(* A deletion has found the record that is still to be deleted; what is not  *)
(* listed is in Kong, or has no record any more.                            *)
Emptied(i, gone, s, k) ==
    /\ gone # None => gone = s.fk
    /\ gone = None /\ k.id = None => s = NoRecord
    /\ i.pc \in {"empty", "remove"} => i.rid = s.rid

Follows(p, i, s, ps, k, n) ==
    /\ Site[n] \in p.todo => p.seen[n].id = None
    /\ Site[n] \notin p.todo => p.seen[n].id = k.id
    /\ p.stage = "services" /\ n \in p.at => Site[n] \notin p.todo /\ p.seen[n].plugins = {}
    /\ Fetched(p, n) => p.seen[n] = k
    /\ Fetched(p, n) /\ i.pc \notin Putting /\ k.id # None => RecordOf(k, s, ps)
    /\ Matches(i, p.seen[n].id, p.seen[n].plugins, s, ps)
    /\ p.stage = "cleaning" => Emptied(i, p.gone[n], s, k)

(* A sync that nothing has disturbed has in each service what it has seen of *)
(* it, and the record is as far as the item says.                           *)
Undisturbed(w) == sync[w].still =>
    /\ sync[w].alone /\ sync[w].whole
    /\ \A n \in Names : Follows(sync[w], item[w][n], services[n], plugins[n], kong[n], n)

Mirrors(w) == sync[w].stage = "done" =>
    /\ \A v \in Syncs : ~Active(v)
    /\ \A n \in Names : IF kong[n].id # None THEN RecordOf(kong[n], services[n], plugins[n])
                        ELSE sync[w].cleans => services[n] = NoRecord

Faithful == \A w \in Syncs : (Active(w) => Undisturbed(w)) /\ Mirrors(w)

(* A service that is being put was fetched, and is as it was.                *)
LEMMA PutKnown ==
    ASSUME NEW p, NEW i, NEW s, NEW ps, NEW k, NEW n, NEW g,
           Staged(i, p.stage, p.seen[n].id, g), Follows(p, i, s, ps, k, n), i.pc \in Putting
    PROVE  /\ p.stage = "feeding" /\ Fetched(p, n) /\ p.seen[n] = k /\ k.id # None
           /\ Matches(i, k.id, k.plugins, s, ps)
<1>1. p.stage = "feeding" /\ p.seen[n].id # None
  BY DEF Staged
<1>2. Site[n] \notin p.todo
  BY <1>1 DEF Follows
<1>3. Fetched(p, n)
  BY <1>1, <1>2 DEF Fetched
<1>4. p.seen[n] = k /\ Matches(i, p.seen[n].id, p.seen[n].plugins, s, ps)
  BY <1>3 DEF Follows
<1>5. QED
  BY <1>1, <1>3, <1>4

(* A put goes on.                                                           *)
LEMMA PutOn ==
    ASSUME NEW p, NEW i, NEW s, NEW ps, NEW k, NEW n, Follows(p, i, s, ps, k, n),
           p.stage = "feeding", p.seen[n] = k, NEW j, NEW t, NEW qs,
           Matches(j, k.id, k.plugins, t, qs), j.pc \notin Putting => RecordOf(k, t, qs)
    PROVE  Follows(p, j, t, qs, k, n)
BY DEF Follows

(* The looks for a record, by name and by id, end with the one record      *)
(* there is, or with none.                                                 *)
LEMMA FindsFollow ==
    ASSUME Sound, NEW w \in Syncs, NEW n \in Names,
           FindByName(w, n) \/ Refer(w, n) \/ FindByKey(w, n),
           Follows(sync[w], item[w][n], services[n], plugins[n], kong[n], n)
    PROVE  Follows(sync'[w], item'[w][n], services'[n], plugins'[n], kong'[n], n)
<1>p. PICK p : p = sync[w]
  OBVIOUS
<1>i. PICK i, j : i = item[w][n] /\ j = item'[w][n]
  OBVIOUS
<1>s. PICK s, t : s = services[n] /\ t = services'[n]
  OBVIOUS
<1>q. PICK ps, k, g : ps = plugins[n] /\ k = kong[n] /\ g = given[n]
  OBVIOUS
<1>0. /\ i \in Items /\ s \in Records /\ Whole(k, g, s, ps) /\ Staged(i, p.stage, p.seen[n].id, g)
      /\ Follows(p, i, s, ps, k, n)
  BY <1>p, <1>i, <1>s, <1>q, ItemKnown
<1>1. i.pc \in Putting /\ UNCHANGED <<kong, plugins, sync>>
  BY <1>i DEF FindByName, Refer, FindByKey, Doing, Putting
<1>2. /\ p.stage = "feeding" /\ Fetched(p, n) /\ p.seen[n] = k /\ k.id # None
      /\ Matches(i, k.id, k.plugins, s, ps)
  BY <1>0, <1>1, PutKnown
<1>types. item \in [Syncs -> [Names -> Items]] /\ services \in [Names -> Records]
  BY DEF Sound, Typed
<1>3. Matches(j, k.id, k.plugins, t, ps) /\ j.pc \in Putting
  <2>1. CASE FindByName(w, n)
    <3>1. t = s /\ i.pc = "name"
      BY <1>i, <1>s, <2>1 DEF FindByName, Doing
    <3>2. CASE s.fk \in {None, k.id}
      <4>1. item' = [item EXCEPT ![w][n] = [i EXCEPT !.pc = "key"]]
        BY <1>p, <1>i, <1>s, <1>2, <2>1, <3>2 DEF FindByName, Step, KeyOf
      <4>2. j.pc = "key" /\ j.ids = i.ids
        BY <1>0, <1>i, <1>types, <4>1 DEF Items
      <4>3. QED
        BY <1>2, <3>1, <3>2, <4>2 DEF Matches, Putting
    <3>3. CASE s.fk \notin {None, k.id}
      <4>1. item' = [item EXCEPT ![w][n] = [i EXCEPT !.pc = "refer", !.rid = s.rid]]
        BY <1>p, <1>i, <1>s, <1>2, <2>1, <3>3 DEF FindByName, Step, KeyOf
      <4>2. j.pc = "refer" /\ j.ids = i.ids /\ j.rid = s.rid
        BY <1>0, <1>i, <1>types, <4>1 DEF Items
      <4>3. QED
        BY <1>2, <3>1, <3>3, <4>2 DEF Matches, Putting
    <3>4. QED
      BY <3>2, <3>3
  <2>2. CASE Refer(w, n)
    <3>1. i.pc = "refer" /\ s.rid = i.rid
      BY <1>2, <1>i, <2>2 DEF Refer, Doing, Matches
    <3>2. services' = [services EXCEPT ![n].fk = k.id]
      BY <1>p, <1>i, <1>s, <1>2, <2>2, <3>1 DEF Refer, KeyOf
    <3>3. t.fk = k.id
      BY <1>s, <1>types, <3>2 DEF Records
    <3>4. item' = [item EXCEPT ![w][n] = [i EXCEPT !.pc = "key", !.rid = None]]
      BY <1>i, <2>2 DEF Refer, Step
    <3>5. j.pc = "key" /\ j.ids = i.ids
      BY <1>0, <1>i, <1>types, <3>4 DEF Items
    <3>6. QED
      BY <1>2, <3>1, <3>3, <3>5 DEF Matches, Putting
  <2>3. CASE FindByKey(w, n)
    <3>1. t = s /\ i.pc = "key"
      BY <1>i, <1>s, <2>3 DEF FindByKey, Doing
    <3>2. s.fk \in {None, k.id} /\ i.ids = {}
      BY <1>2, <3>1 DEF Matches
    <3>3. item' = [item EXCEPT ![w][n] = [i EXCEPT !.pc = "children", !.todo = k.plugins,
                     !.rid = IF s.fk = k.id THEN s.rid ELSE None,
                     !.was = IF s.fk = k.id THEN s.plugins ELSE {}]]
      BY <1>p, <1>i, <1>s, <1>2, <2>3 DEF FindByKey, Step, KeyOf
    <3>4. /\ j.pc = "children" /\ j.ids = {} /\ j.todo = k.plugins
          /\ j.rid = (IF s.fk = k.id THEN s.rid ELSE None)
          /\ j.was = (IF s.fk = k.id THEN s.plugins ELSE {})
      BY <1>0, <1>i, <1>types, <3>2, <3>3 DEF Items
    <3>5. s.fk # k.id => s.rid = None /\ s.plugins = {}
      BY <1>0, <3>2 DEF Whole, NoRecord
    <3>6. j.rid = s.rid /\ j.was = s.plugins /\ (j.rid # None => s.fk = k.id)
      BY <3>4, <3>5
    <3>7. j.ids = {ps[x] : x \in k.plugins \ j.todo}
      BY <3>4
    <3>8. QED
      BY <3>1, <3>4, <3>6, <3>7 DEF Matches, Putting
  <2>4. QED
    BY <2>1, <2>2, <2>3
<1>4. Follows(p, j, t, ps, k, n)
  BY <1>0, <1>2, <1>3, PutOn
<1>5. QED
  BY <1>1, <1>4, <1>p, <1>i, <1>s, <1>q

(* The list of a put grows to the records of the plugins that Kong has.    *)
LEMMA ChildrenFollow ==
    ASSUME Sound, NEW w \in Syncs, NEW n \in Names, FindChild(w, n) \/ CreateChild(w, n),
           Follows(sync[w], item[w][n], services[n], plugins[n], kong[n], n)
    PROVE  Follows(sync'[w], item'[w][n], services'[n], plugins'[n], kong'[n], n)
<1>p. PICK p : p = sync[w]
  OBVIOUS
<1>i. PICK i, j : i = item[w][n] /\ j = item'[w][n]
  OBVIOUS
<1>s. PICK s, g : s = services[n] /\ g = given[n]
  OBVIOUS
<1>q. PICK ps, qs, k : ps = plugins[n] /\ qs = plugins'[n] /\ k = kong[n]
  OBVIOUS
<1>0. /\ i \in Items /\ s \in Records /\ Whole(k, g, s, ps) /\ Staged(i, p.stage, p.seen[n].id, g)
      /\ Follows(p, i, s, ps, k, n) /\ k \in KongServices /\ ps \in [Ids -> Nat]
  BY <1>p, <1>i, <1>s, <1>q, ItemKnown
<1>1. i.pc \in {"children", "child"} /\ i.pc \in Putting /\ UNCHANGED <<kong, services, sync>>
  BY <1>i DEF FindChild, CreateChild, Doing, Putting
<1>2. /\ p.stage = "feeding" /\ Fetched(p, n) /\ p.seen[n] = k /\ k.id # None
      /\ Matches(i, k.id, k.plugins, s, ps)
  BY <1>0, <1>1, PutKnown
<1>m. /\ i.rid = s.rid /\ (i.rid # None => s.fk = k.id) /\ i.was = s.plugins
      /\ i.ids = {ps[x] : x \in k.plugins \ i.todo} /\ i.todo \subseteq k.plugins
      /\ i.pc = "child" => i.child \in i.todo /\ ps[i.child] = None
  BY <1>1, <1>2 DEF Matches
<1>ids. k.plugins \subseteq Ids
  BY <1>0 DEF KongServices
<1>types. item \in [Syncs -> [Names -> Items]] /\ plugins \in [Names -> [Ids -> Nat]]
  BY DEF Sound, Typed
<1>3. Matches(j, k.id, k.plugins, s, qs) /\ j.pc \in Putting
  <2>1. CASE FindChild(w, n)
    <3>1. qs = ps /\ i.pc = "children"
      BY <1>i, <1>q, <2>1 DEF FindChild, Doing
    <3>2. PICK x \in i.todo :
            Step(w, n, IF ps[x] = None
                       THEN [i EXCEPT !.pc = "child", !.child = x]
                       ELSE [i EXCEPT !.todo = @ \ {x}, !.ids = @ \cup {ps[x]}])
      BY <1>i, <1>q, <2>1 DEF FindChild
    <3>3. CASE ps[x] = None
      <4>1. item' = [item EXCEPT ![w][n] = [i EXCEPT !.pc = "child", !.child = x]]
        BY <3>2, <3>3 DEF Step
      <4>2. /\ j.pc = "child" /\ j.child = x /\ j.todo = i.todo /\ j.ids = i.ids
            /\ j.rid = i.rid /\ j.was = i.was
        BY <1>0, <1>i, <1>types, <4>1 DEF Items
      <4>3. QED
        BY <1>m, <3>1, <3>2, <3>3, <4>2 DEF Matches, Putting
    <3>4. CASE ps[x] # None
      <4>1. item' = [item EXCEPT ![w][n] = [i EXCEPT !.todo = @ \ {x}, !.ids = @ \cup {ps[x]}]]
        BY <3>2, <3>4 DEF Step
      <4>2. /\ j.pc = "children" /\ j.todo = i.todo \ {x} /\ j.ids = i.ids \cup {ps[x]}
            /\ j.rid = i.rid /\ j.was = i.was
        BY <1>0, <1>i, <1>types, <3>1, <4>1 DEF Items
      <4>3. j.ids = {ps[y] : y \in k.plugins \ j.todo}
        BY <1>m, <3>2, <4>2
      <4>4. j.todo \subseteq k.plugins
        BY <1>m, <4>2
      <4>5. QED
        BY <1>m, <3>1, <4>2, <4>3, <4>4 DEF Matches, Putting
    <3>5. QED
      BY <3>3, <3>4
  <2>2. CASE CreateChild(w, n)
    <3>1. i.pc = "child"
      BY <1>i, <2>2 DEF CreateChild, Doing
    <3>2. PICK x : x = i.child
      OBVIOUS
    <3>3. x \in i.todo /\ ps[x] = None /\ x \in Ids
      BY <1>m, <1>ids, <3>1, <3>2
    <3>4. PICK new : /\ plugins' = [plugins EXCEPT ![n][x] = new]
                     /\ Step(w, n, [i EXCEPT !.pc = "children", !.todo = @ \ {x},
                                             !.ids = @ \cup {new}, !.child = None])
      BY <1>i, <1>q, <2>2, <3>2, <3>3 DEF CreateChild
    <3>5. qs = [ps EXCEPT ![x] = new]
      BY <1>q, <1>types, <3>4
    <3>6. item' = [item EXCEPT ![w][n] = [i EXCEPT !.pc = "children", !.todo = @ \ {x},
                                                   !.ids = @ \cup {new}, !.child = None]]
      BY <3>4 DEF Step
    <3>7. /\ j.pc = "children" /\ j.todo = i.todo \ {x} /\ j.ids = i.ids \cup {new}
          /\ j.rid = i.rid /\ j.was = i.was
      BY <1>0, <1>i, <1>types, <3>6 DEF Items
    <3>8. \A y \in Ids : qs[y] = IF y = x THEN new ELSE ps[y]
      BY <1>0, <3>3, <3>5
    <3>9. j.ids = {qs[y] : y \in k.plugins \ j.todo}
      <4>1. \A y \in k.plugins \ i.todo : qs[y] = ps[y]
        BY <1>ids, <3>3, <3>8
      <4>2. qs[x] = new /\ k.plugins \ j.todo = (k.plugins \ i.todo) \cup {x}
        BY <1>m, <3>3, <3>7, <3>8
      <4>3. QED
        BY <1>m, <3>7, <4>1, <4>2
    <3>10. j.todo \subseteq k.plugins
      BY <1>m, <3>7
    <3>11. QED
      BY <1>m, <3>7, <3>9, <3>10 DEF Matches, Putting
  <2>3. QED
    BY <2>1, <2>2
<1>4. Follows(p, j, s, qs, k, n)
  BY <1>0, <1>2, <1>3, PutOn
<1>5. QED
  BY <1>1, <1>4, <1>p, <1>i, <1>s, <1>q

(* The record of a put that ends is that of the service.                    *)
LEMMA WritesFollow ==
    ASSUME Sound, NEW w \in Syncs, NEW n \in Names,
           Unchanged(w, n) \/ RemoveChildren(w, n) \/ Update(w, n) \/ Create(w, n),
           Follows(sync[w], item[w][n], services[n], plugins[n], kong[n], n)
    PROVE  Follows(sync'[w], item'[w][n], services'[n], plugins'[n], kong'[n], n)
<1>p. PICK p : p = sync[w]
  OBVIOUS
<1>i. PICK i, j : i = item[w][n] /\ j = item'[w][n]
  OBVIOUS
<1>s. PICK s, t, g : s = services[n] /\ t = services'[n] /\ g = given[n]
  OBVIOUS
<1>q. PICK ps, qs, k : ps = plugins[n] /\ qs = plugins'[n] /\ k = kong[n]
  OBVIOUS
<1>0. /\ i \in Items /\ s \in Records /\ Whole(k, g, s, ps) /\ Staged(i, p.stage, p.seen[n].id, g)
      /\ Follows(p, i, s, ps, k, n) /\ k \in KongServices /\ ps \in [Ids -> Nat]
  BY <1>p, <1>i, <1>s, <1>q, ItemKnown
<1>1. i.pc \in {"children", "update"} /\ i.pc \in Putting /\ UNCHANGED <<kong, sync>>
  BY <1>i DEF Unchanged, RemoveChildren, Update, Create, ChildrenPut, Doing, Putting
<1>2. /\ p.stage = "feeding" /\ Fetched(p, n) /\ p.seen[n] = k /\ k.id # None
      /\ Matches(i, k.id, k.plugins, s, ps)
  BY <1>0, <1>1, PutKnown
<1>todo. i.todo = {}
  BY <1>1, <1>2, <1>i DEF Unchanged, RemoveChildren, Update, Create, ChildrenPut, Doing, Matches
<1>m. /\ i.rid = s.rid /\ (i.rid # None => s.fk = k.id)
      /\ i.ids = {ps[x] : x \in k.plugins}
      /\ i.pc = "children" => i.was = s.plugins
  BY <1>1, <1>2, <1>todo DEF Matches
<1>ids. k.plugins \subseteq Ids /\ None \notin i.ids
  BY <1>0 DEF KongServices, Staged
<1>connects. Connects(w, n)
  BY <1>i, <1>m, <1>q, <1>ids DEF Connects
<1>types. /\ item \in [Syncs -> [Names -> Items]] /\ services \in [Names -> Records]
          /\ plugins \in [Names -> [Ids -> Nat]]
  BY DEF Sound, Typed
<1>idle. IdleItem.pc = "idle"
  BY DEF IdleItem
<1>done. ASSUME j = IdleItem, qs = ps, t.fk = k.id, t.plugins = i.ids
         PROVE  Matches(j, k.id, k.plugins, t, qs) /\ RecordOf(k, t, qs)
  BY <1>done, <1>idle, <1>m, <1>ids DEF Matches, RecordOf
<1>3. Matches(j, k.id, k.plugins, t, qs) /\ (j.pc \notin Putting => RecordOf(k, t, qs))
  <2>1. CASE Unchanged(w, n)
    <3>1. i.pc = "children" /\ i.rid # None /\ i.ids = i.was /\ t = s /\ qs = ps
      BY <1>i, <1>s, <1>q, <2>1 DEF Unchanged, ChildrenPut, Doing, Same
    <3>2. item' = [item EXCEPT ![w][n] = IdleItem]
      BY <1>i, <1>s, <1>m, <2>1 DEF Unchanged, Step
    <3>3. j = IdleItem
      BY <1>i, <1>types, <3>2
    <3>4. QED
      BY <1>done, <1>m, <3>1, <3>3
  <2>2. CASE RemoveChildren(w, n)
    <3>1. i.pc = "children" /\ i.rid # None
      BY <1>i, <2>2 DEF RemoveChildren, ChildrenPut, Doing
    <3>2. item' = [item EXCEPT ![w][n] = [i EXCEPT !.pc = "update"]]
      BY <1>i, <2>2 DEF RemoveChildren, Step
    <3>3. j.pc = "update" /\ j.ids = i.ids /\ j.rid = i.rid /\ j.todo = {}
      BY <1>0, <1>i, <1>todo, <1>types, <3>2 DEF Items
    <3>4. t.rid = s.rid /\ t.fk = s.fk
      BY <1>s, <1>types, <2>2 DEF RemoveChildren, Records
    <3>5. qs = [x \in Ids |-> IF ps[x] \in i.was \ i.ids THEN None ELSE ps[x]]
      BY <1>i, <1>q, <1>types, <2>2 DEF RemoveChildren, Without, Vanished
    <3>6. \A x \in k.plugins : qs[x] = ps[x]
      BY <1>ids, <1>m, <3>5
    <3>7. j.ids = {qs[x] : x \in k.plugins \ j.todo}
      BY <1>m, <3>3, <3>6
    <3>8. QED
      BY <1>m, <3>1, <3>3, <3>4, <3>7 DEF Matches, Putting
  <2>3. CASE Update(w, n)
    <3>1. i.rid # None /\ qs = ps
      BY <1>i, <1>q, <2>3 DEF Update
    <3>2. /\ services' = [services EXCEPT ![n].plugins = i.ids]
          /\ item' = [item EXCEPT ![w][n] = IdleItem]
      BY <1>i, <1>s, <1>m, <1>connects, <2>3 DEF Update, Step
    <3>3. j = IdleItem /\ t.fk = s.fk /\ t.plugins = i.ids
      BY <1>i, <1>s, <1>types, <3>2 DEF Records
    <3>4. QED
      BY <1>done, <1>m, <3>1, <3>3
  <2>4. CASE Create(w, n)
    <3>1. i.rid = None /\ qs = ps
      BY <1>i, <1>q, <2>4 DEF Create
    <3>2. s = NoRecord
      BY <1>0, <1>m, <3>1 DEF Whole
    <3>3. PICK new : /\ services' = [services EXCEPT ![n] =
                                        [rid |-> new, fk |-> k.id, plugins |-> i.ids]]
                     /\ item' = [item EXCEPT ![w][n] = IdleItem]
      BY <1>i, <1>s, <1>p, <1>2, <1>connects, <2>4, <3>2 DEF Create, Step, KeyOf
    <3>4. j = IdleItem /\ t.fk = k.id /\ t.plugins = i.ids
      BY <1>i, <1>s, <1>types, <3>3
    <3>5. QED
      BY <1>done, <3>1, <3>4
  <2>5. QED
    BY <2>1, <2>2, <2>3, <2>4
<1>4. Follows(p, j, t, qs, k, n)
  BY <1>0, <1>2, <1>3, PutOn
<1>5. QED
  BY <1>1, <1>4, <1>p, <1>i, <1>s, <1>q

(* A fetch that nothing disturbs between services and plugins sees the     *)
(* service whole.                                                          *)
LEMMA TurnsFollow ==
    ASSUME Sound, NEW w \in Syncs, FetchServices(w) \/ FetchPlugins(w) \/ ListGone(w),
           NEW m \in Names, Follows(sync[w], item[w][m], services[m], plugins[m], kong[m], m)
    PROVE  Follows(sync'[w], item'[w][m], services'[m], plugins'[m], kong'[m], m)
<1>p. PICK p, q : p = sync[w] /\ q = sync'[w]
  OBVIOUS
<1>i. PICK i, j : i = item[w][m] /\ j = item'[w][m]
  OBVIOUS
<1>s. PICK s, ps, k, g : s = services[m] /\ ps = plugins[m] /\ k = kong[m] /\ g = given[m]
  OBVIOUS
<1>0. /\ p \in Progress /\ Whole(k, g, s, ps) /\ k \in KongServices /\ p.seen[m] \in KongServices
      /\ Follows(p, i, s, ps, k, m)
  BY <1>p, <1>i, <1>s, ItemKnown DEF Sound, Typed
<1>types. sync \in [Syncs -> Progress] /\ item \in [Syncs -> [Names -> Items]]
  BY DEF Sound, Typed
<1>idle. IdleItem.pc = "idle"
  BY DEF IdleItem
<1>1. UNCHANGED <<kong, services, plugins>>
  BY DEF FetchServices, FetchPlugins, ListGone
<1>2. i = IdleItem /\ i.pc = "idle"
  <2>1. CASE FetchServices(w) \/ ListGone(w)
    BY <1>i, <1>idle, <2>1 DEF FetchServices, ListGone, Between, Resting
  <2>2. CASE FetchPlugins(w)
    <3>1. sync[w].stage \notin {"feeding", "cleaning"}
      BY <2>2 DEF FetchPlugins
    <3>2. QED
      BY <1>i, <1>idle, <3>1, NoItems
  <2>3. QED
    BY <2>1, <2>2
<1>3. Follows(q, j, s, ps, k, m)
  <2>1. CASE FetchServices(w)
    <3>1. PICK x \in p.todo :
            LET here == {n \in Names : Site[n] = x} IN
            sync' = [sync EXCEPT
                       ![w].stage = "services", ![w].todo = @ \ {x}, ![w].at = here,
                       ![w].seen = [n \in Names |->
                           IF n \in here THEN [id |-> kong[n].id, plugins |-> {}] ELSE @[n]]]
      BY <1>p, <2>1 DEF FetchServices
    <3>2. PICK here : here = {n \in Names : Site[n] = x}
      OBVIOUS
    <3>3. PICK seen : seen = [n \in Names |-> IF n \in here THEN [id |-> kong[n].id, plugins |-> {}]
                                                            ELSE p.seen[n]]
      OBVIOUS
    <3>4. q = [p EXCEPT !.stage = "services", !.todo = p.todo \ {x}, !.at = here, !.seen = seen]
      BY <1>types, <1>p, <3>1, <3>2, <3>3
    <3>5. q.stage = "services" /\ q.todo = p.todo \ {x} /\ q.seen = seen /\ q.at = here
      BY <1>0, <3>4 DEF Progress
    <3>6. p.stage = "feeding" /\ j = i
      BY <1>p, <1>i, <2>1 DEF FetchServices, Between
    <3>7. CASE m \in here
      <4>1. Site[m] = x /\ q.seen[m] = [id |-> k.id, plugins |-> {}]
        BY <1>s, <3>2, <3>3, <3>5, <3>7
      <4>2. q.seen[m].id = k.id /\ q.seen[m].plugins = {}
        BY <4>1
      <4>3. QED
        BY <1>2, <3>5, <3>6, <3>7, <4>1, <4>2 DEF Follows, Fetched, Matches, Putting
    <3>8. CASE m \notin here
      <4>1. Site[m] # x /\ q.seen[m] = p.seen[m]
        BY <3>2, <3>3, <3>5, <3>8
      <4>2. Site[m] \in q.todo <=> Site[m] \in p.todo
        BY <3>5, <4>1
      <4>3. QED
        BY <1>0, <1>2, <3>5, <3>6, <3>8, <4>1, <4>2 DEF Follows, Fetched, Matches, Putting
    <3>9. QED
      BY <3>7, <3>8
  <2>2. CASE FetchPlugins(w)
    <3>1. PICK found : found = {n \in p.at : p.seen[n].id # None}
      OBVIOUS
    <3>2. PICK seen : seen = [n \in Names |-> IF n \in found /\ p.seen[n].id = kong[n].id
                                              THEN kong[n] ELSE p.seen[n]]
      OBVIOUS
    <3>3. PICK its : its = [n \in Names |-> IF n \in found THEN Item(Attempts) ELSE IdleItem]
      OBVIOUS
    <3>4. /\ sync' = [sync EXCEPT ![w].stage = "feeding", ![w].seen = seen]
          /\ item' = [item EXCEPT ![w] = its]
      BY <1>types, <1>p, <2>2, <3>1, <3>2, <3>3 DEF FetchPlugins
    <3>5. q.stage = "feeding" /\ q.todo = p.todo /\ q.seen = seen
      BY <1>0, <1>types, <1>p, <3>4 DEF Progress
    <3>6. p.stage = "services"
      BY <1>p, <2>2 DEF FetchPlugins
    <3>7. j = IF m \in found THEN Item(Attempts) ELSE IdleItem
      BY <1>types, <1>i, <3>3, <3>4
    <3>8. CASE m \in found
      <4>1. m \in p.at /\ p.seen[m].id # None /\ p.seen[m].id = k.id /\ Site[m] \notin p.todo
        BY <1>0, <3>1, <3>6, <3>8 DEF Follows
      <4>2. q.seen[m] = k
        BY <1>s, <3>2, <3>5, <3>8, <4>1
      <4>3. j.pc = "name" /\ j.ids = {}
        BY <3>7, <3>8 DEF Item, IdleItem
      <4>4. QED
        BY <3>5, <4>1, <4>2, <4>3 DEF Follows, Fetched, Matches, Putting
    <3>9. CASE m \in p.at /\ m \notin found
      <4>1. p.seen[m].id = None /\ p.seen[m].plugins = {} /\ k.id = None /\ Site[m] \notin p.todo
        BY <1>0, <3>1, <3>6, <3>9 DEF Follows
      <4>2. k.plugins = {}
        BY <1>0, <4>1 DEF Whole
      <4>3. p.seen[m] = k
        <5>1. PICK x : x = p.seen[m]
          OBVIOUS
        <5>2. x \in KongServices /\ k \in KongServices /\ x.id = k.id /\ x.plugins = k.plugins
          BY <1>0, <4>1, <4>2, <5>1
        <5>3. x = k
          BY <5>2 DEF KongServices
        <5>4. QED
          BY <5>1, <5>3
      <4>4. q.seen[m] = k
        BY <3>2, <3>5, <3>9, <4>3
      <4>5. QED
        BY <1>2, <3>5, <3>7, <3>9, <4>1, <4>4 DEF Follows, Fetched, Matches, Putting
    <3>10. CASE m \notin p.at
      <4>1. j = i /\ q.seen[m] = p.seen[m]
        BY <1>2, <3>1, <3>2, <3>5, <3>7, <3>10
      <4>2. QED
        BY <1>0, <1>2, <3>5, <3>6, <3>10, <4>1 DEF Follows, Fetched, Matches, Putting
    <3>11. QED
      BY <3>8, <3>9, <3>10
  <2>3. CASE ListGone(w)
    <3>1. PICK gone : /\ gone = [n \in Names |-> IF services[n].fk = p.seen[n].id
                                                THEN None ELSE services[n].fk]
                      /\ sync' = [sync EXCEPT ![w].stage = "cleaning", ![w].gone = gone]
      BY <1>types, <1>p, <2>3 DEF ListGone
    <3>2. q.stage = "cleaning" /\ q.todo = p.todo /\ q.seen = p.seen /\ q.gone = gone
      BY <1>0, <1>types, <1>p, <3>1 DEF Progress
    <3>3. p.stage = "feeding" /\ p.todo = {} /\ j = i
      BY <1>p, <1>i, <2>3 DEF ListGone, Between
    <3>4. p.seen[m].id = k.id
      BY <1>0, <3>3 DEF Follows
    <3>5. gone[m] = IF s.fk = k.id THEN None ELSE s.fk
      BY <1>s, <3>1, <3>4
    <3>6. s.fk = None => s = NoRecord
      BY <1>0 DEF Whole
    <3>7. Emptied(j, gone[m], s, k)
      BY <1>2, <3>3, <3>5, <3>6 DEF Emptied
    <3>8. QED
      BY <1>0, <1>2, <3>2, <3>3, <3>7 DEF Follows, Fetched
  <2>4. QED
    BY <2>1, <2>2, <2>3
<1>4. QED
  BY <1>1, <1>3, <1>p, <1>i, <1>s

(* Unless something fails, a deletion that finds its record ends only once   *)
(* the record is gone.                                                      *)
LEMMA DeleteEnds ==
    ASSUME Sound, NEW w \in Syncs, NEW n \in Names, Deletes(w, n), sync'[w].still,
           services[n].fk = sync[w].gone[n],
           item[w][n].pc \in {"empty", "remove"} => item[w][n].rid = services[n].rid,
           item'[w][n] = IdleItem
    PROVE  services'[n] = NoRecord
<1>types. /\ sync \in [Syncs -> Progress] /\ item \in [Syncs -> [Names -> Items]]
          /\ services \in [Names -> Records]
  BY DEF Sound, Typed
<1>idle. IdleItem.pc = "idle"
  BY DEF IdleItem
<1>1. CASE FindGone(w, n)
  <2>1. PICK tries : item' = [item EXCEPT ![w][n] = [IdleItem EXCEPT
                            !.pc = "empty", !.tries = tries, !.rid = services[n].rid]]
    BY <1>1 DEF FindGone
  <2>2. item'[w][n].pc = "empty"
    BY <1>types, <2>1 DEF IdleItem
  <2>3. QED
    BY <1>idle, <2>2
<1>2. CASE RemovePlugins(w, n)
  <2>1. item' = [item EXCEPT ![w][n].pc = "remove"]
    BY <1>2 DEF RemovePlugins
  <2>2. item'[w][n].pc = "remove"
    BY <1>types, <2>1 DEF Items
  <2>3. QED
    BY <1>idle, <2>2
<1>3. CASE RemoveService(w, n)
  BY <1>types, <1>3 DEF RemoveService
<1>4. CASE DeleteFails(w, n)
  <2>1. ~sync'[w].still
    BY <1>types, <1>4 DEF DeleteFails, Progress
  <2>2. QED
    BY <2>1
<1>5. QED
  BY <1>1, <1>2, <1>3, <1>4 DEF Deletes

(* What is still to be deleted is not in Kong.                              *)
LEMMA DeletesFollow ==
    ASSUME Orderly, NEW w \in Syncs, NEW n \in Names, Deletes(w, n), sync'[w].still,
           Compared(sync[w], item[w][n], services[n], kong[n].id, n),
           Follows(sync[w], item[w][n], services[n], plugins[n], kong[n], n)
    PROVE  Follows(sync'[w], item'[w][n], services'[n], plugins'[n], kong'[n], n)
<1>p. PICK p, q : p = sync[w] /\ q = sync'[w]
  OBVIOUS
<1>i. PICK i, j : i = item[w][n] /\ j = item'[w][n]
  OBVIOUS
<1>s. PICK s, t : s = services[n] /\ t = services'[n]
  OBVIOUS
<1>q. PICK ps, qs, k, g : ps = plugins[n] /\ qs = plugins'[n] /\ k = kong[n] /\ g = given[n]
  OBVIOUS
<1>S. Sound /\ Pending
  BY DEF Orderly
<1>0. /\ p \in Progress /\ i \in Items /\ Staged(i, p.stage, p.seen[n].id, g)
      /\ Follows(p, i, s, ps, k, n) /\ Compared(p, i, s, k.id, n)
  BY <1>S, <1>p, <1>i, <1>s, <1>q, ItemKnown DEF Sound, Typed
<1>1. p.stage = "cleaning"
  BY <1>S, <1>p, DeleteShape
<1>2. PICK gone \in Nat, still \in BOOLEAN :
         /\ sync'[w] = [sync[w] EXCEPT !.gone[n] = gone, !.still = still]
         /\ Acts(services[n], item[w][n], sync[w].gone[n], services'[n], item'[w][n], gone)
         /\ \/ sync[w].gone[n] # None
            \/ item[w][n].pc \in Deleting
  BY <1>S, DeleteShape
<1>3. Acts(s, i, p.gone[n], t, j, gone) /\ p.gone[n] # None
  BY <1>S, <1>2, <1>p, <1>i, <1>s DEF Pending
<1>4. /\ q.stage = "cleaning" /\ q.todo = p.todo /\ q.seen = p.seen /\ q.gone[n] = gone
  <2>1. q = [p EXCEPT !.gone[n] = gone, !.still = still] /\ p.gone \in [Names -> Nat]
    BY <1>0, <1>2, <1>p DEF Progress
  <2>2. q.gone = [p.gone EXCEPT ![n] = gone]
    BY <1>0, <2>1 DEF Progress
  <2>3. QED
    BY <1>0, <1>1, <2>1, <2>2 DEF Progress
<1>5. Site[n] \notin p.todo /\ p.gone[n] # p.seen[n].id
  BY <1>0, <1>1, <1>3 DEF Compared
<1>6. p.seen[n] = k /\ Fetched(p, n) /\ i.pc \notin Putting
  <2>1. Fetched(p, n)
    BY <1>1, <1>5 DEF Fetched
  <2>2. i.pc \notin Putting
    BY <1>0, <1>1 DEF Staged
  <2>3. QED
    BY <1>0, <2>1, <2>2 DEF Follows
<1>7. Emptied(i, p.gone[n], s, k)
  BY <1>0, <1>1 DEF Follows
<1>8. p.gone[n] = s.fk /\ k.id = None
  <2>1. p.gone[n] = s.fk
    BY <1>3, <1>7 DEF Emptied
  <2>2. k.id # None => s.fk = k.id
    BY <1>0, <1>6 DEF Follows, RecordOf
  <2>3. QED
    BY <1>5, <1>6, <2>1, <2>2
<1>9. j = IdleItem => t = NoRecord
  <2>1. services[n].fk = sync[w].gone[n]
        /\ (item[w][n].pc \in {"empty", "remove"} => item[w][n].rid = services[n].rid)
    BY <1>7, <1>8, <1>p, <1>i, <1>s DEF Emptied
  <2>2. QED
    BY <1>S, <1>i, <1>s, <2>1, DeleteEnds
<1>10. Emptied(j, gone, t, k) /\ j.pc \notin Putting
  <2>1. CASE Finds(s, i, p.gone[n], t, j, gone)
    BY <1>3, <1>8, <2>1 DEF Finds, Emptied, Putting
  <2>2. CASE Empties(s, i, p.gone[n], t, j, gone)
    BY <1>3, <1>8, <2>2 DEF Empties, Emptied, Putting
  <2>3. CASE Removes(s, i, p.gone[n], t, j, gone)
    BY <1>3, <1>8, <2>3 DEF Removes, Emptied, Putting, IdleItem
  <2>4. CASE Again(s, i, p.gone[n], t, j, gone)
    BY <1>3, <1>8, <1>9, <2>4 DEF Again, Emptied, Putting, IdleItem
  <2>5. QED
    BY <1>3, <2>1, <2>2, <2>3, <2>4 DEF Acts
<1>11. Matches(j, k.id, k.plugins, t, qs)
  BY <1>10 DEF Matches, Putting
<1>12. Follows(q, j, t, qs, k, n)
  BY <1>4, <1>5, <1>6, <1>8, <1>10, <1>11 DEF Follows
<1>13. UNCHANGED kong
  BY <1>S, DeleteFrame
<1>14. QED
  BY <1>12, <1>13, <1>p, <1>i, <1>s, <1>q

(* A put or a deletion leaves the plugins of other services alone.         *)
LEMMA PluginsFrame ==
    ASSUME Sound, NEW w \in Syncs, NEW n \in Names, Puts(w, n) \/ Deletes(w, n),
           NEW m \in Names \ {n}
    PROVE  plugins'[m] = plugins[m]
<1>1. plugins \in [Names -> [Ids -> Nat]]
  BY DEF Sound, Typed
<1>2. CASE Puts(w, n)
  BY <1>1, <1>2 DEF Puts, FindByName, Refer, FindByKey, FindChild, CreateChild, Unchanged,
                    RemoveChildren, Update, Create, PutFails
<1>3. CASE Deletes(w, n)
  BY <1>1, <1>3 DEF Deletes, FindGone, RemovePlugins, RemoveService, DeleteFails
<1>4. QED
  BY <1>2, <1>3

(* A step of a sync that nothing has disturbed follows what it has seen.     *)
LEMMA StepFollows ==
    ASSUME Orderly, NEW w \in Syncs, Turns(w) \/ \E n \in Names : Puts(w, n) \/ Deletes(w, n),
           Active(w)', sync'[w].still, Careful, Undisturbed(w)
    PROVE  /\ sync[w].still /\ sync'[w].alone /\ sync'[w].whole
           /\ \A m \in Names :
                 Follows(sync'[w], item'[w][m], services'[m], plugins'[m], kong'[m], m)
<1>S. Sound /\ sync \in [Syncs -> Progress]
  BY DEF Orderly, Sound, Typed
<1>p. PICK p, q : p = sync[w] /\ q = sync'[w]
  OBVIOUS
<1>0. p \in Progress
  BY <1>S, <1>p
<1>1. CASE Turns(w)
  <2>1. ~FetchFails(w)
    BY <1>S DEF FetchFails, Progress
  <2>2. ~Finish(w) /\ ~Cleaned(w)
    <3>1. SUFFICES ASSUME Finish(w) \/ Cleaned(w) PROVE FALSE
      OBVIOUS
    <3>2. sync'[w] = Ended(sync[w])
      BY <1>S, <3>1 DEF Finish, Cleaned
    <3>3. QED
      BY <1>S, <3>2, EndedTyped DEF Active
  <2>3. FetchServices(w) \/ FetchPlugins(w) \/ ListGone(w)
    BY <1>1, <2>1, <2>2 DEF Turns
  <2>4. q.still = p.still /\ q.alone = p.alone /\ q.whole = p.whole
    <3>1. CASE FetchServices(w)
      <4>1. PICK k, here, seen :
               sync' = [sync EXCEPT ![w].stage = "services", ![w].todo = @ \ {k}, ![w].at = here,
                                    ![w].seen = seen]
        BY <3>1 DEF FetchServices
      <4>2. QED
        BY <1>S, <1>p, <4>1 DEF Progress
    <3>2. CASE FetchPlugins(w)
      <4>1. PICK seen : sync' = [sync EXCEPT ![w].stage = "feeding", ![w].seen = seen]
        BY <3>2 DEF FetchPlugins
      <4>2. QED
        BY <1>S, <1>p, <4>1 DEF Progress
    <3>3. CASE ListGone(w)
      <4>1. PICK gone : sync' = [sync EXCEPT ![w].stage = "cleaning", ![w].gone = gone]
        BY <3>3 DEF ListGone
      <4>2. QED
        BY <1>S, <1>p, <4>1 DEF Progress
    <3>4. QED
      BY <2>3, <3>1, <3>2, <3>3
  <2>5. \A m \in Names : Follows(sync[w], item[w][m], services[m], plugins[m], kong[m], m)
    BY <1>p, <2>4 DEF Undisturbed
  <2>6. \A m \in Names : Follows(sync'[w], item'[w][m], services'[m], plugins'[m], kong'[m], m)
    BY <1>S, <2>3, <2>5, TurnsFollow
  <2>7. QED
    BY <1>p, <2>4, <2>6 DEF Undisturbed
<1>2. ASSUME NEW n \in Names, Puts(w, n)
      PROVE  /\ sync[w].still /\ sync'[w].alone /\ sync'[w].whole
             /\ \A m \in Names :
                   Follows(sync'[w], item'[w][m], services'[m], plugins'[m], kong'[m], m)
  <2>1. /\ sync'[w] = sync[w] \/ sync'[w] = [sync[w] EXCEPT !.still = FALSE]
        /\ \A m \in Names \ {n} : item'[w][m] = item[w][m] /\ services'[m] = services[m]
        /\ UNCHANGED kong
    BY <1>S, <1>2, PutShape
  <2>2. q = p
    BY <1>0, <1>p, <2>1 DEF Progress
  <2>3. ~PutFails(w, n)
    BY <1>S DEF PutFails, Progress
  <2>4. p.alone /\ p.whole /\ p.still
        /\ \A m \in Names : Follows(sync[w], item[w][m], services[m], plugins[m], kong[m], m)
    BY <1>p, <2>2 DEF Undisturbed
  <2>5. Follows(sync'[w], item'[w][n], services'[n], plugins'[n], kong'[n], n)
    BY <1>S, <1>2, <2>3, <2>4, FindsFollow, ChildrenFollow, WritesFollow DEF Puts
  <2>6. ASSUME NEW m \in Names, m # n
        PROVE  Follows(sync'[w], item'[w][m], services'[m], plugins'[m], kong'[m], m)
    <3>1. plugins'[m] = plugins[m]
      BY <1>S, <1>2, <2>6, PluginsFrame
    <3>2. QED
      BY <1>p, <2>1, <2>2, <2>4, <2>6, <3>1
  <2>7. QED
    BY <1>p, <2>2, <2>4, <2>5, <2>6
<1>3. ASSUME NEW n \in Names, Deletes(w, n)
      PROVE  /\ sync[w].still /\ sync'[w].alone /\ sync'[w].whole
             /\ \A m \in Names :
                   Follows(sync'[w], item'[w][m], services'[m], plugins'[m], kong'[m], m)
  <2>1. \A m \in Names \ {n} : item'[w][m] = item[w][m] /\ services'[m] = services[m]
    BY <1>S, <1>3, DeleteFrame
  <2>k. UNCHANGED kong
    BY <1>S, <1>3, DeleteFrame
  <2>2. PICK gone \in Nat, still \in BOOLEAN :
           /\ sync'[w] = [sync[w] EXCEPT !.gone[n] = gone, !.still = still]
           /\ Acts(services[n], item[w][n], sync[w].gone[n], services'[n], item'[w][n], gone)
           /\ \/ sync[w].gone[n] # None
              \/ item[w][n].pc \in Deleting
    BY <1>S, <1>3, DeleteShape
  <2>3. p.still
    <3>1. CASE DeleteFails(w, n)
      BY <1>S, <3>1 DEF DeleteFails, Progress
    <3>2. CASE FindGone(w, n) \/ RemovePlugins(w, n) \/ RemoveService(w, n)
      <4>1. sync' = sync \/ sync' = [sync EXCEPT ![w].gone[n] = None]
        BY <3>2 DEF FindGone, RemovePlugins, RemoveService, DeleteAgain, Forget
      <4>2. QED
        BY <1>S, <1>p, <4>1 DEF Progress
    <3>3. QED
      BY <1>3, <3>1, <3>2 DEF Deletes
  <2>4. p.alone /\ p.whole
        /\ \A m \in Names : Follows(sync[w], item[w][m], services[m], plugins[m], kong[m], m)
    BY <1>p, <2>3 DEF Undisturbed
  <2>5. sync[w].stage = "cleaning"
    BY <1>S, <1>3, DeleteShape
  <2>6. Compared(sync[w], item[w][n], services[n], kong[n].id, n)
    BY <2>5 DEF Careful, Active
  <2>7. Follows(sync'[w], item'[w][n], services'[n], plugins'[n], kong'[n], n)
    BY <1>3, <2>4, <2>6, DeletesFollow
  <2>8. /\ q.stage = p.stage /\ q.todo = p.todo /\ q.at = p.at /\ q.seen = p.seen
        /\ q.alone = p.alone /\ q.whole = p.whole
        /\ \A m \in Names \ {n} : q.gone[m] = p.gone[m]
    <3>1. q = [p EXCEPT !.gone[n] = gone, !.still = still] /\ p.gone \in [Names -> Nat]
      BY <1>0, <1>p, <2>2 DEF Progress
    <3>2. q.gone = [p.gone EXCEPT ![n] = gone]
      BY <1>0, <3>1 DEF Progress
    <3>3. QED
      BY <1>0, <3>1, <3>2 DEF Progress
  <2>9. ASSUME NEW m \in Names, m # n
        PROVE  Follows(sync'[w], item'[w][m], services'[m], plugins'[m], kong'[m], m)
    <3>1. plugins'[m] = plugins[m]
      BY <1>S, <1>3, <2>9, PluginsFrame
    <3>i. PICK i, s, ps, k : /\ i = item[w][m] /\ s = services[m]
                             /\ ps = plugins[m] /\ k = kong[m]
      OBVIOUS
    <3>2. Follows(p, i, s, ps, k, m)
      BY <1>p, <2>4, <3>i
    <3>3. Follows(q, i, s, ps, k, m)
      BY <2>8, <2>9, <3>2 DEF Follows, Fetched
    <3>4. QED
      BY <1>p, <2>1, <2>k, <2>9, <3>1, <3>3, <3>i
  <2>10. QED
    BY <1>p, <2>3, <2>4, <2>7, <2>8, <2>9
<1>4. QED
  BY <1>1, <1>2, <1>3

(* A sync that begins beside another is disturbed, and disturbs it.          *)
LEMMA BeginFollows ==
    ASSUME Sound, NEW w \in Syncs, NEW cleans \in BOOLEAN, Begin(w, cleans),
           NEW v \in Syncs, Active(v)'
    PROVE  Undisturbed(v)'
<1>0. sync \in [Syncs -> Progress] /\ UNCHANGED <<kong, services, plugins, item>>
  BY DEF Sound, Typed, Begin
<1>1. CASE v = w
  <2>i. PICK idle : idle = IdleSync
    OBVIOUS
  <2>1. PICK q, none : /\ q = sync'[w]
                       /\ q = [idle EXCEPT !.stage = "feeding", !.cleans = cleans, !.todo = Kongs,
                                           !.alone = none, !.still = none]
    BY <2>i DEF Begin
  <2>2. idle \in Progress /\ idle.whole = TRUE /\ \A n \in Names : idle.seen[n].id = None
    BY <2>i, IdleTyped DEF IdleSync
  <2>3. /\ q.stage = "feeding" /\ q.todo = Kongs /\ q.seen = idle.seen
        /\ q.alone = none /\ q.still = none /\ q.whole = TRUE
    BY <2>1, <2>2 DEF Progress
  <2>4. ASSUME NEW n \in Names
        PROVE  Follows(q, item[w][n], services[n], plugins[n], kong[n], n)
    <3>1. sync[w].stage \notin {"feeding", "cleaning"}
      BY DEF Begin, Active
    <3>2. item[w][n] = IdleItem
      BY <3>1, NoItems
    <3>3. PICK i : i = item[w][n]
      OBVIOUS
    <3>4. i.pc = "idle" /\ i.ids = {}
      BY <3>2, <3>3 DEF IdleItem
    <3>5. Site[n] \in Kongs
      BY SyncAssumption
    <3>6. Follows(q, i, services[n], plugins[n], kong[n], n)
      BY <2>2, <2>3, <3>4, <3>5 DEF Follows, Fetched, Matches
    <3>7. QED
      BY <3>3, <3>6
  <2>5. QED
    BY <1>0, <1>1, <2>1, <2>3, <2>4 DEF Undisturbed
<1>2. CASE v # w
  <2>1. sync'[v] = IF Active(v) THEN [sync[v] EXCEPT !.alone = FALSE, !.still = FALSE] ELSE IdleSync
    BY <1>2 DEF Begin
  <2>2. Active(v)
    BY <2>1, IdleTyped DEF Active
  <2>3. ~sync'[v].still
    BY <1>0, <2>1, <2>2 DEF Progress
  <2>4. QED
    BY <2>3 DEF Undisturbed
<1>3. QED
  BY <1>1, <1>2

(* A sync that is remembered as done was not disturbed.                     *)
LEMMA EndedDone ==
    ASSUME NEW p \in Progress, Ended(p).stage = "done"
    PROVE  p.still /\ Ended(p).cleans = p.cleans
<1>1. p.still
  BY IdleTyped DEF Ended
<1>2. PICK idle : idle = IdleSync
  OBVIOUS
<1>3. idle \in Progress
  BY <1>2, IdleTyped
<1>4. Ended(p) = [idle EXCEPT !.stage = "done", !.cleans = p.cleans]
  BY <1>1, <1>2 DEF Ended
<1>5. QED
  BY <1>1, <1>3, <1>4 DEF Progress

(* A sync that nothing has disturbed ends with the Portal put right.         *)
LEMMA EndMirrors ==
    ASSUME Orderly, Careful, NEW w \in Syncs, Finish(w) \/ Cleaned(w),
           sync'[w].stage = "done", Undisturbed(w)
    PROVE  Mirrors(w)'
<1>S. Sound /\ sync \in [Syncs -> Progress]
  BY DEF Orderly, Sound, Typed
<1>p. PICK p, q : p = sync[w] /\ q = sync'[w]
  OBVIOUS
<1>0. /\ p \in Progress /\ q = Ended(p) /\ sync' = [sync EXCEPT ![w] = q]
      /\ p.stage \in {"feeding", "cleaning"} /\ Active(w)
      /\ UNCHANGED <<kong, services, plugins, item>>
  BY <1>S, <1>p DEF Finish, Cleaned, Between, Active
<1>1. p.still /\ q.cleans = p.cleans
  BY <1>0, <1>p, EndedDone
<1>2. p.alone /\ p.whole
      /\ \A n \in Names : Follows(p, item[w][n], services[n], plugins[n], kong[n], n)
  BY <1>1, <1>p DEF Undisturbed
<1>3. \A v \in Syncs : ~Active(v)'
  <2> SUFFICES ASSUME NEW v \in Syncs, Active(v)' PROVE FALSE
    OBVIOUS
  <2>1. v # w
    BY DEF Active
  <2>2. Active(v)
    BY <1>S, <1>0, <2>1 DEF Active
  <2>3. Lone(w)
    BY <1>0 DEF Careful
  <2>4. QED
    BY <1>2, <1>p, <2>1, <2>2, <2>3 DEF Lone
<1>4. ASSUME NEW n \in Names
      PROVE  IF kong[n].id # None THEN RecordOf(kong[n], services[n], plugins[n])
             ELSE q.cleans => services[n] = NoRecord
  <2>i. PICK i, s, ps, k : i = item[w][n] /\ s = services[n] /\ ps = plugins[n] /\ k = kong[n]
    OBVIOUS
  <2>1. Follows(p, i, s, ps, k, n) /\ Staged(i, p.stage, p.seen[n].id, given[n])
    BY <1>S, <1>2, <1>p, <2>i DEF Sound
  <2>2. p.todo = {} /\ i.pc \notin Putting
    <3>1. CASE Finish(w)
      BY <1>p, <2>i, <3>1 DEF Finish, Between, Resting, IdleItem, Putting
    <3>2. CASE Cleaned(w)
      <4>1. p.stage = "cleaning"
        BY <1>p, <3>2 DEF Cleaned
      <4>2. Compared(p, i, s, k.id, n)
        BY <1>0, <1>p, <2>i DEF Careful
      <4>3. QED
        BY <2>1, <4>1, <4>2 DEF Compared, Staged
    <3>3. QED
      BY <3>1, <3>2
  <2>3. Fetched(p, n)
    BY <1>0, <2>2 DEF Fetched
  <2>4. k.id # None => RecordOf(k, s, ps)
    BY <2>1, <2>2, <2>3 DEF Follows
  <2>5. ASSUME k.id = None, p.cleans PROVE s = NoRecord
    <3>1. CASE Finish(w)
      BY <1>2, <1>p, <2>5, <3>1 DEF Finish, Cleans
    <3>2. CASE Cleaned(w)
      <4>1. p.stage = "cleaning" /\ p.gone[n] = None
        BY <1>p, <3>2, IdleTyped DEF Cleaned
      <4>2. QED
        BY <2>1, <2>5, <4>1 DEF Follows, Emptied
    <3>3. QED
      BY <3>1, <3>2
  <2>6. QED
    BY <1>1, <2>4, <2>5, <2>i
<1>5. QED
  BY <1>0, <1>3, <1>4, <1>p DEF Mirrors

(* A sync that is done is the only one, until another begins.                *)
LEMMA StepIsFaithful ==
    ASSUME Orderly, Careful, Faithful, NEW w \in Syncs,
           Turns(w) \/ \E n \in Names : Puts(w, n) \/ Deletes(w, n)
    PROVE  Faithful'
<1>S. Sound /\ sync \in [Syncs -> Progress]
  BY DEF Orderly, Sound, Typed
<1>1. Active(w) /\ Undisturbed(w) /\ Lone(w)
  BY <1>S, ActsActive DEF Faithful, Careful
<1>2. ASSUME NEW v \in Syncs, v # w
      PROVE  (Active(v)' => Undisturbed(v)') /\ Mirrors(v)'
  <2>1. sync'[v] = sync[v]
    BY <1>S, <1>2, OthersKept
  <2>2. ~sync'[v].still \/ ~Active(v)'
    <3> SUFFICES ASSUME sync'[v].still, Active(v)' PROVE FALSE
      OBVIOUS
    <3>1. Active(v) /\ sync[v].still
      BY <2>1 DEF Active
    <3>2. sync[v].alone /\ Lone(v)
      BY <3>1 DEF Faithful, Undisturbed, Careful
    <3>3. QED
      BY <1>1, <1>2, <3>2 DEF Lone
  <2>3. sync'[v].stage # "done"
    BY <1>1, <2>1 DEF Faithful, Mirrors
  <2>4. QED
    BY <2>2, <2>3 DEF Undisturbed, Mirrors
<1>3. Active(w)' => Undisturbed(w)'
  <2> SUFFICES ASSUME Active(w)', sync'[w].still PROVE Undisturbed(w)'
    BY DEF Undisturbed
  <2>1. /\ sync'[w].alone /\ sync'[w].whole
        /\ \A m \in Names :
              Follows(sync'[w], item'[w][m], services'[m], plugins'[m], kong'[m], m)
    BY <1>1, StepFollows
  <2>2. QED
    BY <2>1 DEF Undisturbed
<1>4. Mirrors(w)'
  <2> SUFFICES ASSUME sync'[w].stage = "done" PROVE Mirrors(w)'
    BY DEF Mirrors
  <2>1. ASSUME NEW n \in Names, Puts(w, n) PROVE FALSE
    <3>1. sync[w].stage = "feeding"
          /\ (sync'[w] = sync[w] \/ sync'[w] = [sync[w] EXCEPT !.still = FALSE])
      BY <1>S, <2>1, PutShape
    <3>2. QED
      BY <1>S, <3>1 DEF Progress
  <2>2. ASSUME NEW n \in Names, Deletes(w, n) PROVE FALSE
    <3>1. PICK gone \in Nat, still \in BOOLEAN :
             /\ sync'[w] = [sync[w] EXCEPT !.gone[n] = gone, !.still = still]
             /\ Acts(services[n], item[w][n], sync[w].gone[n], services'[n], item'[w][n], gone)
             /\ \/ sync[w].gone[n] # None
                \/ item[w][n].pc \in Deleting
      BY <1>S, <2>2, DeleteShape
    <3>2. sync[w].stage = "cleaning"
      BY <1>S, <2>2, DeleteShape
    <3>3. QED
      BY <1>S, <3>1, <3>2 DEF Progress
  <2>3. Turns(w)
    BY <2>1, <2>2
  <2>4. ~FetchServices(w)
    <3> SUFFICES ASSUME FetchServices(w) PROVE FALSE
      OBVIOUS
    <3>1. PICK k, here, seen :
             sync' = [sync EXCEPT ![w].stage = "services", ![w].todo = @ \ {k}, ![w].at = here,
                                  ![w].seen = seen]
      BY DEF FetchServices
    <3>2. QED
      BY <1>S, <3>1 DEF Progress
  <2>5. ~FetchPlugins(w) /\ ~FetchFails(w) /\ ~ListGone(w)
    BY <1>S DEF FetchPlugins, FetchFails, ListGone, Progress
  <2>6. Finish(w) \/ Cleaned(w)
    BY <2>3, <2>4, <2>5 DEF Turns
  <2>7. QED
    BY <1>1, <2>6, EndMirrors
<1>5. QED
  BY <1>2, <1>3, <1>4 DEF Faithful

(* No step leaves a sync undisturbed that has not followed all it has      *)
(* seen.                                                                   *)
LEMMA FaithfulKept ==
    ASSUME Orderly, Careful, Faithful, [Next]_vars
    PROVE  Faithful'
<1>S. Sound /\ sync \in [Syncs -> Progress]
  BY DEF Orderly, Sound, Typed
<1>1. ASSUME NEW w \in Syncs, NEW cleans \in BOOLEAN, Begin(w, cleans) PROVE Faithful'
  <2> SUFFICES ASSUME NEW v \in Syncs PROVE (Active(v)' => Undisturbed(v)') /\ Mirrors(v)'
    BY DEF Faithful
  <2>1. Active(v)' => Undisturbed(v)'
    BY <1>S, <1>1, BeginFollows
  <2>2. sync'[v].stage # "done"
    <3>1. CASE v = w
      <4>1. PICK idle, none : /\ idle = IdleSync
                        /\ sync'[w] = [idle EXCEPT !.stage = "feeding", !.cleans = cleans,
                                             !.todo = Kongs, !.alone = none, !.still = none]
        BY <1>1 DEF Begin
      <4>2. QED
        BY <3>1, <4>1, IdleTyped DEF Progress
    <3>2. CASE v # w
      <4>1. sync'[v] = IF Active(v) THEN [sync[v] EXCEPT !.alone = FALSE, !.still = FALSE]
                                    ELSE IdleSync
        BY <1>1, <3>2 DEF Begin
      <4>2. QED
        BY <1>S, <4>1, IdleTyped, DisturbedTyped DEF Active
    <3>3. QED
      BY <3>1, <3>2
  <2>3. QED
    BY <2>1, <2>2 DEF Mirrors
<1>2. ASSUME NEW w \in Syncs, Turns(w) \/ \E n \in Names : Puts(w, n) \/ Deletes(w, n)
      PROVE  Faithful'
  BY <1>2, StepIsFaithful
<1>3. ASSUME NEW n \in Names, Publishes(n) PROVE Faithful'
  <2> SUFFICES ASSUME NEW v \in Syncs PROVE (Active(v)' => Undisturbed(v)') /\ Mirrors(v)'
    BY DEF Faithful
  <2>1. sync'[v] = IF Active(v) THEN [sync[v] EXCEPT !.still = FALSE] ELSE IdleSync
    BY <1>3 DEF Publishes, PublishNew, PublishGone, PublishPlugin, UnpublishPlugin, Publish, Disturb
  <2>2. CASE Active(v)
    <3>1. sync'[v].still = FALSE /\ sync'[v].stage = sync[v].stage
      BY <1>S, <2>1, <2>2 DEF Progress
    <3>2. QED
      BY <2>2, <3>1 DEF Undisturbed, Mirrors, Active
  <2>3. CASE ~Active(v)
    <3>1. sync'[v].stage = "idle"
      BY <2>1, <2>3, IdleTyped
    <3>2. QED
      BY <3>1 DEF Active, Mirrors
  <2>4. QED
    BY <2>2, <2>3
<1>4. CASE Restart
  <2>1. \A v \in Syncs : sync'[v].stage = "idle"
    BY <1>4, IdleTyped DEF Restart
  <2>2. QED
    BY <2>1 DEF Faithful, Active, Mirrors
<1>5. CASE UNCHANGED vars
  BY <1>5 DEF vars, Faithful, Undisturbed, Mirrors, Active
<1>6. QED
  BY <1>1, <1>2, <1>3, <1>4, <1>5, StepKinds

(* Every state is faithful.                                                *)
LEMMA AlwaysFaithful == Spec => [](Orderly /\ Careful /\ Faithful)
<1>1. Init => Faithful
  BY IdleTyped DEF Init, Faithful, Active, Mirrors
<1>2. Orderly /\ Careful /\ Faithful /\ [Next]_vars => Faithful'
  BY FaithfulKept
<1>3. QED
  BY <1>1, <1>2, AlwaysCareful, PTL DEF Spec

(* However badly earlier syncs, failures and publications had left the       *)
(* records, a sync that runs undisturbed ends with a record for every        *)
(* service of Kong, with its plugins, and, if it cleans, with no other       *)
(* (scopedSyncByNamespace).                                                 *)
THEOREM MirrorsKong == Spec => []SyncedIsMirror
<1>1. Faithful => SyncedIsMirror
  BY DEF Faithful, Mirrors, RecordOf, SyncedIsMirror, Recorded
<1>2. QED
  BY <1>1, AlwaysFaithful, PTL

(* A sync that runs undisturbed removes no record of a service that Kong     *)
(* has, not even one that was made again under another id.                  *)
THEOREM KeepsRemade == Spec => RemadeKeepsRecord
<1>1. ASSUME Orderly, Careful, Faithful, [Next]_vars, NEW n \in Names,
             Removed(n), NEW v \in Syncs, Active(v), sync[v].still
      PROVE  kong[n].id = None
  <2>1. PICK w \in Syncs :
           /\ sync[w].stage = "cleaning" /\ sync[w].gone[n] # None
           /\ item[w][n].pc = "remove" /\ services[n].rid = item[w][n].rid
           /\ services[n].fk # None
    BY <1>1, RemovedByDeletion
  <2>i. PICK i, p, s, k : i = item[w][n] /\ p = sync[w] /\ s = services[n] /\ k = kong[n]
    OBVIOUS
  <2>2. v = w
    <3>1. Active(w)
      BY <2>1 DEF Active
    <3>2. sync[v].alone /\ Lone(v)
      BY <1>1 DEF Faithful, Undisturbed, Careful
    <3>3. QED
      BY <3>1, <3>2 DEF Lone
  <2>3. /\ Compared(p, i, s, k.id, n) /\ Follows(p, i, s, plugins[n], k, n)
        /\ Staged(i, p.stage, p.seen[n].id, given[n])
    BY <1>1, <2>2, <2>i DEF Careful, Faithful, Undisturbed, Orderly, Sound
  <2>4. p.todo = {} /\ p.gone[n] # p.seen[n].id
    BY <2>1, <2>3, <2>i DEF Compared
  <2>5. Fetched(p, n) /\ i.pc \notin Putting
    BY <2>1, <2>4, <2>i DEF Fetched, Putting
  <2>6. p.gone[n] = s.fk /\ p.seen[n].id = k.id
    BY <2>1, <2>3, <2>4, <2>i DEF Follows, Emptied
  <2>7. k.id # None => s.fk = k.id
    BY <2>3, <2>5 DEF Follows, RecordOf
  <2>8. QED
    BY <2>4, <2>6, <2>7, <2>i
<1>2. Orderly /\ Careful /\ Faithful /\ [Next]_vars =>
          [\A n \in Names : Removed(n) /\ (\E w \in Syncs : Active(w) /\ sync[w].still)
               => kong[n].id = None]_vars
  BY <1>1
<1>3. QED
  BY <1>2, AlwaysFaithful, PTL DEF Spec, RemadeKeepsRecord
=============================================================================
