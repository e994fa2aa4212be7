---------------------------- MODULE GatewaySync ----------------------------
(***************************************************************************)
(* What the Portal records of a namespace's services and their plugins,    *)
(* and the feeder that copies them from the Kongs.  A sync takes the Kongs  *)
(* one after the other: it fetches the services, then the plugins, and puts *)
(* each service to the Portal, several at a time.  A sync of the namespace  *)
(* then removes the records of services it has not seen; the periodic sync  *)
(* removes none.  Nothing keeps syncs from overlapping.                     *)
(*                                                                         *)
(* Publications are external: a service is known to Kong by its name and    *)
(* keeps its id until it is deleted, one that is made again has a new id.   *)
(* Ids are numbered apart for each name.  Routes repeat services, and       *)
(* consumers are the subject of Credential; both are left out.              *)
(***************************************************************************)
EXTENDS Naturals, FiniteSets

CONSTANTS
    Names,       \* names of services
    Kongs,       \* the Kongs whose URLs the feeder is given
    Site,        \* Site[n]: the Kong that service n is published to
    Syncs,       \* syncs that may run at one time
    Periodic,    \* those of them that the schedule may begin
    Attempts,    \* attempts to put one service
    MaxIds,      \* bound on the ids Kong gives a service and its plugins
    MaxPublications,  \* bound on the publications
    MaxFaults    \* bound on failed calls and restarts

ASSUME SyncAssumption ==
    /\ Site \in [Names -> Kongs] /\ IsFiniteSet(Syncs) /\ Periodic \subseteq Syncs
    /\ Attempts \in Nat \ {0} /\ MaxIds \in Nat \ {0, 1}
    /\ MaxPublications \in Nat /\ MaxFaults \in Nat

VARIABLES
    kong,        \* kong[n]: the service Kong has under this name
    given,       \* given[n]: the number of ids given so far
    services,    \* services[n]: the GatewayService with this name
    plugins,     \* plugins[n][p]: the record of the GatewayPlugin with id p
    sync,        \* sync[w]: the progress of a sync
    item,        \* item[w][n]: the progress of putting a service
    left         \* how many publications and faults are left

vars == <<kong, given, services, plugins, sync, item, left>>

Ids == 1..MaxIds

(* The record or the id of nothing. *)
None == 0

NoService == [id |-> None, plugins |-> {}]
NoRecord == [rid |-> None, fk |-> None, plugins |-> {}]

IdleItem == [pc |-> "idle", tries |-> 0, rid |-> None, was |-> {},
             todo |-> {}, ids |-> {}, child |-> None]
Item(tries) == [IdleItem EXCEPT !.pc = "name", !.tries = tries]

NoneGone == [n \in Names |-> None]

IdleSync == [stage |-> "idle", cleans |-> FALSE, todo |-> {}, at |-> {},
             seen |-> [n \in Names |-> NoService], whole |-> TRUE,
             gone |-> NoneGone, alone |-> TRUE, still |-> TRUE]

Active(w) == sync[w].stage \notin {"idle", "done"}

(* A record that was read is found again by its reference, which is not used *)
(* for another record while anybody holds it.                               *)
RecordsInUse(n) == {services[n].rid} \cup {item[w][n].rid : w \in Syncs}

PluginsInUse(n) ==
    {plugins[n][p] : p \in Ids}
      \cup UNION {item[w][n].ids \cup item[w][n].was : w \in Syncs}

Unused(used) == CHOOSE r \in 1..Cardinality(used) + 1 : r \notin used

-----------------------------------------------------------------------------
(* Steps of a sync                                                         *)

Resting(w) == \A n \in Names : item[w][n] = IdleItem

(* Before the first Kong, after the last, and between two of them.           *)
Between(w) == sync[w].stage = "feeding" /\ Resting(w)

(* History: a sync is still as long as nothing else happens to Kong or to    *)
(* any sync, and alone as long as no other sync runs.                       *)
Disturb ==
    sync' = [w \in Syncs |-> IF Active(w) THEN [sync[w] EXCEPT !.still = FALSE] ELSE IdleSync]

Fault == left' = [left EXCEPT !.faults = @ - 1]
MayFail == left.faults > 0

(* A sync that has ended is remembered only if nothing disturbed it.         *)
Ended(s) == IF s.still THEN [IdleSync EXCEPT !.stage = "done", !.cleans = s.cleans]
                       ELSE IdleSync

Begin(w, cleans) ==
    /\ ~Active(w)
    /\ LET others == {v \in Syncs \ {w} : Active(v)} IN
       sync' = [v \in Syncs |->
                  IF v = w
                  THEN [IdleSync EXCEPT !.stage = "feeding", !.cleans = cleans, !.todo = Kongs,
                                        !.alone = others = {}, !.still = others = {}]
                  ELSE IF v \in others
                  THEN [sync[v] EXCEPT !.alone = FALSE, !.still = FALSE]
                  ELSE IdleSync]
    /\ UNCHANGED <<kong, given, services, plugins, item, left>>

(* forceSync, which a publication asks for once: its post may be lost, and   *)
(* the endpoint asks for no reason.                                         *)
BeginNamespace(w) == Begin(w, TRUE)

BeginPeriodic(w) == w \in Periodic /\ Begin(w, FALSE)

FetchServices(w) ==
    /\ Between(w)
    /\ \E k \in sync[w].todo :
          LET here == {n \in Names : Site[n] = k} IN
          sync' = [sync EXCEPT
                     ![w].stage = "services", ![w].todo = @ \ {k}, ![w].at = here,
                     ![w].seen = [n \in Names |->
                         IF n \in here THEN [id |-> kong[n].id, plugins |-> {}] ELSE @[n]]]
    /\ UNCHANGED <<kong, given, services, plugins, item, left>>

(* The plugins are fetched after the services, and matched by service id.    *)
FetchPlugins(w) ==
    /\ sync[w].stage = "services"
    /\ LET seen == sync[w].seen
           found == {n \in sync[w].at : seen[n].id # None}
       IN /\ sync' = [sync EXCEPT ![w].stage = "feeding",
                        ![w].seen = [n \in Names |->
                            IF n \in found /\ seen[n].id = kong[n].id THEN kong[n] ELSE @[n]]]
          /\ item' = [item EXCEPT ![w] = [n \in Names |->
                         IF n \in found THEN Item(Attempts) ELSE IdleItem]]
    /\ UNCHANGED <<kong, given, services, plugins, left>>

(* Any fetch that fails: nothing of this Kong is sent to the Portal.         *)
FetchFails(w) ==
    /\ sync[w].stage = "services" /\ MayFail /\ Fault
    /\ sync' = [sync EXCEPT
                  ![w].stage = "feeding", ![w].whole = FALSE, ![w].still = FALSE,
                  ![w].seen = [n \in Names |-> IF n \in sync[w].at THEN NoService ELSE @[n]]]
    /\ UNCHANGED <<kong, given, services, plugins, item>>

(* Fault: the records are removed though a Kong was not fetched. *)
CleansAnyway(w) == sync[w].cleans

(* The ids are complete only if every Kong was fetched.                      *)
Cleans(w) == sync[w].cleans /\ sync[w].whole

Finish(w) ==
    /\ Between(w) /\ sync[w].todo = {} /\ ~Cleans(w)
    /\ sync' = [sync EXCEPT ![w] = Ended(@)]
    /\ UNCHANGED <<kong, given, services, plugins, item, left>>

(* The records of the namespace whose ids are not among those seen.          *)
ListGone(w) ==
    /\ Between(w) /\ sync[w].todo = {} /\ Cleans(w)
    /\ sync' = [sync EXCEPT ![w].stage = "cleaning",
                  ![w].gone = [n \in Names |-> IF services[n].fk = sync[w].seen[n].id
                                                THEN None ELSE services[n].fk]]
    /\ UNCHANGED <<kong, given, services, plugins, item, left>>

Deletion(tries) == [IdleItem EXCEPT !.pc = "find", !.tries = tries]

(* fireAndForgetDeletion: the service is deleted again, or given up.         *)
Forget(w, n) ==
    /\ item' = [item EXCEPT ![w][n] = IdleItem]
    /\ sync' = [sync EXCEPT ![w].gone[n] = None]

DeleteAgain(w, n, tries) ==
    IF tries > 1
    THEN item' = [item EXCEPT ![w][n] = Deletion(tries - 1)] /\ UNCHANGED sync
    ELSE Forget(w, n)

(* One after the other, deleteRecord finds the record by its id; for one     *)
(* that is not there any more it answers with an error.                     *)
FindGone(w, n) ==
    /\ sync[w].gone[n] # None
    /\ \/ sync[w].stage = "cleaning" /\ Resting(w)
       \/ item[w][n].pc = "find"
    /\ LET tries == IF Resting(w) THEN Attempts ELSE item[w][n].tries IN
       IF services[n].fk = sync[w].gone[n]
       THEN /\ item' = [item EXCEPT ![w][n] = [IdleItem EXCEPT
                            !.pc = "empty", !.tries = tries, !.rid = services[n].rid]]
            /\ UNCHANGED sync
       ELSE DeleteAgain(w, n, tries)
    /\ UNCHANGED <<kong, given, services, plugins, left>>

Without(n, ids) == [p \in Ids |-> IF plugins[n][p] \in ids THEN None ELSE plugins[n][p]]

(* beforeDelete removes the record's plugins; without a record it fails.     *)
RemovePlugins(w, n) ==
    /\ item[w][n].pc = "empty"
    /\ IF services[n].rid = item[w][n].rid
       THEN /\ plugins' = [plugins EXCEPT ![n] = Without(n, services[n].plugins)]
            /\ services' = [services EXCEPT ![n].plugins = {}]
            /\ item' = [item EXCEPT ![w][n].pc = "remove"]
            /\ UNCHANGED sync
       ELSE DeleteAgain(w, n, item[w][n].tries) /\ UNCHANGED <<services, plugins>>
    /\ UNCHANGED <<kong, given, left>>

RemoveService(w, n) ==
    /\ item[w][n].pc = "remove"
    /\ IF services[n].rid = item[w][n].rid
       THEN services' = [services EXCEPT ![n] = NoRecord] /\ Forget(w, n)
       ELSE DeleteAgain(w, n, item[w][n].tries) /\ UNCHANGED services
    /\ UNCHANGED <<kong, given, plugins, left>>

Cleaned(w) ==
    /\ sync[w].stage = "cleaning" /\ sync[w].gone = NoneGone
    /\ sync' = [sync EXCEPT ![w] = Ended(@)]
    /\ UNCHANGED <<kong, given, services, plugins, item, left>>

-----------------------------------------------------------------------------
(* Putting one service                                                     *)

Step(w, n, i) == item' = [item EXCEPT ![w][n] = i]
Doing(w, n, pc) == item[w][n].pc = pc
KeyOf(w, n) == sync[w].seen[n].id

(* fireAndForget: the service is put again, or given up.                     *)
Refused(i) == IF i.tries > 1 THEN Item(i.tries - 1) ELSE IdleItem

(* Fault: the record is not looked up by the service's name. *)
FindByNameNever(w, n) ==
    /\ Doing(w, n, "name")
    /\ Step(w, n, [item[w][n] EXCEPT !.pc = "key"])
    /\ UNCHANGED <<kong, given, services, plugins, sync, left>>

(* handleNameChange: a record of this name that has another id is given the  *)
(* id of the service that is put.                                           *)
FindByName(w, n) ==
    /\ Doing(w, n, "name")
    /\ Step(w, n, IF services[n].fk \in {None, KeyOf(w, n)}
                  THEN [item[w][n] EXCEPT !.pc = "key"]
                  ELSE [item[w][n] EXCEPT !.pc = "refer", !.rid = services[n].rid])
    /\ UNCHANGED <<kong, given, services, plugins, sync, left>>

Refer(w, n) ==
    /\ Doing(w, n, "refer")
    /\ services' = IF services[n].rid = item[w][n].rid
                   THEN [services EXCEPT ![n].fk = KeyOf(w, n)] ELSE services
    /\ Step(w, n, [item[w][n] EXCEPT !.pc = "key", !.rid = None])
    /\ UNCHANGED <<kong, given, plugins, sync, left>>

FindByKey(w, n) ==
    /\ Doing(w, n, "key")
    /\ LET found == services[n].fk = KeyOf(w, n) IN
       Step(w, n, [item[w][n] EXCEPT
                     !.pc = "children", !.todo = sync[w].seen[n].plugins,
                     !.rid = IF found THEN services[n].rid ELSE None,
                     !.was = IF found THEN services[n].plugins ELSE {}])
    /\ UNCHANGED <<kong, given, services, plugins, sync, left>>

(* Fault: a plugin's record is created without a look for it. *)
FindChildNew(w, n) ==
    /\ Doing(w, n, "children")
    /\ \E p \in item[w][n].todo :
          Step(w, n, [item[w][n] EXCEPT !.pc = "child", !.child = p])
    /\ UNCHANGED <<kong, given, services, plugins, sync, left>>

(* The plugins are put first, each as a record of its own.                   *)
FindChild(w, n) ==
    /\ Doing(w, n, "children")
    /\ \E p \in item[w][n].todo :
          Step(w, n, IF plugins[n][p] = None
                     THEN [item[w][n] EXCEPT !.pc = "child", !.child = p]
                     ELSE [item[w][n] EXCEPT !.todo = @ \ {p}, !.ids = @ \cup {plugins[n][p]}])
    /\ UNCHANGED <<kong, given, services, plugins, sync, left>>

(* The id of a plugin is unique among the records.                           *)
CreateChild(w, n) ==
    /\ Doing(w, n, "child")
    /\ LET p == item[w][n].child
           new == Unused(PluginsInUse(n))
       IN IF plugins[n][p] = None
          THEN /\ plugins' = [plugins EXCEPT ![n][p] = new]
               /\ Step(w, n, [item[w][n] EXCEPT !.pc = "children", !.todo = @ \ {p},
                                                !.ids = @ \cup {new}, !.child = None])
          ELSE Step(w, n, Refused(item[w][n])) /\ UNCHANGED plugins
    /\ UNCHANGED <<kong, given, services, sync, left>>

ChildrenPut(w, n) == Doing(w, n, "children") /\ item[w][n].todo = {}

(* Fault: a list that has only become shorter counts as the same. *)
SameOrShorter(i) == i.ids \subseteq i.was

Same(i) == i.ids = i.was

(* Fields that the model leaves out may have changed: then the record is     *)
(* updated, which is refused when it is gone.                               *)
Unchanged(w, n) ==
    /\ ChildrenPut(w, n)
    /\ item[w][n].rid # None /\ Same(item[w][n])
    /\ \/ Step(w, n, IdleItem)
       \/ services[n].rid # item[w][n].rid /\ Step(w, n, Refused(item[w][n]))
    /\ UNCHANGED <<kong, given, services, plugins, sync, left>>

(* connectExclusiveList: the plugins that are no longer in the list.         *)
Vanished(i) == i.was \ i.ids

RemoveChildren(w, n) ==
    /\ ChildrenPut(w, n)
    /\ item[w][n].rid # None /\ ~Same(item[w][n]) /\ Vanished(item[w][n]) # {}
    /\ plugins' = [plugins EXCEPT ![n] = Without(n, Vanished(item[w][n]))]
    /\ services' = [services EXCEPT ![n].plugins = @ \ Vanished(item[w][n])]
    /\ Step(w, n, [item[w][n] EXCEPT !.pc = "update"])
    /\ UNCHANGED <<kong, given, sync, left>>

(* Fault: references are not checked. *)
ConnectsAny(w, n) == TRUE

Connects(w, n) == item[w][n].ids \subseteq {plugins[n][p] : p \in Ids}

(* The update is refused when the record or a plugin's record is gone.       *)
Update(w, n) ==
    /\ item[w][n].rid # None
    /\ \/ Doing(w, n, "update")
       \/ /\ ChildrenPut(w, n) /\ ~Same(item[w][n])
          /\ Vanished(item[w][n]) = {}
    /\ IF services[n].rid = item[w][n].rid /\ Connects(w, n)
       THEN /\ services' = [services EXCEPT ![n].plugins = item[w][n].ids]
            /\ Step(w, n, IdleItem)
       ELSE Step(w, n, Refused(item[w][n])) /\ UNCHANGED services
    /\ UNCHANGED <<kong, given, plugins, sync, left>>

(* The name is unique among the records.                                     *)
Create(w, n) ==
    /\ ChildrenPut(w, n) /\ item[w][n].rid = None
    /\ IF services[n] = NoRecord /\ Connects(w, n)
       THEN /\ services' = [services EXCEPT ![n] =
                   [rid |-> Unused(RecordsInUse(n)), fk |-> KeyOf(w, n),
                    plugins |-> item[w][n].ids]]
            /\ Step(w, n, IdleItem)
       ELSE Step(w, n, Refused(item[w][n])) /\ UNCHANGED services
    /\ UNCHANGED <<kong, given, plugins, sync, left>>

(* A call to the Portal, or one it makes to its database, fails.  An answer  *)
(* that is lost after the last write is the failure of a put that changes   *)
(* nothing more.                                                            *)
PutFails(w, n) ==
    /\ sync[w].stage = "feeding" /\ item[w][n] # IdleItem
    /\ MayFail /\ Fault
    /\ Step(w, n, Refused(item[w][n]))
    /\ sync' = [sync EXCEPT ![w].still = FALSE]
    /\ UNCHANGED <<kong, given, services, plugins>>

DeleteFails(w, n) ==
    /\ sync[w].stage = "cleaning" /\ item[w][n] # IdleItem
    /\ MayFail /\ Fault
    /\ IF item[w][n].tries > 1
       THEN /\ item' = [item EXCEPT ![w][n] = Deletion(@.tries - 1)]
            /\ sync' = [sync EXCEPT ![w].still = FALSE]
       ELSE /\ item' = [item EXCEPT ![w][n] = IdleItem]
            /\ sync' = [sync EXCEPT ![w].still = FALSE, ![w].gone[n] = None]
    /\ UNCHANGED <<kong, given, services, plugins>>

(* The feeder restarts: it forgets its syncs.  The same end has a sync whose *)
(* list of records fails.                                                   *)
Restart ==
    /\ \E w \in Syncs : Active(w)
    /\ MayFail /\ Fault
    /\ sync' = [w \in Syncs |-> IdleSync]
    /\ item' = [w \in Syncs |-> [n \in Names |-> IdleItem]]
    /\ UNCHANGED <<kong, given, services, plugins>>

-----------------------------------------------------------------------------
(* Publications                                                            *)

(* A publication that is carried out asks for a sync of the namespace, which *)
(* BeginNamespace may begin at any time, or never.                          *)
Publish(n, new, ids) ==
    /\ left.publications > 0
    /\ given[n] + ids <= MaxIds
    /\ kong' = [kong EXCEPT ![n] = new]
    /\ given' = [given EXCEPT ![n] = @ + ids]
    /\ left' = [left EXCEPT !.publications = @ - 1]
    /\ Disturb
    /\ UNCHANGED <<services, plugins, item>>

PublishNew(n) ==
    /\ kong[n].id = None
    /\ \E some \in BOOLEAN :
          Publish(n, [id |-> given[n] + 1, plugins |-> IF some THEN {given[n] + 2} ELSE {}],
                  IF some THEN 2 ELSE 1)

PublishGone(n) == kong[n].id # None /\ Publish(n, NoService, 0)

PublishPlugin(n) ==
    /\ kong[n].id # None
    /\ Publish(n, [kong[n] EXCEPT !.plugins = @ \cup {given[n] + 1}], 1)

UnpublishPlugin(n) ==
    \E p \in kong[n].plugins : Publish(n, [kong[n] EXCEPT !.plugins = @ \ {p}], 0)

-----------------------------------------------------------------------------
(* Every service is in Kong, with a plugin, and recorded. *)
Init ==
    /\ kong = [n \in Names |-> [id |-> 1, plugins |-> {2}]]
    /\ given = [n \in Names |-> 2]
    /\ services = [n \in Names |-> [rid |-> 1, fk |-> 1, plugins |-> {1}]]
    /\ plugins = [n \in Names |-> [p \in Ids |-> IF p = 2 THEN 1 ELSE None]]
    /\ sync = [w \in Syncs |-> IdleSync]
    /\ item = [w \in Syncs |-> [n \in Names |-> IdleItem]]
    /\ left = [publications |-> MaxPublications, faults |-> MaxFaults]

SyncStep(w) ==
    \/ FetchServices(w) \/ FetchPlugins(w) \/ Finish(w)
    \/ ListGone(w) \/ Cleaned(w)
    \/ \E n \in Names :
          \/ FindGone(w, n) \/ RemovePlugins(w, n) \/ RemoveService(w, n)
          \/ FindByName(w, n) \/ Refer(w, n) \/ FindByKey(w, n)
          \/ FindChild(w, n) \/ CreateChild(w, n) \/ Unchanged(w, n)
          \/ RemoveChildren(w, n) \/ Update(w, n) \/ Create(w, n)

Fails ==
    \/ Restart
    \/ \E w \in Syncs :
          \/ FetchFails(w)
          \/ \E n \in Names : PutFails(w, n) \/ DeleteFails(w, n)

Next ==
    \/ \E w \in Syncs : BeginNamespace(w) \/ BeginPeriodic(w) \/ SyncStep(w)
    \/ \E n \in Names :
          PublishNew(n) \/ PublishGone(n) \/ PublishPlugin(n) \/ UnpublishPlugin(n)
    \/ Fails

Spec == Init /\ [][Next]_vars

(* A sync that has begun goes on, and the schedule begins one again and      *)
(* again.                                                                   *)
FairSpec ==
    /\ Spec
    /\ \A w \in Syncs : WF_vars(SyncStep(w))
    /\ \A w \in Periodic : WF_vars(BeginPeriodic(w))

-----------------------------------------------------------------------------
(* Properties                                                              *)

TypeOK ==
    /\ kong \in [Names -> [id : Ids \cup {None}, plugins : SUBSET Ids]]
    /\ given \in [Names -> Ids \cup {None}]
    /\ \A n \in Names :
          /\ services[n].fk \in 0..given[n]
          /\ services[n].rid = None <=> services[n] = NoRecord
          /\ services[n].plugins \subseteq {plugins[n][p] : p \in Ids} \ {None}
          /\ \A p, q \in Ids : plugins[n][p] = plugins[n][q] => p = q \/ plugins[n][p] = None
    /\ \A w \in Syncs, n \in Names : item[w][n].tries \in 0..Attempts

(* What Kong has under a name is recorded: the service by its id, and with   *)
(* exactly its plugins.                                                     *)
Recorded(n) ==
    /\ services[n].fk = kong[n].id
    /\ services[n].plugins = {plugins[n][p] : p \in kong[n].plugins}
    /\ None \notin services[n].plugins

(* A sync that nothing disturbed has put right whatever publications, syncs  *)
(* that overlapped and calls that failed had left in the Portal: every      *)
(* service of Kong is recorded and, after a sync of the namespace, no other *)
(* (scopedSyncByNamespace).                                                 *)
SyncedIsMirror ==
    \A w \in Syncs : sync[w].stage = "done" =>
        \A n \in Names :
            IF kong[n].id # None THEN Recorded(n)
                                 ELSE sync[w].cleans => services[n] = NoRecord

Removed(n) == services[n] # NoRecord /\ services'[n] = NoRecord

(* "remove any GatewayService ... that no longer exist in any Kong": a sync  *)
(* that no other overlaps removes only those, however much is published     *)
(* meanwhile and whatever fails.                                            *)
OnlyGoneAreRemoved ==
    [][\A n \in Names :
          Removed(n) /\ (\A w \in Syncs : Active(w) => sync[w].alone)
            => kong[n].id # services[n].fk]_vars

(* A service that was deleted from Kong and made again keeps its record, and *)
(* with it its place in a product's environment, unless a sync is disturbed *)
(* (handleNameChange).                                                      *)
RemadeKeepsRecord ==
    [][\A n \in Names :
          Removed(n) /\ (\E w \in Syncs : Active(w) /\ sync[w].still)
            => kong[n].id = None]_vars

(* However syncs overlap and fail, once Kong is left alone the periodic sync *)
(* records every service it has, for good.                                  *)
PublishedIsRecorded ==
    \A n \in Names : <>[](kong[n].id # None => Recorded(n))
=============================================================================
