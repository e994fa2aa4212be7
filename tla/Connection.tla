----------------------------- MODULE Connection -----------------------------
(***************************************************************************)
(* The life of the SDX connection between one client subsystem and one     *)
(* service: the ConnectionRequest record kept by the Portal, the change    *)
(* events it posts to the provisioner, the provisioner's handlers, and the *)
(* routing configuration they publish on the two gateways.                 *)
(*                                                                         *)
(* An event is posted and not awaited: events are handled in any order,    *)
(* overlap, and can be lost.  A handler reads and writes the Portal and    *)
(* the gateways one call at a time.  A caller of the Portal reads the      *)
(* record first and has its change written later.                          *)
(***************************************************************************)
EXTENDS Naturals, FiniteSets, Sequences

CONSTANTS
    Callers,          \* requests the Portal may be serving at one time
    MaxEvents,        \* bound on the number of change events
    MaxIds,           \* bound on the number of records created in turn
    RequiresApproval, \* TRUE for policy SDX.R1.00, FALSE for SDX.R0.00
    Patient,          \* TRUE: a caller waits until the last change is handled
    Reachable,        \* FALSE: the provisioner is down and every event is lost
    FeedReliable,     \* TRUE: one of the attempts to write a status succeeds
    Crashes           \* TRUE: the provisioner may stop and restart

ASSUME ConnectionAssumption ==
    /\ MaxEvents \in Nat /\ MaxIds \in Nat
    /\ RequiresApproval \in BOOLEAN /\ Patient \in BOOLEAN
    /\ Reachable \in BOOLEAN /\ FeedReliable \in BOOLEAN /\ Crashes \in BOOLEAN

VARIABLES
    record,   \* the ConnectionRequest, or NoRecord
    nextId,   \* the id the next record gets
    caller,   \* caller[c]: the change c is about to make
    handler,  \* handler[e]: the handling of the e-th event
    gateway,  \* gateway[id]: the tagged configuration that exists for record id
    granted   \* history: the records the service's organization ever approved

vars == <<record, nextId, caller, handler, gateway, granted>>

Ids == 1..MaxIds
Events == 1..MaxEvents

(* Qualifiers {id}.c on the client's gateway and {id}.p on the provider's.  *)
Parts == {"c", "p"}

(* The resource sets of a connection, in the order they are dispatched; the *)
(* consumer's access is shared between connections and is no part of it.    *)
ResourceSets == <<"access", "c", "p">>

Orgs == {"client", "service"}

(* A field of a change: {value}, or Keep when the change leaves it out.     *)
Keep == {}
Field == {Keep, {TRUE}, {FALSE}}

NoRecord == [id |-> 0, approved |-> FALSE, active |-> FALSE, phase |-> "none", by |-> 0]
Exists == record.id # 0

IdleCaller == [pc |-> "idle"]
UnusedEvent == [pc |-> "unused"]
HandledEvent == [pc |-> "handled"]

InFlight(e) == handler[e] \notin {UnusedEvent, HandledEvent}

(* Nothing is under way in the provisioner or in the Portal. *)
Quiet ==
    /\ \A e \in Events : ~InFlight(e)
    /\ \A c \in Callers : caller[c] = IdleCaller

MayCall == Patient => Quiet

-----------------------------------------------------------------------------
(* The Portal                                                              *)

(* The change repeats the stored approval.                                  *)
Resends(submitted) == Exists /\ submitted = {record.approved}

(* Fault: what repeats the stored approval is written all the same.          *)
ResentAsWell(submitted) == submitted

(* upsertConnection: an isApproved that repeats the stored value is dropped. *)
WithoutResent(submitted) == IF Resends(submitted) THEN Keep ELSE submitted

(* Approving and withdrawing is for the service's organization, resending    *)
(* the stored value for both, everything else for the client's organization. *)
MayUpsert(org, submitted) ==
    IF submitted = Keep THEN org = "client"
    ELSE IF Resends(submitted) THEN org \in Orgs
    ELSE org = "service"

(* PUT /connections: read the record, decide what to write.  `other' tells   *)
(* that resources or requester details change too.                          *)
CheckUpsert(c) ==
    /\ caller[c] = IdleCaller /\ MayCall
    /\ \E org \in Orgs, submitted \in Field, active \in Field, other \in BOOLEAN :
          /\ MayUpsert(org, submitted)
          /\ caller' = [caller EXCEPT ![c] =
                 [pc |-> "write", org |-> org, create |-> TRUE, other |-> other,
                  approved |-> WithoutResent(submitted), active |-> active]]
    /\ UNCHANGED <<record, nextId, handler, gateway, granted>>

(* PUT /connections/approval: only for an existing record, and a pending     *)
(* request is not rejected this way.  An isActive that is left out is passed *)
(* on as `undefined', which syncRecords takes for a change.                 *)
CheckApproval(c) ==
    /\ caller[c] = IdleCaller /\ MayCall
    /\ Exists
    /\ \E org \in Orgs, submitted \in Field \ {Keep}, active \in Field :
          /\ submitted = {FALSE} => record.approved
          /\ MayUpsert(org, submitted)
          /\ caller' = [caller EXCEPT ![c] =
                 [pc |-> "write", org |-> org, create |-> FALSE, other |-> active = Keep,
                  approved |-> WithoutResent(submitted), active |-> active]]
    /\ UNCHANGED <<record, nextId, handler, gateway, granted>>

Set(old, new) == IF new = Keep THEN old ELSE TRUE \in new

(* The record after a change.  What syncRecords creates needs a policy       *)
(* version, which an approval does not carry.                               *)
Changed(change) ==
    IF Exists
    THEN [record EXCEPT !.approved = Set(@, change.approved),
                        !.active = Set(@, change.active)]
    ELSE [NoRecord EXCEPT !.id = nextId,
                          !.approved = Set(@, change.approved),
                          !.active = Set(@, change.active)]

(* afterChange: post the change to the provisioner, without awaiting it.     *)
Post(new) ==
    \E e \in Events :
        /\ handler[e] = UnusedEvent
        /\ \A earlier \in 1..(e - 1) : handler[earlier] # UnusedEvent
        /\ handler' = [handler EXCEPT ![e] =
               IF ~Reachable THEN HandledEvent
               ELSE [pc |-> "posted", id |-> new.id, approved |-> new.approved,
                     action |-> IF new.active THEN "apply" ELSE "delete",
                     next |-> 1, failed |-> FALSE]]

(* syncRecords: nothing is written, and nothing posted, when nothing changes. *)
Write(c) ==
    /\ caller[c].pc = "write"
    /\ Exists \/ (caller[c].create /\ nextId \in Ids)
    /\ LET new == Changed(caller[c]) IN
          /\ record' = new
          /\ nextId' = IF Exists THEN nextId ELSE nextId + 1
          /\ IF new = record /\ ~caller[c].other
             THEN UNCHANGED handler ELSE Post(new)
          /\ granted' = IF new.approved /\ ~record.approved /\ caller[c].org = "service"
                        THEN granted \cup {new.id} ELSE granted
    /\ caller' = [caller EXCEPT ![c] = IdleCaller]
    /\ UNCHANGED gateway

(* The write is refused (no such record, duplicate slug, access) or fails.  *)
WriteFails(c) ==
    /\ caller[c].pc = "write"
    /\ caller' = [caller EXCEPT ![c] = IdleCaller]
    /\ UNCHANGED <<record, nextId, handler, gateway, granted>>

(* Fault: the delete does not look for remaining configuration. *)
NoLook(id) == TRUE

NoConfiguration(id) == gateway[id] = {}

(* DELETE /connections/{id}: refused while configuration exists for it ...  *)
CheckDelete(c) ==
    /\ caller[c] = IdleCaller /\ MayCall
    /\ Exists
    /\ NoConfiguration(record.id)
    /\ caller' = [caller EXCEPT ![c] = [pc |-> "guard", id |-> record.id]]
    /\ UNCHANGED <<record, nextId, handler, gateway, granted>>

(* ... and while the record is active (beforeDelete) ...                    *)
GuardDelete(c) ==
    /\ caller[c].pc = "guard"
    /\ IF record.id = caller[c].id /\ ~record.active
       THEN caller' = [caller EXCEPT ![c] = [pc |-> "delete", id |-> record.id]]
       ELSE caller' = [caller EXCEPT ![c] = IdleCaller]
    /\ UNCHANGED <<record, nextId, handler, gateway, granted>>

(* ... and then the row is deleted.  No event is posted.                    *)
DeleteRow(c) ==
    /\ caller[c].pc = "delete"
    /\ record' = IF record.id = caller[c].id THEN NoRecord ELSE record
    /\ caller' = [caller EXCEPT ![c] = IdleCaller]
    /\ UNCHANGED <<nextId, handler, gateway, granted>>

-----------------------------------------------------------------------------
(* The provisioner                                                         *)

(* A status goes to the record of this client and service, whichever it is;  *)
(* it cannot create one, for want of a policy version and an environment.   *)
WriteStatus(e, phase) ==
    record' = IF Exists THEN [record EXCEPT !.phase = phase, !.by = e] ELSE record

At(e, pc) == handler[e].pc = pc

Goto(e, pc) == handler' = [handler EXCEPT ![e].pc = pc]

End(e) == handler' = [handler EXCEPT ![e] = HandledEvent]

(* An exception while resources are built, dispatched or logged.            *)
Raise(e) ==
    IF handler[e].action = "apply" THEN Goto(e, "exception") ELSE End(e)

(* An apply first records the status "pending"; without a record that fails *)
(* and ends the handling.                                                   *)
Start(e) ==
    /\ At(e, "posted")
    /\ IF handler[e].action = "apply"
       THEN /\ WriteStatus(e, "pending")
            /\ IF Exists THEN Goto(e, "build") ELSE End(e)
       ELSE UNCHANGED record /\ Goto(e, "build")
    /\ UNCHANGED <<nextId, caller, gateway, granted>>

(* The event is lost, the service lookup fails, or the status write fails.  *)
StartFails(e) ==
    /\ At(e, "posted")
    /\ End(e)
    /\ UNCHANGED <<record, nextId, caller, gateway, granted>>

(* Fault: the policy is not evaluated. *)
PolicySkipped(e) == TRUE

(* The policy sees the approval that was posted; a delete is not checked.   *)
PolicyAllows(e) ==
    handler[e].action = "apply" /\ RequiresApproval => handler[e].approved

(* Building resources reads the Portal again: under R1 the consumer's access *)
(* is found through the connection's own record.                            *)
Build(e) ==
    /\ At(e, "build")
    /\ PolicyAllows(e)
    /\ RequiresApproval => record.id = handler[e].id
    /\ Goto(e, "dispatch")
    /\ UNCHANGED <<record, nextId, caller, gateway, granted>>

BuildFails(e) ==
    /\ At(e, "build")
    /\ Raise(e)
    /\ UNCHANGED <<record, nextId, caller, gateway, granted>>

(* What the gateways hold after resource set `part' has been applied.       *)
Routed(e, part) ==
    IF part \notin Parts THEN gateway
    ELSE IF handler[e].action = "apply"
    THEN [gateway EXCEPT ![handler[e].id] = @ \cup {part}]
    ELSE [gateway EXCEPT ![handler[e].id] = @ \ {part}]

(* Fault: a batch that fails is not counted. *)
AfterDispatchBlind(e, failed) ==
    handler' = [handler EXCEPT
        ![e].next = @ + 1,
        ![e].pc = IF handler[e].next = Len(ResourceSets) THEN "log" ELSE "dispatch"]

AfterDispatch(e, failed) ==
    handler' = [handler EXCEPT
        ![e].next = @ + 1,
        ![e].failed = @ \/ failed,
        ![e].pc = IF handler[e].next = Len(ResourceSets) THEN "log" ELSE "dispatch"]

Dispatch(e) ==
    /\ At(e, "dispatch")
    /\ gateway' = Routed(e, ResourceSets[handler[e].next])
    /\ AfterDispatch(e, FALSE)
    /\ UNCHANGED <<record, nextId, caller, granted>>

(* A batch that fails does not stop the ones after it.  The gateway may have *)
(* applied it before the call failed.                                       *)
DispatchFails(e) ==
    /\ At(e, "dispatch")
    /\ gateway' \in {gateway, Routed(e, ResourceSets[handler[e].next])}
    /\ AfterDispatch(e, TRUE)
    /\ UNCHANGED <<record, nextId, caller, granted>>

(* A delete ends here: it writes no status.                                 *)
LogActivity(e) ==
    /\ At(e, "log")
    /\ IF handler[e].action = "apply" THEN Goto(e, "report") ELSE End(e)
    /\ UNCHANGED <<record, nextId, caller, gateway, granted>>

LogActivityFails(e) ==
    /\ At(e, "log")
    /\ Raise(e)
    /\ UNCHANGED <<record, nextId, caller, gateway, granted>>

Report(e) ==
    /\ At(e, "report")
    /\ WriteStatus(e, IF handler[e].failed THEN "failed" ELSE "provisioned")
    /\ End(e)
    /\ UNCHANGED <<nextId, caller, gateway, granted>>

(* Faults: a status outside the enumeration; the exception is only logged.   *)
HandleExceptionUnmapped(e) ==
    /\ At(e, "exception")
    /\ WriteStatus(e, "error")
    /\ End(e)
    /\ UNCHANGED <<nextId, caller, gateway, granted>>

HandleExceptionQuietly(e) ==
    /\ At(e, "exception")
    /\ End(e)
    /\ UNCHANGED <<record, nextId, caller, gateway, granted>>

HandleException(e) ==
    /\ At(e, "exception")
    /\ WriteStatus(e, "failed")
    /\ End(e)
    /\ UNCHANGED <<nextId, caller, gateway, granted>>

(* Three attempts to write the status fail.                                 *)
StatusWriteFails(e) ==
    /\ ~FeedReliable
    /\ At(e, "report") \/ At(e, "exception")
    /\ End(e)
    /\ UNCHANGED <<record, nextId, caller, gateway, granted>>

(* The provisioner keeps nothing about an event: a restart forgets them.    *)
Crash ==
    /\ Crashes
    /\ \E e \in Events : InFlight(e)
    /\ handler' = [e \in Events |-> IF InFlight(e) THEN HandledEvent ELSE handler[e]]
    /\ UNCHANGED <<record, nextId, caller, gateway, granted>>

-----------------------------------------------------------------------------
Init ==
    /\ record = NoRecord
    /\ nextId = 1
    /\ caller = [c \in Callers |-> IdleCaller]
    /\ handler = [e \in Events |-> UnusedEvent]
    /\ gateway = [id \in Ids |-> {}]
    /\ granted = {}

PortalStep(c) ==
    \/ CheckUpsert(c) \/ CheckApproval(c) \/ CheckDelete(c)
    \/ Write(c) \/ WriteFails(c)
    \/ GuardDelete(c) \/ DeleteRow(c)

HandlerStep(e) ==
    \/ Start(e) \/ StartFails(e)
    \/ Build(e) \/ BuildFails(e)
    \/ Dispatch(e) \/ DispatchFails(e)
    \/ LogActivity(e) \/ LogActivityFails(e)
    \/ Report(e) \/ HandleException(e) \/ StatusWriteFails(e)

Next ==
    \/ \E c \in Callers : PortalStep(c)
    \/ \E e \in Events : HandlerStep(e)
    \/ Crash

(* Every call of a handler returns or fails, so a handler that can move      *)
(* does; callers are users and owe nothing.                                 *)
Fairness == \A e \in Events : WF_vars(HandlerStep(e))

Spec == Init /\ [][Next]_vars

FairSpec == Spec /\ Fairness

-----------------------------------------------------------------------------
(* Properties                                                              *)

Records == [id : 0..MaxIds, approved : BOOLEAN, active : BOOLEAN,
            phase : {"none", "pending", "provisioned", "failed"}, by : 0..MaxEvents]

Changes == [pc : {"write"}, org : Orgs, create : BOOLEAN, other : BOOLEAN,
            approved : Field, active : Field]

Deletions == [pc : {"guard", "delete"}, id : Ids]

Handlings == [pc : {"posted", "build", "dispatch", "log", "report", "exception"},
              id : Ids, approved : BOOLEAN, action : {"apply", "delete"},
              next : 1..(Len(ResourceSets) + 1), failed : BOOLEAN]

TypeOK ==
    /\ record \in Records
    /\ nextId \in 1..(MaxIds + 1)
    /\ caller \in [Callers -> {IdleCaller} \cup Changes \cup Deletions]
    /\ handler \in [Events -> {UnusedEvent, HandledEvent} \cup Handlings]
    /\ gateway \in [Ids -> SUBSET Parts]
    /\ granted \subseteq Ids

(* Only the service's organization turns a connection from pending to        *)
(* approved; a client that saves its settings and resends the approval it    *)
(* read does not restore one that another caller has withdrawn meanwhile.   *)
OnlyServiceOrgGrants ==
    [][record'.approved /\ ~record.approved =>
           \E c \in Callers : caller[c].pc = "write" /\ caller[c].org = "service"
                              /\ caller'[c] = IdleCaller]_vars

(* Under R1 no routing exists for a record the service's organization never *)
(* approved, whatever events overlap or arrive late.                        *)
RoutedOnlyIfGranted ==
    RequiresApproval => \A id \in Ids : gateway[id] # {} => id \in granted

(* deleteConnection: a record that is gone has left no configuration behind. *)
(* When callers wait this holds through lost events, failing batches, lost   *)
(* statuses and restarts.                                                   *)
NothingLeftBehind ==
    Quiet => \A id \in Ids : id # record.id => gateway[id] = {}

(* While a record is being deleted no event of it is in flight.             *)
Undisturbed ==
    \A c \in Callers, e \in Events :
        caller[c].pc \in {"guard", "delete"} /\ InFlight(e) => handler[e].id # caller[c].id

(* Nobody waits: configuration is left behind only by an event of the record *)
(* that is in flight between the count of the configuration and the delete   *)
(* of the row, however events and callers overlap, fail or get lost before   *)
(* and after.                                                               *)
UndisturbedLeavesNothing == []Undisturbed => []NothingLeftBehind

(* "`provisionerStatus` describes the most recent provisioning attempt": the *)
(* status of a later attempt is not replaced by that of an earlier one.     *)
StatusIsMostRecent ==
    [][Exists /\ record'.id = record.id => record'.by >= record.by]_vars

(* beforeDelete: an active connection is not deleted.                       *)
ActiveIsNotDeleted ==
    [][Exists /\ record'.id = 0 => ~record.active]_vars

(* Once nothing is under way, an active record whose status is "provisioned"  *)
(* by the last event posted is routed on both gateways.                     *)
ProvisionedIsRouted ==
    Quiet /\ record.active /\ record.phase = "provisioned"
          /\ (\A later \in Events : later > record.by => handler[later] = UnusedEvent)
    => gateway[record.id] = Parts

(* A status does not stay "pending": every way a handler can go ends in      *)
(* "provisioned" or "failed", or the record is gone.                        *)
PendingSettles == (record.phase = "pending") ~> (record.phase # "pending")

(* The promise (module Agreement): `granted' is what was agreed to, the ids   *)
(* of earlier records are not used again.                                   *)
Promised == INSTANCE Agreement WITH
    None <- 0, Orderly <- Patient,
    current <- record.id, approved <- record.approved, opened <- 1..(nextId - 1),
    agreed <- granted, routing <- gateway

(* Whatever is lost, delayed or restarted, the Portal and the provisioner do  *)
(* what an agreement allows and nothing else.                               *)
KeepsAgreement == Promised!Spec
=============================================================================
